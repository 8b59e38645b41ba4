CONSTANTS
    Graphs <- MCAllGraphs
    MaxVertices = 3
    MinEdges = 1
    MaxEdges = 3
    SelfLoops = FALSE
    Searches = {"degrees"}
    Ranges = {{2}}
    MaxDegreeVertices = 3
SPECIFICATION SpecGraphSearch
INVARIANTS NoAdmissibleRefused
\* The search ends at a terminal.
CHECK_DEADLOCK FALSE
