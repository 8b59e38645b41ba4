CONSTANTS
    Graphs <- MCAllGraphs
    MaxVertices = 4
    MinEdges = 1
    MaxEdges = 3
    SelfLoops = FALSE
    Searches = {"trees"}
    Ranges = {}
    MaxDegreeVertices = 0
SPECIFICATION SpecGraphSearch
INVARIANTS SpanningTreesSpan
\* The search ends at a terminal.
CHECK_DEADLOCK FALSE
