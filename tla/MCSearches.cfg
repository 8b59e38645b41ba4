CONSTANTS
    Graphs <- MCAllGraphs
    MaxVertices = 4
    MinEdges = 1
    MaxEdges = 4
    SelfLoops = TRUE
    Searches = {"cycles", "hamiltonian_cycles", "paths", "forests", "trees", "degrees"}
    Ranges = {{1}, {1, 2}}
    MaxDegreeVertices = 3
SPECIFICATION SpecGraphSearch
INVARIANTS SlotsDistinct SlotsBounded FrontierExact EnterLeaveOnce SlotTablesAgree CyclesRight PathsRight TreesRight DegreesRight DataRight
\* The search ends at a terminal.
CHECK_DEADLOCK FALSE
