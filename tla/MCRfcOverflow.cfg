CONSTANTS
    Nodes = {1, 2, 9, 33}
    Top = 2
    Spc0 = 2
    MaxCount = 4
SPECIFICATION Spec
INVARIANTS TypeOK ProbesEnd EntriesFound
PROPERTY CountsRight
\* err() exits.
CHECK_DEADLOCK FALSE
