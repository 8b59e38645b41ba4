CONSTANTS
    Top = 5
    Offset = 6
    WordBits = 1
    Automata <- MCAutomata
    Composed <- MCComposed
    Spaces <- MCSpaces
    Counted <- MCCounted
SPECIFICATION Spec
INVARIANTS ResultRight MeaningKept StorageLive Reduced CountRight OnlyStaleSetsLoop
PROPERTIES Finishes
\* A search or a count ends.
CHECK_DEADLOCK FALSE
