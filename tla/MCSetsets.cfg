CONSTANTS
    NumElems = 3
    Level <- MCLevel
    MaxOthers = 3
    Others <- MCOthers
    Weights <- MCWeights
    Unit1 = 2
    MaxRandom = 3
SPECIFICATION Spec
INVARIANTS AnswersRight StreamsRight IteratorsRight
