CONSTANTS
    NumElems = 4
    Level <- MCLevel
    ElemLimit = 4
    Objects = {"a", "b"}
    Looped = "a"
    Lists <- MCLists
    Walks <- MCWalks
    MaxWalked = 4
    Traversals = {"greedy", "bfs", "dfs"}
    Starts = {0, 1, 3}
    Arguments <- MCArguments
    Questions <- MCQuestions
    Dumps <- MCDumps
    MaxEdges = 3
    MaxGraphs = 2
    MaxLooped = 2
SPECIFICATION Spec
INVARIANTS NumberedInLeavingOrder UniverseAgrees UniversesRefused WalksRight LoopGivesAll
PROPERTIES CallsAsPromised
