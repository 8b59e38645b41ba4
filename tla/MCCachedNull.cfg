CONSTANTS
    NumVars = 2
    InitSpc = 2
    NodeLimit = 5
    CacheSpc0 = 1
    Ops = {"CHANGE"}
    Handles = {h1, h2, h3}
    CacheKey <- MCCacheKey
SPECIFICATION Spec
SYMMETRY Objects
INVARIANT NullMeansNoMemory
