CONSTANTS
    NumVars = 3
    InitSpc = 4
    NodeLimit = 4
    CacheSpc0 = 1
    Ops = {"UNION", "CHANGE"}
    Handles = {h1, h2}
    CacheKey <- MCCacheKey
SPECIFICATION Spec
SYMMETRY Objects
INVARIANTS CountsExact FreeListExact
CONSTRAINT BuiltUp
