CONSTANTS
    NumVars = 2
    InitSpc = 2
    NodeLimit = 3
    CacheSpc0 = 1
    Ops = {"INTERSEC", "UNION", "SUBTRACT", "OFFSET", "ONSET", "CHANGE"}
    Handles = {h1, h2}
    CacheKey <- MCCacheKey
SPECIFICATION Spec
SYMMETRY Objects
INVARIANTS TypeOK Canonical CacheSound
PROPERTY Refinement
