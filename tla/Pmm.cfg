SPECIFICATION Spec
CONSTANTS
    MemMaps <- MCMemMaps
    Hash <- MCHash
    SlotsPerPage = 4
    CacheSize = 2
    MaxFrame = 13
INVARIANTS
    ArrayNeverOverrun
    NoAliasing
    CacheSound
PROPERTY PoolRefinement
