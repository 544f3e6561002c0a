SPECIFICATION Spec
CONSTANTS
    MajorSize = 3
    MinorSize = 3
    ALIGNMENT = 2
    ALIGN_INFO = 2
    PageSize = 28
    PageCount = 1
    UINT_MAX = 100
    MaxPages = 3
    Requests = {1, 24}
CHECK_DEADLOCK FALSE
INVARIANTS BlocksDisjoint UsageExact BestLive PointerInside
