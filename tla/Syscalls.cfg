SPECIFICATION CallsSpec
CONSTANTS
    NULL = NULL
    stdout = stdout
    file = file
    new = new
    none = none
    odd = odd
    Path <- MCPath
    NodeAt <- MCNodeAt
    Creatable <- MCCreatable
    Given <- MCGiven
    Id = {0, 1}
    MaxFds = 3
CHECK_DEADLOCK FALSE
PROPERTIES WritesAsAtBoot OpenRefinement
