SPECIFICATION Spec
CONSTANTS
    N = 2
    TimeSlice = 1
    PcRange = 1
    ExitAnyOrder = TRUE
CHECK_DEADLOCK FALSE
INVARIANT NextProcExists
