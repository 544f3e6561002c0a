SPECIFICATION FairSpec
CONSTANTS
    N = 3
    TimeSlice = 2
    PcRange = 2
    ExitAnyOrder = FALSE
CHECK_DEADLOCK FALSE
INVARIANTS
    NextProcExists
    OneRunning
    ContextIntact
 
