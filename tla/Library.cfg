SPECIFICATION Spec
CONSTANTS
    Size = 4
    Byte <- MCByte
    InitialMemory <- MCInitialMemory
    LONG_MAX = 16
    Text <- MCText
    NoText = none
    Config <- MCConfig
    Base = {0, 8, 10, 16}
INVARIANTS Copied StringsAgree NumbersAgree ConfigFound
CHECK_DEADLOCK FALSE
