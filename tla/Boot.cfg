SPECIFICATION FairSpec
CONSTANTS
    MaxQueue = 2
    PrintkBuffSize = 4
    MaxMessage = 2
INVARIANTS NoLostByte HandlerNeverWaits HeldByRunner BootLog
PROPERTIES CallsEnd BootEnds
CHECK_DEADLOCK FALSE
