SPECIFICATION Spec
CONSTANTS
    BlockSize = 4
    Entry <- MCEntry
    MaxEntries = 3
    Byte = {x, y}
    Foreign = foreign
    Buffer <- MCBuffer
    MaxSize = 5
    PageSize = 4
    Segment <- MCSegment
    MaxSegments = 2
    Zero = zero
    Instant <- MCInstant
    MaxTicks = 2
INVARIANTS InDirectories Unpacked SizesAgree OnlyFileData LoadedExactly StampMeans
PROPERTIES Ends FileRefinement
CHECK_DEADLOCK FALSE
