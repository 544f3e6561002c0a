SPECIFICATION Spec
CONSTANTS
    PAGE_SIZE = 4
    VMA_START = 4
    Frames = 7
    Sizes = {1, 2}
    MaxPage = 4
CHECK_DEADLOCK FALSE
INVARIANT FramesOnce
