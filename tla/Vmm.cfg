SPECIFICATION Spec
CONSTANTS
    Index <- MCIndex
    KernelIndex <- MCKernelIndex
    Virt <- MCVirt
    Pages <- MCPages
    Frames = 13
    Image = image
    Shared <- MCShared
    Identity <- MCIdentity
    NULL = NULL
    Absent = Absent
    MaxCreated = 2
CHECK_DEADLOCK FALSE
INVARIANTS TablesHeld DataNotTables KernelHalfShared TlbCoherent
PROPERTY SpaceRefinement
