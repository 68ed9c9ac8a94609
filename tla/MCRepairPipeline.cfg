\* A repair in two passes, with input/output faults.
CONSTANTS
    NumBuffers = 3
    NumBlocks = 3
    FileOf <- MCFileOf
    FileBlockCount <- ExactCounts
    IOFaults = TRUE
    HasGpu = TRUE
    Passes = 2
    NumCopyBlocks = 2
    CopyLength <- WholeBlocks
    NumOutputs = 2
    OutputLength <- MCOutputLength
SPECIFICATION RepairFairSpec
INVARIANTS
    RepairTypeOK
    TargetsComplete
    BufferKeptForWrite
    NoWriteLeft
    FilesOpenedOnce
    OnlyFailOnFault
PROPERTY RepairEnds
