\* Nothing fails, but a block to be copied ends before the second pass.
CONSTANTS
    NumBuffers = 2
    NumBlocks = 3
    FileOf <- MCFileOf
    FileBlockCount <- ExactCounts
    IOFaults = FALSE
    HasGpu = FALSE
    Passes = 2
    NumCopyBlocks = 2
    CopyLength <- ShortBlock
    NumOutputs = 2
    OutputLength <- MCOutputLength
SPECIFICATION RepairSpec
INVARIANT OnlyFailOnFault
