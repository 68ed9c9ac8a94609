\* Nothing fails, but a recovery file holds more packets than the repair uses.
CONSTANTS
    NumBuffers = 2
    NumBlocks = 3
    FileOf <- MCFileOf
    FileBlockCount <- SpareRecoveryPacket
    IOFaults = FALSE
    HasGpu = FALSE
    Passes = 2
    NumCopyBlocks = 2
    CopyLength <- WholeBlocks
    NumOutputs = 2
    OutputLength <- MCOutputLength
SPECIFICATION RepairSpec
INVARIANT FilesOpenedOnce
