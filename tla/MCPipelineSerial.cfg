\* Serial processing (one token, so one buffer) with a video card; nothing fails.
CONSTANTS
    NumBuffers = 1
    NumBlocks = 4
    FileOf <- MCFileOf
    FileBlockCount <- MCFileBlockCount
    IOFaults = FALSE
    HasGpu = TRUE
SPECIFICATION FairSpec
PROPERTY RunEnds
