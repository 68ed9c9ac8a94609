\* A creation pass: two files, three threads, input/output faults, a video card.
CONSTANTS
    NumBuffers = 3
    NumBlocks = 4
    FileOf <- MCFileOf
    FileBlockCount <- MCFileBlockCount
    IOFaults = TRUE
    HasGpu = TRUE
SPECIFICATION FairSpec
INVARIANTS
    TypeOK
    NoSharing
    InputIntact
    AlwaysSucceeds
    RunComplete
PROPERTY RunEnds
