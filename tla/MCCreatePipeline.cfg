\* A creation pass that also computes the hashes of the files.
CONSTANTS
    NumBuffers = 3
    NumBlocks = 4
    FileOf <- MCFileOf
    FileBlockCount <- MCFileBlockCount
    SourceFiles <- MCSourceFiles
    IOFaults = TRUE
    HasGpu = TRUE
SPECIFICATION CreateFairSpec
INVARIANTS
    CreateTypeOK
    KeptIntact
    RefsExact
    NothingLeftToHash
PROPERTIES
    HashesInFileOrder
    CreateRunEnds
