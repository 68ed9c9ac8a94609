CONSTANTS
    Bits = 4
    Generator = 19
    Breaks = {0, 6}
    DefaultBlocks = 6
    Megabyte = 8
    Width = 4
    FileId <- MCFileId
    Scenarios <- MCScenarios
    Spots = {3, 7}
    MoveNames <- MCMoveNames
SPECIFICATION Spec
INVARIANTS
    TypeOK
    SuccessMeansRestored
    NothingDestroyed
    PossibleMeansRepaired
    CreatedWhole
    SizesAgree
