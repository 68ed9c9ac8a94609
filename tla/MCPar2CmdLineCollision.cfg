CONSTANTS
    Bits = 4
    Generator = 19
    Breaks = {0, 6}
    DefaultBlocks = 6
    Megabyte = 8
    Width = 4
    FileId <- MCFileId
    Scenarios <- MCCollision
    Spots = {3, 7}
    MoveNames <- MCMoveNames
SPECIFICATION Spec
INVARIANT PossibleMeansRepaired
