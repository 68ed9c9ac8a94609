CONSTANTS
    Directory <- MCDirectory
    ParFile <- main
    ExtraFiles <- MCExtraFiles
    Threads = {t1, t2}
    SetIds = {"s", "other"}
    FileIds = {1, 2}
    Exponents = {0, 1}
    Layouts <- MCLayouts
    Levels = {TRUE, FALSE}
    t1 = t1
    t2 = t2
SPECIFICATION Spec
INVARIANTS
    TypeOK
    OneSet
    BlockCountCovers
    SerialLosesNothing
    DetailsFit
