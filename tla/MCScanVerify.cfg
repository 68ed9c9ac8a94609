CONSTANTS
    Sources <- MCSources
    BlockSize = 2
    CharBits = 2
    Width = 3
    Polynomial = {1, 2}
    Short = 3
    Sorted <- MCSorted
    Extras = 4
    Path <- MCPath
    ParPaths = {"p.par2"}
    Worlds <- MCWorlds
    Threads = {t1, t2}
    t1 = t1
    t2 = t2
    Levels = {TRUE, FALSE}
    ReadFaults = TRUE
SPECIFICATION Spec
INVARIANTS
    TypeOK
    WindowExact
    CompleteIsComplete
    FoundWhenSerial
    CountCovers
