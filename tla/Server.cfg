SPECIFICATION ProgramsSpec
CONSTANTS
    Parts = {"server", "client"}
    Loads <- TheLoads
    NONE = NONE
    s1 = s1
    s2 = s2
    w1 = w1
    w2 = w2
    Servers = {s1, s2}
    Workers = {w1, w2}
    PoolSize = 2
    NumPrio = 2
    Setups <- ServerSetups
INVARIANTS OneOwner BitmapTruthful CleanRun StreamsWhole
PROPERTIES ListsAreFifo ProgramsEnd
CHECK_DEADLOCK FALSE
