SPECIFICATION BothFairSpec
CONSTANTS
    d1 = d1  d2 = d2
    None = None
    Devs = {d1, d2}
    Objs = {o1, o2}
    Procs = {p1}
    Files = {f1, f2}
    Urbs = {u1}
    Desc <- Boards
    Lens = {1}
    UNBINDABLE = {d2}
CHECK_DEADLOCK FALSE
INVARIANTS TypeOK ReferencesExact PointersLive TransferFindsObject NothingToOpen UnloadedLeavesNothing
PROPERTIES DisconnectEnds
