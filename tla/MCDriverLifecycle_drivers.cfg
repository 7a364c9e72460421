SPECIFICATION Spec
CONSTANTS
    Devs = {d1, d2}
    Drivers = {"platform2", "platform1", "bbb_gpio1", "choen_base", "choen_rw"}
    Script <- Scripts
    Leftover <- KnownLeftover
    FailLeftover <- KnownFailLeftover
    MAX_BINDS = 3
    OVERLAP = FALSE
CHECK_DEADLOCK FALSE
INVARIANTS TypeOK NothingElseLeft ReleasesOwn EntriesLive BoundReachable OrderedTeardown
