SPECIFICATION Spec
CONSTANTS
    Devs = {d1, d2}
    Drivers = {"platform2"}
    Script <- Scripts
    Leftover <- NoLeftover
    FailLeftover <- NoLeftover
    MAX_BINDS = 3
    OVERLAP = TRUE
INVARIANT EntriesLive
