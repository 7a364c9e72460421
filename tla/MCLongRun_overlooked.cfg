SPECIFICATION LongRunSpec
CONSTANTS
    app = app  w1 = w1  w2 = w2
    fd = fd  temp = temp  fw1 = fw1  fw2 = fw2
    m1 = m1  zero = zero
    NoFile = NoFile
    NUM_OF_ITEMS = 2
    RW_ITEM_SIZE = 1
    Msg = {m1}
    Zero = zero
    Procs = {app, w1, w2}
    Files = {fd, temp, fw1, fw2}
    NonblockFiles = {temp, fw2}
    AsyncFiles = {fd}
    App = app
    Fd = fd
    TempFd = temp
    MAX_BUFF = 1
    CallsOf <- AllCallsOf
INVARIANT NothingOverlooked
