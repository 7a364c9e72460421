SPECIFICATION MenuSpec
CONSTANTS
    p1 = p1  p2 = p2  p3 = p3  p4 = p4
    m1 = m1  m2 = m2  zero = zero
    NoFile = NoFile
    NUM_OF_ITEMS = 1
    RW_ITEM_SIZE = 1
    Msg = {m1, m2}
    Zero = zero
    Procs = {p1, p2, p3, p4}
    Files <- MenuFiles
    NonblockFiles <- MenuNonblock
    AsyncFiles = {}
    CallsOf <- MenuCalls
    Commands <- MenuCommands
    MAX_BUFF = 1
CHECK_DEADLOCK FALSE
INVARIANTS MenuTypeOK WrittenOnce
PROPERTY AllEnd
