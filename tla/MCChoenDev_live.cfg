SPECIFICATION FairSpec
CONSTANTS
    p1 = p1  p2 = p2  p3 = p3
    f1 = f1  f2 = f2  f3 = f3
    m1 = m1  m2 = m2  zero = zero
    NoFile = NoFile
    NUM_OF_ITEMS = 1
    RW_ITEM_SIZE = 1
    Msg = {m1}
    Zero = zero
    Procs = {p1, p2, p3}
    Files = {f1, f2, f3}
    NonblockFiles = {f3}
    AsyncFiles = {f1}
    CallsOf <- LiveCallsOf
INVARIANTS LockDiscipline NoLostWakeUp
PROPERTIES LockGranted SleeperServed NonblockReturns
