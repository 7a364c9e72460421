SPECIFICATION Spec
CONSTANTS
    p1 = p1  p2 = p2  p3 = p3
    f1 = f1  f2 = f2  f3 = f3
    m1 = m1  m2 = m2  zero = zero
    NoFile = NoFile
    NUM_OF_ITEMS = 2
    RW_ITEM_SIZE = 2
    Msg = {m1, m2}
    Zero = zero
    Procs = {p1, p2}
    Files = {f1, f2}
    NonblockFiles = {f2}
    AsyncFiles = {}
    CallsOf <- AnyCallsOf
INVARIANTS TypeOK RingConsistent CheckStillHolds
PROPERTY ImplementsFifo
