SPECIFICATION Spec
CONSTANTS
    p1 = p1  p2 = p2
    f1 = f1  f2 = f2
    NoFile = NoFile
    Zero = Zero
    Procs = {p1, p2}
    Files = {f1, f2}
    RW_BUFF_SIZE = 2
    Lens = {0, 1, 2}
    Offsets = {3, 6}
    Args = {0, 5}
    INT_VALUES = 3
    Foreign = Foreign
SYMMETRY Symmetry
INVARIANTS TypeOK CopiesInside TextKept QuietReadExact
