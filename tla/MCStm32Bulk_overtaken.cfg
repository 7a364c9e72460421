SPECIFICATION Spec
CONSTANTS
    d1 = d1
    None = None
    Devs = {d1}
    Objs = {o1}
    Procs = {p1, p2}
    Files = {f1, f2}
    Urbs = {u1}
    Desc <- OneBoard
    Lens = {1}
    UNBINDABLE = {}
CHECK_DEADLOCK FALSE
INVARIANT AnswerGoesToItsReader
