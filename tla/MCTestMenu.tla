----------------------------- MODULE MCTestMenu -----------------------------
(* A small instance of TestMenu. *)
EXTENDS TestMenu, TLC

CONSTANTS p1, p2, p3, p4, m1, m2, zero

Cmd(op, nw, len, msg) == [op |-> op, nw |-> nw, len |-> len, msg |-> msg]
Read(nw) == Cmd("read", nw, 0, zero)
Write(nw, m) == Cmd("write", nw, 1, m)

\* Two readers and two writers.  One of each may be of either kind, and one
\* of the writers may also write more than a slot takes.
MenuCommands ==
    p1 :> {Read(TRUE), Read(FALSE)} @@ p2 :> {Write(TRUE, m1), Write(FALSE, m1)} @@
    p3 :> {Read(TRUE)} @@ p4 :> {Write(TRUE, m2), Cmd("write", TRUE, 2, m2)}

ASSUME HypothesesHold == DistinctMessages /\ AsksForASlot

MenuCalls == [p \in {p1, p2, p3, p4} |-> AppCalls(p)]
MenuFiles == {p1, p2, p3, p4} \X BOOLEAN
MenuNonblock == {p1, p2, p3, p4} \X {TRUE}
=============================================================================
