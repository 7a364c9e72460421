----------------------------- MODULE MCLongRun -----------------------------
(* Small instances of LongRun: the application and two writers. *)
EXTENDS LongRun, TLC

CONSTANTS app, w1, w2, fd, temp, fw1, fw2, m1, zero

Write(f) == [op |-> "write", file |-> f, len |-> 1, msg |-> m1, events |-> {}]

AllCallsOf == app :> {TheRead} @@ w1 :> {Write(fw1)} @@ w2 :> {Write(fw2)}
=============================================================================
