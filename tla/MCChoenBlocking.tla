-------------------------- MODULE MCChoenBlocking --------------------------
(* Small instances of ChoenBlocking. *)
EXTENDS ChoenBlocking, TLC

CONSTANTS p1, p2, p3, f1, f2, f3, f4, m1, m2, zero

Read(f, n) == [op |-> "read", file |-> f, len |-> n, msg |-> zero, events |-> {}]
Write(f, m, n) == [op |-> "write", file |-> f, len |-> n, msg |-> m, events |-> {}]

\* A reader, and two that read and write, one of them without blocking when
\* it reads.  Reads of one byte cut a message of two.
CallsByProc ==
    p1 :> {Read(f1, 2)} @@ p2 :> {Read(f2, 1), Write(f2, m2, 2)} @@ p3 :> {Write(f3, m1, 1), Read(f4, 1)}
=============================================================================
