----------------------------- MODULE MCChoenDev -----------------------------
(* Small instances of ChoenDev. *)
EXTENDS ChoenDev, TLC

CONSTANTS p1, p2, p3, f1, f2, f3, m1, m2, zero

Read(f, n) == [op |-> "read", file |-> f, len |-> n, msg |-> zero, events |-> {}]
Write(f, m, n) == [op |-> "write", file |-> f, len |-> n, msg |-> m, events |-> {}]
Poll(f, ev) == [op |-> "poll", file |-> f, len |-> 0, msg |-> zero, events |-> ev]

\* Two processes that may both read and write and share both files, f1
\* blocking and f2 not: lengths 0 and 3 are refused by rb_usr_write, a read
\* of 1 cuts a message of 2, and m2 leaves a byte of its slot untouched.
AnyCalls ==
    {Read(f1, 1), Read(f2, 2), Write(f1, m1, 2), Write(f2, m2, 1), Write(f1, m1, 3),
     Write(f2, m1, 0), Poll(f2, {"IN"})}
AnyCallsOf == [p \in {p1, p2} |-> AnyCalls]

\* Three processes, each with a file of its own, that meet at the semaphore
\* and the wait queues of a one-slot ring: a reader, a writer, and p3 that
\* never blocks but polls.
LiveCallsOf ==
    p1 :> {Read(f1, 1)} @@ p2 :> {Write(f2, m1, 1)} @@
    p3 :> {Read(f3, 1), Poll(f3, {"IN", "OUT"})}
=============================================================================
