----------------------------- MODULE FifoDevice -----------------------------
(***************************************************************************)
(* What a choen device promises its users: a bounded first-in first-out    *)
(* queue of messages.  A write appends its whole message or nothing, a     *)
(* read takes the oldest message, gives the caller as much of it as fits   *)
(* and discards the rest, a call that fails changes nothing, and every     *)
(* open file carries one transfer.  No locks, no waiting, no slots.        *)
(***************************************************************************)
EXTENDS Integers, Sequences

CONSTANTS
    Procs, Files,
    Capacity,   \* messages the queue holds
    MaxLen,     \* bytes a message may have
    Lens,       \* the lengths a caller may ask for
    Msg

VARIABLES
    q,      \* the messages, oldest first; a message is the sequence of its bytes
    used,   \* the open files that have had their transfer
    out     \* out[p]: the outcome of the call p is in, None while undecided

vars == <<q, used, out>>

None == [op |-> "none", file |-> "none", len |-> 0, code |-> "none",
         data |-> <<>>, revents |-> {}]

\* The outcome of a call op on file f with length len: a code, what a read
\* got, what a poll found.
Outcome(op, f, len, code, data, revents) ==
    [op |-> op, file |-> f, len |-> len, code |-> code, data |-> data, revents |-> revents]

\* A call that hands back nothing but its code.
Bare(op, f, len, code) == Outcome(op, f, len, code, <<>>, {})

Init == q = <<>> /\ used = {} /\ out = [p \in Procs |-> None]

Decide(p, o) == out[p] = None /\ out' = [out EXCEPT ![p] = o]

\* A write of n bytes of m succeeds.
Put(p, f, m, n) ==
    /\ Decide(p, Bare("write", f, n, "OK"))
    /\ Len(q) < Capacity
    /\ n \in 1 .. MaxLen
    /\ q' = Append(q, [b \in 1 .. n |-> m])
    /\ UNCHANGED used

\* A read of n bytes gets as much of the oldest message as it asked for.
Get(p, f, n) ==
    /\ q # <<>>
    /\ n > 0
    /\ q' = Tail(q)
    /\ LET size == Len(Head(q))
           got == SubSeq(Head(q), 1, IF size > n THEN n ELSE size)
       IN  Decide(p, Outcome("read", f, n, "OK", got, {}))
    /\ UNCHANGED used

\* A file that has had its transfer reads as empty, and swallows writes.
Spent(p, f, n) ==
    /\ f \in used
    /\ \/ Decide(p, Bare("read", f, n, "EOF"))
       \/ Decide(p, Bare("write", f, n, "OK"))
    /\ UNCHANGED <<q, used>>

\* -EAGAIN tells the truth about the queue.
Again(p, f, n) ==
    /\ \/ q = <<>> /\ Decide(p, Bare("read", f, n, "EAGAIN"))
       \/ Len(q) = Capacity /\ Decide(p, Bare("write", f, n, "EAGAIN"))
    /\ UNCHANGED <<q, used>>

Fail(p, f, n, op, code) ==
    /\ code \in {"EFAULT", "ERESTARTSYS"}
    /\ Decide(p, Bare(op, f, n, code))
    /\ UNCHANGED <<q, used>>

\* poll reports events, and only such as hold.
Poll(p, f, n, events) ==
    /\ events # {}
    /\ "IN" \in events => q # <<>>
    /\ "OUT" \in events => Len(q) < Capacity
    /\ Decide(p, Outcome("poll", f, n, "OK", <<>>, events))
    /\ UNCHANGED <<q, used>>

\* The call returns.
Finish(p) ==
    /\ out[p] # None
    /\ out' = [out EXCEPT ![p] = None]
    /\ used' = IF out[p].code = "OK" /\ out[p].op # "poll"
               THEN used \cup {out[p].file} ELSE used
    /\ UNCHANGED q

Reopen(f) == used' = used \ {f} /\ UNCHANGED <<q, out>>

Next ==
    \/ \E p \in Procs :
          \/ Finish(p)
          \/ /\ out[p] = None /\ out'[p] # None
             /\ \E f \in Files, n \in Lens :
                   \/ \E m \in Msg : Put(p, f, m, n)
                   \/ Get(p, f, n) \/ Spent(p, f, n) \/ Again(p, f, n)
                   \/ \E op \in {"read", "write", "poll"}, code \in {"EFAULT", "ERESTARTSYS"} :
                         Fail(p, f, n, op, code)
                   \/ \E events \in SUBSET {"IN", "OUT"} : Poll(p, f, n, events)
    \/ \E f \in Files : Reopen(f)

Spec == Init /\ [][Next]_vars
=============================================================================
