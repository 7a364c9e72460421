--------------------------- MODULE ChoenBlocking ---------------------------
(***************************************************************************)
(* One device of choen_rwblocking, the variant without poll and without    *)
(* SIGIO.  Its ring_buffer.c is the file of choen_rwnonblocking, and its   *)
(* two handlers go through the same statements, except that a write is     *)
(* over with its wake-up.  The steps they share are those of ChoenDev.     *)
(***************************************************************************)
EXTENDS ChoenDev

ASSUME BlockingAssumption ==
    /\ AsyncFiles = {}
    /\ \A p \in Procs : \A c \in CallsOf[p] : c.op # "poll"

-----------------------------------------------------------------------------
(* rb_lock, the loop around the wait queue, and rb_unlock *)

LockAndWait(p) ==
    \/ rb_lock(p) \/ CheckReady(p)
    \/ PrepareToWait(p) \/ WaitCondition(p) \/ WakeFromWait(p)

\* choen_read from the lock to its return value.
BlockingRead(p) ==
    /\ call[p].op = "read"
    /\ \/ LockAndWait(p)
       \/ ReadCopy(p) \/ ReadCommit(p) \/ UnlockAfterCopy(p) \/ ReadNotify(p)

\* Mutant: a wake-up only when the ring was empty before.
BlockingNotifyFirst(p) ==
    /\ pc[p] = "wake"
    /\ IF ring.load_cnt = 1 THEN wake_up(rd_wq) ELSE UNCHANGED woken
    /\ Goto(p, "ret")
    /\ UNCHANGED <<ring, semVars, rd_wq, wr_wq, fileVars, call, ret>>

\* notify pending read procs; nothing follows.
BlockingNotify(p) ==
    /\ pc[p] = "wake"
    /\ wake_up(rd_wq)
    /\ Goto(p, "ret")
    /\ UNCHANGED <<ring, semVars, rd_wq, wr_wq, fileVars, call, ret>>

BlockingWrite(p) ==
    /\ call[p].op = "write"
    /\ \/ LockAndWait(p)
       \/ WriteCopy(p) \/ WriteCommit(p) \/ UnlockAfterCopy(p) \/ BlockingNotify(p)

BlockingStep(p) == BlockingRead(p) \/ BlockingWrite(p) \/ Return(p)

BlockingUser(p) ==
    \/ \E c \in CallsOf[p] : ReadEnter(p, c) \/ WriteEnter(p, c)
    \/ LockInterrupted(p) \/ WaitInterrupted(p)

BlockingNext ==
    \/ \E p \in Procs : BlockingStep(p) \/ BlockingUser(p)
    \/ \E f \in Files : choen_open(f) \/ choen_close(f)

BlockingSpec == Init /\ [][BlockingNext]_vars

-----------------------------------------------------------------------------
(* Properties *)

\* The two sides of the ring never wait for each other: while a reader and a
\* writer both sleep, some process is on its way to wake one of them.  The
\* comment in choen_read, "query rb status w/o lock mutex ???", asks whether
\* testing load_cnt without the semaphore can leave both asleep.
NoStandstill ==
    \A p, q \in Procs :
        Sleeping(p) /\ call[p].op = "read" /\ Sleeping(q) /\ call[q].op = "write"
            => \E r \in Procs : pc[r] \notin {"idle", "asleep"} \/ r \in woken
=============================================================================
