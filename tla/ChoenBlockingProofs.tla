------------------------ MODULE ChoenBlockingProofs ------------------------
(***************************************************************************)
(* choen_rwblocking, for any number of processes, files and slots.  Its    *)
(* steps are steps of ChoenDev, but for the end of a write, which wakes    *)
(* the readers and returns.  That step keeps every layer of the invariant  *)
(* of ChoenDev and is invisible in the queue; the rest is cited.           *)
(***************************************************************************)
EXTENDS ChoenBlocking, ChoenFifoProofs

\* The step that ChoenDev does not have.
WriteEnds(p) == call[p].op = "write" /\ BlockingNotify(p)

DevInv == LockInv /\ CallInv /\ RingLayer /\ RetInv /\ QueueInv /\ ExactInv

LEMMA BlockingCases ==
    ASSUME [BlockingNext]_vars
    PROVE  [Next]_vars \/ \E p \in Procs : WriteEnds(p)
  BY DEF BlockingNext, BlockingStep, BlockingUser, BlockingRead, BlockingWrite, LockAndWait,
         WriteEnds, Next, Step, UserStep, FileStep, choen_read, choen_write

\* What the step does, and what it leaves.
LEMMA EndFrame ==
    ASSUME DevInv, NEW p \in Procs, WriteEnds(p)
    PROVE  /\ pc \in [Procs -> PC] /\ pc[p] = "wake" /\ pc' = [pc EXCEPT ![p] = "ret"]
           /\ call[p].op = "write" /\ woken' = woken \cup rd_wq
           /\ UNCHANGED <<ring, sem_count, sem_wait, rd_wq, wr_wq, call, ret>>
           /\ UNCHANGED <<async, sigio, opened, advanced>>
           /\ OthersMove(p)
  BY DEF DevInv, LockInv, LockTypeOK, WriteEnds, BlockingNotify, wake_up, Goto, semVars,
         fileVars, OthersMove

LEMMA EndKeepsCalls ==
    ASSUME DevInv, NEW p \in Procs, WriteEnds(p)
    PROVE  LockInv' /\ CallInv'
<1>1. LockInv'
  BY EndFrame, LockMove DEF DevInv, CSPoints, PC
<1>2. CallTypeOK' /\ RetDomain' /\ FilesOK' /\ QueuesOK'
  BY EndFrame DEF DevInv, CallInv, CallTypeOK, RetDomain, FilesOK, QueuesOK
<1>3. \A q \in Procs : InItsCall(q)'
  BY EndFrame DEF DevInv, CallInv, InItsCall
<1> QED BY <1>1, <1>2, <1>3 DEF CallInv

LEMMA EndKeepsRing ==
    ASSUME DevInv, NEW p \in Procs, WriteEnds(p)
    PROVE  RingLayer' /\ RetInv' /\ ExactInv'
<1>1. ring' \in Ring /\ RingInv(ring)'
  BY EndFrame DEF DevInv, RingLayer, RingInv, CursorsAgree, LengthsMatchLoad, PayloadsWhole,
                  Occupied, Age
<1>2. \A q \in Procs : Loaded(q)'
  BY EndFrame DEF DevInv, RingLayer, Loaded, Ready
<1>3. RetInv'
  BY EndFrame DEF DevInv, RetInv, ResultKnown
<1>4. ExactInv'
  BY EndFrame DEF DevInv, ExactInv, ResultExact
<1> QED BY <1>1, <1>2, <1>3, <1>4 DEF RingLayer

\* Whoever was owed the wake-up of this write is on rd_wq and gets it; the
\* wake-ups that reads owe to writers are still due.
LEMMA EndKeepsQueues ==
    ASSUME DevInv, NEW p \in Procs, WriteEnds(p)
    PROVE  QueueInv'
<1>1. ASSUME NEW q \in Procs
      PROVE  Queued(q)'
  BY EndFrame DEF DevInv, QueueInv, Queued, PollMask, rb_is_readable, rb_is_writable
<1>2. ASSUME NEW q \in Procs, Sleeping(q)'
      PROVE  NotForgotten(q)'
  <2>1. Sleeping(q) /\ q \notin rd_wq
    BY <1>2, EndFrame DEF Sleeping
  <2>2. Queued(q) /\ NotForgotten(q) /\ InItsCall(q)
    BY DEF DevInv, QueueInv, CallInv
  <2>3. ~WantsToRead(q)
    BY <2>1, <2>2 DEF Sleeping, InItsCall, Queued, WantsToRead
  <2>4. ASSUME WantsToWrite(q), rb_is_writable(ring)
        PROVE  WakeUpDue("read")'
    <3>1. WakeUpDue("read")
      BY <2>1, <2>2, <2>4 DEF NotForgotten
    <3> QED BY <3>1, EndFrame DEF WakeUpDue
  <2> QED BY <2>3, <2>4, EndFrame
          DEF NotForgotten, WantsToRead, WantsToWrite, rb_is_writable
<1>3. ASSUME NEW q \in Procs, ~Sleeping(q)'
      PROVE  NotForgotten(q)'
  BY <1>3 DEF NotForgotten
<1> QED BY <1>1, <1>2, <1>3 DEF QueueInv

LEMMA EndIsQuiet ==
    ASSUME DevInv, NEW p \in Procs, WriteEnds(p)
    PROVE  FifoStep
<1>1. Decided(p) /\ Decided(p)'
  BY EndFrame DEF DevInv, RetInv, ResultKnown, Decided
<1>2. Contents(ring)' = Contents(ring)
  BY EndFrame DEF Contents, SlotAt
<1> QED BY <1>1, <1>2, EndFrame, QuietDecided

-----------------------------------------------------------------------------

LEMMA DevInvInit == Init => DevInv
  BY LockInit, CallInit, RingStart, RetInit, QueueInit, ExactInit DEF DevInv

LEMMA DevInvNext == DevInv /\ [BlockingNext]_vars => DevInv'
<1> SUFFICES ASSUME DevInv, [BlockingNext]_vars
             PROVE  DevInv'
  OBVIOUS
<1>1. CASE [Next]_vars
  BY <1>1, LockNext, CallNext, RingNext, RetNext, QueueNext, ExactNext DEF DevInv
<1>2. ASSUME NEW p \in Procs, WriteEnds(p)
      PROVE  DevInv'
  BY <1>2, EndKeepsCalls, EndKeepsRing, EndKeepsQueues DEF DevInv
<1> QED BY <1>1, <1>2, BlockingCases

\* All that is known of a device of choen_rwnonblocking holds of one of
\* choen_rwblocking.
THEOREM BlockingInvariant == BlockingSpec => []DevInv
<1>1. Init => DevInv
  BY DevInvInit
<1>2. DevInv /\ [BlockingNext]_vars => DevInv'
  BY DevInvNext
<1> QED BY <1>1, <1>2, PTL DEF BlockingSpec

\* A reader and a writer never sleep at the same time with nobody about to
\* wake one of them: a ring has a message or a free slot.
THEOREM NoStandstillHolds == BlockingSpec => []NoStandstill
<1>1. DevInv => NoStandstill
  <2> SUFFICES ASSUME DevInv, NEW p \in Procs, NEW q \in Procs,
                      Sleeping(p), call[p].op = "read", Sleeping(q), call[q].op = "write"
               PROVE  \E r \in Procs : pc[r] \notin {"idle", "asleep"} \/ r \in woken
    BY DEF NoStandstill
  <2>1. rb_is_readable(ring) \/ rb_is_writable(ring)
    BY RingFields, RingAssumption DEF DevInv, RingLayer, rb_is_readable, rb_is_writable
  <2>2. WakeUpDue("write") \/ WakeUpDue("read")
    BY <2>1 DEF DevInv, QueueInv, NotForgotten, WantsToRead, WantsToWrite
  <2> QED BY <2>2 DEF WakeUpDue
<1> QED BY <1>1, BlockingInvariant, PTL

\* choen_read and choen_write of the blocking driver are operations of the
\* same bounded queue of messages.
THEOREM BlockingImplementsFifo == BlockingSpec => ImplementsFifo
<1>1. Init => Fifo!Init
  BY FifoInit
<1>2. DevInv /\ [BlockingNext]_vars => [Fifo!Next]_Fifo!vars
  <2> SUFFICES ASSUME DevInv, [BlockingNext]_vars
               PROVE  [Fifo!Next]_Fifo!vars
    OBVIOUS
  <2>1. CASE [Next]_vars
    BY <2>1, FifoRefines DEF DevInv
  <2>2. ASSUME NEW p \in Procs, WriteEnds(p)
        PROVE  [Fifo!Next]_Fifo!vars
    BY <2>2, EndIsQuiet DEF FifoStep
  <2> QED BY <2>1, <2>2, BlockingCases
<1> QED BY <1>1, <1>2, BlockingInvariant, PTL DEF BlockingSpec, ImplementsFifo, Fifo!Spec
=============================================================================
