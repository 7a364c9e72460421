-------------------------- MODULE ChoenFifoProofs --------------------------
(***************************************************************************)
(* ChoenDev implements FifoDevice, for any number of processes, files and  *)
(* slots.  First what the operations of the ring do to its contents, then  *)
(* the last layer of the invariant (what a call is about to report), then  *)
(* one lemma per kind of step: it is a step of the queue, or none.         *)
(***************************************************************************)
EXTENDS ChoenDevProofs

-----------------------------------------------------------------------------
(* The ring as a queue of messages *)

\* The message in slot i.
Message(rb, i) == [b \in 1 .. rb.item[i].act_len |-> rb.item[i].buff[b]]

LEMMA MessageType ==
    ASSUME NEW rb \in Ring, NEW i \in Slot
    PROVE  /\ Message(rb, i) \in Seq(Byte)
           /\ Len(Message(rb, i)) = rb.item[i].act_len
           /\ rb.item[i].act_len \in Nat
<1> DEFINE n == rb.item[i].act_len
<1>1. n \in Nat /\ n <= RW_ITEM_SIZE /\ rb.item[i].buff \in [1 .. RW_ITEM_SIZE -> Byte]
  BY RingFields, RingAssumption
<1>2. Message(rb, i) \in [1 .. n -> Byte]
  <2>1. \A b \in 1 .. n : rb.item[i].buff[b] \in Byte
    BY <1>1, RingAssumption
  <2> QED BY <2>1 DEF Message
<1> HIDE DEF n
<1>3. Message(rb, i) \in Seq(Byte) /\ Len(Message(rb, i)) = n
  BY <1>1, <1>2, SeqDef
<1> QED BY <1>1, <1>3 DEF n

LEMMA SlotAtType ==
    ASSUME NEW rb \in Ring, NEW k \in 0 .. NUM_OF_ITEMS - 1
    PROVE  SlotAt(rb, k) \in Slot
  BY RingFields, RingAssumption DEF SlotAt, Slot

LEMMA ContentsType ==
    ASSUME NEW rb \in Ring
    PROVE  /\ Contents(rb) \in Seq(Seq(Byte))
           /\ Len(Contents(rb)) = rb.load_cnt
           /\ \A k \in 1 .. rb.load_cnt : Contents(rb)[k] = Message(rb, SlotAt(rb, k - 1))
<1> DEFINE n == rb.load_cnt
<1>1. n \in Nat /\ n <= NUM_OF_ITEMS
  BY RingFields, RingAssumption
<1>2. Contents(rb) = [k \in 1 .. n |-> Message(rb, SlotAt(rb, k - 1))]
  BY DEF Contents, Message
<1>3. \A k \in 1 .. n : SlotAt(rb, k - 1) \in Slot
  <2> TAKE k \in 1 .. n
  <2>1. k - 1 \in 0 .. NUM_OF_ITEMS - 1
    BY <1>1, RingAssumption
  <2> QED BY <2>1, SlotAtType
<1>4. \A k \in 1 .. n : Message(rb, SlotAt(rb, k - 1)) \in Seq(Byte)
  BY <1>3, MessageType
<1> HIDE DEF n
<1>5. Contents(rb) \in [1 .. n -> Seq(Byte)]
  BY <1>2, <1>4
<1>6. Contents(rb) \in Seq(Seq(Byte)) /\ Len(Contents(rb)) = n
  BY <1>1, <1>5, SeqDef
<1> QED BY <1>2, <1>6 DEF n

\* Contents only looks at the slots between the cursors.
LEMMA ContentsSame ==
    ASSUME NEW rb \in Ring, NEW new \in Ring, new.rptr = rb.rptr, new.load_cnt = rb.load_cnt,
           \A k \in 1 .. rb.load_cnt :
              Message(new, SlotAt(rb, k - 1)) = Message(rb, SlotAt(rb, k - 1))
    PROVE  Contents(new) = Contents(rb)
<1>1. /\ Contents(new) \in Seq(Seq(Byte)) /\ Contents(rb) \in Seq(Seq(Byte))
      /\ Len(Contents(new)) = rb.load_cnt /\ Len(Contents(rb)) = rb.load_cnt
  BY ContentsType
<1>2. \A k : SlotAt(new, k) = SlotAt(rb, k)
  BY DEF SlotAt
<1>3. \A k \in 1 .. rb.load_cnt : Contents(new)[k] = Contents(rb)[k]
  BY <1>2, ContentsType
<1> QED BY <1>1, <1>3, SeqEqual

\* The place of the slot at wptr, and of the others.
LEMMA WptrPlace ==
    ASSUME NEW rb \in Ring, RingInv(rb), rb_is_writable(rb)
    PROVE  /\ SlotAt(rb, rb.load_cnt) = rb.wptr
           /\ \A k \in 1 .. rb.load_cnt : SlotAt(rb, k - 1) # rb.wptr
<1>1. /\ rb.rptr \in 0 .. NUM_OF_ITEMS - 1 /\ rb.load_cnt \in 0 .. NUM_OF_ITEMS - 1
      /\ rb.wptr = IF rb.rptr + rb.load_cnt < NUM_OF_ITEMS THEN rb.rptr + rb.load_cnt
                   ELSE rb.rptr + rb.load_cnt - NUM_OF_ITEMS
  BY RingFields, CursorsAgreeValue, RingAssumption DEF RingInv, rb_is_writable, Slot
<1>2. rb.rptr \in Int /\ rb.load_cnt \in Int /\ rb.wptr \in Int /\ NUM_OF_ITEMS \in Int
  BY <1>1, RingAssumption
<1> QED BY <1>1, <1>2 DEF SlotAt

\* A copy into the free slot, complete or not, is invisible.
LEMMA CopyLeavesContents ==
    ASSUME NEW rb \in Ring, RingInv(rb), rb_is_writable(rb),
           NEW m \in Byte, NEW len \in Nat, NEW n \in Nat
    PROVE  Contents(CopyFromUser(rb, m, len, n)) = Contents(rb)
<1> SUFFICES ASSUME NEW new, new = CopyFromUser(rb, m, len, n)
             PROVE  Contents(new) = Contents(rb)
  OBVIOUS
<1>1. /\ new \in Ring /\ new.rptr = rb.rptr /\ new.load_cnt = rb.load_cnt
      /\ \A i \in Slot : i # rb.wptr => new.item[i] = rb.item[i]
  BY CopyFromUserFields
<1>2. \A i \in Slot : i # rb.wptr => Message(new, i) = Message(rb, i)
  BY <1>1 DEF Message
<1>3. \A k \in 1 .. rb.load_cnt : SlotAt(rb, k - 1) \in Slot /\ SlotAt(rb, k - 1) # rb.wptr
  <2> TAKE k \in 1 .. rb.load_cnt
  <2>1. k - 1 \in 0 .. NUM_OF_ITEMS - 1
    BY RingFields, RingAssumption
  <2> QED BY <2>1, SlotAtType, WptrPlace
<1> QED BY <1>1, <1>2, <1>3, ContentsSame

\* The commit of a write appends its message.
LEMMA PutAppends ==
    ASSUME NEW rb \in Ring, RingInv(rb), rb_is_writable(rb),
           NEW len \in 1 .. RW_ITEM_SIZE, NEW m \in Msg,
           \A b \in 1 .. len : rb.item[rb.wptr].buff[b] = m
    PROVE  Contents(PutItem(rb, len)) = Append(Contents(rb), [b \in 1 .. len |-> m])
<1> SUFFICES ASSUME NEW new, new = PutItem(rb, len)
             PROVE  Contents(new) = Append(Contents(rb), [b \in 1 .. len |-> m])
  OBVIOUS
<1> DEFINE msg == [b \in 1 .. len |-> m]
           old == Contents(rb)
           n == rb.load_cnt
<1>1. /\ new \in Ring /\ new.rptr = rb.rptr /\ new.load_cnt = n + 1
      /\ \A i \in Slot : new.item[i] = IF i = rb.wptr THEN [buff |-> rb.item[i].buff, act_len |-> len]
                                       ELSE rb.item[i]
  BY PutItemFields, PutItemKeeps
<1>2. n \in 0 .. NUM_OF_ITEMS - 1 /\ n \in Nat /\ rb.wptr \in Slot
  BY RingFields, RingAssumption DEF rb_is_writable
<1>3. \A k : SlotAt(new, k) = SlotAt(rb, k)
  BY <1>1 DEF SlotAt
<1>4. Message(new, rb.wptr) = msg
  <2>1. new.item[rb.wptr].act_len = len /\ new.item[rb.wptr].buff = rb.item[rb.wptr].buff
    <3>1. new.item[rb.wptr] = [buff |-> rb.item[rb.wptr].buff, act_len |-> len]
      BY <1>1, <1>2
    <3> QED BY <3>1
  <2> QED BY <2>1 DEF Message
<1>5. \A i \in Slot : i # rb.wptr => Message(new, i) = Message(rb, i)
  <2>1. \A i \in Slot : i # rb.wptr => new.item[i] = rb.item[i]
    BY <1>1
  <2> QED BY <2>1 DEF Message
<1>6. msg \in Seq(Byte)
  <2>1. len \in Nat /\ msg \in [1 .. len -> Byte]
    BY DEF Byte
  <2> HIDE DEF msg
  <2> QED BY <2>1, SeqDef
<1> HIDE DEF msg
<1>7. /\ Contents(new) \in Seq(Seq(Byte)) /\ Len(Contents(new)) = n + 1
      /\ \A k \in 1 .. n + 1 : Contents(new)[k] = Message(new, SlotAt(rb, k - 1))
  BY <1>1, <1>3, ContentsType
<1>8. /\ old \in Seq(Seq(Byte)) /\ Len(old) = n
      /\ \A k \in 1 .. n : old[k] = Message(rb, SlotAt(rb, k - 1))
  BY ContentsType
<1> HIDE DEF old
<1>9. /\ Append(old, msg) \in Seq(Seq(Byte)) /\ Len(Append(old, msg)) = n + 1
      /\ \A k \in 1 .. n : Append(old, msg)[k] = old[k]
      /\ Append(old, msg)[n + 1] = msg
  BY <1>6, <1>8, AppendProperties
<1>10. \A k \in 1 .. n : Message(new, SlotAt(rb, k - 1)) = Message(rb, SlotAt(rb, k - 1))
  <2> TAKE k \in 1 .. n
  <2>1. k - 1 \in 0 .. NUM_OF_ITEMS - 1
    BY <1>2, RingAssumption
  <2> QED BY <1>5, <2>1, SlotAtType, WptrPlace
<1>11. Message(new, SlotAt(rb, n)) = msg
  BY <1>4, WptrPlace
<1> HIDE DEF n
<1>12. \A k \in 1 .. n + 1 : Contents(new)[k] = Append(old, msg)[k]
  <2>0. n \in Nat
    BY <1>2 DEF n
  <2> TAKE k \in 1 .. n + 1
  <2>1. CASE k \in 1 .. n
    BY <1>7, <1>8, <1>9, <1>10, <2>1
  <2>2. CASE k = n + 1
    <3>1. k - 1 = n
      BY <2>0, <2>2
    <3> QED BY <1>7, <1>9, <1>11, <2>2, <3>1
  <2>3. k \in 1 .. n \/ k = n + 1
    BY <2>0
  <2> QED BY <2>1, <2>2, <2>3
<1>13. Contents(new) = Append(old, msg)
  BY <1>7, <1>9, <1>12, SeqEqual
<1> QED BY <1>13 DEF old, msg

\* The commit of a read takes the oldest message away.
LEMMA TakeDropsOldest ==
    ASSUME NEW rb \in Ring, RingInv(rb), rb_is_readable(rb)
    PROVE  /\ Contents(TakeItem(rb)) = Tail(Contents(rb))
           /\ Contents(rb) # <<>>
           /\ Head(Contents(rb)) = Message(rb, rb.rptr)
<1> SUFFICES ASSUME NEW new, new = TakeItem(rb)
             PROVE  /\ Contents(new) = Tail(Contents(rb))
                    /\ Contents(rb) # <<>>
                    /\ Head(Contents(rb)) = Message(rb, rb.rptr)
  OBVIOUS
<1> DEFINE old == Contents(rb)
           n == rb.load_cnt
<1>1. /\ new \in Ring /\ new.rptr = NextSlot(rb.rptr) /\ new.load_cnt = n - 1
      /\ \A i \in Slot : i # rb.rptr => new.item[i] = rb.item[i]
  BY TakeItemFields, TakeItemKeeps
<1>2. /\ n \in 1 .. NUM_OF_ITEMS /\ rb.rptr \in 0 .. NUM_OF_ITEMS - 1
      /\ NextSlot(rb.rptr) = IF rb.rptr + 1 < NUM_OF_ITEMS THEN rb.rptr + 1 ELSE 0
      /\ NUM_OF_ITEMS \in Nat
  BY RingFields, NextSlotValue, RingAssumption DEF rb_is_readable, Slot
<1>3. \A k \in 1 .. n - 1 : /\ SlotAt(new, k - 1) = SlotAt(rb, k)
                            /\ SlotAt(rb, k) # rb.rptr
                            /\ SlotAt(rb, k) \in Slot
  BY <1>1, <1>2 DEF SlotAt, Slot
<1>4. SlotAt(rb, 0) = rb.rptr
  BY <1>2 DEF SlotAt
<1>5. \A i \in Slot : i # rb.rptr => Message(new, i) = Message(rb, i)
  BY <1>1 DEF Message
<1>6. /\ Contents(new) \in Seq(Seq(Byte)) /\ Len(Contents(new)) = n - 1
      /\ \A k \in 1 .. n - 1 : Contents(new)[k] = Message(new, SlotAt(new, k - 1))
  BY <1>1, ContentsType
<1>7. /\ old \in Seq(Seq(Byte)) /\ Len(old) = n
      /\ \A k \in 1 .. n : old[k] = Message(rb, SlotAt(rb, k - 1))
  BY ContentsType
<1> HIDE DEF old
<1>8. old # <<>> /\ Head(old) = old[1]
  BY <1>2, <1>7
<1>9. /\ Tail(old) \in Seq(Seq(Byte)) /\ Len(Tail(old)) = n - 1
      /\ \A k \in 1 .. n - 1 : Tail(old)[k] = old[k + 1]
  BY <1>7, <1>8, HeadTailProperties
<1> HIDE DEF n
<1>10. \A k \in 1 .. n - 1 : Contents(new)[k] = Tail(old)[k]
  <2> TAKE k \in 1 .. n - 1
  <2>1. k + 1 \in 1 .. n /\ (k + 1) - 1 = k
    BY <1>2
  <2>2. old[k + 1] = Message(rb, SlotAt(rb, k))
    BY <1>7, <2>1
  <2> QED BY <1>3, <1>5, <1>6, <1>9, <2>2
<1>11. Contents(new) = Tail(old)
  BY <1>6, <1>9, <1>10, SeqEqual
<1>12. Head(old) = Message(rb, rb.rptr)
  <2>1. 1 \in 1 .. n /\ 1 - 1 = 0
    BY <1>2
  <2> QED BY <1>4, <1>7, <1>8, <2>1
<1> QED BY <1>8, <1>11, <1>12 DEF old

\* What a read hands out is as much of the oldest message as it asked for.
LEMMA CopyIsPrefix ==
    ASSUME NEW rb \in Ring, NEW len \in Nat
    PROVE  LET s == Message(rb, rb.rptr)
           IN  CopyToUser(rb, ReadLen(rb, len)) = SubSeq(s, 1, IF Len(s) > len THEN len ELSE Len(s))
<1> DEFINE s == Message(rb, rb.rptr)
           k == IF Len(s) > len THEN len ELSE Len(s)
<1>1. s \in Seq(Byte) /\ Len(s) = rb.item[rb.rptr].act_len /\ Len(s) \in Nat
  BY RingFields, MessageType
<1>2. ReadLen(rb, len) = k /\ k \in Nat /\ k <= Len(s)
  BY <1>1 DEF ReadLen
<1>3. \A b \in 1 .. k : s[b] = rb.item[rb.rptr].buff[b]
  <2>1. \A b \in 1 .. k : b \in 1 .. rb.item[rb.rptr].act_len
    BY <1>1, <1>2
  <2> QED BY <2>1 DEF Message
<1>4. CopyToUser(rb, k) = [b \in 1 .. k |-> s[b]]
  BY <1>3 DEF CopyToUser
<1> HIDE DEF s, k
<1>5. SubSeq(s, 1, k) = [b \in 1 .. k |-> s[b]]
  BY <1>1, <1>2
<1> QED BY <1>2, <1>4, <1>5 DEF s, k

LEMMA ContentsTests ==
    ASSUME NEW rb \in Ring
    PROVE  /\ rb_is_readable(rb) <=> Contents(rb) # <<>>
           /\ rb_is_writable(rb) <=> Len(Contents(rb)) < NUM_OF_ITEMS
           /\ ~rb_is_writable(rb) <=> Len(Contents(rb)) = NUM_OF_ITEMS
<1>1. /\ Contents(rb) \in Seq(Seq(Byte)) /\ Len(Contents(rb)) = rb.load_cnt
      /\ rb.load_cnt \in 0 .. NUM_OF_ITEMS /\ NUM_OF_ITEMS \in Nat
  BY ContentsType, RingFields, RingAssumption
<1>2. Contents(rb) = <<>> <=> Len(Contents(rb)) = 0
  BY <1>1, EmptySeq
<1> QED BY <1>1, <1>2 DEF rb_is_readable, rb_is_writable

-----------------------------------------------------------------------------
(* What a call is about to report *)

\* At the commit of a read the result is the message that the commit takes;
\* no write can have changed the slot since the copy.
ResultExact(q) ==
    pc[q] = "commit" =>
        /\ call[q].op = "read" =>
              /\ call[q].len > 0
              /\ ret[q].data = CopyToUser(ring, ReadLen(ring, call[q].len))
        /\ call[q].op = "write" => ret[q].data = <<>>
        /\ ret[q].revents = {}

ExactInv == \A q \in Procs : ResultExact(q)

\* All layers that the refinement rests on.
FifoInv == LockInv /\ CallInv /\ RingLayer /\ RetInv /\ ExactInv

LEMMA RingWriters ==
    ASSUME NEW p \in Procs, Step(p) \/ UserStep(p)
    PROVE  \/ ring' = ring
           \/ pc[p] \in {"copy", "commit"}
<1>1. CASE rb_lock(p) \/ LockInterrupted(p) \/ LoopStep(p)
  BY <1>1 DEF rb_lock, LockInterrupted, LoopStep, CheckReady, UnlockAfterCopy, PrepareToWait,
              WaitCondition, WakeFromWait
<1>2. CASE ReadStep(p) \/ WriteStep(p)
  BY <1>2 DEF ReadStep, ReadCopy, ReadCommit, ReadNotify, WriteStep, WriteCopy, WriteCommit,
              WriteNotify, WriteSigio
<1>3. CASE PollStep(p)
  BY <1>3 DEF PollStep, PollWait, PollCheck, PollUnlock, PollWake
<1>4. CASE WaitInterrupted(p) \/ PollInterrupted(p) \/ EnterStep(p) \/ Return(p)
  BY <1>4 DEF WaitInterrupted, PollInterrupted, EnterStep, Return, ReadEnter, WriteEnter, PollEnter
<1> QED BY <1>1, <1>2, <1>3, <1>4, StepCases

LEMMA OthersExact ==
    ASSUME LockInv, ExactInv, NEW p \in Procs, OthersMove(p),
           ring' = ring \/ pc[p] \in {"copy", "commit"}, NEW q \in Procs \ {p}
    PROVE  ResultExact(q)'
<1>1. CASE pc'[q] # "commit"
  BY <1>1 DEF ResultExact
<1>2. CASE pc'[q] = "commit"
  <2>1. pc[q] = "commit" /\ call'[q] = call[q] /\ ret'[q] = ret[q]
    BY <1>2 DEF OthersMove, AfterDown
  <2>2. ring' = ring
    BY <2>1 DEF LockInv, LockDiscipline, MutualExclusion, InCS
  <2> QED BY <2>1, <2>2 DEF ExactInv, ResultExact
<1> QED BY <1>1, <1>2

\* The two copies.
LEMMA CopyReports ==
    ASSUME FifoInv, NEW p \in Procs,
           \/ call[p].op = "read" /\ ReadCopy(p)
           \/ call[p].op = "write" /\ WriteCopy(p)
    PROVE  /\ pc[p] = "copy" /\ call' = call /\ advanced' = advanced
           /\ ret[p] = NoRet
           /\ \/ pc'[p] = "commit" /\ ResultExact(p)'
              \/ /\ pc'[p] = "unlock"
                 /\ ret'[p] = RetCode("EFAULT")
<1>0. /\ pc \in [Procs -> PC] /\ ret \in [Procs -> Ret] /\ ResultKnown(p)
  BY DEF FifoInv, LockInv, LockTypeOK, RetInv
<1>1. CASE call[p].op = "read" /\ ReadCopy(p)
  <2>1. pc[p] = "copy" /\ call' = call /\ advanced' = advanced /\ ring' = ring
    BY <1>1 DEF ReadCopy, fileVars
  <2>2. ret[p] = NoRet
    BY <1>0, <2>1 DEF ResultKnown
  <2>3. CASE /\ ReadAccepted(ring, call[p].len)
             /\ ret' = [ret EXCEPT ![p].code = "OK",
                                   ![p].data = CopyToUser(ring, ReadLen(ring, call[p].len))]
             /\ pc' = [pc EXCEPT ![p] = "commit"]
    <3> DEFINE d == CopyToUser(ring, ReadLen(ring, call[p].len))
    <3> HIDE DEF d
    <3>1. ret' = [ret EXCEPT ![p] = [[ret[p] EXCEPT !.code = "OK"] EXCEPT !.data = d]]
      BY <1>0, <2>3 DEF d
    <3>2. ret'[p] = [code |-> "OK", data |-> d, revents |-> ret[p].revents]
      BY <1>0, <3>1 DEF Ret
    <3>3. ret'[p].data = d /\ ret'[p].revents = {}
      BY <2>2, <3>2 DEF NoRet
    <3>4. pc'[p] = "commit" /\ call[p].len > 0
      BY <1>0, <2>3 DEF ReadAccepted
    <3>5. d' = d
      BY <2>1 DEF d
    <3>6. ResultExact(p)'
      BY <1>1, <2>1, <3>3, <3>4, <3>5 DEF ResultExact, d
    <3> QED BY <2>1, <2>2, <3>4, <3>6
  <2>4. CASE /\ ret' = [ret EXCEPT ![p] = RetCode("EFAULT")]
             /\ pc' = [pc EXCEPT ![p] = "unlock"]
    BY <1>0, <2>1, <2>2, <2>4
  <2> QED BY <1>1, <2>3, <2>4 DEF ReadCopy, Goto
<1>2. CASE call[p].op = "write" /\ WriteCopy(p)
  <2>1. pc[p] = "copy" /\ call' = call /\ advanced' = advanced
    BY <1>2 DEF WriteCopy, fileVars
  <2>2. ret[p] = NoRet
    BY <1>0, <2>1 DEF ResultKnown
  <2>3. CASE /\ ret' = [ret EXCEPT ![p] = RetCode("OK")]
             /\ pc' = [pc EXCEPT ![p] = "commit"]
    <3>1. ret'[p] = RetCode("OK") /\ pc'[p] = "commit" /\ call'[p].op = "write"
      BY <1>0, <1>2, <2>1, <2>3
    <3>2. RetCode("OK").data = <<>> /\ RetCode("OK").revents = {}
      BY DEF RetCode, NoRet
    <3> QED BY <2>1, <2>2, <3>1, <3>2 DEF ResultExact
  <2>4. CASE /\ ret' = [ret EXCEPT ![p] = RetCode("EFAULT")]
             /\ pc' = [pc EXCEPT ![p] = "unlock"]
    BY <1>0, <2>1, <2>2, <2>4
  <2> QED BY <1>2, <2>3, <2>4 DEF WriteCopy, Goto
<1> QED BY <1>1, <1>2

\* No other step leads to a commit.
LEMMA OnlyCopiesReport ==
    ASSUME FifoInv, NEW p \in Procs, Step(p) \/ UserStep(p),
           ~(call[p].op = "read" /\ ReadCopy(p)), ~(call[p].op = "write" /\ WriteCopy(p))
    PROVE  pc'[p] # "commit"
<1>0. pc \in [Procs -> PC] /\ LockInv
  BY DEF FifoInv, LockInv, LockTypeOK
<1>1. CASE LoopStep(p) \/ PollStep(p)
  <2>1. pc[p] # "sem_wait"
    BY <1>1 DEF LoopStep, CheckReady, UnlockAfterCopy, PrepareToWait, WaitCondition, WakeFromWait,
                PollStep, PollWait, PollCheck, PollUnlock, PollWake
  <2>2. \/ \E n \in {"ret", "prepare", "wake", "poll_sleep"} : rb_unlock(p, n)
        \/ \E n \in {"copy", "cond", "down", "asleep", "prepare", "poll_wr", "unlock"} :
              pc' = [pc EXCEPT ![p] = n]
    BY <1>1 DEF LoopStep, CheckReady, UnlockAfterCopy, PrepareToWait, WaitCondition, WakeFromWait,
                PollStep, PollWait, PollCheck, PollUnlock, PollWake, Goto
  <2> QED BY <1>0, <2>1, <2>2, UnlockMoves
<1>2. CASE (ReadStep(p) /\ ~ReadCopy(p)) \/ (WriteStep(p) /\ ~WriteCopy(p))
  BY <1>0, <1>2 DEF ReadStep, ReadCommit, ReadNotify, WriteStep, WriteCommit, WriteNotify,
                    WriteSigio, Goto
<1>3. CASE rb_lock(p) \/ LockInterrupted(p)
  BY <1>0, <1>3 DEF rb_lock, LockInterrupted, Goto, AfterDown
<1>4. CASE WaitInterrupted(p) \/ PollInterrupted(p) \/ EnterStep(p) \/ Return(p)
  <2>1. \E n \in {"ret", "down", "poll_rd", "idle"} : pc' = [pc EXCEPT ![p] = n]
    BY <1>4 DEF WaitInterrupted, PollInterrupted, EnterStep, Return, ReadEnter, WriteEnter,
                PollEnter, Goto
  <2> QED BY <1>0, <2>1
<1> QED BY <1>1, <1>2, <1>3, <1>4, StepCases DEF ReadStep, WriteStep

LEMMA ExactStep ==
    ASSUME FifoInv, NEW p \in Procs, Step(p) \/ UserStep(p)
    PROVE  ExactInv'
<1>1. OthersMove(p) /\ LockInv /\ ExactInv
  BY Frame DEF FifoInv, CallInv
<1>2. \A q \in Procs \ {p} : ResultExact(q)'
  BY <1>1, OthersExact, RingWriters
<1>3. CASE \/ call[p].op = "read" /\ ReadCopy(p)
           \/ call[p].op = "write" /\ WriteCopy(p)
  <2>1. ResultExact(p)'
    <3>1. CASE pc'[p] # "commit"
      BY <3>1 DEF ResultExact
    <3>2. CASE pc'[p] = "commit"
      BY <1>3, <3>2, CopyReports
    <3> QED BY <3>1, <3>2
  <2> QED BY <1>2, <2>1 DEF ExactInv
<1>4. CASE ~(\/ call[p].op = "read" /\ ReadCopy(p)
             \/ call[p].op = "write" /\ WriteCopy(p))
  <2>1. pc'[p] # "commit"
    BY <1>4, OnlyCopiesReport
  <2> QED BY <1>2, <2>1 DEF ExactInv, ResultExact
<1> QED BY <1>3, <1>4

LEMMA ExactFrame ==
    ASSUME ExactInv, UNCHANGED <<ring, pc, call, ret>>
    PROVE  ExactInv'
  BY DEF ExactInv, ResultExact

LEMMA FileStepLeaves ==
    ASSUME NEW f \in Files, FileStep(f)
    PROVE  UNCHANGED <<ring, pc, call, ret>> /\ (advanced' = advanced \/ advanced' = advanced \ {f})
  BY DEF FileStep, choen_open, choen_close, choen_fasync, TakeSigio

LEMMA ExactInit == Init => ExactInv
  BY DEF Init, ExactInv, ResultExact

LEMMA ExactNext ==
    LockInv /\ CallInv /\ RingLayer /\ RetInv /\ ExactInv /\ [Next]_vars => ExactInv'
<1> SUFFICES ASSUME FifoInv, [Next]_vars
             PROVE  ExactInv'
  BY DEF FifoInv
<1>1. ASSUME NEW f \in Files, FileStep(f)
      PROVE  ExactInv'
  BY <1>1, FileStepLeaves, ExactFrame DEF FifoInv
<1>2. CASE UNCHANGED vars
  BY <1>2, ExactFrame DEF FifoInv, vars
<1> QED BY <1>1, <1>2, ExactStep DEF Next

\* What a call between copy and commit is about to report is what the commit
\* will make true, whatever the other processes and files do meanwhile.
THEOREM ExactInvariant == Spec => []ExactInv
<1>1. Init => ExactInv
  BY ExactInit
<1>2. LockInv /\ CallInv /\ RingLayer /\ RetInv /\ ExactInv /\ [Next]_vars => ExactInv'
  BY ExactNext
<1> QED BY <1>1, <1>2, LockInvariant, CallInvariant, RingInvariant, RetInvariant, PTL DEF Spec

-----------------------------------------------------------------------------
(* The abstract variables *)

\* out of FifoDevice, as Fifo in ChoenDev maps it.
Outs == [p \in Procs |->
           IF Decided(p)
           THEN [op |-> call[p].op, file |-> call[p].file, len |-> call[p].len,
                 code |-> ret[p].code, data |-> ret[p].data, revents |-> ret[p].revents]
           ELSE NoOutcome]

AskedLens == {c.len : c \in UNION {CallsOf[p] : p \in Procs}}

\* One call is decided, with outcome o.
Deciding(p, o) == Outs[p] = NoOutcome /\ o # NoOutcome /\ Outs' = [Outs EXCEPT ![p] = o]

FifoStep == Fifo!Next \/ UNCHANGED Fifo!vars

LEMMA FifoDecides ==
    ASSUME NEW p \in Procs, NEW o, Deciding(p, o)
    PROVE  Fifo!Decide(p, o)
  BY DEF Fifo!Decide, Fifo!None, Outs, NoOutcome, Deciding

LEMMA FifoStutters ==
    ASSUME Contents(ring)' = Contents(ring), advanced' = advanced, Outs' = Outs
    PROVE  FifoStep
  BY DEF Fifo!vars, Outs, FifoStep

\* The steps of FifoDevice that decide a call.
FifoDecision(p, f, n) ==
    \/ \E m \in Msg : Fifo!Put(p, f, m, n)
    \/ Fifo!Get(p, f, n) \/ Fifo!Spent(p, f, n) \/ Fifo!Again(p, f, n)
    \/ \E op \in {"read", "write", "poll"}, code \in {"EFAULT", "ERESTARTSYS"} :
          Fifo!Fail(p, f, n, op, code)
    \/ \E events \in SUBSET {"IN", "OUT"} : Fifo!Poll(p, f, n, events)

LEMMA FifoNext ==
    ASSUME NEW p \in Procs, NEW o, Deciding(p, o), NEW f \in Files, NEW n \in AskedLens,
           FifoDecision(p, f, n)
    PROVE  FifoStep
<1>1. Outs[p] = NoOutcome /\ Outs'[p] # NoOutcome
  <2>1. Outs'[p] = o
    BY DEF Deciding, Outs
  <2> QED BY <2>1 DEF Deciding
<1> QED BY <1>1 DEF Fifo!Next, Fifo!None, Outs, NoOutcome, AskedLens, FifoDecision, FifoStep

\* A step of p leaves the outcomes of the others.
LEMMA OthersOuts ==
    ASSUME NEW p \in Procs, OthersMove(p), NEW q \in Procs \ {p}
    PROVE  Outs'[q] = Outs[q]
<1>1. call'[q] = call[q] /\ ret'[q] = ret[q]
  BY DEF OthersMove
<1>2. CASE pc'[q] = pc[q]
  BY <1>1, <1>2 DEF Outs, Decided
<1>3. CASE pc[q] = "sem_wait" /\ pc'[q] = AfterDown(q)
  <2>1. pc'[q] \in {"mask", "check"}
    BY <1>3 DEF AfterDown
  <2>2. ~Decided(q) /\ ~Decided(q)'
    BY <1>3, <2>1 DEF Decided
  <2> QED BY <2>2 DEF Outs, NoOutcome
<1> QED BY <1>2, <1>3 DEF OthersMove

LEMMA Quiet ==
    ASSUME NEW p \in Procs, OthersMove(p), Outs'[p] = Outs[p],
           Contents(ring)' = Contents(ring), advanced' = advanced
    PROVE  FifoStep
<1>1. \A q \in Procs : Outs'[q] = Outs[q]
  BY OthersOuts
<1>2. Outs' = Outs
  BY <1>1 DEF Outs
<1> QED BY <1>2, FifoStutters

LEMMA QuietUndecided ==
    ASSUME NEW p \in Procs, OthersMove(p), ~Decided(p), ~Decided(p)',
           Contents(ring)' = Contents(ring), advanced' = advanced
    PROVE  FifoStep
<1>1. Outs'[p] = Outs[p]
  BY DEF Outs, NoOutcome
<1> QED BY <1>1, Quiet

LEMMA QuietDecided ==
    ASSUME NEW p \in Procs, OthersMove(p), call'[p] = call[p], ret'[p] = ret[p],
           Decided(p), Decided(p)', Contents(ring)' = Contents(ring), advanced' = advanced
    PROVE  FifoStep
<1>1. Outs'[p] = Outs[p]
  BY DEF Outs
<1> QED BY <1>1, Quiet

LEMMA Decides ==
    ASSUME NEW p \in Procs, OthersMove(p), ~Decided(p), Decided(p)', NEW o,
           o = [op |-> call'[p].op, file |-> call'[p].file, len |-> call'[p].len,
                code |-> ret'[p].code, data |-> ret'[p].data, revents |-> ret'[p].revents]
    PROVE  Deciding(p, o)
<1>1. Outs[p] = NoOutcome
  BY DEF Outs
<1>2. Outs'[p] = o
  BY DEF Outs
<1>3. o # NoOutcome
  <2>1. o.code # "none"
    BY DEF Decided
  <2> QED BY <2>1 DEF NoOutcome
<1>4. \A q \in Procs \ {p} : Outs'[q] = Outs[q]
  BY OthersOuts
<1>5. Outs' = [Outs EXCEPT ![p] = o]
  BY <1>2, <1>4 DEF Outs
<1> QED BY <1>1, <1>3, <1>5 DEF Deciding

-----------------------------------------------------------------------------
(* The steps that decide a call, or return from it *)

LEMMA CallFacts ==
    ASSUME CallInv, NEW p \in Procs, NEW c \in CallsOf[p]
    PROVE  /\ c.op \in Op /\ c.file \in Files /\ c.len \in Nat /\ c.len \in AskedLens
           /\ c.op = "write" => c.msg \in Msg
<1>1. c \in Call /\ (c.op = "write" => c.msg \in Msg)
  BY CallsAreTyped
<1>2. c.len \in AskedLens
  BY DEF AskedLens
<1> QED BY <1>1, <1>2 DEF Call

\* The call that p is in.
LEMMA ThisCall ==
    ASSUME CallInv, NEW p \in Procs, pc[p] # "idle"
    PROVE  /\ call[p].op \in Op /\ call[p].file \in Files /\ call[p].len \in Nat
           /\ call[p].len \in AskedLens
           /\ call[p].op = "write" => call[p].msg \in Msg
  BY CallFacts DEF CallInv, InItsCall

LEMMA RetCodeFields ==
    ASSUME NEW c
    PROVE  RetCode(c).code = c /\ RetCode(c).data = <<>> /\ RetCode(c).revents = {}
  BY DEF RetCode, NoRet

\* A call is decided with a bare code.
LEMMA DecidesCode ==
    ASSUME NEW p \in Procs, OthersMove(p), ~Decided(p), pc'[p] \in {"ret", "unlock"},
           NEW c, c # "none", ret'[p] = RetCode(c),
           NEW op, NEW f, NEW n, call'[p].op = op, call'[p].file = f, call'[p].len = n
    PROVE  Deciding(p, Fifo!Bare(op, f, n, c)) /\ Fifo!Decide(p, Fifo!Bare(op, f, n, c))
<1> DEFINE o == Fifo!Bare(op, f, n, c)
<1>1. ret'[p].code = c /\ ret'[p].data = <<>> /\ ret'[p].revents = {}
  BY RetCodeFields
<1>2. Decided(p)'
  BY <1>1 DEF Decided
<1>3. o = [op |-> op, file |-> f, len |-> n, code |-> c, data |-> <<>>, revents |-> {}]
  BY DEF Fifo!Bare, Fifo!Outcome
<1> HIDE DEF o
<1>4. o = [op |-> call'[p].op, file |-> call'[p].file, len |-> call'[p].len,
           code |-> ret'[p].code, data |-> ret'[p].data, revents |-> ret'[p].revents]
  BY <1>1, <1>3
<1>5. Deciding(p, o)
  BY <1>2, <1>4, Decides
<1> QED BY <1>5, FifoDecides DEF o

\* A fault or a signal.
LEMMA StepFails ==
    ASSUME CallInv, NEW p \in Procs, OthersMove(p), pc[p] # "idle", ~Decided(p),
           pc'[p] \in {"ret", "unlock"}, call' = call,
           NEW c \in {"EFAULT", "ERESTARTSYS"}, ret'[p] = RetCode(c),
           Contents(ring)' = Contents(ring), advanced' = advanced
    PROVE  FifoStep
<1>1. PICK op \in {"read", "write", "poll"}, f \in Files, n \in AskedLens :
         op = call[p].op /\ f = call[p].file /\ n = call[p].len
  BY ThisCall DEF Op
<1> DEFINE o == Fifo!Bare(op, f, n, c)
<1>2. c # "none" /\ call'[p].op = op /\ call'[p].file = f /\ call'[p].len = n
  BY <1>1
<1>3. Deciding(p, o) /\ Fifo!Decide(p, o)
  BY <1>2, DecidesCode
<1>4. Fifo!Fail(p, f, n, op, c)
  BY <1>3 DEF Fifo!Fail
<1>5. FifoDecision(p, f, n)
  BY <1>1, <1>4 DEF FifoDecision
<1> HIDE DEF o
<1> QED BY <1>3, <1>5, FifoNext

\* -EAGAIN
LEMMA StepAgain ==
    ASSUME CallInv, ring \in Ring, NEW p \in Procs, OthersMove(p), pc[p] = "check",
           call[p].op \in {"read", "write"}, ~Ready(p),
           pc'[p] = "ret", call' = call, ring' = ring, ret'[p] = RetCode("EAGAIN"),
           advanced' = advanced
    PROVE  FifoStep
<1>1. PICK op \in {"read", "write"}, f \in Files, n \in AskedLens :
         op = call[p].op /\ f = call[p].file /\ n = call[p].len
  BY ThisCall
<1> DEFINE o == Fifo!Bare(op, f, n, "EAGAIN")
<1>2. \/ op = "read" /\ Contents(ring) = <<>>
      \/ op = "write" /\ Len(Contents(ring)) = NUM_OF_ITEMS
  BY <1>1, ContentsTests DEF Ready
<1>3. ~Decided(p) /\ call'[p].op = op /\ call'[p].file = f /\ call'[p].len = n
  BY <1>1 DEF Decided
<1>4. Deciding(p, o) /\ Fifo!Decide(p, o)
  BY <1>3, DecidesCode
<1>5. Contents(ring)' = Contents(ring)
  BY DEF Contents, SlotAt
<1>6. Fifo!Again(p, f, n)
  BY <1>2, <1>4, <1>5 DEF Fifo!Again
<1>7. FifoDecision(p, f, n)
  BY <1>6 DEF FifoDecision
<1> HIDE DEF o
<1> QED BY <1>4, <1>7, FifoNext

\* A call on a file that has had its transfer.
LEMMA StepSpent ==
    ASSUME CallInv, NEW p \in Procs, OthersMove(p), pc[p] = "idle", pc'[p] = "ret",
           NEW k \in CallsOf[p], call'[p] = k, k.file \in advanced,
           NEW c, (k.op = "read" /\ c = "EOF") \/ (k.op = "write" /\ c = "OK"),
           ret'[p] = RetCode(c), ring' = ring, advanced' = advanced
    PROVE  FifoStep
<1>1. PICK op \in {"read", "write"}, f \in Files, n \in AskedLens :
         op = k.op /\ f = k.file /\ n = k.len
  BY CallFacts
<1>2. ~Decided(p) /\ call'[p].op = op /\ call'[p].file = f /\ call'[p].len = n /\ c # "none"
  BY <1>1 DEF Decided
<1>3. Contents(ring)' = Contents(ring)
  BY DEF Contents, SlotAt
<1> DEFINE o == Fifo!Bare(op, f, n, c)
<1>4. Deciding(p, o) /\ Fifo!Decide(p, o)
  BY <1>2, DecidesCode
<1>5. Fifo!Spent(p, f, n)
  BY <1>1, <1>3, <1>4 DEF Fifo!Spent
<1>6. FifoDecision(p, f, n)
  BY <1>5 DEF FifoDecision
<1> HIDE DEF o
<1> QED BY <1>4, <1>6, FifoNext

\* The commit of a write puts its message at the end of the queue.
LEMMA WriteCommits ==
    ASSUME CallInv, RingLayer, NEW p \in Procs, call[p].op = "write", WriteCommit(p),
           NEW n, n = call[p].len, NEW m, m = call[p].msg, NEW w, w = [b \in 1 .. n |-> m]
    PROVE  /\ pc[p] = "commit" /\ call' = call /\ ret' = ret /\ advanced' = advanced
           /\ n \in 1 .. RW_ITEM_SIZE /\ m \in Msg /\ Len(Contents(ring)) < NUM_OF_ITEMS
           /\ Contents(ring)' = Append(Contents(ring), w)
<1>1. /\ pc[p] = "commit" /\ ring' = PutItem(ring, n) /\ call' = call /\ ret' = ret
      /\ advanced' = advanced
  BY DEF WriteCommit, fileVars
<1>2. /\ ring \in Ring /\ RingInv(ring) /\ rb_is_writable(ring)
      /\ n \in 1 .. RW_ITEM_SIZE /\ m \in Msg
      /\ \A b \in 1 .. n : ring.item[ring.wptr].buff[b] = m
  BY <1>1, ThisCall DEF RingLayer, Loaded, Ready
<1>3. Contents(ring)' = Append(Contents(ring), [b \in 1 .. n |-> m])
  <2>1. Contents(PutItem(ring, n)) = Append(Contents(ring), [b \in 1 .. n |-> m])
    BY <1>2, PutAppends
  <2>2. Contents(ring)' = Contents(PutItem(ring, n))
    BY <1>1 DEF Contents, SlotAt
  <2> QED BY <2>1, <2>2
<1>4. Contents(ring)' = Append(Contents(ring), w)
  BY <1>3
<1>5. Len(Contents(ring)) < NUM_OF_ITEMS
  BY <1>2, ContentsTests
<1> QED BY <1>1, <1>2, <1>4, <1>5

\* The commit of a read takes the oldest message, of which its caller has got
\* as much as it asked for.
LEMMA ReadCommits ==
    ASSUME CallInv, RingLayer, NEW p \in Procs, ResultExact(p), call[p].op = "read",
           ReadCommit(p), NEW n \in Nat, n = call[p].len, NEW d, d = ret[p].data
    PROVE  /\ pc[p] = "commit" /\ call' = call /\ ret' = ret /\ advanced' = advanced /\ n > 0
           /\ Contents(ring) # <<>>
           /\ Contents(ring)' = Tail(Contents(ring))
           /\ LET size == Len(Head(Contents(ring)))
              IN  d = SubSeq(Head(Contents(ring)), 1, IF size > n THEN n ELSE size)
<1>1. /\ pc[p] = "commit" /\ ring' = TakeItem(ring) /\ call' = call /\ ret' = ret
      /\ advanced' = advanced
  BY DEF ReadCommit, fileVars
<1>2. /\ ring \in Ring /\ RingInv(ring) /\ rb_is_readable(ring) /\ n > 0
  BY <1>1 DEF RingLayer, Loaded, Ready, ResultExact
<1>3. /\ Contents(ring)' = Tail(Contents(ring))
      /\ Contents(ring) # <<>>
      /\ Head(Contents(ring)) = Message(ring, ring.rptr)
  <2>1. Contents(ring)' = Contents(TakeItem(ring))
    BY <1>1 DEF Contents, SlotAt
  <2> QED BY <1>2, <2>1, TakeDropsOldest
<1>4. d = CopyToUser(ring, ReadLen(ring, n))
  BY <1>1 DEF ResultExact
<1>5. LET size == Len(Head(Contents(ring)))
      IN  d = SubSeq(Head(Contents(ring)), 1, IF size > n THEN n ELSE size)
  BY <1>2, <1>3, <1>4, CopyIsPrefix
<1> QED BY <1>1, <1>2, <1>3, <1>5

\* The commit of a write.
LEMMA StepPuts ==
    ASSUME CallInv, RingLayer, NEW p \in Procs, OthersMove(p), ResultExact(p), ResultKnown(p),
           call[p].op = "write", WriteCommit(p), pc'[p] = "unlock"
    PROVE  FifoStep
<1>1. pc[p] = "commit" /\ call' = call /\ ret' = ret /\ advanced' = advanced
  BY DEF WriteCommit, fileVars
<1>2. PICK f \in Files, n \in AskedLens, m \in Msg :
         f = call[p].file /\ n = call[p].len /\ m = call[p].msg
  BY <1>1, ThisCall
<1>3. n \in 1 .. RW_ITEM_SIZE /\ Len(Contents(ring)) < NUM_OF_ITEMS
  BY <1>2, WriteCommits
<1>4. Contents(ring)' = Append(Contents(ring), [b \in 1 .. n |-> m])
  <2>1. PICK w : w = [b \in 1 .. n |-> m]
    OBVIOUS
  <2>2. Contents(ring)' = Append(Contents(ring), w)
    BY <1>2, <2>1, WriteCommits
  <2> QED BY <2>1, <2>2
<1> DEFINE o == Fifo!Bare("write", f, n, "OK")
<1>5. Deciding(p, o)
  <2>1. o = [op |-> "write", file |-> f, len |-> n, code |-> "OK", data |-> <<>>, revents |-> {}]
    BY DEF Fifo!Bare, Fifo!Outcome
  <2>2. /\ ret'[p].code = "OK" /\ ret'[p].data = <<>> /\ ret'[p].revents = {}
        /\ call'[p].op = "write" /\ call'[p].file = f /\ call'[p].len = n
    BY <1>1, <1>2 DEF ResultExact, ResultKnown
  <2> HIDE DEF o
  <2>3. o = [op |-> call'[p].op, file |-> call'[p].file, len |-> call'[p].len,
             code |-> ret'[p].code, data |-> ret'[p].data, revents |-> ret'[p].revents]
    BY <2>1, <2>2
  <2>4. ~Decided(p) /\ Decided(p)'
    BY <1>1, <2>2 DEF Decided
  <2> QED BY <2>3, <2>4, Decides
<1>6. Fifo!Decide(p, o)
  BY <1>5, FifoDecides
<1>7. Fifo!Put(p, f, m, n)
  BY <1>1, <1>3, <1>4, <1>6 DEF Fifo!Put
<1>8. FifoDecision(p, f, n)
  BY <1>7 DEF FifoDecision
<1> HIDE DEF o
<1> QED BY <1>5, <1>8, FifoNext

\* The commit of a read.
LEMMA StepGets ==
    ASSUME CallInv, RingLayer, NEW p \in Procs, OthersMove(p), ResultExact(p), ResultKnown(p),
           call[p].op = "read", ReadCommit(p), pc'[p] = "unlock"
    PROVE  FifoStep
<1>1. pc[p] = "commit" /\ call' = call /\ ret' = ret /\ advanced' = advanced
  BY DEF ReadCommit, fileVars
<1>2. PICK f \in Files, n \in AskedLens :
         f = call[p].file /\ n = call[p].len /\ n \in Nat
  BY <1>1, ThisCall
<1>3. PICK d : d = ret[p].data
  OBVIOUS
<1>4. n > 0 /\ Contents(ring)' = Tail(Contents(ring)) /\ Contents(ring) # <<>>
  BY <1>2, <1>3, ReadCommits
<1>5. LET size == Len(Head(Contents(ring)))
      IN  d = SubSeq(Head(Contents(ring)), 1, IF size > n THEN n ELSE size)
  BY <1>2, <1>3, ReadCommits
<1> DEFINE o == Fifo!Outcome("read", f, n, "OK", d, {})
<1>6. Deciding(p, o)
  <2>1. o = [op |-> "read", file |-> f, len |-> n, code |-> "OK", data |-> d, revents |-> {}]
    BY DEF Fifo!Outcome
  <2>2. /\ ret'[p].code = "OK" /\ ret'[p].data = d /\ ret'[p].revents = {}
        /\ call'[p].op = "read" /\ call'[p].file = f /\ call'[p].len = n
    BY <1>1, <1>2, <1>3 DEF ResultExact, ResultKnown
  <2> HIDE DEF o
  <2>3. o = [op |-> call'[p].op, file |-> call'[p].file, len |-> call'[p].len,
             code |-> ret'[p].code, data |-> ret'[p].data, revents |-> ret'[p].revents]
    BY <2>1, <2>2
  <2>4. ~Decided(p) /\ Decided(p)'
    BY <1>1, <2>2 DEF Decided
  <2> QED BY <2>3, <2>4, Decides
<1>7. Fifo!Decide(p, o)
  BY <1>6, FifoDecides
<1>8. Fifo!Get(p, f, n)
  <2> DEFINE size == Len(Head(Contents(ring)))
             got == SubSeq(Head(Contents(ring)), 1, IF size > n THEN n ELSE size)
  <2>1. d = got
    BY <1>5
  <2> HIDE DEF got
  <2>2. Fifo!Decide(p, Fifo!Outcome("read", f, n, "OK", got, {}))
    BY <1>7, <2>1 DEF Fifo!Decide
  <2> QED BY <1>1, <1>4, <2>2 DEF Fifo!Get, got
<1>9. FifoDecision(p, f, n)
  BY <1>8 DEF FifoDecision
<1> HIDE DEF o
<1> QED BY <1>6, <1>9, FifoNext

\* A poll that has found events.
LEMMA StepPolls ==
    ASSUME CallInv, ring \in Ring, NEW p \in Procs, OthersMove(p), call[p].op = "poll",
           ret \in [Procs -> Ret], ret[p] = NoRet, PollCheck(p), pc'[p] = "unlock"
    PROVE  FifoStep
<1>1. /\ pc[p] = "mask" /\ call' = call /\ ring' = ring /\ advanced' = advanced
  BY DEF PollCheck, fileVars
<1>2. Contents(ring)' = Contents(ring)
  BY <1>1 DEF Contents, SlotAt
<1>3. PICK f \in Files, n \in AskedLens :
         f = call[p].file /\ n = call[p].len
  BY <1>1, ThisCall
<1>4. PICK events : events = PollMask(ring) \cap call[p].events
  OBVIOUS
<1>5. /\ events \in SUBSET {"IN", "OUT"}
      /\ "IN" \in events => Contents(ring) # <<>>
      /\ "OUT" \in events => Len(Contents(ring)) < NUM_OF_ITEMS
  BY <1>4, ContentsTests DEF PollMask, Event
<1>6. CASE events = {}
  <2>1. ret' = ret
    BY <1>4, <1>6 DEF PollCheck
  <2>2. ~Decided(p) /\ ~Decided(p)'
    BY <1>1, <2>1 DEF Decided, NoRet
  <2> QED BY <1>1, <1>2, <2>2, QuietUndecided
<1>7. CASE events # {}
  <2> DEFINE o == Fifo!Outcome("poll", f, n, "OK", <<>>, events)
  <2>1. ret'[p].code = "OK" /\ ret'[p].data = <<>> /\ ret'[p].revents = events
    <3>1. ret' = [ret EXCEPT ![p].code = "OK", ![p].revents = events]
      BY <1>4, <1>7 DEF PollCheck
    <3>2. ret' = [ret EXCEPT ![p] = [[ret[p] EXCEPT !.code = "OK"] EXCEPT !.revents = events]]
      BY <3>1
    <3>3. ret'[p] = [code |-> "OK", data |-> ret[p].data, revents |-> events]
      BY <3>2 DEF Ret
    <3> QED BY <3>3 DEF NoRet
  <2>2. Deciding(p, o)
    <3>1. o = [op |-> "poll", file |-> f, len |-> n, code |-> "OK", data |-> <<>>, revents |-> events]
      BY DEF Fifo!Bare, Fifo!Outcome
    <3>2. call'[p].op = "poll" /\ call'[p].file = f /\ call'[p].len = n
      BY <1>1, <1>3
    <3> HIDE DEF o
    <3>3. o = [op |-> call'[p].op, file |-> call'[p].file, len |-> call'[p].len,
               code |-> ret'[p].code, data |-> ret'[p].data, revents |-> ret'[p].revents]
      BY <2>1, <3>1, <3>2
    <3>4. ~Decided(p) /\ Decided(p)'
      BY <1>1, <2>1 DEF Decided
    <3> QED BY <3>3, <3>4, Decides
  <2>3. Fifo!Decide(p, o)
    BY <2>2, FifoDecides
  <2>4. Fifo!Poll(p, f, n, events)
    BY <1>1, <1>2, <1>5, <1>7, <2>3 DEF Fifo!Poll
  <2>5. FifoDecision(p, f, n)
    BY <1>5, <2>4 DEF FifoDecision
  <2> HIDE DEF o
  <2> QED BY <2>2, <2>5, FifoNext
<1> QED BY <1>6, <1>7

\* The call returns, and f_pos moves.
LEMMA StepReturns ==
    ASSUME LockInv, CallInv, RetInv, NEW p \in Procs, OthersMove(p), Return(p)
    PROVE  FifoStep
<1>1. /\ pc[p] = "ret" /\ ring' = ring
      /\ advanced' = IF ret[p].code = "OK" /\ call[p].op # "poll"
                     THEN advanced \cup {call[p].file} ELSE advanced
      /\ ret' = [ret EXCEPT ![p] = NoRet]
  BY DEF Return
<1>2. Contents(ring)' = Contents(ring)
  BY <1>1 DEF Contents, SlotAt
<1>3. ~Decided(p)'
  <2>1. pc'[p] = "idle"
    BY DEF Return, Goto, LockInv, LockTypeOK
  <2> QED BY <2>1 DEF Decided
<1>4. CASE ret[p].code = "none"
  <2>1. ~Decided(p) /\ advanced' = advanced
    BY <1>1, <1>4 DEF Decided
  <2> QED BY <1>2, <1>3, <2>1, QuietUndecided
<1>5. CASE ret[p].code # "none"
  <2>1. Decided(p)
    BY <1>1, <1>5 DEF Decided
  <2>2. Outs' = [Outs EXCEPT ![p] = NoOutcome]
    <3>1. \A q \in Procs \ {p} : Outs'[q] = Outs[q]
      BY OthersOuts
    <3>2. Outs'[p] = NoOutcome
      BY <1>3 DEF Outs
    <3> QED BY <3>1, <3>2 DEF Outs
  <2>3. Outs[p] = [op |-> call[p].op, file |-> call[p].file, len |-> call[p].len,
                   code |-> ret[p].code, data |-> ret[p].data, revents |-> ret[p].revents]
    BY <2>1 DEF Outs
  <2>4. Outs[p] # NoOutcome
    BY <1>5, <2>3 DEF NoOutcome
  <2>5. advanced' = IF Outs[p].code = "OK" /\ Outs[p].op # "poll"
                    THEN advanced \cup {Outs[p].file} ELSE advanced
    BY <1>1, <2>3
  <2>6. Fifo!Finish(p)
    BY <1>2, <2>2, <2>4, <2>5 DEF Fifo!Finish, Fifo!None, NoOutcome, Outs
  <2> QED BY <2>6 DEF Fifo!Next, FifoStep
<1> QED BY <1>4, <1>5

-----------------------------------------------------------------------------
(* Every step of ChoenDev is a step of FifoDevice, or none of its business *)

\* The steps that neither touch the ring nor decide anything.
LEMMA LoopRefines ==
    ASSUME FifoInv, NEW p \in Procs, LoopStep(p), OthersMove(p)
    PROVE  FifoStep
<1>0. /\ pc \in [Procs -> PC] /\ ret \in [Procs -> Ret] /\ LockInv /\ CallInv /\ ResultKnown(p)
      /\ ring \in Ring
  BY DEF FifoInv, LockInv, LockTypeOK, RetInv, RingLayer
<1>1. ring' = ring /\ call' = call /\ advanced' = advanced
  BY DEF LoopStep, CheckReady, UnlockAfterCopy, PrepareToWait, WaitCondition, WakeFromWait, fileVars
<1>2. Contents(ring)' = Contents(ring)
  BY <1>1 DEF Contents, SlotAt
<1>3. CASE UnlockAfterCopy(p)
  <2>1. /\ pc[p] = "unlock" /\ ret' = ret /\ pc'[p] \in {"wake", "ret"}
    BY <1>0, <1>3, UnlockMoves DEF UnlockAfterCopy
  <2>2. ret[p].code # "none"
    BY <1>0, <2>1 DEF ResultKnown, LoopStep
  <2>3. Decided(p) /\ Decided(p)'
    BY <2>1, <2>2 DEF Decided
  <2> QED BY <1>1, <1>2, <2>1, <2>3, QuietDecided
<1>4. CASE ~UnlockAfterCopy(p)
  <2>1. /\ pc[p] \in {"check", "prepare", "cond", "asleep"}
        /\ \/ /\ pc[p] = "check" /\ ~Ready(p) /\ rb_unlock(p, "ret")
              /\ ret' = [ret EXCEPT ![p] = RetCode("EAGAIN")]
           \/ rb_unlock(p, "prepare")
           \/ \E n \in {"copy", "cond", "down", "asleep", "prepare"} : pc' = [pc EXCEPT ![p] = n]
    BY <1>4 DEF LoopStep, CheckReady, PrepareToWait, WaitCondition, WakeFromWait, Goto
  <2>2. CASE /\ pc[p] = "check" /\ ~Ready(p) /\ rb_unlock(p, "ret")
             /\ ret' = [ret EXCEPT ![p] = RetCode("EAGAIN")]
    <3>1. pc'[p] = "ret" /\ ret'[p] = RetCode("EAGAIN")
      BY <1>0, <2>2, UnlockMoves
    <3>2. call[p].op \in {"read", "write"}
      BY DEF LoopStep
    <3> QED BY <1>0, <1>1, <2>2, <3>1, <3>2, StepAgain
  <2>3. CASE \/ rb_unlock(p, "prepare")
             \/ \E n \in {"copy", "cond", "down", "asleep", "prepare"} : pc' = [pc EXCEPT ![p] = n]
    <3>1. pc'[p] \in {"copy", "cond", "down", "asleep", "prepare"}
      BY <1>0, <2>1, <2>3, UnlockMoves
    <3>2. ~Decided(p) /\ ~Decided(p)'
      BY <2>1, <3>1 DEF Decided
    <3> QED BY <1>1, <1>2, <3>2, QuietUndecided
  <2> QED BY <2>1, <2>2, <2>3
<1> QED BY <1>3, <1>4

\* The copies: nothing becomes visible before the commit.
LEMMA CopyIsInvisible ==
    ASSUME FifoInv, NEW p \in Procs,
           \/ call[p].op = "read" /\ ReadCopy(p)
           \/ call[p].op = "write" /\ WriteCopy(p)
    PROVE  Contents(ring)' = Contents(ring)
<1>0. /\ CallInv /\ ring \in Ring /\ RingInv(ring) /\ Loaded(p) /\ pc[p] = "copy"
  BY CopyReports DEF FifoInv, RingLayer
<1>1. CASE ring' = ring
  BY <1>1 DEF Contents, SlotAt
<1>2. CASE call[p].op = "write" /\ WriteCopy(p) /\ ring' # ring
  <2>1. PICK n \in Nat : ring' = CopyFromUser(ring, call[p].msg, call[p].len, n)
    <3>1. call[p].len \in Nat
      BY <1>0, ThisCall
    <3> QED BY <1>2, <3>1 DEF WriteCopy
  <2>2. call[p].len \in Nat /\ call[p].msg \in Byte /\ rb_is_writable(ring)
    BY <1>0, <1>2, ThisCall DEF Loaded, Ready, Byte
  <2>3. Contents(CopyFromUser(ring, call[p].msg, call[p].len, n)) = Contents(ring)
    BY <1>0, <2>2, CopyLeavesContents
  <2>4. Contents(ring)' = Contents(CopyFromUser(ring, call[p].msg, call[p].len, n))
    BY <2>1 DEF Contents, SlotAt
  <2> QED BY <2>3, <2>4
<1>3. CASE call[p].op = "read" /\ ReadCopy(p)
  BY <1>1, <1>3 DEF ReadCopy
<1> QED BY <1>1, <1>2, <1>3

LEMMA CopyRefines ==
    ASSUME FifoInv, NEW p \in Procs, OthersMove(p),
           \/ call[p].op = "read" /\ ReadCopy(p)
           \/ call[p].op = "write" /\ WriteCopy(p)
    PROVE  FifoStep
<1>0. CallInv
  BY DEF FifoInv
<1>1. /\ pc[p] = "copy" /\ call' = call /\ advanced' = advanced
      /\ \/ pc'[p] = "commit"
         \/ pc'[p] = "unlock" /\ ret'[p] = RetCode("EFAULT")
  BY CopyReports
<1>2. Contents(ring)' = Contents(ring)
  BY CopyIsInvisible
<1>3. ~Decided(p)
  BY <1>1 DEF Decided
<1>4. CASE pc'[p] = "commit"
  <2>1. ~Decided(p)'
    BY <1>4 DEF Decided
  <2> QED BY <1>1, <1>2, <1>3, <2>1, QuietUndecided
<1>5. CASE pc'[p] = "unlock" /\ ret'[p] = RetCode("EFAULT")
  BY <1>0, <1>1, <1>2, <1>3, <1>5, StepFails
<1> QED BY <1>1, <1>4, <1>5

LEMMA ReadWriteRefines ==
    ASSUME FifoInv, NEW p \in Procs, ReadStep(p) \/ WriteStep(p), OthersMove(p)
    PROVE  FifoStep
<1>0. /\ pc \in [Procs -> PC] /\ CallInv /\ RingLayer /\ ResultExact(p) /\ ResultKnown(p)
  BY DEF FifoInv, LockInv, LockTypeOK, RetInv, ExactInv
<1>1. CASE (ReadStep(p) /\ ReadCopy(p)) \/ (WriteStep(p) /\ WriteCopy(p))
  BY <1>1, CopyRefines DEF ReadStep, WriteStep
<1>2. CASE ReadStep(p) /\ ReadCommit(p)
  <2>1. pc'[p] = "unlock" /\ call[p].op = "read"
    BY <1>0, <1>2 DEF ReadStep, ReadCommit, Goto
  <2> QED BY <1>0, <1>2, <2>1, StepGets
<1>3. CASE WriteStep(p) /\ WriteCommit(p)
  <2>1. pc'[p] = "unlock" /\ call[p].op = "write"
    BY <1>0, <1>3 DEF WriteStep, WriteCommit, Goto
  <2> QED BY <1>0, <1>3, <2>1, StepPuts
<1>4. CASE ReadNotify(p) \/ WriteNotify(p) \/ WriteSigio(p)
  <2>1. /\ pc[p] \in {"wake", "sigio"} /\ pc'[p] \in {"sigio", "ret"}
        /\ ring' = ring /\ call' = call /\ ret' = ret /\ advanced' = advanced
    BY <1>0, <1>4 DEF ReadNotify, WriteNotify, WriteSigio, Goto, fileVars
  <2>2. Decided(p) /\ Decided(p)'
    BY <1>0, <2>1 DEF Decided, ResultKnown
  <2>3. Contents(ring)' = Contents(ring)
    BY <2>1 DEF Contents, SlotAt
  <2> QED BY <2>1, <2>2, <2>3, QuietDecided
<1>5. ReadStep(p) => ReadCopy(p) \/ ReadCommit(p) \/ ReadNotify(p)
  BY DEF ReadStep
<1>6. WriteStep(p) => WriteCopy(p) \/ WriteCommit(p) \/ WriteNotify(p) \/ WriteSigio(p)
  BY DEF WriteStep
<1>7. CASE ReadStep(p)
  BY <1>1, <1>2, <1>4, <1>5, <1>7
<1>8. CASE WriteStep(p)
  BY <1>1, <1>3, <1>4, <1>6, <1>8
<1> QED BY <1>7, <1>8

LEMMA PollRefines ==
    ASSUME FifoInv, NEW p \in Procs, PollStep(p), OthersMove(p)
    PROVE  FifoStep
<1>0. /\ pc \in [Procs -> PC] /\ ret \in [Procs -> Ret] /\ LockInv /\ CallInv /\ ResultKnown(p)
      /\ ring \in Ring /\ call[p].op = "poll"
  BY DEF FifoInv, LockInv, LockTypeOK, RetInv, RingLayer, PollStep
<1>1. ring' = ring /\ call' = call /\ advanced' = advanced
  BY DEF PollStep, PollWait, PollCheck, PollUnlock, PollWake, fileVars
<1>2. Contents(ring)' = Contents(ring)
  BY <1>1 DEF Contents, SlotAt
<1>3. CASE PollWait(p) \/ PollWake(p)
  <2>1. pc[p] \in {"poll_rd", "poll_wr", "poll_sleep"} /\ pc'[p] \in {"poll_wr", "down"}
    BY <1>0, <1>3 DEF PollWait, PollWake, Goto
  <2>2. ~Decided(p) /\ ~Decided(p)'
    BY <2>1 DEF Decided
  <2> QED BY <1>1, <1>2, <2>2, QuietUndecided
<1>4. CASE PollCheck(p)
  <2>1. pc[p] = "mask" /\ pc'[p] = "unlock"
    BY <1>0, <1>4 DEF PollCheck, Goto
  <2>2. ret[p] = NoRet
    BY <1>0, <2>1 DEF ResultKnown
  <2> QED BY <1>0, <1>4, <2>1, <2>2, StepPolls
<1>5. CASE PollUnlock(p)
  <2>1. /\ pc[p] = "unlock" /\ ret' = ret
        /\ pc'[p] = IF ret[p].code = "OK" THEN "ret" ELSE "poll_sleep"
    BY <1>0, <1>5, UnlockMoves DEF PollUnlock
  <2>2. CASE ret[p].code = "OK"
    <3>1. Decided(p) /\ Decided(p)'
      BY <2>1, <2>2 DEF Decided
    <3> QED BY <1>1, <1>2, <2>1, <3>1, QuietDecided
  <2>3. CASE ret[p].code # "OK"
    <3>1. ret[p].code = "none"
      BY <1>0, <2>1, <2>3 DEF ResultKnown, NoRet
    <3>2. ~Decided(p) /\ ~Decided(p)'
      BY <2>1, <3>1 DEF Decided
    <3> QED BY <1>1, <1>2, <3>2, QuietUndecided
  <2> QED BY <2>2, <2>3
<1> QED BY <1>3, <1>4, <1>5 DEF PollStep

LEMMA SignalRefines ==
    ASSUME FifoInv, NEW p \in Procs, OthersMove(p),
           \/ rb_lock(p) \/ LockInterrupted(p) \/ WaitInterrupted(p) \/ PollInterrupted(p)
    PROVE  FifoStep
<1>0. pc \in [Procs -> PC] /\ ret \in [Procs -> Ret] /\ CallInv
  BY DEF FifoInv, LockInv, LockTypeOK, RetInv
<1>1. /\ ring' = ring /\ call' = call /\ advanced' = advanced
      /\ pc[p] \in {"down", "sem_wait", "cond", "asleep", "poll_sleep"}
      /\ \/ pc'[p] \in {"check", "mask", "sem_wait", "down"}
         \/ pc'[p] = "ret" /\ ret'[p] = RetCode("ERESTARTSYS")
  BY <1>0 DEF rb_lock, LockInterrupted, WaitInterrupted, PollInterrupted, Goto, AfterDown, fileVars
<1>2. Contents(ring)' = Contents(ring)
  BY <1>1 DEF Contents, SlotAt
<1>3. ~Decided(p) /\ pc[p] # "idle"
  BY <1>1 DEF Decided
<1>4. CASE pc'[p] \in {"check", "mask", "sem_wait", "down"}
  <2>1. ~Decided(p)'
    BY <1>4 DEF Decided
  <2> QED BY <1>1, <1>2, <1>3, <2>1, QuietUndecided
<1>5. CASE pc'[p] = "ret" /\ ret'[p] = RetCode("ERESTARTSYS")
  BY <1>0, <1>1, <1>2, <1>3, <1>5, StepFails
<1> QED BY <1>1, <1>4, <1>5

LEMMA EnterRefines ==
    ASSUME FifoInv, NEW p \in Procs, EnterStep(p), OthersMove(p)
    PROVE  FifoStep
<1>0. pc \in [Procs -> PC] /\ ret \in [Procs -> Ret] /\ CallInv /\ DOMAIN call = Procs
  BY DEF FifoInv, LockInv, LockTypeOK, RetInv, CallInv, CallTypeOK
<1>1. PICK k \in CallsOf[p] : ReadEnter(p, k) \/ WriteEnter(p, k) \/ PollEnter(p, k)
  BY DEF EnterStep
<1>2. ring' = ring /\ advanced' = advanced /\ pc[p] = "idle" /\ call'[p] = k
  BY <1>0, <1>1 DEF ReadEnter, WriteEnter, PollEnter, Enter, fileVars
<1>3. CASE k.file \in advanced /\ (ReadEnter(p, k) \/ WriteEnter(p, k))
  <2>1. pc'[p] = "ret"
    BY <1>0, <1>3 DEF ReadEnter, WriteEnter, Goto
  <2>2. CASE ReadEnter(p, k)
    <3>1. PICK c \in {"EOF"} : k.op = "read" /\ ret'[p] = RetCode(c)
      BY <1>0, <1>3, <2>2 DEF ReadEnter, Enter
    <3>2. (k.op = "read" /\ c = "EOF") \/ (k.op = "write" /\ c = "OK")
      BY <3>1
    <3> QED BY <1>0, <1>2, <1>3, <2>1, <3>1, <3>2, StepSpent
  <2>3. CASE WriteEnter(p, k)
    <3>1. PICK c \in {"OK"} : k.op = "write" /\ ret'[p] = RetCode(c)
      BY <1>0, <1>3, <2>3 DEF WriteEnter, Enter
    <3>2. (k.op = "read" /\ c = "EOF") \/ (k.op = "write" /\ c = "OK")
      BY <3>1
    <3> QED BY <1>0, <1>2, <1>3, <2>1, <3>1, <3>2, StepSpent
  <2> QED BY <1>3, <2>2, <2>3
<1>4. CASE ~(k.file \in advanced /\ (ReadEnter(p, k) \/ WriteEnter(p, k)))
  <2>1. pc'[p] \in {"down", "poll_rd"}
    BY <1>0, <1>1, <1>4 DEF ReadEnter, WriteEnter, PollEnter, Goto
  <2>2. ~Decided(p) /\ ~Decided(p)'
    BY <1>2, <2>1 DEF Decided
  <2>3. Contents(ring)' = Contents(ring)
    BY <1>2 DEF Contents, SlotAt
  <2> QED BY <1>2, <2>2, <2>3, QuietUndecided
<1> QED BY <1>3, <1>4

LEMMA ProcRefines ==
    ASSUME FifoInv, NEW p \in Procs, Step(p) \/ UserStep(p)
    PROVE  FifoStep
<1>1. OthersMove(p)
  BY Frame DEF FifoInv, CallInv
<1>2. CASE Return(p)
  BY <1>1, <1>2, StepReturns DEF FifoInv
<1> QED BY <1>1, <1>2, LoopRefines, ReadWriteRefines, PollRefines, SignalRefines, EnterRefines,
           StepCases

LEMMA FileRefines ==
    ASSUME NEW f \in Files, FileStep(f)
    PROVE  FifoStep
<1>1. UNCHANGED <<ring, pc, call, ret>> /\ (advanced' = advanced \/ advanced' = advanced \ {f})
  BY FileStepLeaves
<1>2. Contents(ring)' = Contents(ring) /\ Outs' = Outs
  BY <1>1 DEF Contents, SlotAt, Outs, Decided
<1>3. CASE advanced' = advanced
  BY <1>2, <1>3, FifoStutters
<1>4. CASE advanced' = advanced \ {f}
  <2>1. Fifo!Reopen(f)
    BY <1>2, <1>4 DEF Fifo!Reopen, Outs
  <2> QED BY <2>1 DEF Fifo!Next, FifoStep
<1> QED BY <1>1, <1>3, <1>4

LEMMA FifoInit == Init => Fifo!Init
<1> SUFFICES ASSUME Init PROVE Fifo!Init
  OBVIOUS
<1>1. Contents(ring) = <<>>
  <2>1. ring \in Ring /\ ring.load_cnt = 0
    BY InitRing DEF Init, rb_init
  <2> QED BY <2>1, ContentsTests DEF rb_is_readable
<1> QED BY <1>1 DEF Init, Fifo!Init, Decided, Fifo!None, NoOutcome

LEMMA FifoRefines ==
    LockInv /\ CallInv /\ RingLayer /\ RetInv /\ ExactInv /\ [Next]_vars
       => [Fifo!Next]_Fifo!vars
<1> SUFFICES ASSUME FifoInv, [Next]_vars
             PROVE  FifoStep
  BY DEF FifoInv, FifoStep
<1>1. CASE UNCHANGED vars
  <2>1. Contents(ring)' = Contents(ring) /\ Outs' = Outs /\ advanced' = advanced
    BY <1>1 DEF vars, Contents, SlotAt, Outs, Decided
  <2> QED BY <2>1, FifoStutters
<1> QED BY <1>1, ProcRefines, FileRefines DEF Next

\* choen_read, choen_write and choen_poll, with their locking, waiting,
\* faults and signals, are the operations of a bounded queue of messages:
\* every call takes effect at one instant between its begin and its end.
THEOREM ImplementsFifoHolds == Spec => ImplementsFifo
<1>1. Init => Fifo!Init
  BY FifoInit
<1>2. LockInv /\ CallInv /\ RingLayer /\ RetInv /\ ExactInv /\ [Next]_vars => [Fifo!Next]_Fifo!vars
  BY FifoRefines
<1> QED BY <1>1, <1>2, LockInvariant, CallInvariant, RingInvariant, RetInvariant, ExactInvariant, PTL
   DEF Spec, ImplementsFifo, Fifo!Spec
=============================================================================
