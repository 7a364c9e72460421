------------------------------ MODULE ChoenDev ------------------------------
(***************************************************************************)
(* One character device of choen_rwnonblocking: the ring buffer with its   *)
(* semaphore, the two wait queues, the list of files that asked for SIGIO, *)
(* and the system calls in progress on it.  Each process is at most in one *)
(* call; pc says which statement of the handler it executes next.  A step  *)
(* of a process ends where another process can see or influence what       *)
(* follows: at a semaphore operation, an unlocked read of load_cnt, a      *)
(* wait queue operation, a copy to or from user memory.                    *)
(***************************************************************************)
EXTENDS ChoenRing, SequencesExt

CONSTANTS
    Procs,          \* the user processes (threads)
    Files,          \* the open file descriptions of the device
    NonblockFiles,  \* those whose f_flags have O_NONBLOCK
    AsyncFiles,     \* those whose owner may switch FASYNC on
    CallsOf,        \* CallsOf[p]: the calls process p may issue
    NoFile          \* the file of a process that is in no call

Op == {"read", "write", "poll"}
Event == {"IN", "OUT"}
Code == {"none", "OK", "EOF", "EAGAIN", "EFAULT", "ERESTARTSYS"}

\* A system call and its arguments: len of a read, len and msg of a write,
\* the events a poll waits for.
Call == [op : Op, file : Files, len : Nat, msg : Byte, events : SUBSET Event]
NoCall == [op |-> "none", file |-> NoFile, len |-> 0, msg |-> Zero, events |-> {}]

\* What the call hands back: the bytes of a read, the events of a poll.
Ret == [code : Code, data : Seq(Byte), revents : SUBSET Event]
NoRet == [code |-> "none", data |-> <<>>, revents |-> {}]
RetCode(c) == [NoRet EXCEPT !.code = c]

ASSUME DevAssumption ==
    /\ NonblockFiles \subseteq Files
    /\ AsyncFiles \subseteq Files
    /\ NoFile \notin Files
    /\ CallsOf \in [Procs -> SUBSET Call]
    /\ \A p \in Procs : \A c \in CallsOf[p] : c.op = "write" => c.msg \in Msg

VARIABLES
    ring,       \* p_dev->ring_buff, without sem
    sem_count,  \* ring_buff.sem.count
    sem_wait,   \* ring_buff.sem.wait_list, first in first out
    rd_wq,      \* p_dev->rd_wq: the processes entered in it
    wr_wq,      \* p_dev->wr_wq
    woken,      \* waiters a wake-up has marked runnable
    async,      \* p_dev->async: files that get SIGIO
    sigio,      \* files whose owner has a SIGIO pending (signals coalesce)
    opened,     \* the files that are open
    advanced,   \* the open files whose f_pos is greater than 0
    pc,         \* pc[p]: next statement of the handler p is in
    call,       \* call[p]: the call p is in
    ret         \* ret[p]: its result, once known

vars == <<ring, sem_count, sem_wait, rd_wq, wr_wq, woken, async, sigio,
          opened, advanced, pc, call, ret>>

semVars == <<sem_count, sem_wait>>
waitVars == <<rd_wq, wr_wq, woken>>
fileVars == <<async, sigio, opened, advanced>>

PC == {"idle", "poll_rd", "poll_wr", "down", "sem_wait", "check", "mask",
       "copy", "commit", "unlock", "prepare", "cond", "asleep", "poll_sleep",
       "wake", "sigio", "ret"}

\* Between rb_lock and rb_unlock.
InCS(p) == pc[p] \in {"check", "mask", "copy", "commit", "unlock"}

Goto(p, next) == pc' = [pc EXCEPT ![p] = next]

Init ==
    /\ ring = rb_init
    /\ sem_count = 1
    /\ sem_wait = <<>>
    /\ rd_wq = {} /\ wr_wq = {} /\ woken = {}
    /\ async = {} /\ sigio = {}
    /\ opened = {} /\ advanced = {}
    /\ pc = [p \in Procs |-> "idle"]
    /\ call = [p \in Procs |-> NoCall]
    /\ ret = [p \in Procs |-> NoRet]

-----------------------------------------------------------------------------
(* rb_lock and rb_unlock: down_interruptible and up of a kernel semaphore. *)

\* Where a call goes on once it holds the semaphore.
AfterDown(p) == IF call[p].op = "poll" THEN "mask" ELSE "check"

rb_lock(p) ==
    /\ pc[p] = "down"
    /\ \/ /\ sem_count > 0
          /\ sem_count' = sem_count - 1
          /\ Goto(p, AfterDown(p))
          /\ UNCHANGED sem_wait
       \/ /\ sem_count = 0
          /\ sem_wait' = Append(sem_wait, p)
          /\ Goto(p, "sem_wait")
          /\ UNCHANGED sem_count
    /\ UNCHANGED <<ring, waitVars, fileVars, call, ret>>

\* Mutant: the result of down_interruptible is not looked at.
LockInterruptedIgnored(p) ==
    /\ pc[p] = "sem_wait"
    /\ \E i \in 1 .. Len(sem_wait) :
          /\ sem_wait[i] = p
          /\ sem_wait' = RemoveAt(sem_wait, i)
    /\ Goto(p, AfterDown(p))
    /\ UNCHANGED <<ring, sem_count, waitVars, fileVars, call, ret>>

\* A signal ends the wait for the semaphore: -ERESTARTSYS.
LockInterrupted(p) ==
    /\ pc[p] = "sem_wait"
    /\ \E i \in 1 .. Len(sem_wait) :
          /\ sem_wait[i] = p
          /\ sem_wait' = RemoveAt(sem_wait, i)
    /\ ret' = [ret EXCEPT ![p] = RetCode("ERESTARTSYS")]
    /\ Goto(p, "ret")
    /\ UNCHANGED <<ring, sem_count, waitVars, fileVars, call>>

\* Mutant: up forgets the processes on the wait list.
rb_unlockNoHandOff(p, next) ==
    /\ sem_count' = 1
    /\ Goto(p, next)
    /\ UNCHANGED sem_wait

\* up: the semaphore goes straight to the process that waits longest; p
\* itself goes on at next.
rb_unlock(p, next) ==
    IF sem_wait = <<>>
    THEN /\ sem_count' = sem_count + 1
         /\ Goto(p, next)
         /\ UNCHANGED sem_wait
    ELSE /\ sem_wait' = Tail(sem_wait)
         /\ pc' = [pc EXCEPT ![p] = next,
                             ![Head(sem_wait)] = AfterDown(Head(sem_wait))]
         /\ UNCHANGED sem_count

-----------------------------------------------------------------------------
(* Wait queues: wait_event_interruptible and wake_up_interruptible. *)

\* The condition the loop of choen_read, respectively choen_write, waits for.
Ready(p) == IF call[p].op = "read" THEN rb_is_readable(ring) ELSE rb_is_writable(ring)

Dequeue(p) ==
    /\ rd_wq' = rd_wq \ {p}
    /\ wr_wq' = wr_wq \ {p}
    /\ woken' = woken \ {p}

\* prepare_to_wait: enter the queue, marked asleep, before the condition is
\* looked at.
PrepareToWait(p) ==
    /\ pc[p] = "prepare"
    /\ rd_wq' = IF call[p].op = "read" THEN rd_wq \cup {p} ELSE rd_wq
    /\ wr_wq' = IF call[p].op = "write" THEN wr_wq \cup {p} ELSE wr_wq
    /\ woken' = woken \ {p}
    /\ Goto(p, "cond")
    /\ UNCHANGED <<ring, semVars, fileVars, call, ret>>

\* The condition is read without the semaphore.
WaitCondition(p) ==
    /\ pc[p] = "cond"
    /\ IF Ready(p)
       THEN Goto(p, "down") /\ Dequeue(p)
       ELSE Goto(p, "asleep") /\ UNCHANGED waitVars
    /\ UNCHANGED <<ring, semVars, fileVars, call, ret>>

\* A woken process goes round the loop of wait_event again.
WakeFromWait(p) ==
    /\ pc[p] = "asleep"
    /\ p \in woken
    /\ Goto(p, "prepare")
    /\ UNCHANGED <<ring, semVars, waitVars, fileVars, call, ret>>

\* A signal ends the wait with -ERESTARTSYS, unless the condition holds.
WaitInterrupted(p) ==
    /\ pc[p] \in {"cond", "asleep"}
    /\ Dequeue(p)
    /\ IF Ready(p)
       THEN Goto(p, "down") /\ UNCHANGED ret
       ELSE /\ Goto(p, "ret")
            /\ ret' = [ret EXCEPT ![p] = RetCode("ERESTARTSYS")]
    /\ UNCHANGED <<ring, semVars, fileVars, call>>

\* Mutant: one waiter is woken, not all of them.
wake_upOne(wq) ==
    IF wq = {} THEN UNCHANGED woken ELSE \E p \in wq : woken' = woken \cup {p}

wake_up(wq) == woken' = woken \cup wq

-----------------------------------------------------------------------------
(* choen_read and choen_write: what the two loops share. *)

\* Mutant: the two ways out of the loop keep the semaphore.
CheckReadyKeepLock(p) ==
    /\ pc[p] = "check"
    /\ \/ Ready(p) /\ Goto(p, "copy") /\ UNCHANGED ret
       \/ /\ ~Ready(p)
          /\ call[p].file \in NonblockFiles
          /\ Goto(p, "ret")
          /\ ret' = [ret EXCEPT ![p] = RetCode("EAGAIN")]
       \/ ~Ready(p) /\ call[p].file \notin NonblockFiles /\ Goto(p, "prepare") /\ UNCHANGED ret
    /\ UNCHANGED <<ring, semVars, waitVars, fileVars, call>>

\* The top of the loop, semaphore held: go on to the copy, or release the
\* semaphore and give up (-EAGAIN) or wait.
CheckReady(p) ==
    /\ pc[p] = "check"
    /\ \/ /\ Ready(p)
          /\ Goto(p, "copy")
          /\ UNCHANGED <<semVars, ret>>
       \/ /\ ~Ready(p)
          /\ call[p].file \in NonblockFiles
          /\ rb_unlock(p, "ret")
          /\ ret' = [ret EXCEPT ![p] = RetCode("EAGAIN")]
       \/ /\ ~Ready(p)
          /\ call[p].file \notin NonblockFiles
          /\ rb_unlock(p, "prepare")
          /\ UNCHANGED ret
    /\ UNCHANGED <<ring, waitVars, fileVars, call>>

\* rb_unlock after the copy: only a successful call has someone to notify.
UnlockAfterCopy(p) ==
    /\ pc[p] = "unlock"
    /\ rb_unlock(p, IF ret[p].code = "OK" THEN "wake" ELSE "ret")
    /\ UNCHANGED <<ring, waitVars, fileVars, call, ret>>

\* Back in the VFS: f_pos becomes the position the handler left, and a
\* successful read or write has moved it.
Return(p) ==
    /\ pc[p] = "ret"
    /\ advanced' = IF ret[p].code = "OK" /\ call[p].op # "poll"
                   THEN advanced \cup {call[p].file} ELSE advanced
    /\ Dequeue(p)
    /\ call' = [call EXCEPT ![p] = NoCall]
    /\ ret' = [ret EXCEPT ![p] = NoRet]
    /\ Goto(p, "idle")
    /\ UNCHANGED <<ring, semVars, async, sigio, opened>>

\* The VFS enters handler op with a call on an open file.
Enter(p, c, op) ==
    /\ pc[p] = "idle"
    /\ c.op = op
    /\ c.file \in opened
    /\ call' = [call EXCEPT ![p] = c]

-----------------------------------------------------------------------------
(* choen_read *)

\* A file that has been read or written before is at end of file.
ReadEnter(p, c) ==
    /\ Enter(p, c, "read")
    /\ IF c.file \in advanced
       THEN /\ ret' = [ret EXCEPT ![p] = RetCode("EOF")]
            /\ Goto(p, "ret")
       ELSE Goto(p, "down") /\ UNCHANGED ret
    /\ UNCHANGED <<ring, semVars, waitVars, fileVars>>

\* rb_usr_read up to its copy_to_user, which may fault.
ReadCopy(p) ==
    /\ pc[p] = "copy"
    /\ \/ /\ ReadAccepted(ring, call[p].len)
          /\ LET l_len == ReadLen(ring, call[p].len)
             IN  ret' = [ret EXCEPT ![p].code = "OK", ![p].data = CopyToUser(ring, l_len)]
          /\ Goto(p, "commit")
       \/ /\ ret' = [ret EXCEPT ![p] = RetCode("EFAULT")]  \* rejected, or a fault
          /\ Goto(p, "unlock")
    /\ UNCHANGED <<ring, semVars, waitVars, fileVars, call>>

ReadCommit(p) ==
    /\ pc[p] = "commit"
    /\ ring' = TakeItem(ring)
    /\ Goto(p, "unlock")
    /\ UNCHANGED <<semVars, waitVars, fileVars, call, ret>>

\* Mutant: the wrong queue.
ReadNotifyReaders(p) ==
    /\ pc[p] = "wake"
    /\ wake_up(rd_wq)
    /\ Goto(p, "ret")
    /\ UNCHANGED <<ring, semVars, rd_wq, wr_wq, fileVars, call, ret>>

\* notify pending write procs
ReadNotify(p) ==
    /\ pc[p] = "wake"
    /\ wake_up(wr_wq)
    /\ Goto(p, "ret")
    /\ UNCHANGED <<ring, semVars, rd_wq, wr_wq, fileVars, call, ret>>

choen_read(p) ==
    /\ call[p].op = "read"
    /\ \/ rb_lock(p) \/ CheckReady(p)
       \/ PrepareToWait(p) \/ WaitCondition(p) \/ WakeFromWait(p)
       \/ ReadCopy(p) \/ ReadCommit(p) \/ UnlockAfterCopy(p) \/ ReadNotify(p)

-----------------------------------------------------------------------------
(* choen_write *)

\* A second write on the same open file reports success and stores nothing.
WriteEnter(p, c) ==
    /\ Enter(p, c, "write")
    /\ IF c.file \in advanced
       THEN /\ ret' = [ret EXCEPT ![p] = RetCode("OK")]
            /\ Goto(p, "ret")
       ELSE Goto(p, "down") /\ UNCHANGED ret
    /\ UNCHANGED <<ring, semVars, waitVars, fileVars>>

\* rb_usr_write up to its copy_from_user, which may fault after n bytes.
WriteCopy(p) ==
    /\ pc[p] = "copy"
    /\ LET c == call[p]
       IN  \/ /\ WriteAccepted(ring, c.len)
              /\ ring' = CopyFromUser(ring, c.msg, c.len, c.len)
              /\ ret' = [ret EXCEPT ![p] = RetCode("OK")]
              /\ Goto(p, "commit")
           \/ /\ WriteAccepted(ring, c.len)
              /\ \E n \in 0 .. c.len - 1 : ring' = CopyFromUser(ring, c.msg, c.len, n)
              /\ ret' = [ret EXCEPT ![p] = RetCode("EFAULT")]
              /\ Goto(p, "unlock")
           \/ /\ ~WriteAccepted(ring, c.len)
              /\ ret' = [ret EXCEPT ![p] = RetCode("EFAULT")]
              /\ Goto(p, "unlock")
              /\ UNCHANGED ring
    /\ UNCHANGED <<semVars, waitVars, fileVars, call>>

WriteCommit(p) ==
    /\ pc[p] = "commit"
    /\ ring' = PutItem(ring, call[p].len)
    /\ Goto(p, "unlock")
    /\ UNCHANGED <<semVars, waitVars, fileVars, call, ret>>

\* notify pending read procs
WriteNotify(p) ==
    /\ pc[p] = "wake"
    /\ wake_up(rd_wq)
    /\ Goto(p, "sigio")
    /\ UNCHANGED <<ring, semVars, rd_wq, wr_wq, fileVars, call, ret>>

\* Mutant: SIGIO only when the ring was empty before.
WriteSigioFirst(p) ==
    /\ pc[p] = "sigio"
    /\ sigio' = IF ring.load_cnt = 1 THEN sigio \cup async ELSE sigio
    /\ Goto(p, "ret")
    /\ UNCHANGED <<ring, semVars, waitVars, async, opened, advanced, call, ret>>

\* kill_fasync, after the wake-up: SIGIO for every registered file.
WriteSigio(p) ==
    /\ pc[p] = "sigio"
    /\ sigio' = sigio \cup async
    /\ Goto(p, "ret")
    /\ UNCHANGED <<ring, semVars, waitVars, async, opened, advanced, call, ret>>

choen_write(p) ==
    /\ call[p].op = "write"
    /\ \/ rb_lock(p) \/ CheckReady(p)
       \/ PrepareToWait(p) \/ WaitCondition(p) \/ WakeFromWait(p)
       \/ WriteCopy(p) \/ WriteCommit(p) \/ UnlockAfterCopy(p)
       \/ WriteNotify(p) \/ WriteSigio(p)

-----------------------------------------------------------------------------
(* choen_poll and the loop of the poll system call around it *)

PollEnter(p, c) ==
    /\ Enter(p, c, "poll")
    /\ Goto(p, "poll_rd")
    /\ UNCHANGED <<ring, semVars, waitVars, fileVars, ret>>

\* The two poll_wait calls.
PollWait(p) ==
    \/ /\ pc[p] = "poll_rd"
       /\ rd_wq' = rd_wq \cup {p}
       /\ Goto(p, "poll_wr")
       /\ UNCHANGED <<ring, semVars, wr_wq, woken, fileVars, call, ret>>
    \/ /\ pc[p] = "poll_wr"
       /\ wr_wq' = wr_wq \cup {p}
       /\ Goto(p, "down")
       /\ UNCHANGED <<ring, semVars, rd_wq, woken, fileVars, call, ret>>

\* mask, of which the caller sees the events it asked for.
PollMask(rb) == {e \in Event : \/ e = "IN" /\ rb_is_readable(rb)
                               \/ e = "OUT" /\ rb_is_writable(rb)}

PollCheck(p) ==
    /\ pc[p] = "mask"
    /\ LET revents == PollMask(ring) \cap call[p].events
       IN  ret' = IF revents = {} THEN ret
                  ELSE [ret EXCEPT ![p].code = "OK", ![p].revents = revents]
    /\ Goto(p, "unlock")
    /\ UNCHANGED <<ring, semVars, waitVars, fileVars, call>>

\* choen_poll returns; with no event the system call sleeps.
PollUnlock(p) ==
    /\ pc[p] = "unlock"
    /\ rb_unlock(p, IF ret[p].code = "OK" THEN "ret" ELSE "poll_sleep")
    /\ UNCHANGED <<ring, waitVars, fileVars, call, ret>>

\* A wake-up makes the system call ask choen_poll again, still queued.
PollWake(p) ==
    /\ pc[p] = "poll_sleep"
    /\ p \in woken
    /\ woken' = woken \ {p}
    /\ Goto(p, "down")
    /\ UNCHANGED <<ring, semVars, rd_wq, wr_wq, fileVars, call, ret>>

PollInterrupted(p) ==
    /\ pc[p] = "poll_sleep"
    /\ ret' = [ret EXCEPT ![p] = RetCode("ERESTARTSYS")]
    /\ Goto(p, "ret")
    /\ UNCHANGED <<ring, semVars, waitVars, fileVars, call>>

choen_poll(p) ==
    /\ call[p].op = "poll"
    /\ \/ PollWait(p) \/ rb_lock(p) \/ PollCheck(p) \/ PollUnlock(p) \/ PollWake(p)

-----------------------------------------------------------------------------
(* choen_open, choen_close, choen_fasync and the signal's way to the owner *)

choen_open(f) ==
    /\ f \notin opened
    /\ opened' = opened \cup {f}
    /\ UNCHANGED <<ring, semVars, waitVars, async, sigio, advanced, pc, call, ret>>

\* The last reference to the file goes away: no call is in progress on it,
\* the kernel takes it off the async list (fasync(-1, file, 0)), and its
\* f_pos goes with it.
choen_close(f) ==
    /\ f \in opened
    /\ \A p \in Procs : call[p].file # f
    /\ opened' = opened \ {f}
    /\ async' = async \ {f}
    /\ advanced' = advanced \ {f}
    /\ UNCHANGED <<ring, semVars, waitVars, sigio, pc, call, ret>>

choen_fasync(f) ==
    /\ f \in opened \cap AsyncFiles
    /\ async' = IF f \in async THEN async \ {f} ELSE async \cup {f}
    /\ UNCHANGED <<ring, semVars, waitVars, sigio, opened, advanced, pc, call, ret>>

TakeSigio(f) ==
    /\ f \in sigio
    /\ sigio' = sigio \ {f}
    /\ UNCHANGED <<ring, semVars, waitVars, async, opened, advanced, pc, call, ret>>

-----------------------------------------------------------------------------

\* What the kernel executes for p once p has entered a call.
Step(p) == choen_read(p) \/ choen_write(p) \/ choen_poll(p) \/ Return(p)

\* What p, or someone who sends it a signal, decides to do.
UserStep(p) ==
    \/ \E c \in CallsOf[p] : ReadEnter(p, c) \/ WriteEnter(p, c) \/ PollEnter(p, c)
    \/ LockInterrupted(p) \/ WaitInterrupted(p) \/ PollInterrupted(p)

FileStep(f) == choen_open(f) \/ choen_close(f) \/ choen_fasync(f) \/ TakeSigio(f)

Next ==
    \/ \E p \in Procs : Step(p) \/ UserStep(p)
    \/ \E f \in Files : FileStep(f)

Spec == Init /\ [][Next]_vars

\* The kernel runs every process that can run.  Nothing makes a process
\* issue a call, a user send a signal, or a file be opened or closed.
Fairness == \A p \in Procs : WF_vars(Step(p))

FairSpec == Spec /\ Fairness

-----------------------------------------------------------------------------
(* Properties *)

\* Every variable keeps its type; in particular load_cnt, wptr and rptr stay
\* in range although rb_is_readable and rb_is_writable are also asked
\* outside the semaphore.
TypeOK ==
    /\ ring \in Ring
    /\ sem_count \in {0, 1}
    /\ sem_wait \in Seq(Procs)
    /\ rd_wq \subseteq Procs /\ wr_wq \subseteq Procs /\ woken \subseteq Procs
    /\ async \subseteq opened /\ sigio \subseteq Files
    /\ opened \subseteq Files /\ advanced \subseteq opened
    /\ pc \in [Procs -> PC]
    /\ call \in [Procs -> Call \cup {NoCall}]
    /\ ret \in [Procs -> Ret]

\* At most one process is between rb_lock and rb_unlock.
MutualExclusion == \A p, q \in Procs : InCS(p) /\ InCS(q) => p = q

\* The semaphore is taken exactly while somebody is between rb_lock and
\* rb_unlock: no path of a handler forgets rb_unlock or calls it twice.
SemMatchesHolder == sem_count = IF \E p \in Procs : InCS(p) THEN 0 ELSE 1

\* The wait list holds each process that waits for the semaphore once, and
\* nobody waits for a free semaphore.
WaitListExact ==
    /\ \A p \in Procs : pc[p] = "sem_wait" <=> \E i \in 1 .. Len(sem_wait) : sem_wait[i] = p
    /\ \A i, j \in 1 .. Len(sem_wait) : sem_wait[i] = sem_wait[j] => i = j
    /\ sem_count > 0 => sem_wait = <<>>

\* rb_lock and rb_unlock are paired on every path of the three handlers:
\* early returns, faults, signals and the trips round the wait loop.
LockDiscipline == MutualExclusion /\ SemMatchesHolder /\ WaitListExact

\* The cursors, the counter and the slots of the ring agree in every state
\* another process can see, whatever was interrupted or faulted before.
RingConsistent == RingInv(ring)

\* p is asleep on the wait queues and no wake-up has reached it.
Sleeping(p) == pc[p] \in {"asleep", "poll_sleep"} /\ p \notin woken

WantsToRead(p) ==
    \/ call[p].op = "read"
    \/ call[p].op = "poll" /\ "IN" \in call[p].events

WantsToWrite(p) ==
    \/ call[p].op = "write"
    \/ call[p].op = "poll" /\ "OUT" \in call[p].events

\* Some successful call of kind op has yet to reach its wake_up.
WakeUpDue(op) ==
    \E q \in Procs : /\ call[q].op = op
                     /\ pc[q] \in {"unlock", "wake"}
                     /\ ret[q].code = "OK"

\* No lost wake-up: while a reader (or a poll for POLLIN) sleeps and there is
\* something to read, a writer is on its way to wake_up(rd_wq); and the same
\* of writers, free slots and wake_up(wr_wq).  load_cnt is tested without the
\* semaphore, so this rests on the order queue - test - sleep against
\* change - wake.
NoLostWakeUp ==
    \A p \in Procs : Sleeping(p) =>
        /\ WantsToRead(p) /\ rb_is_readable(ring) => WakeUpDue("write")
        /\ WantsToWrite(p) /\ rb_is_writable(ring) => WakeUpDue("read")

\* What the top of the loop found still holds at the copy and at the commit:
\* nobody takes the message, or the free slot, between the test and the use.
CheckStillHolds ==
    \A p \in Procs : pc[p] \in {"copy", "commit"} => Ready(p)

-----------------------------------------------------------------------------
(* The device as a bounded queue *)

\* The outcome of a call is settled once the ring has been changed, or never
\* will be.
Decided(p) == pc[p] \in {"unlock", "wake", "sigio", "ret"} /\ ret[p].code # "none"

NoOutcome == [op |-> "none", file |-> "none", len |-> 0, code |-> "none",
              data |-> <<>>, revents |-> {}]

Fifo == INSTANCE FifoDevice WITH
    Capacity <- NUM_OF_ITEMS,
    MaxLen <- RW_ITEM_SIZE,
    Lens <- {c.len : c \in UNION {CallsOf[p] : p \in Procs}},
    q <- Contents(ring),
    used <- advanced,
    out <- [p \in Procs |->
              IF Decided(p)
              THEN [op |-> call[p].op, file |-> call[p].file, len |-> call[p].len,
                    code |-> ret[p].code, data |-> ret[p].data, revents |-> ret[p].revents]
              ELSE NoOutcome]

\* The driver, seen through its return values, is the bounded queue.
ImplementsFifo == Fifo!Spec

-----------------------------------------------------------------------------
(* Liveness, under FairSpec *)

\* Whoever waits for the semaphore gets it (or is interrupted).
LockGranted == \A p \in Procs : pc[p] = "sem_wait" ~> pc[p] # "sem_wait"

\* A reader, writer or poll that sleeps does not sleep on while what it waits
\* for stays true.
SleeperServed ==
    \A p \in Procs :
        /\ (pc[p] = "asleep" /\ Ready(p)) ~> (pc[p] # "asleep" \/ ~Ready(p))
        /\ (pc[p] = "poll_sleep" /\ PollMask(ring) \cap call[p].events # {})
              ~> (pc[p] # "poll_sleep" \/ PollMask(ring) \cap call[p].events = {})

\* A call on an O_NONBLOCK file returns.
NonblockReturns ==
    \A p \in Procs :
        (call[p].file \in NonblockFiles /\ call[p].op # "poll") ~> pc[p] = "idle"
=============================================================================
