---------------------------- MODULE TestMenuProofs ----------------------------
(***************************************************************************)
(* The application of test_app/choen_base neither loses a message nor      *)
(* stores it twice, for any number of processes and slots.  Its steps are  *)
(* steps of ChoenDev or none, so that what ChoenFifoProofs establishes of  *)
(* the device holds under it; on top of that come where each process is    *)
(* (AppInv), and where each message that was accepted is (Placed).         *)
(***************************************************************************)
EXTENDS TestMenu, ChoenFifoProofs, FiniteSetTheorems

\* A process that was started was given one of its command lines.
Chosen(p) ==
    \/ app_pc[p] = "main" /\ cmd[p] = NoCommand
    \/ app_pc[p] # "main" /\ cmd[p] \in Commands[p]

ChosenInv ==
    /\ app_pc \in [Procs -> AppPC]
    /\ cmd \in [Procs -> Command \cup {NoCommand}]
    /\ \A p \in Procs : Chosen(p)

\* Until its transfer is over a process has printed nothing and its file is
\* fresh; in the kernel it is in the call that it issued there.
InItsPlace(p) ==
    /\ app_pc[p] \notin {"close", "end"} =>
          /\ printed[p] = Nothing
          /\ \A nw \in BOOLEAN : FileOf(p, nw) \notin advanced
    /\ app_pc[p] \notin {"in_io", "in_poll"} => pc[p] = "idle"
    /\ app_pc[p] = "in_io" => pc[p] # "idle" /\ call[p] = TransferCall(p, cmd[p])
    /\ app_pc[p] = "in_poll" => pc[p] # "idle" /\ call[p] = PollCall(p, cmd[p])

AppInv ==
    /\ printed \in [Procs -> [code : Code, data : Seq(Byte)]]
    /\ \A p \in Procs : InItsPlace(p)

\* The writers that have been told, or are being told, "Write OK", and the
\* readers that have got a message.
Owners == {p \in Procs : cmd[p].op = "write" /\ Done(p)}
Holders == {q \in Procs : cmd[q].op = "read" /\ Done(q)}

\* Every message in the ring or with a reader is an owner's, no two of them
\* are the same, and no owner's is missing.
Placed ==
    /\ \A k \in 1 .. ring.load_cnt : \E p \in Owners : Contents(ring)[k] = Text(p)
    /\ \A q \in Holders : \E p \in Owners : Got(q) = Text(p)
    /\ \A j, k \in 1 .. ring.load_cnt : Contents(ring)[j] = Contents(ring)[k] => j = k
    /\ \A q, r \in Holders : Got(q) = Got(r) => q = r
    /\ \A k \in 1 .. ring.load_cnt : \A q \in Holders : Contents(ring)[k] # Got(q)
    /\ \A p \in Owners : /\ cmd[p].len \in 1 .. RW_ITEM_SIZE
                         /\ \/ \E k \in 1 .. ring.load_cnt : Contents(ring)[k] = Text(p)
                            \/ \E q \in Holders : Got(q) = Text(p)

-----------------------------------------------------------------------------
(* Each application is a process of the device *)

LEMMA MenuFile ==
    ASSUME NEW p \in Procs, NEW nw \in BOOLEAN
    PROVE  FileOf(p, nw) \in Files
  BY MenuAssumption

LEMMA ChosenCalls ==
    ASSUME NEW p \in Procs, NEW c \in Commands[p]
    PROVE  /\ c \in Command /\ (c.op = "write" => c.msg \in Msg)
           /\ TransferCall(p, c) \in CallsOf[p] /\ PollCall(p, c) \in CallsOf[p]
           /\ FileOf(p, c.nw) \in Files
<1>1. c \in Command /\ (c.op = "write" => c.msg \in Msg)
  BY MenuAssumption
<1>2. CallsOf[p] = AppCalls(p)
  BY MenuAssumption
<1>3. TransferCall(p, c) \in AppCalls(p) /\ PollCall(p, c) \in AppCalls(p)
  BY DEF AppCalls
<1>4. c.nw \in BOOLEAN
  BY <1>1 DEF Command
<1> QED BY <1>1, <1>2, <1>3, <1>4, MenuFile

LEMMA ChosenInit == MenuInit => ChosenInv
  BY DEF MenuInit, ChosenInv, Chosen, AppPC

LEMMA ChosenNext == ChosenInv /\ [MenuNext]_menuVars => ChosenInv'
<1> SUFFICES ASSUME ChosenInv, [MenuNext]_menuVars
             PROVE  ChosenInv'
  OBVIOUS
<1>0. /\ app_pc \in [Procs -> AppPC] /\ cmd \in [Procs -> Command \cup {NoCommand}]
      /\ \A p \in Procs : Chosen(p)
  BY DEF ChosenInv
<1>1. ASSUME NEW p \in Procs, main(p)
      PROVE  ChosenInv'
  <2>1. PICK c \in Commands[p] : cmd' = [cmd EXCEPT ![p] = c]
    BY <1>1 DEF main
  <2>2. c \in Command /\ app_pc' = [app_pc EXCEPT ![p] = "io"]
    BY <1>1, ChosenCalls DEF main, AppGoto
  <2>3. app_pc' \in [Procs -> AppPC] /\ cmd' \in [Procs -> Command \cup {NoCommand}]
    BY <1>0, <2>1, <2>2 DEF AppPC
  <2>4. ASSUME NEW q \in Procs PROVE Chosen(q)'
    BY <1>0, <2>1, <2>2 DEF Chosen
  <2> QED BY <2>3, <2>4 DEF ChosenInv
<1>2. ASSUME NEW p \in Procs, AppStep(p)
      PROVE  ChosenInv'
  <2>1. /\ cmd' = cmd /\ app_pc[p] # "main"
        /\ \E s \in AppPC \ {"main"} : app_pc' = [app_pc EXCEPT ![p] = s]
    BY <1>2 DEF AppStep, read_device, write_device, IoReturn, PollFd, PollReturn, CloseFd, AppGoto,
                AppPC
  <2>2. app_pc' \in [Procs -> AppPC]
    BY <1>0, <2>1
  <2>3. ASSUME NEW q \in Procs PROVE Chosen(q)'
    BY <1>0, <2>1 DEF Chosen
  <2> QED BY <1>0, <2>1, <2>2, <2>3 DEF ChosenInv
<1>3. CASE UNCHANGED <<app_pc, cmd>>
  BY <1>3 DEF ChosenInv, Chosen
<1> QED BY <1>1, <1>2, <1>3 DEF MenuNext, Kernel, menuVars

LEMMA ChosenInvariant == MenuSpec => []ChosenInv
  BY ChosenInit, ChosenNext, PTL DEF MenuSpec

LEMMA DeviceSteps == ChosenInv /\ MenuNext => [Next]_vars
<1> SUFFICES ASSUME ChosenInv, NEW p \in Procs, main(p) \/ AppStep(p) \/ Kernel(p)
             PROVE  Next
  BY DEF MenuNext
<1>1. CASE main(p)
  <2>1. PICK c \in Commands[p] : choen_open(FileOf(p, c.nw))
    BY <1>1 DEF main
  <2> QED BY <2>1, ChosenCalls DEF Next, FileStep
<1>2. CASE AppStep(p)
  <2>1. app_pc[p] # "main"
    BY <1>2 DEF AppStep, read_device, write_device, IoReturn, PollFd, PollReturn, CloseFd, AppGoto
  <2>2. cmd[p] \in Commands[p]
    BY <2>1 DEF ChosenInv, Chosen
  <2>3. TransferCall(p, cmd[p]) \in CallsOf[p] /\ PollCall(p, cmd[p]) \in CallsOf[p] /\ Fd(p) \in Files
    BY <2>2, ChosenCalls DEF Fd
  <2>4. CASE read_device(p) \/ write_device(p) \/ PollFd(p)
    BY <2>3, <2>4 DEF read_device, write_device, PollFd, Next, UserStep
  <2>5. CASE IoReturn(p) \/ PollReturn(p)
    BY <2>5 DEF IoReturn, PollReturn, Next, Step
  <2>6. CASE CloseFd(p)
    BY <2>3, <2>6 DEF CloseFd, Next, FileStep
  <2> QED BY <1>2, <2>4, <2>5, <2>6 DEF AppStep
<1>3. CASE Kernel(p)
  BY <1>3 DEF Kernel, Next, Step
<1> QED BY <1>1, <1>2, <1>3

LEMMA IsADevice == MenuSpec => Spec
<1>1. ChosenInv /\ [MenuNext]_menuVars => [Next]_vars
  BY DeviceSteps DEF menuVars
<1>2. MenuInit => Init
  BY DEF MenuInit
<1> QED BY <1>1, <1>2, ChosenInvariant, PTL DEF MenuSpec, Spec

LEMMA DeviceHolds == MenuSpec => []FifoInv
<1>1. LockInv /\ CallInv /\ RingLayer /\ RetInv /\ ExactInv => FifoInv
  BY DEF FifoInv
<1> QED BY <1>1, IsADevice, LockInvariant, CallInvariant, RingInvariant, RetInvariant,
           ExactInvariant, PTL

-----------------------------------------------------------------------------
(* AppInv *)

\* What a step of p may do to the rest: move the others out of the wait for
\* the semaphore, and the f_pos of its own files.
Aside(p) ==
    /\ OthersMove(p)
    /\ \A f \in advanced' \ advanced : \E nw \in BOOLEAN : f = FileOf(p, nw)
    /\ \A q \in Procs \ {p} : app_pc'[q] = app_pc[q] /\ cmd'[q] = cmd[q] /\ printed'[q] = printed[q]

LEMMA OthersInPlace ==
    ASSUME AppInv, NEW p \in Procs, Aside(p), NEW q \in Procs \ {p}
    PROVE  InItsPlace(q)'
<1>1. InItsPlace(q)
  BY DEF AppInv
<1>2. /\ app_pc'[q] = app_pc[q] /\ cmd'[q] = cmd[q] /\ printed'[q] = printed[q]
      /\ call'[q] = call[q] /\ (pc'[q] = "idle" <=> pc[q] = "idle")
  BY DEF Aside, OthersMove, AfterDown
<1>3. \A nw \in BOOLEAN : FileOf(q, nw) \in advanced' => FileOf(q, nw) \in advanced
  BY DEF Aside, FileOf
<1> QED BY <1>1, <1>2, <1>3 DEF InItsPlace, TransferCall, PollCall

\* The file of a call is the caller's.
LEMMA OwnFile ==
    ASSUME ChosenInv, AppInv, NEW p \in Procs, pc[p] # "idle"
    PROVE  /\ app_pc[p] \in {"in_io", "in_poll"}
           /\ call[p].file = Fd(p) /\ cmd[p].nw \in BOOLEAN /\ cmd[p] \in Commands[p]
<1>1. app_pc[p] \in {"in_io", "in_poll"}
  BY DEF AppInv, InItsPlace
<1>2. cmd[p] \in Commands[p]
  BY <1>1 DEF ChosenInv, Chosen
<1>3. cmd[p].nw \in BOOLEAN
  BY <1>2, ChosenCalls DEF Command
<1>4. call[p] = TransferCall(p, cmd[p]) \/ call[p] = PollCall(p, cmd[p])
  BY <1>1 DEF AppInv, InItsPlace
<1> QED BY <1>1, <1>2, <1>3, <1>4 DEF TransferCall, PollCall, Fd

LEMMA KernelAside ==
    ASSUME FifoInv, ChosenInv, AppInv, NEW p \in Procs, Step(p) \/ UserStep(p),
           \A q \in Procs \ {p} : app_pc'[q] = app_pc[q] /\ cmd'[q] = cmd[q] /\ printed'[q] = printed[q]
    PROVE  Aside(p)
<1>1. OthersMove(p) /\ advanced' \subseteq advanced \cup {call[p].file}
      /\ (advanced' # advanced => pc[p] = "ret")
  BY Frame, FilesMove DEF FifoInv, CallInv
<1>2. ASSUME NEW f \in advanced' \ advanced
      PROVE  \E nw \in BOOLEAN : f = FileOf(p, nw)
  <2>1. f = call[p].file /\ pc[p] # "idle"
    BY <1>1
  <2> QED BY <2>1, OwnFile DEF Fd
<1> QED BY <1>1, <1>2 DEF Aside

\* Where the statements of p lead.
LEMMA MainKeeps ==
    ASSUME FifoInv, ChosenInv, AppInv, NEW p \in Procs, main(p)
    PROVE  AppInv'
<1>0. app_pc \in [Procs -> AppPC] /\ DOMAIN cmd = Procs
  BY DEF ChosenInv
<1>1. /\ app_pc[p] = "main" /\ app_pc' = [app_pc EXCEPT ![p] = "io"] /\ printed' = printed
      /\ \E c : cmd' = [cmd EXCEPT ![p] = c]
      /\ UNCHANGED <<pc, call, ret, advanced>>
  BY DEF main, AppGoto, choen_open
<1>2. Aside(p)
  BY <1>0, <1>1 DEF Aside, OthersMove
<1>3. InItsPlace(p)'
  <2>1. app_pc'[p] = "io"
    BY <1>0, <1>1
  <2>2. InItsPlace(p)
    BY DEF AppInv
  <2> QED BY <1>1, <2>1, <2>2 DEF InItsPlace
<1> QED BY <1>1, <1>2, <1>3, OthersInPlace DEF AppInv

LEMMA EnterKeeps ==
    ASSUME FifoInv, ChosenInv, AppInv, NEW p \in Procs,
           read_device(p) \/ write_device(p) \/ PollFd(p)
    PROVE  AppInv' /\ pc'[p] \in {"down", "poll_rd"}
<1>0. app_pc \in [Procs -> AppPC] /\ pc \in [Procs -> PC] /\ DOMAIN call = Procs
  BY DEF ChosenInv, FifoInv, LockInv, LockTypeOK, CallInv, CallTypeOK
<1>1. app_pc[p] \in {"io", "poll"} /\ cmd' = cmd /\ printed' = printed
  BY DEF read_device, write_device, PollFd, AppGoto
<1>2. cmd[p] \in Commands[p]
  BY <1>1 DEF ChosenInv, Chosen
<1>3. TransferCall(p, cmd[p]) \in CallsOf[p] /\ PollCall(p, cmd[p]) \in CallsOf[p]
  BY <1>2, ChosenCalls
<1>4. InItsPlace(p)
  BY DEF AppInv
<1>5. FileOf(p, cmd[p].nw) \notin advanced
  <2>1. cmd[p].nw \in BOOLEAN
    BY <1>2, ChosenCalls DEF Command
  <2> QED BY <1>1, <1>4, <2>1 DEF InItsPlace
<1>6. UserStep(p) /\ advanced' = advanced
  BY <1>3 DEF read_device, write_device, PollFd, UserStep, ReadEnter, WriteEnter, PollEnter, fileVars
<1>7. Aside(p)
  <2>1. \E s \in {"in_io", "in_poll"} : app_pc' = [app_pc EXCEPT ![p] = s]
    BY DEF read_device, write_device, PollFd, AppGoto
  <2>2. \A q \in Procs \ {p} : app_pc'[q] = app_pc[q] /\ cmd'[q] = cmd[q] /\ printed'[q] = printed[q]
    BY <1>0, <1>1, <2>1
  <2> QED BY <1>6, <2>2, KernelAside
<1>8. CASE read_device(p) \/ write_device(p)
  <2>1. app_pc'[p] = "in_io" /\ call'[p] = TransferCall(p, cmd[p])
    BY <1>0, <1>8 DEF read_device, write_device, AppGoto, ReadEnter, WriteEnter, Enter
  <2>2. TransferCall(p, cmd[p]).file \notin advanced
    BY <1>5 DEF TransferCall
  <2>3. pc'[p] = "down"
    BY <1>0, <1>8, <2>2 DEF read_device, write_device, ReadEnter, WriteEnter, Goto
  <2>4. call'[p] = TransferCall(p, cmd'[p])
    BY <1>1, <2>1
  <2>5. InItsPlace(p)'
    BY <1>1, <1>4, <1>6, <2>1, <2>3, <2>4 DEF InItsPlace, TransferCall
  <2> QED BY <1>1, <1>7, <2>3, <2>5, OthersInPlace DEF AppInv
<1>9. CASE PollFd(p)
  <2>1. app_pc'[p] = "in_poll" /\ call'[p] = PollCall(p, cmd[p]) /\ pc'[p] = "poll_rd"
    BY <1>0, <1>9 DEF PollFd, AppGoto, PollEnter, Enter, Goto
  <2>2. call'[p] = PollCall(p, cmd'[p])
    BY <1>1, <2>1
  <2>3. InItsPlace(p)'
    BY <1>1, <1>4, <1>6, <2>1, <2>2 DEF InItsPlace, PollCall
  <2> QED BY <1>1, <1>7, <2>1, <2>3, OthersInPlace DEF AppInv
<1> QED BY <1>8, <1>9

LEMMA ReturnKeeps ==
    ASSUME FifoInv, ChosenInv, AppInv, NEW p \in Procs, IoReturn(p) \/ PollReturn(p)
    PROVE  AppInv'
<1>0. /\ app_pc \in [Procs -> AppPC] /\ pc \in [Procs -> PC] /\ ret \in [Procs -> Ret]
      /\ printed \in [Procs -> [code : Code, data : Seq(Byte)]] /\ InItsPlace(p)
  BY DEF ChosenInv, FifoInv, LockInv, LockTypeOK, RetInv, AppInv
<1>1. Return(p) /\ Step(p) /\ cmd' = cmd /\ pc'[p] = "idle"
  BY <1>0 DEF IoReturn, PollReturn, Return, Step, Goto
<1>2. CASE IoReturn(p) /\ ret[p].code = "EAGAIN"
  <2>1. /\ app_pc[p] = "in_io" /\ app_pc' = [app_pc EXCEPT ![p] = "poll"]
        /\ printed' = printed /\ advanced' = advanced
    BY <1>1, <1>2 DEF IoReturn, AppGoto, Return
  <2>2. Aside(p)
    <3>1. \A q \in Procs \ {p} : app_pc'[q] = app_pc[q] /\ cmd'[q] = cmd[q] /\ printed'[q] = printed[q]
      BY <1>0, <1>1, <2>1
    <3> QED BY <1>1, <3>1, KernelAside
  <2>3. app_pc'[p] = "poll"
    BY <1>0, <2>1
  <2>4. InItsPlace(p)'
    BY <1>0, <1>1, <2>1, <2>3 DEF InItsPlace
  <2> QED BY <1>0, <2>1, <2>2, <2>4, OthersInPlace DEF AppInv
<1>3. CASE IoReturn(p) /\ ret[p].code # "EAGAIN"
  <2>1. /\ app_pc' = [app_pc EXCEPT ![p] = "close"]
        /\ printed' = [printed EXCEPT ![p] = [code |-> ret[p].code, data |-> ret[p].data]]
    BY <1>3 DEF IoReturn, AppGoto
  <2>2. printed' \in [Procs -> [code : Code, data : Seq(Byte)]]
    <3>1. [code |-> ret[p].code, data |-> ret[p].data] \in [code : Code, data : Seq(Byte)]
      BY <1>0 DEF Ret
    <3> QED BY <1>0, <2>1, <3>1
  <2>3. Aside(p)
    <3>1. \A q \in Procs \ {p} : app_pc'[q] = app_pc[q] /\ cmd'[q] = cmd[q] /\ printed'[q] = printed[q]
      BY <1>0, <1>1, <2>1
    <3> QED BY <1>1, <3>1, KernelAside
  <2>4. app_pc'[p] = "close"
    BY <1>0, <2>1
  <2>5. InItsPlace(p)'
    BY <1>1, <2>4 DEF InItsPlace
  <2> QED BY <2>2, <2>3, <2>5, OthersInPlace DEF AppInv
<1>4. CASE PollReturn(p)
  <2>1. /\ app_pc[p] = "in_poll" /\ printed' = printed
        /\ \E s \in {"io", "close"} : app_pc' = [app_pc EXCEPT ![p] = s]
    BY <1>4 DEF PollReturn, AppGoto
  <2>2. call[p].op = "poll"
    BY <1>0, <2>1 DEF InItsPlace, PollCall
  <2>3. advanced' = advanced
    BY <1>1, <2>2 DEF Return
  <2>4. Aside(p)
    <3>1. \A q \in Procs \ {p} : app_pc'[q] = app_pc[q] /\ cmd'[q] = cmd[q] /\ printed'[q] = printed[q]
      BY <1>0, <1>1, <2>1
    <3> QED BY <1>1, <3>1, KernelAside
  <2>5. app_pc'[p] \in {"io", "close"}
    BY <1>0, <2>1
  <2>6. InItsPlace(p)'
    BY <1>0, <1>1, <2>1, <2>3, <2>5 DEF InItsPlace
  <2> QED BY <1>0, <2>1, <2>4, <2>6, OthersInPlace DEF AppInv
<1> QED BY <1>2, <1>3, <1>4

LEMMA CloseKeeps ==
    ASSUME FifoInv, ChosenInv, AppInv, NEW p \in Procs, CloseFd(p)
    PROVE  AppInv'
<1>0. app_pc \in [Procs -> AppPC] /\ InItsPlace(p)
  BY DEF ChosenInv, AppInv
<1>1. /\ app_pc[p] = "close" /\ app_pc' = [app_pc EXCEPT ![p] = "end"]
      /\ UNCHANGED <<cmd, printed, pc, call, ret>> /\ advanced' \subseteq advanced
  BY DEF CloseFd, AppGoto, choen_close
<1>2. Aside(p)
  BY <1>0, <1>1 DEF Aside, OthersMove
<1>3. app_pc'[p] = "end"
  BY <1>0, <1>1
<1>4. InItsPlace(p)'
  BY <1>0, <1>1, <1>3 DEF InItsPlace
<1> QED BY <1>1, <1>2, <1>4, OthersInPlace DEF AppInv

\* A step inside the call neither changes nor ends it.
LEMMA InTheKernel ==
    ASSUME FifoInv, NEW p \in Procs, choen_read(p) \/ choen_write(p) \/ choen_poll(p)
    PROVE  pc[p] # "idle" /\ pc'[p] # "idle" /\ UNCHANGED <<call, advanced>>
<1>0. pc \in [Procs -> PC] /\ LockInv
  BY DEF FifoInv, LockInv, LockTypeOK
<1>1. rb_lock(p) \/ LoopStep(p) \/ ReadStep(p) \/ WriteStep(p) \/ PollStep(p)
  BY DEF choen_read, choen_write, choen_poll, LoopStep, ReadStep, WriteStep, PollStep
<1> USE DEF fileVars
<1>2. CASE rb_lock(p)
  BY <1>0, <1>2 DEF rb_lock, Goto, AfterDown
<1>3. CASE LoopStep(p) \/ PollStep(p)
  <2>1. pc[p] \notin {"sem_wait", "idle"} /\ UNCHANGED <<call, advanced>>
    BY <1>3 DEF LoopStep, CheckReady, UnlockAfterCopy, PrepareToWait, WaitCondition, WakeFromWait,
                PollStep, PollWait, PollCheck, PollUnlock, PollWake
  <2>2. \/ \E n \in {"ret", "prepare", "wake", "poll_sleep"} : rb_unlock(p, n)
        \/ \E n \in {"copy", "cond", "down", "asleep", "prepare", "poll_wr", "unlock"} :
              pc' = [pc EXCEPT ![p] = n]
    BY <1>3 DEF LoopStep, CheckReady, UnlockAfterCopy, PrepareToWait, WaitCondition, WakeFromWait,
                PollStep, PollWait, PollCheck, PollUnlock, PollWake, Goto
  <2> QED BY <1>0, <2>1, <2>2, UnlockMoves
<1>4. CASE ReadStep(p) \/ WriteStep(p)
  BY <1>0, <1>4 DEF ReadStep, ReadCopy, ReadCommit, ReadNotify, WriteStep, WriteCopy, WriteCommit,
                    WriteNotify, WriteSigio, Goto
<1> QED BY <1>1, <1>2, <1>3, <1>4

LEMMA KernelKeeps ==
    ASSUME FifoInv, ChosenInv, AppInv, NEW p \in Procs, Kernel(p)
    PROVE  AppInv'
<1>1. /\ choen_read(p) \/ choen_write(p) \/ choen_poll(p)
      /\ Step(p) /\ UNCHANGED <<app_pc, cmd, printed>>
  BY DEF Kernel, Step
<1>2. pc[p] # "idle" /\ pc'[p] # "idle" /\ UNCHANGED <<call, advanced>>
  BY <1>1, InTheKernel
<1>3. Aside(p)
  BY <1>1, KernelAside
<1>4. InItsPlace(p)'
  <2>1. InItsPlace(p)
    BY DEF AppInv
  <2> QED BY <1>1, <1>2, <2>1 DEF InItsPlace, TransferCall, PollCall
<1> QED BY <1>1, <1>3, <1>4, OthersInPlace DEF AppInv

LEMMA AppInit == MenuInit => AppInv
<1>1. Nothing \in [code : Code, data : Seq(Byte)]
  BY EmptySeq DEF Nothing, Code
<1> QED BY <1>1 DEF MenuInit, Init, AppInv, InItsPlace

LEMMA AppNext == FifoInv /\ ChosenInv /\ AppInv /\ [MenuNext]_menuVars => AppInv'
<1> SUFFICES ASSUME FifoInv, ChosenInv, AppInv, [MenuNext]_menuVars
             PROVE  AppInv'
  OBVIOUS
<1>1. CASE UNCHANGED menuVars
  BY <1>1 DEF menuVars, vars, AppInv, InItsPlace, TransferCall, PollCall
<1> QED BY <1>1, MainKeeps, EnterKeeps, ReturnKeeps, CloseKeeps, KernelKeeps DEF MenuNext, AppStep

LEMMA AppInvariant == MenuSpec => []AppInv
  BY AppInit, AppNext, DeviceHolds, ChosenInvariant, PTL DEF MenuSpec

\* The types of the device and of the application, together.
THEOREM MenuTypeOKHolds == MenuSpec => []MenuTypeOK
<1>1. TypeOK /\ ChosenInv /\ AppInv => MenuTypeOK
  BY DEF ChosenInv, AppInv, MenuTypeOK
<1> QED BY <1>1, IsADevice, TypeOKHolds, ChosenInvariant, AppInvariant, PTL

-----------------------------------------------------------------------------
(* What a step of the kernel settles *)

\* The transfer that p is in has been settled, and done.
Served(p) == Decided(p) /\ call[p].op # "poll" /\ ret[p].code = "OK"

\* p stays as far as it was: served with the same bytes, or not served.
SameService(p) ==
    /\ Served(p)' <=> Served(p)
    /\ Served(p) => ret'[p].data = ret[p].data

LEMMA OthersService ==
    ASSUME NEW p \in Procs, OthersMove(p), NEW q \in Procs \ {p}
    PROVE  SameService(q)
<1>1. call'[q] = call[q] /\ ret'[q] = ret[q]
  BY DEF OthersMove
<1>2. CASE pc'[q] = pc[q]
  BY <1>1, <1>2 DEF SameService, Served, Decided
<1>3. CASE pc[q] = "sem_wait" /\ pc'[q] = AfterDown(q)
  BY <1>3 DEF SameService, Served, Decided, AfterDown
<1> QED BY <1>2, <1>3 DEF OthersMove

\* Only the two commits change the queue, or serve anybody.
LEMMA OnlyCommitsServe ==
    ASSUME FifoInv, NEW p \in Procs, choen_read(p) \/ choen_write(p) \/ choen_poll(p),
           ~(call[p].op = "read" /\ ReadCommit(p)), ~(call[p].op = "write" /\ WriteCommit(p))
    PROVE  Contents(ring)' = Contents(ring) /\ SameService(p)
<1>0. /\ pc \in [Procs -> PC] /\ ret \in [Procs -> Ret] /\ LockInv /\ ResultKnown(p)
      /\ UNCHANGED call
  BY InTheKernel DEF FifoInv, LockInv, LockTypeOK, RetInv
<1>1. rb_lock(p) \/ LoopStep(p) \/ ReadStep(p) \/ WriteStep(p) \/ PollStep(p)
  BY DEF choen_read, choen_write, choen_poll, LoopStep, ReadStep, WriteStep, PollStep
<1>2. ring' = ring => Contents(ring)' = Contents(ring)
  BY DEF Contents, SlotAt
<1>3. CASE rb_lock(p)
  <2>1. ring' = ring /\ pc[p] = "down" /\ pc'[p] \in {"check", "mask", "sem_wait"}
    BY <1>0, <1>3 DEF rb_lock, Goto, AfterDown
  <2> QED BY <1>2, <2>1 DEF SameService, Served, Decided
<1>4. CASE LoopStep(p) /\ UnlockAfterCopy(p)
  <2>1. /\ ring' = ring /\ pc[p] = "unlock" /\ ret' = ret
        /\ pc'[p] = IF ret[p].code = "OK" THEN "wake" ELSE "ret"
    BY <1>0, <1>4, UnlockMoves DEF UnlockAfterCopy
  <2> QED BY <1>0, <1>2, <2>1 DEF SameService, Served, Decided
<1>5. CASE LoopStep(p) /\ ~UnlockAfterCopy(p)
  <2>1. /\ ring' = ring /\ pc[p] \in {"check", "prepare", "cond", "asleep"}
        /\ \/ /\ rb_unlock(p, "ret")
              /\ ret' = [ret EXCEPT ![p] = RetCode("EAGAIN")]
           \/ rb_unlock(p, "prepare")
           \/ \E n \in {"copy", "cond", "down", "asleep", "prepare"} : pc' = [pc EXCEPT ![p] = n]
    BY <1>5 DEF LoopStep, CheckReady, PrepareToWait, WaitCondition, WakeFromWait, Goto
  <2>2. \/ pc'[p] \in {"prepare", "copy", "cond", "down", "asleep"}
        \/ pc'[p] = "ret" /\ ret'[p] = RetCode("EAGAIN")
    BY <1>0, <2>1, UnlockMoves
  <2>3. RetCode("EAGAIN").code = "EAGAIN"
    BY RetCodeFields
  <2> QED BY <1>2, <2>1, <2>2, <2>3 DEF SameService, Served, Decided
<1>6. CASE \/ call[p].op = "read" /\ ReadCopy(p)
           \/ call[p].op = "write" /\ WriteCopy(p)
  <2>1. /\ pc[p] = "copy"
        /\ \/ pc'[p] = "commit"
           \/ pc'[p] = "unlock" /\ ret'[p] = RetCode("EFAULT")
    BY <1>6, CopyReports
  <2>2. RetCode("EFAULT").code = "EFAULT"
    BY RetCodeFields
  <2>3. Contents(ring)' = Contents(ring)
    BY <1>6, CopyIsInvisible
  <2> QED BY <2>1, <2>2, <2>3 DEF SameService, Served, Decided
<1>7. CASE ReadNotify(p) \/ WriteNotify(p) \/ WriteSigio(p)
  <2>1. ring' = ring /\ ret' = ret /\ pc[p] \in {"wake", "sigio"} /\ pc'[p] \in {"sigio", "ret"}
    BY <1>0, <1>7 DEF ReadNotify, WriteNotify, WriteSigio, Goto
  <2> QED BY <1>0, <1>2, <2>1 DEF SameService, Served, Decided
<1>8. CASE PollStep(p)
  <2>1. ring' = ring /\ call[p].op = "poll"
    BY <1>8 DEF PollStep, PollWait, PollCheck, PollUnlock, PollWake
  <2> QED BY <1>0, <1>2, <2>1 DEF SameService, Served
<1> QED BY <1>1, <1>3, <1>4, <1>5, <1>6, <1>7, <1>8 DEF ReadStep, WriteStep

-----------------------------------------------------------------------------
(* Placed: the three things that can happen to it *)

LEMMA TextsDiffer ==
    ASSUME ChosenInv, DistinctMessages, NEW p \in Procs, NEW q \in Procs,
           cmd[p].op = "write", cmd[q].op = "write", cmd[p].len >= 1, Text(p) = Text(q)
    PROVE  p = q
<1>1. cmd[p] \in Commands[p] /\ cmd[q] \in Commands[q]
  BY DEF ChosenInv, Chosen, NoCommand
<1>2. cmd[p].len \in Nat /\ cmd[q].len \in Nat
  BY <1>1, ChosenCalls DEF Command
<1>3. 1 \in 1 .. cmd[p].len
  BY <1>2
<1>4. DOMAIN Text(p) = 1 .. cmd[p].len /\ DOMAIN Text(q) = 1 .. cmd[q].len
  BY DEF Text
<1>5. Text(p)[1] = cmd[p].msg /\ Text(q)[1] = cmd[q].msg
  BY <1>3, <1>4 DEF Text
<1> QED BY <1>1, <1>5 DEF DistinctMessages

\* Nothing is stored, taken or told.
LEMMA PlacesStay ==
    ASSUME Placed, Contents(ring)' = Contents(ring), ring'.load_cnt = ring.load_cnt,
           \A q \in Procs : Done(q)' <=> Done(q),
           \A q \in Procs : Done(q) => cmd'[q] = cmd[q] /\ Got(q)' = Got(q)
    PROVE  Placed'
<1>1. Owners' = Owners /\ Holders' = Holders
  BY DEF Owners, Holders
<1>2. \A p \in Owners : cmd'[p] = cmd[p] /\ Text(p)' = Text(p)
  BY DEF Owners, Text
<1>3. \A q \in Holders : Got(q)' = Got(q)
  BY DEF Holders
<1> QED BY <1>1, <1>2, <1>3 DEF Placed

\* The message of p joins the queue.
LEMMA PlacePut ==
    ASSUME ChosenInv, DistinctMessages, Placed, NEW p \in Procs, NEW n \in Nat,
           cmd' = cmd, cmd[p].op = "write", cmd[p].len \in 1 .. RW_ITEM_SIZE,
           ring.load_cnt = n, ring'.load_cnt = n + 1,
           \A k \in 1 .. n : Contents(ring)'[k] = Contents(ring)[k],
           Contents(ring)'[n + 1] = Text(p),
           ~Done(p), Done(p)',
           \A q \in Procs \ {p} : (Done(q)' <=> Done(q)) /\ (Done(q) => Got(q)' = Got(q))
    PROVE  Placed'
<1>1. Owners' = Owners \cup {p} /\ Holders' = Holders /\ p \notin Owners /\ p \notin Holders
  BY DEF Owners, Holders
<1>2. \A o \in Procs : Text(o)' = Text(o)
  BY DEF Text
<1>3. \A q \in Holders : Got(q)' = Got(q)
  BY <1>1 DEF Holders
<1>4. \A o \in Owners : Text(o) # Text(p)
  <2> TAKE o \in Owners
  <2>1. o \in Procs /\ cmd[o].op = "write" /\ o # p /\ cmd[p].len >= 1
    BY <1>1, RingAssumption DEF Owners
  <2> QED BY <2>1, TextsDiffer
<1>5. Owners \subseteq Procs
  BY DEF Owners
<1>6. PICK c, d : c = Contents(ring) /\ d = Contents(ring)'
  OBVIOUS
<1>7. /\ \A k \in 1 .. n : d[k] = c[k] /\ k \in 1 .. n + 1
      /\ d[n + 1] = Text(p) /\ n + 1 \in 1 .. n + 1
      /\ \A k \in 1 .. n + 1 : k \in 1 .. n \/ k = n + 1
  BY <1>6
<1>8. /\ \A k \in 1 .. n : \E o \in Owners : c[k] = Text(o)
      /\ \A q \in Holders : \E o \in Owners : Got(q) = Text(o)
      /\ \A j, k \in 1 .. n : c[j] = c[k] => j = k
      /\ \A q, r \in Holders : Got(q) = Got(r) => q = r
      /\ \A k \in 1 .. n : \A q \in Holders : c[k] # Got(q)
      /\ \A o \in Owners : /\ cmd[o].len \in 1 .. RW_ITEM_SIZE
                           /\ \/ \E k \in 1 .. n : c[k] = Text(o)
                              \/ \E q \in Holders : Got(q) = Text(o)
  BY <1>6 DEF Placed
<1>9. \A k \in 1 .. n + 1 : \E o \in Owners' : d[k] = Text(o)'
  BY <1>1, <1>2, <1>5, <1>7, <1>8
<1>10. \A q \in Holders' : \E o \in Owners' : Got(q)' = Text(o)'
  BY <1>1, <1>2, <1>3, <1>5, <1>8
<1>11. \A j, k \in 1 .. n + 1 : d[j] = d[k] => j = k
  BY <1>4, <1>7, <1>8
<1>12. \A q, r \in Holders' : Got(q)' = Got(r)' => q = r
  BY <1>1, <1>3, <1>8
<1>13. \A k \in 1 .. n + 1 : \A q \in Holders' : d[k] # Got(q)'
  BY <1>1, <1>3, <1>4, <1>7, <1>8
<1>14. \A o \in Owners' : /\ cmd'[o].len \in 1 .. RW_ITEM_SIZE
                          /\ \/ \E k \in 1 .. n + 1 : d[k] = Text(o)'
                             \/ \E q \in Holders' : Got(q)' = Text(o)'
  <2> TAKE o \in Owners'
  <2>1. CASE o = p
    BY <1>2, <1>7, <2>1
  <2>2. CASE o \in Owners /\ \E k \in 1 .. n : c[k] = Text(o)
    BY <1>2, <1>5, <1>7, <1>8, <2>2
  <2>3. CASE o \in Owners /\ \E q \in Holders : Got(q) = Text(o)
    BY <1>1, <1>2, <1>3, <1>5, <1>8, <2>3
  <2> QED BY <1>1, <1>8, <2>1, <2>2, <2>3
<1> QED BY <1>6, <1>9, <1>10, <1>11, <1>12, <1>13, <1>14 DEF Placed

\* p gets the oldest message.
LEMMA PlaceGet ==
    ASSUME Placed, NEW p \in Procs, NEW n \in Nat \ {0},
           cmd' = cmd, cmd[p].op = "read",
           ring.load_cnt = n, ring'.load_cnt = n - 1,
           \A k \in 1 .. n - 1 : Contents(ring)'[k] = Contents(ring)[k + 1],
           Got(p)' = Contents(ring)[1],
           ~Done(p), Done(p)',
           \A q \in Procs \ {p} : (Done(q)' <=> Done(q)) /\ (Done(q) => Got(q)' = Got(q))
    PROVE  Placed'
<1>1. Owners' = Owners /\ Holders' = Holders \cup {p} /\ p \notin Holders
  BY DEF Owners, Holders
<1>2. \A o \in Procs : Text(o)' = Text(o)
  BY DEF Text
<1>3. \A q \in Holders : Got(q)' = Got(q)
  BY <1>1 DEF Holders
<1>4. Owners \subseteq Procs
  BY DEF Owners
<1>5. PICK c, d, g : c = Contents(ring) /\ d = Contents(ring)' /\ g = Got(p)'
  OBVIOUS
<1>6. /\ \A k \in 1 .. n - 1 : d[k] = c[k + 1] /\ k + 1 \in 1 .. n /\ k + 1 # 1
      /\ \A j, k \in 1 .. n - 1 : j + 1 = k + 1 => j = k
      /\ g = c[1] /\ 1 \in 1 .. n
      /\ \A k \in 1 .. n : k = 1 \/ \E j \in 1 .. n - 1 : k = j + 1
  <2>1. \A k \in 1 .. n - 1 : d[k] = c[k + 1]
    BY <1>5
  <2>2. /\ \A k \in 1 .. n - 1 : k + 1 \in 1 .. n /\ k + 1 # 1
        /\ \A j, k \in 1 .. n - 1 : j + 1 = k + 1 => j = k
        /\ 1 \in 1 .. n
    OBVIOUS
  <2>3. ASSUME NEW k \in 1 .. n, k # 1
        PROVE  \E j \in 1 .. n - 1 : k = j + 1
    <3>1. k - 1 \in 1 .. n - 1 /\ k = (k - 1) + 1
      BY <2>3
    <3> QED BY <3>1
  <2> QED BY <1>5, <2>1, <2>2, <2>3
<1>7. /\ \A k \in 1 .. n : \E o \in Owners : c[k] = Text(o)
      /\ \A q \in Holders : \E o \in Owners : Got(q) = Text(o)
      /\ \A j, k \in 1 .. n : c[j] = c[k] => j = k
      /\ \A q, r \in Holders : Got(q) = Got(r) => q = r
      /\ \A k \in 1 .. n : \A q \in Holders : c[k] # Got(q)
      /\ \A o \in Owners : /\ cmd[o].len \in 1 .. RW_ITEM_SIZE
                           /\ \/ \E k \in 1 .. n : c[k] = Text(o)
                              \/ \E q \in Holders : Got(q) = Text(o)
  BY <1>5 DEF Placed
<1>8. \A k \in 1 .. n - 1 : \E o \in Owners' : d[k] = Text(o)'
  <2> TAKE k \in 1 .. n - 1
  <2>1. PICK o \in Owners : c[k + 1] = Text(o)
    BY <1>6, <1>7
  <2> QED BY <1>1, <1>2, <1>4, <1>6, <2>1
<1>9. \A q \in Holders' : \E o \in Owners' : Got(q)' = Text(o)'
  <2> TAKE q \in Holders'
  <2>1. CASE q = p
    <3>1. PICK o \in Owners : g = Text(o)
      BY <1>6, <1>7
    <3> QED BY <1>1, <1>2, <1>4, <1>5, <2>1, <3>1
  <2>2. CASE q \in Holders
    BY <1>1, <1>2, <1>3, <1>4, <1>7, <2>2
  <2> QED BY <1>1, <2>1, <2>2
<1>10. \A j, k \in 1 .. n - 1 : d[j] = d[k] => j = k
  BY <1>6, <1>7
<1>11. \A q, r \in Holders' : Got(q)' = Got(r)' => q = r
  <2>1. \A q \in Holders : g # Got(q)
    BY <1>6, <1>7
  <2> QED BY <1>1, <1>3, <1>5, <1>7, <2>1
<1>12. \A k \in 1 .. n - 1 : \A q \in Holders' : d[k] # Got(q)'
  <2> TAKE k \in 1 .. n - 1
  <2>1. d[k] # g /\ \A q \in Holders : d[k] # Got(q)
    BY <1>6, <1>7
  <2> QED BY <1>1, <1>3, <1>5, <2>1
<1>13. \A o \in Owners' : /\ cmd'[o].len \in 1 .. RW_ITEM_SIZE
                          /\ \/ \E k \in 1 .. n - 1 : d[k] = Text(o)'
                             \/ \E q \in Holders' : Got(q)' = Text(o)'
  <2> TAKE o \in Owners'
  <2>1. o \in Owners /\ Text(o)' = Text(o) /\ cmd'[o].len \in 1 .. RW_ITEM_SIZE
    BY <1>1, <1>2, <1>4, <1>7
  <2>2. ASSUME NEW k \in 1 .. n, c[k] = Text(o)
        PROVE  \/ \E j \in 1 .. n - 1 : d[j] = Text(o)'
               \/ Got(p)' = Text(o)'
    <3>1. CASE k = 1
      BY <1>5, <1>6, <2>1, <2>2, <3>1
    <3>2. CASE k # 1
      <4>1. PICK j \in 1 .. n - 1 : k = j + 1
        BY <1>6, <3>2
      <4> QED BY <1>6, <2>1, <2>2, <4>1
    <3> QED BY <3>1, <3>2
  <2>3. CASE \E q \in Holders : Got(q) = Text(o)
    BY <1>1, <1>3, <2>1, <2>3
  <2> QED BY <1>1, <1>7, <2>1, <2>2, <2>3
<1> QED BY <1>5, <1>8, <1>9, <1>10, <1>11, <1>12, <1>13 DEF Placed

-----------------------------------------------------------------------------
(* Every step keeps the messages in their places *)

LEMMA DoneIsServed ==
    ASSUME NEW p \in Procs
    PROVE  Done(p) <=> printed[p].code = "OK" \/ Served(p)
  BY DEF Done, Served

LEMMA OthersDone ==
    ASSUME NEW p \in Procs, Aside(p), NEW q \in Procs \ {p}
    PROVE  /\ Done(q)' <=> Done(q)
           /\ Done(q) => cmd'[q] = cmd[q] /\ Got(q)' = Got(q)
<1>1. SameService(q)
  BY OthersService DEF Aside
<1>2. cmd'[q] = cmd[q] /\ printed'[q] = printed[q]
  BY DEF Aside
<1> QED BY <1>1, <1>2 DEF Done, Got, SameService, Served

\* A process that has printed nothing and is in no call has nothing yet.
LEMMA NothingYet ==
    ASSUME NEW p \in Procs, printed[p] = Nothing, pc[p] = "idle"
    PROVE  ~Done(p)
  BY DEF Done, Decided, Nothing

LEMMA RestStays ==
    ASSUME Placed, NEW p \in Procs, Aside(p),
           Contents(ring)' = Contents(ring), ring'.load_cnt = ring.load_cnt,
           Done(p)' <=> Done(p),
           Done(p) => cmd'[p] = cmd[p] /\ Got(p)' = Got(p)
    PROVE  Placed'
<1>1. ASSUME NEW q \in Procs
      PROVE  /\ Done(q)' <=> Done(q)
             /\ Done(q) => cmd'[q] = cmd[q] /\ Got(q)' = Got(q)
  BY OthersDone
<1> QED BY <1>1, PlacesStay

\* The statements of the application.
LEMMA StatementPlaces ==
    ASSUME FifoInv, ChosenInv, AppInv, Placed, NEW p \in Procs, main(p) \/ AppStep(p)
    PROVE  Placed'
<1>0. /\ app_pc \in [Procs -> AppPC] /\ pc \in [Procs -> PC] /\ ret \in [Procs -> Ret]
      /\ DOMAIN printed = Procs /\ cmd \in [Procs -> Command \cup {NoCommand}]
      /\ InItsPlace(p)
  BY DEF ChosenInv, FifoInv, LockInv, LockTypeOK, RetInv, AppInv
<1>1. ring' = ring => Contents(ring)' = Contents(ring) /\ ring'.load_cnt = ring.load_cnt
  BY DEF Contents, SlotAt
<1>2. CASE main(p) \/ CloseFd(p)
  <2>1. /\ ring' = ring /\ UNCHANGED <<pc, call, ret, printed>>
        /\ app_pc[p] \in {"main", "close"} /\ pc[p] = "idle"
        /\ \E s : app_pc' = [app_pc EXCEPT ![p] = s]
        /\ \E c : cmd' = [cmd EXCEPT ![p] = c]
        /\ app_pc[p] = "close" => cmd' = cmd
        /\ advanced' \subseteq advanced
    <3>1. CASE main(p)
      BY <1>0, <3>1 DEF main, AppGoto, choen_open, InItsPlace
    <3>2. CASE CloseFd(p)
      <4>1. \E c : cmd' = [cmd EXCEPT ![p] = c]
        <5>1. cmd' = cmd
          BY <3>2 DEF CloseFd
        <5>2. cmd = [cmd EXCEPT ![p] = cmd[p]]
          BY <1>0
        <5> QED BY <5>1, <5>2
      <4> QED BY <1>0, <3>2, <4>1 DEF CloseFd, AppGoto, choen_close, InItsPlace
    <3> QED BY <1>2, <3>1, <3>2
  <2>2. Aside(p)
    BY <1>0, <2>1 DEF Aside, OthersMove
  <2>3. (Done(p)' <=> Done(p)) /\ Got(p)' = Got(p)
    BY <2>1 DEF Done, Got, Decided
  <2>4. Done(p) => cmd'[p] = cmd[p]
    <3>1. app_pc[p] = "main" => ~Done(p)
      BY <1>0, <2>1, NothingYet DEF InItsPlace
    <3> QED BY <2>1, <3>1
  <2> QED BY <1>1, <2>1, <2>2, <2>3, <2>4, RestStays
<1>3. CASE read_device(p) \/ write_device(p) \/ PollFd(p)
  <2>1. /\ ring' = ring /\ printed' = printed /\ cmd' = cmd /\ app_pc[p] \in {"io", "poll"}
        /\ \E s \in {"in_io", "in_poll"} : app_pc' = [app_pc EXCEPT ![p] = s]
    BY <1>3 DEF read_device, write_device, PollFd, AppGoto, ReadEnter, WriteEnter, PollEnter
  <2>2. Aside(p)
    <3>1. cmd[p] \in Commands[p]
      BY <2>1 DEF ChosenInv, Chosen
    <3>2. TransferCall(p, cmd[p]) \in CallsOf[p] /\ PollCall(p, cmd[p]) \in CallsOf[p]
      BY <3>1, ChosenCalls
    <3>3. UserStep(p)
      BY <1>3, <3>2 DEF read_device, write_device, PollFd, UserStep
    <3>4. \A q \in Procs \ {p} : app_pc'[q] = app_pc[q] /\ cmd'[q] = cmd[q] /\ printed'[q] = printed[q]
      BY <1>0, <2>1
    <3> QED BY <3>3, <3>4, KernelAside
  <2>3. ~Done(p)
    BY <1>0, <2>1, NothingYet DEF InItsPlace
  <2>4. ~Done(p)'
    <3>1. pc'[p] \in {"down", "poll_rd"}
      BY <1>3, EnterKeeps
    <3>2. printed'[p] = Nothing
      BY <1>0, <2>1 DEF InItsPlace
    <3> QED BY <3>1, <3>2 DEF Done, Decided, Nothing
  <2> QED BY <1>1, <2>1, <2>2, <2>3, <2>4, RestStays
<1>4. CASE IoReturn(p) \/ PollReturn(p)
  <2>1. /\ Return(p) /\ Step(p) /\ ring' = ring /\ cmd' = cmd /\ pc[p] = "ret" /\ pc'[p] = "idle"
        /\ app_pc[p] \in {"in_io", "in_poll"} /\ printed[p] = Nothing
        /\ \E s : app_pc' = [app_pc EXCEPT ![p] = s]
        /\ printed' = printed \/ \E w : printed' = [printed EXCEPT ![p] = w]
    BY <1>0, <1>4 DEF IoReturn, PollReturn, AppGoto, Return, Step, Goto, InItsPlace
  <2>2. Aside(p)
    <3>1. \A q \in Procs \ {p} : app_pc'[q] = app_pc[q] /\ cmd'[q] = cmd[q] /\ printed'[q] = printed[q]
      BY <1>0, <2>1
    <3> QED BY <2>1, <3>1, KernelAside
  <2>3. CASE IoReturn(p) /\ ret[p].code # "EAGAIN"
    <3>1. /\ printed'[p] = [code |-> ret[p].code, data |-> ret[p].data]
          /\ app_pc[p] = "in_io"
      BY <1>0, <2>3 DEF IoReturn, AppGoto
    <3>2. call[p].op # "poll"
      <4>1. cmd[p] \in Commands[p] /\ call[p] = TransferCall(p, cmd[p])
        BY <1>0, <3>1 DEF ChosenInv, Chosen, InItsPlace
      <4>2. cmd[p].op \in {"read", "write"}
        BY <4>1, ChosenCalls DEF Command
      <4> QED BY <4>1, <4>2 DEF TransferCall
    <3>3. Done(p) <=> ret[p].code = "OK"
      BY <2>1, <3>2 DEF Done, Decided, Nothing
    <3>4. Done(p)' <=> ret[p].code = "OK"
      BY <2>1, <3>1 DEF Done, Decided
    <3>5. Done(p) => Got(p)' = Got(p)
      BY <2>1, <3>1, <3>3 DEF Got, Nothing
    <3> QED BY <1>1, <2>1, <2>2, <3>3, <3>4, <3>5, RestStays
  <2>4. CASE PollReturn(p) \/ ret[p].code = "EAGAIN"
    <3>1. printed'[p] = Nothing
      BY <1>4, <2>1, <2>4 DEF IoReturn, PollReturn
    <3>2. ~Done(p)'
      BY <2>1, <3>1 DEF Done, Decided, Nothing
    <3>3. ~Done(p)
      <4>1. CASE ret[p].code = "EAGAIN"
        BY <2>1, <4>1 DEF Done, Nothing
      <4>2. CASE PollReturn(p)
        <5>1. call[p].op = "poll"
          BY <1>0, <4>2 DEF PollReturn, AppGoto, InItsPlace, PollCall
        <5> QED BY <2>1, <5>1 DEF Done, Nothing
      <4> QED BY <2>4, <4>1, <4>2
    <3> QED BY <1>1, <2>1, <2>2, <3>2, <3>3, RestStays
  <2> QED BY <1>4, <2>3, <2>4
<1> QED BY <1>2, <1>3, <1>4 DEF AppStep

\* The process whose transfer a commit settles: it had nothing, and its call
\* is the one of its command.
LEMMA CommitsOwn ==
    ASSUME FifoInv, ChosenInv, AppInv, NEW p \in Procs, pc[p] = "commit",
           call[p].op \in {"read", "write"}
    PROVE  /\ cmd[p] \in Commands[p] /\ call[p] = TransferCall(p, cmd[p])
           /\ cmd[p].op = call[p].op /\ printed[p] = Nothing /\ ~Done(p)
<1>1. InItsPlace(p) /\ app_pc[p] \in {"in_io", "in_poll"} /\ cmd[p] \in Commands[p]
  BY OwnFile DEF AppInv
<1>2. app_pc[p] = "in_io"
  BY <1>1 DEF InItsPlace, PollCall
<1>3. call[p] = TransferCall(p, cmd[p]) /\ printed[p] = Nothing
  BY <1>1, <1>2 DEF InItsPlace
<1>4. ~Done(p)
  BY <1>3 DEF Done, Decided, Nothing
<1> QED BY <1>1, <1>3, <1>4 DEF TransferCall

LEMMA RingType ==
    ASSUME FifoInv
    PROVE  /\ ring \in Ring /\ ring.load_cnt \in Nat
           /\ Contents(ring) \in Seq(Seq(Byte)) /\ Len(Contents(ring)) = ring.load_cnt
  BY ContentsType, RingFields, RingAssumption DEF FifoInv, RingLayer

\* The commit of a write.
LEMMA WritePlaces ==
    ASSUME FifoInv, ChosenInv, AppInv, Placed, DistinctMessages, NEW p \in Procs,
           choen_write(p), WriteCommit(p), UNCHANGED <<app_pc, cmd, printed>>
    PROVE  Placed'
<1>1. /\ call[p].op = "write" /\ pc[p] = "commit" /\ LockInv /\ CallInv /\ RingLayer /\ RetInv
      /\ Step(p) /\ pc' = [pc EXCEPT ![p] = "unlock"]
  BY DEF choen_write, WriteCommit, Goto, Step, FifoInv
<1>2. /\ cmd[p] \in Commands[p] /\ call[p] = TransferCall(p, cmd[p])
      /\ cmd[p].op = "write" /\ printed[p] = Nothing /\ ~Done(p)
  BY <1>1, CommitsOwn
<1>3. Aside(p)
  BY <1>1, KernelAside
<1>4. PICK n, m, w : n = call[p].len /\ m = call[p].msg /\ w = [b \in 1 .. n |-> m]
  OBVIOUS
<1>5. /\ call' = call /\ ret' = ret /\ n \in 1 .. RW_ITEM_SIZE /\ m \in Msg
      /\ Contents(ring)' = Append(Contents(ring), w)
  BY <1>1, <1>4, WriteCommits
<1>6. n = cmd[p].len /\ m = cmd[p].msg
  BY <1>2, <1>4 DEF TransferCall
<1>7. w = Text(p)
  BY <1>4, <1>6 DEF Text
<1>8. w \in Seq(Byte)
  <2>1. n \in Nat /\ w \in [1 .. n -> Byte]
    BY <1>4, <1>5 DEF Byte
  <2> QED BY <2>1, SeqDef
<1>9. PICK c \in Seq(Seq(Byte)), k \in Nat : c = Contents(ring) /\ k = ring.load_cnt /\ Len(c) = k
  BY RingType
<1>10. /\ Len(Append(c, w)) = k + 1
       /\ \A j \in 1 .. k : Append(c, w)[j] = c[j]
       /\ Append(c, w)[k + 1] = w
  BY <1>8, <1>9, AppendProperties
<1>11. PICK d : d = Contents(ring)'
  OBVIOUS
<1>12. /\ \A j \in 1 .. k : d[j] = c[j]
       /\ d[k + 1] = Text(p)
  BY <1>5, <1>7, <1>9, <1>10, <1>11
<1>13. ring'.load_cnt = k + 1
  <2>1. ring' = PutItem(ring, n)
    BY <1>4 DEF WriteCommit
  <2>2. ring \in Ring
    BY RingType
  <2> QED BY <1>5, <1>9, <2>1, <2>2, PutItemFields
<1>14. Done(p)'
  <2>1. ret[p].code = "OK"
    BY <1>1 DEF RetInv, ResultKnown
  <2>2. pc'[p] = "unlock"
    BY <1>1 DEF LockInv, LockTypeOK
  <2> QED BY <1>1, <1>5, <2>1, <2>2 DEF Done, Decided
<1>15. \A q \in Procs \ {p} : (Done(q)' <=> Done(q)) /\ (Done(q) => Got(q)' = Got(q))
  BY <1>3, OthersDone
<1>16. \A j \in 1 .. k : Contents(ring)'[j] = Contents(ring)[j]
  BY <1>9, <1>11, <1>12
<1>17. Contents(ring)'[k + 1] = Text(p)
  BY <1>11, <1>12
<1>18. cmd[p].len \in 1 .. RW_ITEM_SIZE /\ ring.load_cnt = k
  BY <1>5, <1>6, <1>9
<1> QED BY <1>2, <1>13, <1>14, <1>15, <1>16, <1>17, <1>18, PlacePut

\* The commit of a read.
LEMMA ReadPlaces ==
    ASSUME FifoInv, ChosenInv, AppInv, Placed, AsksForASlot, NEW p \in Procs,
           choen_read(p), ReadCommit(p), UNCHANGED <<app_pc, cmd, printed>>
    PROVE  Placed'
<1>1. /\ call[p].op = "read" /\ pc[p] = "commit" /\ LockInv /\ CallInv /\ RingLayer /\ RetInv
      /\ ResultExact(p) /\ Step(p) /\ pc' = [pc EXCEPT ![p] = "unlock"]
  BY DEF choen_read, ReadCommit, Goto, Step, FifoInv, ExactInv
<1>2. /\ cmd[p] \in Commands[p] /\ call[p] = TransferCall(p, cmd[p])
      /\ cmd[p].op = "read" /\ printed[p] = Nothing /\ ~Done(p)
  BY <1>1, CommitsOwn
<1>3. Aside(p)
  BY <1>1, KernelAside
<1>4. PICK a \in Nat : a = call[p].len /\ a = MAX_BUFF
  BY <1>2, MenuAssumption DEF TransferCall
<1>5. PICK g : g = ret[p].data
  OBVIOUS
<1>6. PICK c \in Seq(Seq(Byte)), n \in Nat : c = Contents(ring) /\ n = ring.load_cnt /\ Len(c) = n
  BY RingType
<1>7. /\ call' = call /\ ret' = ret /\ Contents(ring) # <<>>
      /\ Contents(ring)' = Tail(Contents(ring))
  BY <1>1, <1>4, <1>5, ReadCommits
<1>8. LET size == Len(Head(Contents(ring)))
      IN  g = SubSeq(Head(Contents(ring)), 1, IF size > a THEN a ELSE size)
  BY <1>1, <1>4, <1>5, ReadCommits
<1>9. n # 0 /\ Head(c) = c[1] /\ c[1] \in Seq(Byte)
  BY <1>6, <1>7
<1>10. g = c[1]
  <2>1. PICK h \in Seq(Byte) : h = c[1]
    BY <1>9
  <2>2. Len(h) <= a /\ Len(h) \in Nat
    <3>1. PICK o \in Owners : c[1] = Text(o)
      BY <1>6, <1>9 DEF Placed
    <3>2. o \in Procs /\ cmd[o].len \in 1 .. RW_ITEM_SIZE
      BY <3>1 DEF Placed, Owners
    <3>3. h = [b \in 1 .. cmd[o].len |-> cmd[o].msg]
      BY <2>1, <3>1 DEF Text
    <3>4. Len(h) = cmd[o].len
      BY <3>2, <3>3, RingAssumption
    <3> QED BY <1>4, <3>2, <3>4, RingAssumption DEF AsksForASlot
  <2>3. g = SubSeq(h, 1, Len(h))
    BY <1>6, <1>8, <1>9, <2>1, <2>2
  <2>4. SubSeq(h, 1, Len(h)) = h
    BY <2>1, <2>2
  <2> QED BY <2>1, <2>3, <2>4
<1>11. PICK d : d = Contents(ring)'
  OBVIOUS
<1>12. \A k \in 1 .. n - 1 : d[k] = c[k + 1]
  <2>1. d = Tail(c)
    BY <1>6, <1>7, <1>11
  <2>2. c # <<>>
    BY <1>6, <1>7
  <2>3. Len(Tail(c)) = n - 1 /\ \A k \in 1 .. n - 1 : Tail(c)[k] = c[k + 1]
    BY <1>6, <2>2, HeadTailProperties
  <2> QED BY <2>1, <2>3
<1>13. ring'.load_cnt = n - 1
  <2>1. ring' = TakeItem(ring) /\ ring \in Ring
    BY RingType DEF ReadCommit
  <2> QED BY <1>6, <2>1, TakeItemFields
<1>14. Done(p)' /\ Got(p)' = c[1]
  <2>1. ret[p].code = "OK"
    BY <1>1 DEF RetInv, ResultKnown
  <2>2. pc'[p] = "unlock"
    BY <1>1 DEF LockInv, LockTypeOK
  <2>3. Done(p)'
    BY <1>1, <1>7, <2>1, <2>2 DEF Done, Decided
  <2>4. Got(p)' = g
    BY <1>2, <1>5, <1>7 DEF Got, Nothing
  <2> QED BY <1>10, <2>3, <2>4
<1>15. \A q \in Procs \ {p} : (Done(q)' <=> Done(q)) /\ (Done(q) => Got(q)' = Got(q))
  BY <1>3, OthersDone
<1>16. \A k \in 1 .. n - 1 : Contents(ring)'[k] = Contents(ring)[k + 1]
  BY <1>6, <1>11, <1>12
<1>17. Got(p)' = Contents(ring)[1] /\ ring.load_cnt = n /\ n \in Nat \ {0}
  BY <1>6, <1>9, <1>14
<1> QED BY <1>2, <1>13, <1>14, <1>15, <1>16, <1>17, PlaceGet

LEMMA KernelPlaces ==
    ASSUME FifoInv, ChosenInv, AppInv, Placed, DistinctMessages, AsksForASlot,
           NEW p \in Procs, Kernel(p)
    PROVE  Placed'
<1>1. /\ choen_read(p) \/ choen_write(p) \/ choen_poll(p)
      /\ Step(p) /\ UNCHANGED <<app_pc, cmd, printed>>
  BY DEF Kernel, Step
<1>2. CASE call[p].op = "read" /\ ReadCommit(p)
  <2>1. choen_read(p)
    BY <1>1, <1>2 DEF choen_read, choen_write, choen_poll
  <2> QED BY <1>1, <1>2, <2>1, ReadPlaces
<1>3. CASE call[p].op = "write" /\ WriteCommit(p)
  <2>1. choen_write(p)
    BY <1>1, <1>3 DEF choen_read, choen_write, choen_poll
  <2> QED BY <1>1, <1>3, <2>1, WritePlaces
<1>4. CASE ~(call[p].op = "read" /\ ReadCommit(p)) /\ ~(call[p].op = "write" /\ WriteCommit(p))
  <2>1. Contents(ring)' = Contents(ring) /\ SameService(p)
    BY <1>1, <1>4, OnlyCommitsServe
  <2>2. ring'.load_cnt = ring.load_cnt
    BY <1>1, <1>4, LoadChanges DEF FifoInv
  <2>3. Aside(p)
    BY <1>1, KernelAside
  <2>4. (Done(p)' <=> Done(p)) /\ (Done(p) => cmd'[p] = cmd[p] /\ Got(p)' = Got(p))
    BY <1>1, <2>1 DEF Done, Got, SameService, Served
  <2> QED BY <2>1, <2>2, <2>3, <2>4, RestStays
<1> QED BY <1>2, <1>3, <1>4

LEMMA PlacedInit == MenuInit => Placed
<1> SUFFICES ASSUME MenuInit PROVE Placed
  OBVIOUS
<1>1. ring.load_cnt = 0
  BY DEF MenuInit, Init, rb_init
<1>2. \A p \in Procs : ~Done(p)
  BY DEF MenuInit, Init, Done, Decided, Nothing
<1> QED BY <1>1, <1>2 DEF Placed, Owners, Holders

LEMMA PlacedNext ==
    DistinctMessages /\ AsksForASlot /\ FifoInv /\ ChosenInv /\ AppInv /\ Placed
       /\ [MenuNext]_menuVars => Placed'
<1> SUFFICES ASSUME DistinctMessages, AsksForASlot, FifoInv, ChosenInv, AppInv, Placed,
                    [MenuNext]_menuVars
             PROVE  Placed'
  OBVIOUS
<1>1. CASE UNCHANGED menuVars
  <2>1. /\ Contents(ring)' = Contents(ring) /\ ring'.load_cnt = ring.load_cnt
        /\ \A q \in Procs : (Done(q)' <=> Done(q)) /\ cmd'[q] = cmd[q] /\ Got(q)' = Got(q)
    BY <1>1 DEF menuVars, vars, Contents, SlotAt, Done, Got, Decided
  <2> QED BY <2>1, PlacesStay
<1> QED BY <1>1, StatementPlaces, KernelPlaces DEF MenuNext

-----------------------------------------------------------------------------

\* A message in its place is counted once, and one that was not accepted is
\* nowhere.
LEMMA PlacedOnce ==
    ASSUME DistinctMessages, ChosenInv, Placed
    PROVE  WrittenOnce
<1> SUFFICES ASSUME NEW p \in Procs, cmd[p].op = "write"
             PROVE  Cardinality(InRing(p)) + Cardinality(Takers(p)) = IF Done(p) THEN 1 ELSE 0
  BY DEF WrittenOnce
<1>1. /\ InRing(p) = {k \in 1 .. ring.load_cnt : Contents(ring)[k] = Text(p)}
      /\ Takers(p) = {q \in Holders : Got(q) = Text(p)}
  BY DEF InRing, Takers, Holders
<1>2. CASE Done(p)
  <2>1. p \in Owners
    BY <1>2 DEF Owners
  <2>2. CASE \E k \in 1 .. ring.load_cnt : Contents(ring)[k] = Text(p)
    <3>1. PICK k \in 1 .. ring.load_cnt : Contents(ring)[k] = Text(p)
      BY <2>2
    <3>2. InRing(p) = {k}
      BY <1>1, <3>1 DEF Placed
    <3>3. Takers(p) = {}
      BY <1>1, <3>1 DEF Placed
    <3>4. Cardinality(InRing(p)) = 1 /\ Cardinality(Takers(p)) = 0
      BY <3>2, <3>3, FS_EmptySet, FS_Singleton, Zenon
    <3> QED BY <1>2, <3>4
  <2>3. CASE \E q \in Holders : Got(q) = Text(p)
    <3>1. PICK q \in Holders : Got(q) = Text(p)
      BY <2>3
    <3>2. Takers(p) = {q}
      BY <1>1, <3>1 DEF Placed
    <3>3. InRing(p) = {}
      BY <1>1, <3>1 DEF Placed
    <3>4. Cardinality(InRing(p)) = 0 /\ Cardinality(Takers(p)) = 1
      BY <3>2, <3>3, FS_EmptySet, FS_Singleton, Zenon
    <3> QED BY <1>2, <3>4
  <2> QED BY <2>1, <2>2, <2>3 DEF Placed
<1>3. CASE ~Done(p)
  <2>1. \A o \in Owners : Text(o) # Text(p)
    <3> TAKE o \in Owners
    <3>1. o \in Procs /\ cmd[o].op = "write" /\ o # p /\ cmd[o].len >= 1
      BY <1>3, RingAssumption DEF Placed, Owners
    <3> QED BY <3>1, TextsDiffer
  <2>2. InRing(p) = {} /\ Takers(p) = {}
    BY <1>1, <2>1 DEF Placed
  <2> QED BY <1>3, <2>2, FS_EmptySet
<1> QED BY <1>2, <1>3

\* When no two processes are asked to write the same message and readers ask
\* for a slot, a message whose writer is told "Write OK" is in the device or
\* with exactly one reader, and any other nowhere: for any number of readers
\* and writers, blocking or polling, and of slots.
THEOREM WrittenOnceHolds ==
    ASSUME DistinctMessages, AsksForASlot
    PROVE  MenuSpec => []WrittenOnce
<1>1. FifoInv /\ ChosenInv /\ AppInv /\ Placed /\ [MenuNext]_menuVars => Placed'
  BY PlacedNext
<1>2. ChosenInv /\ Placed => WrittenOnce
  BY PlacedOnce
<1> QED BY <1>1, <1>2, PlacedInit, DeviceHolds, ChosenInvariant, AppInvariant, PTL DEF MenuSpec

=============================================================================
