---------------------------- MODULE LongRunProofs ----------------------------
(***************************************************************************)
(* The application of test_app/long_run overlooks no message while it      *)
(* starts, for any number of writers, files and slots.  Each of its steps  *)
(* is a step of ChoenDev or none, so that what ChoenDevProofs establishes  *)
(* of the device holds under the application too.                          *)
(***************************************************************************)
EXTENDS LongRun, ChoenDevProofs

Writers == Procs \ {App}

\* The device under the application.
DeviceLayer == LockInv /\ CallInv /\ RingLayer /\ RetInv

\* The last read of the flush has failed, so that read_device_all ends.
FlushOver ==
    \/ app_pc \in {"done", "loop"}
    \/ app_pc = "reading" /\ pc[App] = "ret" /\ ret[App].code # "OK"

AppInv ==
    /\ app_pc \in AppPC /\ is_io_ready \in BOOLEAN /\ in_loop \in BOOLEAN
    /\ app_pc = "open" => Fd \notin opened
    /\ app_pc = "setfl" => Fd \notin async
    /\ app_pc \notin {"open", "setfl", "bye"} => Fd \in async
    /\ app_pc \in {"read", "reading"} => TempFd \notin advanced
    /\ app_pc # "reading" => pc[App] = "idle"
    /\ app_pc = "reset" => in_loop
    /\ ~in_loop /\ FlushOver /\ rb_is_readable(ring) => Announced

-----------------------------------------------------------------------------
(* The application is one more process of the device *)

LEMMA DeviceSteps == LongRunNext => [Next]_vars
<1>0. /\ App \in Procs /\ {Fd, TempFd} \subseteq Files /\ CallsOf[App] = {TheRead}
  BY AppAssumption
<1>1. ASSUME AppStep
      PROVE  [Next]_vars
  <2>1. CASE AppOpen \/ AppSetFl \/ ReadDeviceOpen \/ ReadDeviceClose \/ signal_handler
    BY <1>0, <2>1 DEF AppOpen, AppSetFl, ReadDeviceOpen, ReadDeviceClose, signal_handler,
       Next, FileStep
  <2>2. CASE ReadDevice \/ ReadDeviceReturn \/ AppKernel
    BY <1>0, <2>2 DEF ReadDevice, ReadDeviceReturn, AppKernel, Next, Step, UserStep
  <2>3. CASE MainLoop \/ MainReset
    BY <2>3 DEF MainLoop, MainReset
  <2> QED BY <1>1, <2>1, <2>2, <2>3 DEF AppStep
<1>2. AppInterrupted \/ MainQuit => [Next]_vars
  BY <1>0 DEF AppInterrupted, MainQuit, Next, UserStep, FileStep
<1>3. (\E p \in Procs \ {App} : WriterStep(p)) => [Next]_vars
  BY DEF WriterStep, Next
<1>4. (\E f \in Files \ {Fd, TempFd} : WriterFile(f)) => [Next]_vars
  BY DEF WriterFile, Next, FileStep
<1> QED BY <1>1, <1>2, <1>3, <1>4 DEF LongRunNext

LEMMA IsADevice == LongRunSpec => Spec
<1>1. [LongRunNext]_lrVars => [Next]_vars
  BY DeviceSteps DEF lrVars
<1> QED BY <1>1, PTL DEF LongRunSpec, Spec

LEMMA DeviceHolds == LongRunSpec => []DeviceLayer
<1>1. LockInv /\ CallInv /\ RingLayer /\ RetInv => DeviceLayer
  BY DEF DeviceLayer
<1> QED BY <1>1, IsADevice, LockInvariant, CallInvariant, RingInvariant, RetInvariant, PTL

-----------------------------------------------------------------------------
(* What a process of the device does to signals and announcements *)

\* A writer's call is a write, on a file that is not the application's.
LEMMA WritersWrite ==
    ASSUME DeviceLayer, NEW p \in Writers, pc[p] # "idle"
    PROVE  call[p].op = "write" /\ call[p].file \notin {Fd, TempFd}
  BY AppAssumption DEF DeviceLayer, CallInv, InItsCall, Writers

\* A writer on its way to kill_fasync.
OnItsWay(p) == ret[p].code = "OK" /\ pc[p] \in {"unlock", "wake", "sigio"}

\* It gets there, and then SIGIO is pending.
LEMMA WayGoesOn ==
    ASSUME DeviceLayer, NEW p \in Writers, OnItsWay(p), Step(p) \/ UserStep(p), Fd \in async
    PROVE  OnItsWay(p)' \/ Fd \in sigio'
<1>1. p \in Procs /\ call[p].op = "write" /\ pc \in [Procs -> PC]
  BY WritersWrite DEF OnItsWay, Writers, DeviceLayer, LockInv, LockTypeOK
<1>2. CASE UnlockAfterCopy(p)
  <2>1. rb_unlock(p, "wake") /\ ret' = ret /\ pc[p] # "sem_wait"
    BY <1>2 DEF UnlockAfterCopy, OnItsWay
  <2>2. pc'[p] = "wake"
    BY <1>1, <2>1, UnlockMoves DEF DeviceLayer
  <2> QED BY <2>1, <2>2 DEF OnItsWay
<1>3. CASE WriteNotify(p)
  BY <1>1, <1>3 DEF WriteNotify, Goto, OnItsWay
<1>4. CASE WriteSigio(p)
  BY <1>4 DEF WriteSigio
<1>5. UnlockAfterCopy(p) \/ WriteNotify(p) \/ WriteSigio(p)
  BY <1>1, StepCases
     DEF OnItsWay, rb_lock, LockInterrupted, LoopStep, CheckReady, PrepareToWait, WaitCondition,
         WakeFromWait, ReadStep, WriteStep, WriteCopy, WriteCommit, PollStep, WaitInterrupted,
         PollInterrupted, EnterStep, ReadEnter, WriteEnter, PollEnter, Enter, Return
<1> QED BY <1>2, <1>3, <1>4, <1>5

\* What is announced stays so.
LEMMA AnnouncedStays ==
    ASSUME DeviceLayer, Announced, Fd \in async, NEW p \in Procs, Step(p) \/ UserStep(p),
           UNCHANGED is_io_ready
    PROVE  Announced'
<1>1. OthersMove(p) /\ sigio \subseteq sigio'
  BY Frame, FilesMove DEF DeviceLayer, CallInv
<1>2. CASE is_io_ready \/ Fd \in sigio
  BY <1>1, <1>2 DEF Announced
<1>3. ASSUME NEW q \in Writers, OnItsWay(q)
      PROVE  Announced'
  <2>1. CASE q = p
    BY <1>3, <2>1, WayGoesOn DEF Announced, OnItsWay, Writers
  <2>2. CASE q # p
    <3>1. OnItsWay(q)'
      BY <1>1, <1>3, <2>2 DEF OthersMove, OnItsWay, Writers
    <3> QED BY <3>1 DEF Announced, OnItsWay, Writers
  <2> QED BY <2>1, <2>2
<1> QED BY <1>2, <1>3 DEF Announced, OnItsWay, Writers

\* A message that appears is announced by the writer that stored it.
LEMMA MessageAnnounced ==
    ASSUME DeviceLayer, NEW p \in Procs, Step(p) \/ UserStep(p),
           ~rb_is_readable(ring), rb_is_readable(ring)'
    PROVE  p \in Writers /\ OnItsWay(p)'
<1>1. ring.load_cnt \in Nat /\ ring.load_cnt = 0
  <2>1. ring.load_cnt \in 0 .. NUM_OF_ITEMS
    BY RingFields DEF DeviceLayer, RingLayer
  <2> QED BY <2>1, RingAssumption DEF rb_is_readable
<1>2. call[p].op = "write" /\ WriteCommit(p)
  <2>1. ring'.load_cnt # ring.load_cnt
    BY <1>1 DEF rb_is_readable
  <2> QED BY <1>1, <2>1, LoadChanges DEF DeviceLayer
<1>3. pc[p] = "commit" /\ pc'[p] = "unlock" /\ ret' = ret /\ ret[p].code = "OK"
  BY <1>2 DEF WriteCommit, Goto, DeviceLayer, LockInv, LockTypeOK, RetInv, ResultKnown
<1>4. p # App
  BY <1>2, <1>3, AppAssumption DEF DeviceLayer, CallInv, InItsCall, TheRead
<1> QED BY <1>3, <1>4 DEF Writers, OnItsWay

-----------------------------------------------------------------------------
(* AppInv *)

LEMMA AppStart == Init /\ AppInit => AppInv
  BY AppAssumption DEF Init, AppInit, AppInv, AppPC, FlushOver

\* A step of the kernel or of a writer, that leaves the application where it is.
LEMMA DeviceMovesOn ==
    ASSUME DeviceLayer, AppInv, NEW p \in Procs, Step(p) \/ UserStep(p), UNCHANGED appVars,
           p = App => app_pc = "reading" /\ pc[App] # "ret",
           FlushOver' /\ rb_is_readable(ring)' =>
              (FlushOver /\ rb_is_readable(ring)) \/ ~rb_is_readable(ring) \/ Fd \in sigio
    PROVE  AppInv'
<1>1. UNCHANGED <<app_pc, is_io_ready, in_loop>>
  BY DEF appVars
<1>2. UNCHANGED <<async, opened>> /\ advanced' \subseteq advanced \cup {call[p].file}
      /\ (advanced' # advanced => pc[p] = "ret") /\ sigio \subseteq sigio' /\ OthersMove(p)
  BY FilesMove, Frame DEF DeviceLayer, CallInv
<1>3. app_pc' \in {"read", "reading"} => TempFd \notin advanced'
  <2>1. CASE p = App
    BY <1>1, <1>2, <2>1 DEF AppInv
  <2>2. CASE p # App
    <3>1. advanced' # advanced => call[p].file # TempFd
      BY <1>2, <2>2, WritersWrite DEF Writers
    <3> QED BY <1>1, <1>2, <3>1 DEF AppInv
  <2> QED BY <2>1, <2>2
<1>4. app_pc' # "reading" => pc'[App] = "idle"
  BY <1>1, <1>2, AppAssumption DEF AppInv, OthersMove
<1>5. ASSUME ~in_loop', FlushOver', rb_is_readable(ring)'
      PROVE  Announced'
  <2>1. Fd \in async
    BY <1>1, <1>5 DEF AppInv, FlushOver
  <2>2. CASE ~rb_is_readable(ring)
    BY <1>5, <2>2, MessageAnnounced DEF Announced, OnItsWay, Writers
  <2>3. CASE FlushOver /\ rb_is_readable(ring)
    <3>1. Announced
      BY <1>1, <1>5, <2>3 DEF AppInv
    <3> QED BY <1>1, <2>1, <3>1, AnnouncedStays
  <2>4. CASE Fd \in sigio
    BY <1>2, <2>4 DEF Announced
  <2> QED BY <1>5, <2>2, <2>3, <2>4
<1> QED BY <1>1, <1>2, <1>3, <1>4, <1>5 DEF AppInv

\* The read gives up only on an empty ring, or because a signal is pending.
LEMMA AppKernelKeeps == ASSUME DeviceLayer, AppInv, AppKernel PROVE AppInv'
<1>1. /\ App \in Procs /\ choen_read(App) /\ Step(App) /\ UNCHANGED appVars
      /\ ret'[App].code # "EFAULT" /\ call[App].op = "read"
  BY AppAssumption DEF AppKernel, Step, choen_read
<1>2. app_pc = "reading" /\ pc[App] \notin {"idle", "ret"} /\ pc \in [Procs -> PC] /\ DOMAIN ret = Procs
      /\ ResultKnown(App)
  BY <1>1, AppAssumption
     DEF choen_read, AppInv, NoCall, DeviceLayer, CallInv, InItsCall, LockInv, LockTypeOK,
         RetDomain, RetInv, rb_lock, CheckReady, PrepareToWait, WaitCondition, WakeFromWait,
         ReadCopy, ReadCommit, UnlockAfterCopy, ReadNotify
<1>3. ASSUME FlushOver', rb_is_readable(ring)'
      PROVE  ~rb_is_readable(ring)
  <2>1. pc'[App] = "ret" /\ ret'[App].code # "OK"
    BY <1>1, <1>2, <1>3 DEF FlushOver, appVars
  <2>2. CASE CheckReady(App)
    <3>1. CASE Ready(App)
      BY <1>1, <1>2, <2>1, <2>2, <3>1 DEF CheckReady, Goto
    <3> QED BY <1>1, <3>1 DEF Ready
  <2>3. CASE UnlockAfterCopy(App)
    <3>1. pc[App] = "unlock" /\ ret' = ret
      BY <2>3 DEF UnlockAfterCopy
    <3>2. ret[App].code \in {"OK", "EFAULT"}
      BY <1>1, <1>2, <3>1 DEF ResultKnown
    <3> QED BY <1>1, <2>1, <3>1, <3>2
  <2>4. CASE ReadNotify(App)
    <3>1. ret' = ret /\ ret[App].code = "OK"
      BY <1>2, <2>4 DEF ReadNotify, ResultKnown
    <3> QED BY <2>1, <3>1
  <2>5. CASE rb_lock(App)
    BY <1>2, <2>1, <2>5 DEF rb_lock, Goto, AfterDown
  <2>6. CASE \/ PrepareToWait(App) \/ WaitCondition(App) \/ WakeFromWait(App)
             \/ ReadCopy(App) \/ ReadCommit(App)
    BY <1>2, <2>1, <2>6 DEF PrepareToWait, WaitCondition, WakeFromWait, ReadCopy, ReadCommit, Goto
  <2> QED BY <1>1, <2>2, <2>3, <2>4, <2>5, <2>6 DEF choen_read
<1> QED BY <1>1, <1>2, <1>3, DeviceMovesOn

LEMMA AppInterruptedKeeps == ASSUME DeviceLayer, AppInv, AppInterrupted PROVE AppInv'
<1>1. App \in Procs /\ UserStep(App) /\ UNCHANGED appVars /\ Fd \in sigio
  BY AppAssumption DEF AppInterrupted, UserStep
<1>2. pc[App] = "sem_wait"
  BY DEF AppInterrupted, LockInterrupted
<1>3. app_pc = "reading"
  BY <1>2 DEF AppInv
<1> QED BY <1>1, <1>2, <1>3, DeviceMovesOn

LEMMA WriterKeeps ==
    ASSUME DeviceLayer, AppInv, NEW p \in Writers, WriterStep(p) PROVE AppInv'
<1>1. p \in Procs /\ p # App /\ (Step(p) \/ UserStep(p)) /\ UNCHANGED appVars
  BY DEF Writers, WriterStep
<1>2. FlushOver' => FlushOver
  <2>1. OthersMove(p) /\ App \in Procs
    BY <1>1, Frame, AppAssumption DEF DeviceLayer, CallInv
  <2>2. pc'[App] = "ret" => pc[App] = "ret"
    BY <1>1, <2>1 DEF OthersMove, AfterDown
  <2> QED BY <1>1, <2>1, <2>2 DEF FlushOver, OthersMove, appVars
<1> QED BY <1>1, <1>2, DeviceMovesOn

\* The statements of the application, at which no process of the device moves
\* but the application's own enters its read or leaves it.
LEMMA StatementKeeps ==
    ASSUME DeviceLayer, AppInv,
           \/ AppOpen \/ AppSetFl \/ ReadDeviceOpen \/ ReadDevice \/ ReadDeviceReturn
           \/ ReadDeviceClose \/ MainLoop \/ MainReset \/ signal_handler \/ MainQuit
    PROVE  AppInv'
<1>0. /\ App \in Procs /\ Fd # TempFd /\ DOMAIN ret = Procs /\ pc \in [Procs -> PC]
      /\ advanced \subseteq opened /\ async \subseteq opened
  BY AppAssumption DEF DeviceLayer, CallInv, FilesOK, RetDomain, LockInv, LockTypeOK
<1> USE DEF AppGoto, AppPC
<1>1. CASE AppOpen
  BY <1>0, <1>1 DEF AppOpen, choen_open, AppInv, FlushOver
<1>2. CASE AppSetFl
  BY <1>0, <1>2 DEF AppSetFl, choen_fasync, AppInv, FlushOver
<1>3. CASE ReadDeviceOpen
  BY <1>0, <1>3 DEF ReadDeviceOpen, choen_open, AppInv, FlushOver
<1>4. CASE ReadDevice
  <2>1. pc'[App] = "down" /\ app_pc = "read" /\ app_pc' = "reading"
        /\ UNCHANGED <<is_io_ready, in_loop, fileVars>>
    BY <1>0, <1>4 DEF ReadDevice, ReadEnter, TheRead, AppInv, Goto
  <2> QED BY <1>0, <2>1 DEF AppInv, FlushOver, fileVars
<1>5. CASE ReadDeviceReturn
  <2>1. /\ app_pc = "reading" /\ pc[App] = "ret" /\ pc'[App] = "idle"
        /\ UNCHANGED <<ring, async, sigio, opened, is_io_ready, in_loop>>
    BY <1>0, <1>5 DEF ReadDeviceReturn, Return, Goto
  <2>2. \A p \in Writers : pc'[p] = pc[p] /\ ret'[p] = ret[p]
    BY <1>0, <1>5 DEF ReadDeviceReturn, Return, Goto, Writers
  <2>3. Announced => Announced'
    BY <2>1, <2>2 DEF Announced, Writers
  <2>4. \/ app_pc' = "again"
        \/ app_pc' = "done" /\ FlushOver
        \/ app_pc' = "read"
    BY <1>5, <2>1 DEF ReadDeviceReturn, FlushOver
  <2>5. app_pc' = "read" => TempFd \notin advanced'
    BY <1>5, <2>1 DEF ReadDeviceReturn, Return, AppInv
  <2> QED BY <2>1, <2>3, <2>4, <2>5 DEF AppInv, FlushOver
<1>6. CASE ReadDeviceClose
  <2>1. /\ async' = async \ {TempFd} /\ UNCHANGED <<ring, pc, ret, sigio, is_io_ready, in_loop>>
        /\ advanced' \subseteq advanced
    BY <1>6 DEF ReadDeviceClose, choen_close, semVars, waitVars
  <2>2. Announced => Announced'
    BY <2>1 DEF Announced
  <2> QED BY <1>0, <1>6, <2>1, <2>2 DEF ReadDeviceClose, AppInv, FlushOver
<1>7. CASE MainLoop
  BY <1>0, <1>7 DEF MainLoop, vars, AppInv, FlushOver
<1>8. CASE MainReset
  BY <1>0, <1>8 DEF MainReset, vars, AppInv, FlushOver
<1>9. CASE signal_handler
  BY <1>0, <1>9 DEF signal_handler, TakeSigio, AppInv, FlushOver, Announced
<1>10. CASE MainQuit
  BY <1>0, <1>10 DEF MainQuit, choen_close, AppInv, FlushOver
<1> QED BY <1>1, <1>2, <1>3, <1>4, <1>5, <1>6, <1>7, <1>8, <1>9, <1>10

LEMMA WriterFileKeeps ==
    ASSUME DeviceLayer, AppInv, NEW f \in Files \ {Fd, TempFd}, WriterFile(f) PROVE AppInv'
<1>1. /\ UNCHANGED <<ring, sigio, pc, ret, app_pc, is_io_ready, in_loop>>
      /\ opened' \subseteq opened \cup {f} /\ advanced' \subseteq advanced
      /\ async' \subseteq async /\ async \subseteq async' \cup {f}
  BY DEF WriterFile, choen_open, choen_close, semVars, waitVars, appVars
<1>2. Announced => Announced'
  BY <1>1 DEF Announced
<1> QED BY <1>1, <1>2 DEF AppInv, FlushOver

LEMMA AppStays == ASSUME AppInv, UNCHANGED lrVars PROVE AppInv'
  BY DEF AppInv, lrVars, vars, appVars, FlushOver, Announced

LEMMA AppNext == DeviceLayer /\ AppInv /\ [LongRunNext]_lrVars => AppInv'
  BY AppKernelKeeps, AppInterruptedKeeps, WriterKeeps, StatementKeeps, WriterFileKeeps, AppStays
     DEF LongRunNext, AppStep, Writers

LEMMA AppInvariant == LongRunSpec => []AppInv
  BY AppStart, AppNext, DeviceHolds, PTL DEF LongRunSpec

\* The types of the device and of the application, together.
THEOREM LongRunTypeOKHolds == LongRunSpec => []LongRunTypeOK
<1>1. TypeOK /\ AppInv => LongRunTypeOK
  BY DEF AppInv, LongRunTypeOK
<1> QED BY <1>1, IsADevice, TypeOKHolds, AppInvariant, PTL

\* FASYNC before the flush is enough: when the first flush of long_run is
\* over, a message in the ring has been or is about to be announced, for any
\* number of writers and any interleaving with the reads and the signals.
THEOREM NothingOverlookedAtStartHolds == LongRunSpec => []NothingOverlookedAtStart
<1>1. AppInv => NothingOverlookedAtStart
  BY DEF AppInv, FlushOver, NothingOverlookedAtStart
<1> QED BY <1>1, AppInvariant, PTL
=============================================================================
