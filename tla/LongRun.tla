------------------------------- MODULE LongRun -------------------------------
(***************************************************************************)
(* test_app/long_run on one device of choen_rwnonblocking: an application  *)
(* that keeps one file open to be told by SIGIO that data came, and drains *)
(* the device through a fresh non-blocking file per read.  Other processes *)
(* write.  The kernel side is ChoenDev; the application adds its own       *)
(* program counter and the flag its signal handler sets.                   *)
(***************************************************************************)
EXTENDS ChoenDev

CONSTANTS
    App,        \* the application's process
    Fd,         \* the file main keeps open, FASYNC
    TempFd,     \* the file read_device opens, O_NONBLOCK
    MAX_BUFF    \* bytes read_device asks for

VARIABLES
    app_pc,         \* next statement of the application
    is_io_ready,    \* set by signal_handler, cleared by main
    in_loop         \* whether main is past "flush all pending data"

appVars == <<app_pc, is_io_ready, in_loop>>
lrVars == <<vars, appVars>>

AppPC == {"open", "setfl", "read_open", "read", "reading", "again", "done",
          "reset", "loop", "bye"}

TheRead == [op |-> "read", file |-> TempFd, len |-> MAX_BUFF, msg |-> Zero,
            events |-> {}]

ASSUME AppAssumption ==
    /\ App \in Procs
    /\ {Fd, TempFd} \subseteq Files /\ Fd # TempFd
    /\ Fd \in AsyncFiles /\ TempFd \in NonblockFiles
    /\ MAX_BUFF \in Nat
    /\ CallsOf[App] = {TheRead}
    /\ \A p \in Procs \ {App} : \A c \in CallsOf[p] :
          c.op = "write" /\ c.file \notin {Fd, TempFd}

AppInit == app_pc = "open" /\ is_io_ready = FALSE /\ in_loop = FALSE

AppGoto(from, to) == app_pc = from /\ app_pc' = to

-----------------------------------------------------------------------------

\* main opens the device and switches FASYNC on.
AppOpen == AppGoto("open", "setfl") /\ choen_open(Fd) /\ UNCHANGED <<is_io_ready, in_loop>>

AppSetFl ==
    /\ AppGoto("setfl", "read_open")
    /\ choen_fasync(Fd)
    /\ UNCHANGED <<is_io_ready, in_loop>>

\* read_device: open, read, close.
ReadDeviceOpen ==
    /\ AppGoto("read_open", "read")
    /\ choen_open(TempFd)
    /\ UNCHANGED <<is_io_ready, in_loop>>

ReadDevice ==
    /\ AppGoto("read", "reading")
    /\ ReadEnter(App, TheRead)
    /\ UNCHANGED <<is_io_ready, in_loop>>

\* The read returns.  Whether the kernel restarts one that a signal cut short
\* depends on sa_flags, which main leaves uninitialised.
ReadDeviceReturn ==
    /\ app_pc = "reading"
    /\ Return(App)
    /\ \/ ret[App].code = "OK" /\ app_pc' = "again"
       \/ ret[App].code # "OK" /\ app_pc' = "done"
       \/ ret[App].code = "ERESTARTSYS" /\ app_pc' = "read"
    /\ UNCHANGED <<is_io_ready, in_loop>>

\* The end of read_device; read_device_all goes on while it returns 0.
ReadDeviceClose ==
    /\ \/ AppGoto("again", "read_open")
       \/ AppGoto("done", IF in_loop THEN "reset" ELSE "loop")
    /\ choen_close(TempFd)
    /\ UNCHANGED <<is_io_ready, in_loop>>

\* The body of main's loop; it is left to sleep(2) while the flag is down.
MainLoop ==
    /\ AppGoto("loop", "read_open")
    /\ is_io_ready
    /\ in_loop' = TRUE
    /\ UNCHANGED <<vars, is_io_ready>>

MainReset ==
    /\ AppGoto("reset", "loop")
    /\ is_io_ready' = FALSE
    /\ UNCHANGED <<vars, in_loop>>

\* SIGINT has set is_terminate.
MainQuit ==
    /\ AppGoto("loop", "bye")
    /\ choen_close(Fd)
    /\ UNCHANGED <<is_io_ready, in_loop>>

\* SIGIO comes between any two statements of the application.
signal_handler ==
    /\ TakeSigio(Fd)
    /\ is_io_ready' = TRUE
    /\ UNCHANGED <<app_pc, in_loop>>

\* A pending SIGIO ends the application's wait for the semaphore.
AppInterrupted ==
    /\ Fd \in sigio
    /\ LockInterrupted(App)
    /\ UNCHANGED appVars

\* The kernel executes the read the application is in; rbuf is on the stack
\* of read_device, so that copy_to_user does not fault.
AppKernel ==
    /\ choen_read(App)
    /\ ret'[App].code # "EFAULT"
    /\ UNCHANGED appVars

AppStep ==
    \/ AppOpen \/ AppSetFl \/ ReadDeviceOpen \/ ReadDevice \/ ReadDeviceReturn
    \/ ReadDeviceClose \/ MainLoop \/ MainReset \/ signal_handler \/ AppKernel

WriterStep(p) == (Step(p) \/ UserStep(p)) /\ UNCHANGED appVars

WriterFile(f) == (choen_open(f) \/ choen_close(f)) /\ UNCHANGED appVars

LongRunNext ==
    \/ AppStep \/ AppInterrupted \/ MainQuit
    \/ \E p \in Procs \ {App} : WriterStep(p)
    \/ \E f \in Files \ {Fd, TempFd} : WriterFile(f)

LongRunSpec == Init /\ AppInit /\ [][LongRunNext]_lrVars

-----------------------------------------------------------------------------
(* Properties *)

LongRunTypeOK ==
    /\ TypeOK
    /\ app_pc \in AppPC
    /\ is_io_ready \in BOOLEAN
    /\ in_loop \in BOOLEAN

\* The application knows, or is about to be told, that there is data: the
\* flag is up, SIGIO is pending, or a writer is on its way to kill_fasync.
Announced ==
    \/ is_io_ready
    \/ Fd \in sigio
    \/ \E p \in Procs \ {App} :
          ret[p].code = "OK" /\ pc[p] \in {"unlock", "wake", "sigio"}

\* FASYNC is switched on before the flush, so that no message written while
\* the application starts is overlooked: when the first flush is over, a
\* message in the ring has been announced, however the writes, the reads of
\* the flush and the signals interleave.
NothingOverlookedAtStart ==
    app_pc = "loop" /\ ~in_loop /\ rb_is_readable(ring) => Announced

\* The same in every round of the loop: whenever the application goes to
\* sleep with a message in the ring, it has been or will be told.
NothingOverlooked ==
    app_pc = "loop" /\ rb_is_readable(ring) => Announced
=============================================================================
