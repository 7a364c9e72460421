------------------------------ MODULE TestMenu ------------------------------
(***************************************************************************)
(* test_app/choen_base on one device of choen_rwnonblocking.  Each process *)
(* runs the application once, to read or to write one message, blocking or *)
(* (-nw) through a non-blocking file that it polls whenever the device     *)
(* answers EAGAIN.  The kernel side is ChoenDev.  Nobody interrupts the    *)
(* application, and its buffers can be read and written.                   *)
(***************************************************************************)
EXTENDS ChoenDev

CONSTANTS
    Commands,   \* Commands[p]: the command lines that process p may be given
    MAX_BUFF    \* bytes that a reader asks for

\* The operation, whether "-nw" is given, and of a write the string.
Command == [op : {"read", "write"}, nw : BOOLEAN, len : Nat, msg : Byte]

\* The file that a process opens, by its flags.
FileOf(p, nw) == <<p, nw>>

\* The calls of a process that was given command c.  What a reader asks for
\* does not depend on its command line.
TransferCall(p, c) ==
    [op |-> c.op, file |-> FileOf(p, c.nw), len |-> IF c.op = "read" THEN MAX_BUFF ELSE c.len,
     msg |-> c.msg, events |-> {}]
PollCall(p, c) ==
    [op |-> "poll", file |-> FileOf(p, c.nw), len |-> 0, msg |-> Zero,
     events |-> IF c.op = "read" THEN {"IN"} ELSE {"OUT"}]
AppCalls(p) == UNION {{TransferCall(p, c), PollCall(p, c)} : c \in Commands[p]}

ASSUME MenuAssumption ==
    /\ Commands \in [Procs -> SUBSET Command]
    /\ \A p \in Procs : \A c \in Commands[p] : c.op = "write" => c.msg \in Msg
    /\ Files = {FileOf(p, nw) : p \in Procs, nw \in BOOLEAN}
    /\ NonblockFiles = {FileOf(p, TRUE) : p \in Procs}
    /\ AsyncFiles = {}
    /\ CallsOf = [p \in Procs |-> AppCalls(p)]
    /\ MAX_BUFF \in Nat

VARIABLES
    app_pc,     \* app_pc[p]: next statement of the application
    cmd,        \* cmd[p]: its command line
    printed     \* printed[p]: "Write OK", the bytes read, or that it failed

menuVars == <<vars, app_pc, cmd, printed>>

AppPC == {"main", "io", "in_io", "poll", "in_poll", "close", "end"}
NoCommand == [op |-> "none", nw |-> FALSE, len |-> 0, msg |-> Zero]
Nothing == [code |-> "none", data |-> <<>>]

MenuInit ==
    /\ Init
    /\ app_pc = [p \in Procs |-> "main"]
    /\ cmd = [p \in Procs |-> NoCommand]
    /\ printed = [p \in Procs |-> Nothing]

AppGoto(p, from, to) == app_pc[p] = from /\ app_pc' = [app_pc EXCEPT ![p] = to]

Fd(p) == FileOf(p, cmd[p].nw)

-----------------------------------------------------------------------------

\* main looks at its arguments, and the function it calls opens the device.
main(p) ==
    /\ AppGoto(p, "main", "io")
    /\ \E c \in Commands[p] :
          /\ cmd' = [cmd EXCEPT ![p] = c]
          /\ choen_open(FileOf(p, c.nw))
    /\ UNCHANGED printed

\* read(fd, rbuf, MAX_BUFF) of read_device and read_device_nblk.
read_device(p) ==
    /\ AppGoto(p, "io", "in_io")
    /\ cmd[p].op = "read"
    /\ ReadEnter(p, TransferCall(p, cmd[p]))
    /\ UNCHANGED <<cmd, printed>>

\* write(fd, buf, len) of write_device and write_device_nblk.
write_device(p) ==
    /\ AppGoto(p, "io", "in_io")
    /\ cmd[p].op = "write"
    /\ WriteEnter(p, TransferCall(p, cmd[p]))
    /\ UNCHANGED <<cmd, printed>>

\* Mutant: any answer but 0 is a success.
IoReturnAny(p) ==
    /\ AppGoto(p, "in_io", "close")
    /\ Return(p)
    /\ printed' = [printed EXCEPT ![p] = [code |-> "OK", data |-> ret[p].data]]
    /\ UNCHANGED cmd

\* The call returns: done, or to be tried again, or "Something wrong".
IoReturn(p) ==
    /\ Return(p)
    /\ \/ /\ ret[p].code = "EAGAIN"
          /\ AppGoto(p, "in_io", "poll")
          /\ UNCHANGED printed
       \/ /\ ret[p].code # "EAGAIN"
          /\ AppGoto(p, "in_io", "close")
          /\ printed' = [printed EXCEPT ![p] = [code |-> ret[p].code, data |-> ret[p].data]]
    /\ UNCHANGED cmd

\* poll(&poll_pf, 1, -1)
PollFd(p) ==
    /\ AppGoto(p, "poll", "in_poll")
    /\ PollEnter(p, PollCall(p, cmd[p]))
    /\ UNCHANGED <<cmd, printed>>

\* With the event it asked for, the application goes round its loop.
PollReturn(p) ==
    /\ Return(p)
    /\ AppGoto(p, "in_poll", IF ret[p].revents # {} THEN "io" ELSE "close")
    /\ UNCHANGED <<cmd, printed>>

CloseFd(p) ==
    /\ AppGoto(p, "close", "end")
    /\ choen_close(Fd(p))
    /\ UNCHANGED <<cmd, printed>>

\* What the kernel executes for p.  The only write that ends with EFAULT is
\* one that rb_usr_write refuses.
Kernel(p) ==
    /\ choen_read(p) \/ choen_write(p) \/ choen_poll(p)
    /\ ret'[p].code = "EFAULT" => call[p].op = "write" /\ ~WriteAccepted(ring, call[p].len)
    /\ UNCHANGED <<app_pc, cmd, printed>>

AppStep(p) ==
    \/ read_device(p) \/ write_device(p) \/ IoReturn(p)
    \/ PollFd(p) \/ PollReturn(p) \/ CloseFd(p)

MenuNext == \E p \in Procs : main(p) \/ AppStep(p) \/ Kernel(p)

\* An application that runs goes on, in user space and in the kernel.
\* Nobody is obliged to start one.
MenuFairness == \A p \in Procs : WF_menuVars(AppStep(p)) /\ WF_menuVars(Kernel(p))

MenuSpec == MenuInit /\ [][MenuNext]_menuVars /\ MenuFairness

-----------------------------------------------------------------------------
(* Properties *)

MenuTypeOK ==
    /\ TypeOK
    /\ app_pc \in [Procs -> AppPC]
    /\ cmd \in [Procs -> Command \cup {NoCommand}]
    /\ printed \in [Procs -> [code : Code, data : Seq(Byte)]]

Text(p) == [b \in 1 .. cmd[p].len |-> cmd[p].msg]

\* p has been told, or is being told, that its transfer is done.
Done(p) ==
    \/ printed[p].code = "OK"
    \/ Decided(p) /\ call[p].op # "poll" /\ ret[p].code = "OK"

\* What a reader has got, whether it has printed it yet or not.
Got(q) == IF printed[q].code = "OK" THEN printed[q].data ELSE ret[q].data

\* Where the message of p is: its places in the ring, and who has taken it.
InRing(p) == {k \in 1 .. ring.load_cnt : Contents(ring)[k] = Text(p)}
Takers(p) == {q \in Procs : cmd[q].op = "read" /\ Done(q) /\ Got(q) = Text(p)}

\* No two processes may be asked to write the same message.
DistinctMessages ==
    \A p, q \in Procs : \A c \in Commands[p], d \in Commands[q] :
        c.op = "write" /\ d.op = "write" /\ c.msg = d.msg => p = q

\* A reader asks for at least a slot: MAX_BUFF and RW_ITEM_SIZE are both 256.
AsksForASlot == MAX_BUFF >= RW_ITEM_SIZE

\* A message whose writer has been or is being told "Write OK" is in the
\* device or with exactly one reader, and one whose writer is not is nowhere:
\* the trips from EAGAIN over poll to the next try neither lose a message nor
\* store it twice.  (Under DistinctMessages and AsksForASlot.)
WrittenOnce ==
    \A p \in Procs : cmd[p].op = "write" =>
        Cardinality(InRing(p)) + Cardinality(Takers(p)) = IF Done(p) THEN 1 ELSE 0

\* The readers, and the writers whose message the device accepts.
ReadersStarted == {p \in Procs : cmd[p].op = "read"}
WritersStarted == {p \in Procs : cmd[p].op = "write" /\ cmd[p].len \in 1 .. RW_ITEM_SIZE}

\* When all have been started, as many readers as writers, every one of them
\* comes to its end, blocking or not: no reader is left waiting because the
\* wake-up, or the event, that was meant for it was spent on another.
AllEnd ==
    ((\A p \in Procs : app_pc[p] # "main")
        /\ Cardinality(ReadersStarted) = Cardinality(WritersStarted))
    ~> (\A p \in Procs : app_pc[p] = "end")
=============================================================================
