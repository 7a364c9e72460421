------------------------------ MODULE ChoenBase ------------------------------
(***************************************************************************)
(* One character device of choen_base: a buffer, its length and the int of *)
(* ioctl, used by every process that has one of the device's nodes open,   *)
(* with no lock anywhere.  A step of a handler ends where another process  *)
(* can see or influence what follows: at every load and store of           *)
(* rw_test_len and at every byte that is copied.                           *)
(*                                                                         *)
(* A byte is the process that wrote it, or Zero, or Foreign outside the    *)
(* buffer.  The position of a call is the VFS's.  read and write get a     *)
(* copy of f_pos, which is stored back after a call that did not fail; for *)
(* a character device no lock is taken.  pread and pwrite bring any        *)
(* position of 64 bits, which the handlers narrow to an int.               *)
(***************************************************************************)
EXTENDS Integers, Sequences, FiniteSets

CONSTANTS
    Procs,          \* the user processes
    Files,          \* the open file descriptions, on any of the nodes
    RW_BUFF_SIZE,
    Lens,           \* the lengths user programs ask for
    Offsets,        \* the positions they give to pread and pwrite
    Args,           \* and to ioctl, or to an ioctl through a pointer
    INT_VALUES,     \* an int is one of 2 * INT_VALUES values
    NoFile, Zero, Foreign

ASSUME BaseAssumption ==
    /\ RW_BUFF_SIZE \in Nat \ {0}
    /\ Lens \subseteq Nat /\ Offsets \subseteq Nat /\ Args \subseteq Nat
    /\ INT_VALUES \in Nat /\ RW_BUFF_SIZE < INT_VALUES
    /\ NoFile \notin Files
    /\ Zero \notin Procs

VARIABLES
    rw_test_buff, rw_test_len, ioctl_test_buff,
    f_pos,          \* the position of each file
    pc,             \* pc[p]: next statement of the handler p is in
    io,             \* io[p]: the call p is in and the handler's locals
    text,           \* history: what has been written since the last write
    mixed           \* at offset 0; and whether writes got into each other

devVars == <<rw_test_buff, rw_test_len>>
history == <<text, mixed>>
vars == <<devVars, ioctl_test_buff, f_pos, pc, io, history>>

Byte == Procs \cup {Zero}
Index == 0 .. RW_BUFF_SIZE - 1
IntValue == -INT_VALUES .. INT_VALUES - 1
Cleared == [i \in Index |-> Zero]

\* The int that n becomes when it is stored in one.
ToInt(n) == ((n + INT_VALUES) % (2 * INT_VALUES)) - INT_VALUES

\* at is l_offset as the call found it, given by the call itself when it is
\* positioned; moved the bytes copied so far, which are also what a call that
\* does not fault returns; quiet whether no write was in progress since the
\* call began.
NoCall == [file |-> NoFile, len |-> 0, at |-> 0, positioned |-> FALSE, l_len |-> 0,
           moved |-> <<>>, fault |-> FALSE, quiet |-> FALSE]

\* The calls that a process may begin, at the position of the file or at one
\* of its own.
NewCalls(quiet) ==
    {c \in [file : Files, len : Lens, at : Offsets \cup {f_pos[f] : f \in Files},
            positioned : BOOLEAN, l_len : {0}, moved : {<<>>}, fault : {FALSE}, quiet : {quiet}] :
        c.at \in IF c.positioned THEN Offsets ELSE {f_pos[c.file]}}

ReadPC == {"test", "clip", "copy_out", "read_ret"}
WritePC == {"memset", "reset", "copy_in", "set_len"}
PC == {"idle", "write_ret"} \cup ReadPC \cup WritePC

\* The processes inside choen_write.
Writing == {p \in Procs : pc[p] \in WritePC}

Init ==
    /\ rw_test_buff = Cleared /\ rw_test_len = 0 /\ ioctl_test_buff = 0
    /\ f_pos = [f \in Files |-> 0]
    /\ pc = [p \in Procs |-> "idle"]
    /\ io = [p \in Procs |-> NoCall]
    /\ text = <<>> /\ mixed = FALSE

Goto(p, next) == pc' = [pc EXCEPT ![p] = next]

\* Go on to copy l_len bytes; with none to copy the call returns 0.
CopyOrReturn(p, l_len, copy, return) ==
    /\ Goto(p, IF l_len <= 0 THEN return ELSE copy)
    /\ io' = [io EXCEPT ![p].l_len = IF l_len <= 0 THEN 0 ELSE l_len]

-----------------------------------------------------------------------------
(* choen_read *)

ReadEnter(p) ==
    /\ pc[p] = "idle"
    /\ \E c \in NewCalls(Writing = {}) : io' = [io EXCEPT ![p] = c]
    /\ Goto(p, "test")
    /\ UNCHANGED <<devVars, ioctl_test_buff, f_pos, history>>

\* The comparison with rw_test_len.
ReadTest(p) ==
    /\ pc[p] = "test"
    /\ \/ /\ io[p].at + io[p].len > rw_test_len
          /\ Goto(p, "clip")
          /\ UNCHANGED io
       \/ /\ io[p].at + io[p].len <= rw_test_len
          /\ CopyOrReturn(p, io[p].len, "copy_out", "read_ret")
    /\ UNCHANGED <<devVars, ioctl_test_buff, f_pos, history>>

\* rw_test_len is read again, and may be another by now.
ReadClip(p) ==
    /\ pc[p] = "clip"
    /\ CopyOrReturn(p, ToInt(rw_test_len - io[p].at), "copy_out", "read_ret")
    /\ UNCHANGED <<devVars, ioctl_test_buff, f_pos, history>>

\* What a read finds i bytes behind the start of the buffer.
Memory(i) == IF i \in Index THEN rw_test_buff[i] ELSE Foreign

\* Mutant: l_offset is not added.
ReadByteFromStart(p) ==
    /\ pc[p] = "copy_out"
    /\ \/ /\ io' = [io EXCEPT ![p].moved = Append(@, Memory(Len(@)))]
          /\ IF Len(io'[p].moved) = io[p].l_len THEN Goto(p, "read_ret") ELSE UNCHANGED pc
       \/ io' = [io EXCEPT ![p].fault = TRUE, ![p].moved = <<>>] /\ Goto(p, "read_ret")
    /\ UNCHANGED <<devVars, ioctl_test_buff, f_pos, history>>

\* One byte of copy_to_user, or a fault.
ReadByte(p) ==
    /\ pc[p] = "copy_out"
    /\ \/ /\ io' = [io EXCEPT ![p].moved = Append(@, Memory(io[p].at + Len(@)))]
          /\ IF Len(io'[p].moved) = io[p].l_len THEN Goto(p, "read_ret") ELSE UNCHANGED pc
       \/ io' = [io EXCEPT ![p].fault = TRUE, ![p].moved = <<>>] /\ Goto(p, "read_ret")
    /\ UNCHANGED <<devVars, ioctl_test_buff, f_pos, history>>

\* Mutant: the position moves by what was asked for.
StorePosAsked(p) ==
    f_pos' = IF io[p].fault \/ io[p].positioned THEN f_pos
             ELSE [f_pos EXCEPT ![io[p].file] = io[p].at + io[p].len]

\* *p_offset, which the VFS stores back unless the call failed or brought a
\* position of its own.
StorePos(p) ==
    f_pos' = IF io[p].fault \/ io[p].positioned THEN f_pos
             ELSE [f_pos EXCEPT ![io[p].file] = io[p].at + Len(io[p].moved)]

Return(p) ==
    /\ pc[p] \in {"read_ret", "write_ret"}
    /\ StorePos(p)
    /\ io' = [io EXCEPT ![p] = NoCall]
    /\ Goto(p, "idle")
    /\ UNCHANGED <<devVars, ioctl_test_buff, history>>

-----------------------------------------------------------------------------
(* choen_write *)

\* Mutant: the buffer's end is not looked at.
ClipNot(at, n) == n

\* Of n bytes, those that fit behind offset at.
Clip(at, n) == IF at + n > RW_BUFF_SIZE THEN ToInt(RW_BUFF_SIZE - at) ELSE n

\* The call has no byte to write, and nothing to clear.
WriteNothing(p, c) ==
    /\ c.at # 0 /\ Clip(c.at, c.len) <= 0
    /\ io' = [io EXCEPT ![p] = c]
    /\ Goto(p, "write_ret")
    /\ UNCHANGED history

\* A write at offset 0 begins a new text.  One that overlaps another, or is
\* not at the end of the text, leaves a mixture, until a write at offset 0
\* is alone.
WriteBegins(p, c) ==
    /\ c.at = 0 \/ Clip(c.at, c.len) > 0
    /\ io' = [q \in Procs |-> IF q = p THEN [c EXCEPT !.l_len = Clip(c.at, c.len)]
                              ELSE [io[q] EXCEPT !.quiet = FALSE]]
    /\ Goto(p, IF c.at = 0 THEN "memset" ELSE "copy_in")
    /\ mixed' = (Writing # {} \/ (c.at # 0 /\ (mixed \/ c.at # Len(text))))
    /\ text' = IF mixed' \/ c.at = 0 THEN <<>> ELSE text

WriteEnter(p) ==
    /\ pc[p] = "idle"
    /\ \E c \in NewCalls(FALSE) : WriteNothing(p, c) \/ WriteBegins(p, c)
    /\ UNCHANGED <<devVars, ioctl_test_buff, f_pos>>

WriteMemset(p) ==
    /\ pc[p] = "memset"
    /\ rw_test_buff' = Cleared
    /\ Goto(p, "reset")
    /\ UNCHANGED <<rw_test_len, ioctl_test_buff, f_pos, io, history>>

\* rw_test_len = 0; a write of no bytes ends here.
WriteReset(p) ==
    /\ pc[p] = "reset"
    /\ rw_test_len' = 0
    /\ Goto(p, IF io[p].l_len = 0 THEN "write_ret" ELSE "copy_in")
    /\ UNCHANGED <<rw_test_buff, ioctl_test_buff, f_pos, io, history>>

\* One byte of copy_from_user; or a fault, and zeros for all that is missing.
\* A byte outside the buffer goes to memory that is not this device's.
WriteByte(p) ==
    /\ pc[p] = "copy_in"
    /\ LET next == io[p].at + Len(io[p].moved)
           end == io[p].at + io[p].l_len
       IN  \/ /\ rw_test_buff' = [i \in Index |-> IF i = next THEN p ELSE rw_test_buff[i]]
              /\ io' = [io EXCEPT ![p].moved = Append(@, p)]
              /\ IF next + 1 = end THEN Goto(p, "set_len") ELSE UNCHANGED pc
           \/ /\ rw_test_buff' = [i \in Index |-> IF next <= i /\ i < end THEN Zero
                                                  ELSE rw_test_buff[i]]
              /\ io' = [io EXCEPT ![p].fault = TRUE, ![p].moved = <<>>]
              /\ Goto(p, "write_ret")
    /\ UNCHANGED <<rw_test_len, ioctl_test_buff, f_pos, history>>

\* Mutant: the length of this write, not of what the buffer holds.
WriteSetLenOwn(p) ==
    /\ pc[p] = "set_len"
    /\ rw_test_len' = ToInt(io[p].l_len)
    /\ text' = IF mixed THEN text ELSE text \o io[p].moved
    /\ Goto(p, "write_ret")
    /\ UNCHANGED <<rw_test_buff, ioctl_test_buff, f_pos, io, mixed>>

\* rw_test_len = l_offset
WriteSetLen(p) ==
    /\ pc[p] = "set_len"
    /\ rw_test_len' = ToInt(io[p].at + io[p].l_len)
    /\ text' = IF mixed THEN text ELSE text \o io[p].moved
    /\ Goto(p, "write_ret")
    /\ UNCHANGED <<rw_test_buff, ioctl_test_buff, f_pos, io, mixed>>

-----------------------------------------------------------------------------
(* choen_open with choen_close, and choen_ioctl *)

\* The last user of a file closes it, and another opens one in its place,
\* which is at position 0.
choen_open(f) ==
    /\ \A p \in Procs : io[p].file # f
    /\ f_pos' = [f_pos EXCEPT ![f] = 0]
    /\ UNCHANGED <<devVars, ioctl_test_buff, pc, io, history>>

\* IOCTL_CMD_SET_VALUE, and IOCTL_CMD_SET_PTR, which stores 0 when the
\* pointer faults.  IOCTL_CMD_GET_PTR and IOCTL_CMD_HELLO change nothing.
choen_ioctl ==
    /\ \E arg \in Args : ioctl_test_buff' \in {ToInt(arg), 0}
    /\ UNCHANGED <<devVars, f_pos, pc, io, history>>

-----------------------------------------------------------------------------

choen_read(p) ==
    \/ ReadEnter(p) \/ ReadTest(p) \/ ReadClip(p) \/ ReadByte(p)

choen_write(p) ==
    \/ WriteEnter(p) \/ WriteMemset(p) \/ WriteReset(p) \/ WriteByte(p) \/ WriteSetLen(p)

Next ==
    \/ \E p \in Procs : choen_read(p) \/ choen_write(p) \/ Return(p)
    \/ \E f \in Files : choen_open(f)
    \/ choen_ioctl

Spec == Init /\ [][Next]_vars

-----------------------------------------------------------------------------
(* Properties *)

\* The length and every position stay within the buffer, whoever stores them
\* last; the int of ioctl is an int, whatever was passed for it.
TypeOK ==
    /\ rw_test_buff \in [Index -> Byte]
    /\ rw_test_len \in 0 .. RW_BUFF_SIZE
    /\ ioctl_test_buff \in IntValue
    /\ f_pos \in [Files -> 0 .. RW_BUFF_SIZE]
    /\ pc \in [Procs -> PC]
    /\ io \in [Procs -> [file : Files \cup {NoFile}, len : Nat, at : Nat,
                         positioned : BOOLEAN, l_len : 0 .. INT_VALUES - 1,
                         moved : Seq(Byte \cup {Foreign}), fault : BOOLEAN, quiet : BOOLEAN]]
    /\ text \in Seq(Byte)
    /\ mixed \in BOOLEAN

\* A position that pread or pwrite brought, more than an int behind the end.
Far(p) == io[p].positioned /\ io[p].at > INT_VALUES

\* No copy leaves the buffer, although the length it was clipped to may have
\* been replaced before, and will be replaced by another writer's: except
\* from a position so far behind that the distance to it, narrowed to an
\* int, is positive again (lines 122 and 166).
CopiesInside ==
    \A p \in Procs : pc[p] \in {"copy_out", "copy_in", "set_len"} =>
        io[p].at + io[p].l_len <= RW_BUFF_SIZE \/ Far(p)

\* While writes did not get into each other, the device holds exactly what
\* was written since the last write at offset 0: chunks are appended, a
\* chunk that faults leaves no trace, and whatever a mixture has left behind
\* is gone as soon as a write at offset 0 is alone.
TextKept ==
    ~mixed /\ Writing = {} =>
        /\ rw_test_len = Len(text)
        /\ \A i \in 1 .. Len(text) : rw_test_buff[i - 1] = text[i]

\* A read that no write overlaps returns the part of that text which it
\* asked for, and never more bytes than it asked for, from wherever it reads
\* if not from so far behind.
QuietReadExact ==
    \A p \in Procs : pc[p] = "read_ret" /\ io[p].quiet /\ ~io[p].fault /\ ~Far(p) =>
        LET asked == io[p].at + io[p].len
        IN  /\ Len(io[p].moved) <= io[p].len
            /\ ~mixed => io[p].moved = SubSeq(text, io[p].at + 1,
                                      IF asked <= Len(text) THEN asked ELSE Len(text))
=============================================================================
