--------------------------- MODULE ChoenBaseProofs ---------------------------
(***************************************************************************)
(* ChoenBase: whatever reads, writes and faults interleave, nothing leaves *)
(* the buffer, and a text that was written alone is kept and read exactly. *)
(***************************************************************************)
EXTENDS ChoenBase, SequenceTheorems, TLAPS

USE BaseAssumption

Moved == Byte \cup {Foreign}

CallRecord ==
    [file : Files \cup {NoFile}, len : Nat, at : Nat, positioned : BOOLEAN,
     l_len : 0 .. INT_VALUES - 1, moved : Seq(Moved), fault : BOOLEAN, quiet : BOOLEAN]

\* The call copies inside the buffer, or its position is far behind.
Inside(p) == io[p].at + io[p].l_len <= RW_BUFF_SIZE \/ Far(p)

\* What the locals of a handler have in common with its next statement.  From
\* wherever a write starts, the end of its copy is an offset in the buffer as
\* soon as it is stored in an int.
LocalsFit(p) ==
    LET c == io[p]
    IN  /\ pc[p] # "idle" => c.file \in Files
        /\ ~c.positioned => c.at <= RW_BUFF_SIZE
        /\ pc[p] \in {"test", "clip", "memset", "reset"} => c.moved = <<>>
        /\ pc[p] \in {"memset", "reset"} => c.at = 0
        /\ pc[p] \in {"copy_out", "copy_in"} => Len(c.moved) < c.l_len
        /\ pc[p] = "set_len" => Len(c.moved) = c.l_len
        /\ pc[p] \in WritePC \cup {"copy_out"} => Inside(p)
        /\ pc[p] \in WritePC => ToInt(c.at + c.l_len) \in 0 .. RW_BUFF_SIZE
        /\ pc[p] \in WritePC => c.moved \in Seq(Byte)
        /\ pc[p] \in {"read_ret", "write_ret"} =>
              c.positioned \/ c.at + Len(c.moved) <= RW_BUFF_SIZE

LocalsInv == \A p \in Procs : LocalsFit(p)

\* The buffer and its length are exactly the text.
Holds == /\ rw_test_len = Len(text)
         /\ \A i \in 1 .. Len(text) : rw_test_buff[i - 1] = text[i]

\* How far the only writer has come with its chunk.
ChunkInv(p) ==
    LET c == io[p]
    IN  /\ c.at = Len(text)
        /\ pc[p] \in {"copy_in", "set_len"} =>
              /\ Holds
              /\ \A i \in 1 .. Len(c.moved) : rw_test_buff[c.at + i - 1] = c.moved[i]

TextInv ==
    /\ Len(text) <= RW_BUFF_SIZE
    /\ ~mixed => /\ Writing = {} => Holds
                 /\ \A p, q \in Writing : p = q
                 /\ \A p \in Writing : ChunkInv(p)

IInv == TypeOK /\ LocalsInv /\ TextInv

-----------------------------------------------------------------------------

LEMMA CallFields ==
    ASSUME TypeOK, NEW p \in Procs
    PROVE  /\ io[p] \in CallRecord
           /\ io[p].file \in Files \cup {NoFile} /\ io[p].len \in Nat
           /\ io[p].at \in Nat /\ io[p].l_len \in 0 .. INT_VALUES - 1
           /\ io[p].moved \in Seq(Moved) /\ Len(io[p].moved) \in Nat
           /\ io[p].positioned \in BOOLEAN /\ io[p].fault \in BOOLEAN /\ io[p].quiet \in BOOLEAN
<1>1. io[p] \in CallRecord
  BY DEF TypeOK, CallRecord, Moved
<1> QED BY <1>1 DEF CallRecord

LEMMA NoCallTyped == NoCall \in CallRecord
<1>1. <<>> \in Seq(Moved) /\ 0 \in 0 .. INT_VALUES - 1
  OBVIOUS
<1> QED BY <1>1 DEF NoCall, CallRecord

\* An int is an int, and differs from what it was made from by a multiple of
\* the number of all ints.
LEMMA ToIntIs ==
    ASSUME NEW n \in Int
    PROVE  /\ ToInt(n) \in IntValue
           /\ \E k \in Int : n = ToInt(n) + k * (2 * INT_VALUES)
<1> DEFINE m == 2 * INT_VALUES
           a == n + INT_VALUES
           q == a % m
           k == a \div m
<1>1. m \in Nat /\ m > 0 /\ a \in Int
  OBVIOUS
<1>2. q \in 0 .. m - 1 /\ k \in Int /\ a = (k * m) + q
  <2> HIDE DEF m, a
  <2>1. a = ((a \div m) * m) + (a % m)
    BY <1>1
  <2> QED BY <1>1, <2>1
<1>3. ToInt(n) = q - INT_VALUES
  BY DEF ToInt
<1> HIDE DEF q, k
<1>4. k * m \in Int
  BY <1>2
<1> DEFINE x == k * m
<1>5. x \in Int /\ n + INT_VALUES = x + q /\ q \in Int
  BY <1>2, <1>4
<1> HIDE DEF x
<1>6. n = ToInt(n) + x
  BY <1>3, <1>5
<1>7. n = ToInt(n) + k * (2 * INT_VALUES)
  BY <1>6 DEF x
<1>8. ToInt(n) \in IntValue
  BY <1>2, <1>3 DEF IntValue
<1> QED BY <1>2, <1>7, <1>8

\* Two numbers of a range that differ by a multiple of its size are one.
LEMMA OnlyOne ==
    ASSUME NEW m \in Nat, NEW j \in Int, NEW k \in Int, NEW a \in Int, NEW b \in Int,
           m > 0, a + j * m = b + k * m, a - b < m, b - a < m
    PROVE  a = b
<1>1. a - b = (k - j) * m
  OBVIOUS
<1>2. CASE k - j >= 1
  <2>1. (k - j) * m >= m
    BY <1>2
  <2> QED BY <1>1, <2>1
<1>3. CASE k - j <= -1
  <2>1. (k - j) * m <= -m
    BY <1>3
  <2> QED BY <1>1, <2>1
<1>4. CASE k = j
  BY <1>1, <1>4
<1> QED BY <1>2, <1>3, <1>4

\* What is an int already stays as it is.
LEMMA ToIntOfInt ==
    ASSUME NEW n \in IntValue
    PROVE  ToInt(n) = n
<1>0. n \in Int
  BY DEF IntValue
<1>1. PICK k \in Int : n = ToInt(n) + k * (2 * INT_VALUES)
  BY <1>0, ToIntIs
<1> DEFINE m == 2 * INT_VALUES
           t == ToInt(n)
<1>2. n \in Int /\ t \in Int /\ n - t < m /\ t - n < m /\ m \in Nat /\ m > 0
  <2>1. t \in IntValue
    BY ToIntIs DEF IntValue
  <2> HIDE DEF t
  <2> QED BY <2>1 DEF IntValue
<1>3. n + 0 * m = t + k * m
  BY <1>1, <1>2
<1> HIDE DEF m, t
<1>4. n = t
  BY <1>2, <1>3, OnlyOne
<1> QED BY <1>4 DEF t

\* The distance from at to n, narrowed, still leads from at to n, when that is
\* narrowed too.
LEMMA ToIntOfSum ==
    ASSUME NEW at \in Int, NEW n \in IntValue
    PROVE  ToInt(at + ToInt(n - at)) = n
<1> DEFINE m == 2 * INT_VALUES
           l == ToInt(n - at)
           t == ToInt(at + l)
<1>1. n - at \in Int /\ n \in Int /\ m \in Nat /\ m > 0
  BY DEF IntValue
<1>2. l \in IntValue /\ \E k \in Int : n - at = l + k * m
  BY <1>1, ToIntIs
<1>3. PICK k \in Int : n - at = l + k * m
  BY <1>2
<1>4. at + l \in Int
  BY <1>2 DEF IntValue
<1>5. t \in IntValue /\ \E j \in Int : at + l = t + j * m
  BY <1>4, ToIntIs
<1>6. PICK j \in Int : at + l = t + j * m
  BY <1>5
<1>7. n - t < m /\ t - n < m /\ t \in Int /\ l \in Int
  <2> HIDE DEF t, l
  <2> QED BY <1>2, <1>5 DEF IntValue
<1> HIDE DEF m, t, l
<1>8. t + j * m = n + (-k) * m
  <2> DEFINE x == k * m
             y == j * m
  <2>1. x \in Int /\ y \in Int /\ n - at = l + x /\ at + l = t + y
    BY <1>1, <1>3, <1>6
  <2>2. (-k) * m = -x
    BY <1>1
  <2> HIDE DEF x, y
  <2>3. t + y = n + (-x)
    BY <1>1, <1>7, <2>1
  <2> QED BY <2>2, <2>3 DEF x, y
<1>9. n = t
  BY <1>1, <1>7, <1>8, OnlyOne
<1> QED BY <1>9 DEF t, l

LEMMA BufferIsInt == ASSUME NEW n \in 0 .. RW_BUFF_SIZE PROVE ToInt(n) = n
  BY ToIntOfInt DEF IntValue

\* Behind at, what is left of n bytes is inside the buffer unless at is far.
LEMMA LeftBehind ==
    ASSUME NEW at \in Nat, NEW n \in 0 .. RW_BUFF_SIZE
    PROVE  /\ ToInt(n - at) \in IntValue
           /\ at <= INT_VALUES => ToInt(n - at) = n - at
<1>1. n - at \in Int
  OBVIOUS
<1>2. at <= INT_VALUES => n - at \in IntValue
  BY DEF IntValue
<1> QED BY <1>1, <1>2, ToIntIs, ToIntOfInt

LEMMA ClipBounds ==
    ASSUME NEW at \in Nat, NEW n \in Nat
    PROVE  /\ Clip(at, n) \in IntValue
           /\ at <= INT_VALUES => at + Clip(at, n) <= RW_BUFF_SIZE
           /\ ToInt(at + Clip(at, n)) \in 0 .. RW_BUFF_SIZE
           /\ at = 0 => Clip(at, n) >= 0
<1>1. CASE at + n > RW_BUFF_SIZE
  <2>1. Clip(at, n) = ToInt(RW_BUFF_SIZE - at) /\ RW_BUFF_SIZE \in IntValue
    BY <1>1 DEF Clip, IntValue
  <2>2. ToInt(at + ToInt(RW_BUFF_SIZE - at)) = RW_BUFF_SIZE
    BY <2>1, ToIntOfSum
  <2>3. at <= INT_VALUES => ToInt(RW_BUFF_SIZE - at) = RW_BUFF_SIZE - at
    BY LeftBehind
  <2>4. ToInt(RW_BUFF_SIZE - at) \in IntValue
    BY LeftBehind
  <2> QED BY <2>1, <2>2, <2>3, <2>4 DEF IntValue
<1>2. CASE ~(at + n > RW_BUFF_SIZE)
  <2>1. Clip(at, n) = n /\ at + n \in 0 .. RW_BUFF_SIZE
    BY <1>2 DEF Clip
  <2>2. ToInt(at + n) = at + n
    BY <2>1, BufferIsInt
  <2> QED BY <2>1, <2>2 DEF IntValue
<1> QED BY <1>1, <1>2

\* A call of read or write begins at the position of its file or at its own.
LEMMA NewCallTyped ==
    ASSUME TypeOK, NEW quiet \in BOOLEAN, NEW c \in NewCalls(quiet)
    PROVE  /\ c \in CallRecord /\ c.file \in Files /\ c.at \in Nat /\ c.len \in Nat
           /\ c.moved = <<>> /\ c.l_len = 0 /\ c.quiet = quiet
           /\ ~c.positioned => c.at <= RW_BUFF_SIZE
<1>1. /\ c \in [file : Files, len : Lens, at : Offsets \cup {f_pos[f] : f \in Files},
                 positioned : BOOLEAN, l_len : {0}, moved : {<<>>}, fault : {FALSE}, quiet : {quiet}]
      /\ c.at \in IF c.positioned THEN Offsets ELSE {f_pos[c.file]}
  BY DEF NewCalls
<1>2. /\ c.file \in Files /\ c.len \in Nat /\ c.positioned \in BOOLEAN /\ c.l_len = 0
      /\ c.moved = <<>> /\ c.fault \in BOOLEAN /\ c.quiet = quiet
  BY <1>1
<1>3. c.at \in Nat /\ (~c.positioned => c.at <= RW_BUFF_SIZE)
  <2>1. f_pos[c.file] \in Nat /\ f_pos[c.file] <= RW_BUFF_SIZE
    BY <1>2 DEF TypeOK
  <2> QED BY <1>1, <2>1
<1>4. <<>> \in Seq(Moved) /\ 0 \in 0 .. INT_VALUES - 1
  OBVIOUS
<1>5. c \in CallRecord
  <2>1. c = [file |-> c.file, len |-> c.len, at |-> c.at, positioned |-> c.positioned,
             l_len |-> c.l_len, moved |-> c.moved, fault |-> c.fault, quiet |-> c.quiet]
    BY <1>1
  <2> QED BY <1>2, <1>3, <1>4, <2>1 DEF CallRecord
<1> QED BY <1>2, <1>3, <1>5

LEMMA InitIInv == Init => IInv
<1> SUFFICES ASSUME Init PROVE IInv
  OBVIOUS
<1>1. TypeOK
  <2>1. io \in [Procs -> CallRecord] /\ pc \in [Procs -> PC]
    BY NoCallTyped DEF Init, PC
  <2>2. rw_test_buff \in [Index -> Byte] /\ ioctl_test_buff \in IntValue /\ text \in Seq(Byte)
    BY DEF Init, Cleared, Byte, IntValue
  <2>3. f_pos \in [Files -> 0 .. RW_BUFF_SIZE] /\ rw_test_len \in 0 .. RW_BUFF_SIZE /\ mixed \in BOOLEAN
    <3>1. 0 \in 0 .. RW_BUFF_SIZE
      OBVIOUS
    <3> QED BY <3>1 DEF Init
  <2> QED BY <2>1, <2>2, <2>3 DEF TypeOK, CallRecord, Moved
<1>2. LocalsInv
  BY DEF Init, LocalsInv, LocalsFit, NoCall, WritePC
<1>3. TextInv
  BY DEF Init, TextInv, Writing, WritePC, Holds
<1> QED BY <1>1, <1>2, <1>3 DEF IInv

-----------------------------------------------------------------------------
(* The steps of choen_read leave the device and the text alone. *)

DeviceUnchanged == UNCHANGED <<rw_test_buff, rw_test_len, text, mixed>>

\* A step of p that moves p between statements outside choen_write.
LEMMA OutsideWrite ==
    ASSUME IInv, NEW p \in Procs, DeviceUnchanged,
           pc[p] \notin WritePC, NEW next \in PC \ WritePC,
           pc' = [pc EXCEPT ![p] = next],
           \A q \in Procs \ {p} : io'[q] = io[q]
    PROVE  TextInv'
<1>1. Writing' = Writing /\ p \notin Writing
  BY DEF Writing, IInv, TypeOK
<1>2. \A q \in Writing : pc'[q] = pc[q] /\ io'[q] = io[q]
  BY <1>1 DEF Writing, IInv, TypeOK
<1> QED BY SMTT(20), <1>1, <1>2 DEF IInv, TextInv, ChunkInv, Holds, DeviceUnchanged

LEMMA ReadStepInv ==
    ASSUME IInv, NEW p \in Procs, choen_read(p) \/ Return(p)
    PROVE  IInv'
<1> USE DEF devVars, history, Goto
<1>t. io[p] \in CallRecord /\ io[p].moved \in Seq(Moved) /\ Len(io[p].moved) \in Nat
      /\ io[p].at \in Nat /\ io[p].l_len \in 0 .. INT_VALUES - 1 /\ io[p].len \in Nat
      /\ rw_test_len \in 0 .. RW_BUFF_SIZE /\ pc \in [Procs -> PC] /\ io \in [Procs -> CallRecord]
      /\ (~io[p].positioned => io[p].at <= RW_BUFF_SIZE)
  BY CallFields DEF IInv, TypeOK, CallRecord, Moved, LocalsInv, LocalsFit
<1>1. ASSUME ReadEnter(p) PROVE IInv'
  <2>0. (Writing = {}) \in BOOLEAN
    OBVIOUS
  <2>1. PICK c \in NewCalls(Writing = {}) : io' = [io EXCEPT ![p] = c]
    BY <1>1 DEF ReadEnter
  <2> HIDE DEF Writing
  <2>2. c \in CallRecord /\ c.file \in Files /\ c.moved = <<>>
        /\ (~c.positioned => c.at <= RW_BUFF_SIZE)
    BY <2>0, <2>1, NewCallTyped DEF IInv
  <2>3. TypeOK'
    BY <1>1, <1>t, <2>1, <2>2 DEF ReadEnter, IInv, TypeOK, CallRecord, Moved, PC, ReadPC
  <2>4. LocalsInv'
    BY <1>1, <1>t, <2>1, <2>2 DEF ReadEnter, IInv, LocalsInv, LocalsFit, Inside, Far, WritePC
  <2>5. TextInv'
    BY <1>1, <1>t, <2>1, OutsideWrite DEF ReadEnter, DeviceUnchanged, PC, ReadPC, WritePC
  <2> QED BY <2>3, <2>4, <2>5 DEF IInv
<1>2. ASSUME ReadTest(p) \/ ReadClip(p) PROVE IInv'
  <2> DEFINE Moves(l, next) ==
        /\ io' = [io EXCEPT ![p].l_len = l]
        /\ pc' = [pc EXCEPT ![p] = next]
        /\ next = "copy_out" => (io[p].at + l <= RW_BUFF_SIZE \/ Far(p)) /\ l > 0
  <2> HIDE DEF Moves
  <2>1. PICK l \in 0 .. INT_VALUES - 1, next \in {"clip", "copy_out", "read_ret"} : Moves(l, next)
    <3>0. 0 \in 0 .. INT_VALUES - 1
      OBVIOUS
    <3>1. CASE ReadClip(p)
      <4> DEFINE l == ToInt(rw_test_len - io[p].at)
      <4>0. l \in IntValue /\ (io[p].at <= INT_VALUES => l = rw_test_len - io[p].at)
        BY <1>t, LeftBehind
      <4>1. CopyOrReturn(p, l, "copy_out", "read_ret")
        BY <3>1 DEF ReadClip
      <4>2. io[p].at + l <= RW_BUFF_SIZE \/ Far(p)
        <5>1. CASE io[p].at <= INT_VALUES
          BY <5>1, <4>0, <1>t
        <5>2. CASE ~(io[p].at <= INT_VALUES)
          BY <5>2, <1>t DEF Far, CallRecord
        <5> QED BY <5>1, <5>2
      <4> HIDE DEF l
      <4>3. CASE l <= 0
        <5>1. Moves(0, "read_ret")
          BY <4>1, <4>3 DEF CopyOrReturn, Moves
        <5> QED BY <5>1, <3>0
      <4>4. CASE ~(l <= 0)
        <5>1. l \in 0 .. INT_VALUES - 1 /\ l > 0
          BY <4>0, <4>4 DEF IntValue
        <5>2. Moves(l, "copy_out")
          BY <4>1, <4>2, <4>4, <5>1 DEF CopyOrReturn, Moves
        <5> QED BY <5>1, <5>2
      <4> QED BY <4>3, <4>4
    <3>2. CASE ReadTest(p) /\ io[p].at + io[p].len > rw_test_len
      <4>1. Moves(io[p].l_len, "clip")
        BY <3>2, <1>t DEF ReadTest, CallRecord, Moves
      <4> QED BY <4>1, <1>t
    <3>3. CASE ReadTest(p) /\ ~(io[p].at + io[p].len > rw_test_len)
      <4>1. CASE io[p].len <= 0
        <5>1. Moves(0, "read_ret")
          BY <3>3, <4>1, <1>t DEF ReadTest, CopyOrReturn, Moves
        <5> QED BY <5>1, <3>0
      <4>2. CASE io[p].len > 0
        <5>1. Moves(io[p].len, "copy_out") /\ io[p].len \in 0 .. INT_VALUES - 1
          BY <3>3, <4>2, <1>t DEF ReadTest, CopyOrReturn, Moves
        <5> QED BY <5>1
      <4> QED BY <4>1, <4>2, <1>t
    <3> QED BY <3>1, <3>2, <3>3, <1>2
  <2>2. pc[p] \in {"test", "clip"} /\ UNCHANGED <<rw_test_buff, rw_test_len, ioctl_test_buff, f_pos, text, mixed>>
    BY <1>2 DEF ReadTest, ReadClip
  <2>3. TypeOK'
    BY <1>t, <2>1, <2>2 DEF IInv, TypeOK, CallRecord, Moved, PC, ReadPC, Moves
  <2>4. LocalsInv'
    <3>1. \A q \in Procs \ {p} : LocalsFit(q)'
      BY <1>t, <2>1, <2>2 DEF IInv, LocalsInv, LocalsFit, Inside, Far, Moves
    <3>2. io'[p] = [io[p] EXCEPT !.l_len = l] /\ pc'[p] = next
      BY <1>t, <2>1 DEF Moves
    <3>3. /\ io'[p].l_len = l /\ io'[p].at = io[p].at /\ io'[p].moved = io[p].moved
          /\ io'[p].positioned = io[p].positioned /\ io'[p].file = io[p].file
          /\ Far(p)' = Far(p)
      BY <1>t, <3>2 DEF CallRecord, Far
    <3>4. io[p].moved = <<>> /\ io[p].file \in Files
      BY <2>2 DEF IInv, LocalsInv, LocalsFit
    <3>5. LocalsFit(p)'
      BY <1>t, <2>1, <3>2, <3>3, <3>4 DEF LocalsFit, Inside, Moves, WritePC
    <3> QED BY <3>1, <3>5 DEF LocalsInv
  <2>5. TextInv'
    BY <1>t, <2>1, <2>2, OutsideWrite DEF DeviceUnchanged, PC, ReadPC, WritePC, Moves
  <2> QED BY <2>3, <2>4, <2>5 DEF IInv
<1>3. ASSUME ReadByte(p) PROVE IInv'
  <2>0. pc[p] = "copy_out" /\ Inside(p) /\ Len(io[p].moved) < io[p].l_len
        /\ UNCHANGED <<rw_test_buff, rw_test_len, ioctl_test_buff, f_pos, text, mixed>>
        /\ io[p].file \in Files
    BY <1>3 DEF ReadByte, IInv, LocalsInv, LocalsFit
  <2> DEFINE Moves(s, b, next) ==
        /\ io' = [io EXCEPT ![p].moved = s, ![p].fault = b]
        /\ pc' = [pc EXCEPT ![p] = next]
        /\ Len(s) <= io[p].l_len
        /\ next = "copy_out" => Len(s) < io[p].l_len
  <2> HIDE DEF Moves
  <2>1. PICK s \in Seq(Moved), b \in BOOLEAN, next \in {"copy_out", "read_ret"} : Moves(s, b, next)
    <3> DEFINE x == Memory(io[p].at + Len(io[p].moved))
               s == Append(io[p].moved, x)
    <3>1. CASE io' = [io EXCEPT ![p].moved = s]
               /\ IF Len(io'[p].moved) = io[p].l_len THEN pc' = [pc EXCEPT ![p] = "read_ret"] ELSE UNCHANGED pc
      <4>2. x \in Moved
        BY DEF IInv, TypeOK, Memory, Moved
      <4> HIDE DEF x
      <4>3. s \in Seq(Moved) /\ Len(s) = Len(io[p].moved) + 1
        BY <4>2, <1>t
      <4> HIDE DEF s
      <4>4. io' = [io EXCEPT ![p].moved = s, ![p].fault = io[p].fault] /\ io'[p].moved = s
        BY <3>1, <1>t DEF CallRecord
      <4>5. io[p].fault \in BOOLEAN
        BY CallFields DEF IInv
      <4>6. CASE Len(s) = io[p].l_len
        <5>1. pc' = [pc EXCEPT ![p] = "read_ret"]
          BY <3>1, <4>4, <4>6
        <5>2. Moves(s, io[p].fault, "read_ret")
          BY <5>1, <4>3, <4>4, <4>6, <1>t DEF Moves
        <5> QED BY <5>2, <4>3, <4>5
      <4>7. CASE Len(s) # io[p].l_len
        <5>1. UNCHANGED pc
          BY <3>1, <4>4, <4>7
        <5>2. pc' = [pc EXCEPT ![p] = "copy_out"]
          BY <5>1, <2>0, <1>t
        <5>3. Moves(s, io[p].fault, "copy_out")
          BY <5>2, <4>3, <4>4, <4>7, <1>t, <2>0 DEF Moves
        <5> QED BY <5>3, <4>3, <4>5
      <4> QED BY <4>6, <4>7
    <3>2. CASE io' = [io EXCEPT ![p].fault = TRUE, ![p].moved = <<>>] /\ pc' = [pc EXCEPT ![p] = "read_ret"]
      <4>1. Moves(<<>>, TRUE, "read_ret")
        <5>1. Len(<<>>) <= io[p].l_len
          BY <1>t
        <5>2. io' = [io EXCEPT ![p].moved = <<>>, ![p].fault = TRUE]
          BY <3>2, <1>t DEF CallRecord
        <5> QED BY <5>1, <5>2, <3>2 DEF Moves
      <4>2. <<>> \in Seq(Moved)
        OBVIOUS
      <4> QED BY <4>1, <4>2
    <3> QED BY <1>3, <3>1, <3>2 DEF ReadByte
  <2>3. TypeOK'
    BY <1>t, <2>0, <2>1 DEF IInv, TypeOK, CallRecord, Moved, PC, ReadPC, Moves
  <2>4. LocalsInv'
    <3>1. \A q \in Procs \ {p} : LocalsFit(q)'
      BY <1>t, <2>0, <2>1 DEF IInv, LocalsInv, LocalsFit, Inside, Far, Moves
    <3>2. io'[p] = [io[p] EXCEPT !.moved = s, !.fault = b] /\ pc'[p] = next
      BY <1>t, <2>1 DEF Moves
    <3>3. /\ io'[p].l_len = io[p].l_len /\ io'[p].at = io[p].at /\ io'[p].moved = s
          /\ io'[p].positioned = io[p].positioned /\ io'[p].file = io[p].file
          /\ Far(p)' = Far(p)
      BY <1>t, <3>2 DEF CallRecord, Far
    <3>4. io[p].positioned \/ io[p].at + Len(s) <= RW_BUFF_SIZE
      <4>1. Len(s) \in Nat /\ Len(s) <= io[p].l_len
        BY <2>1 DEF Moves
      <4> QED BY <4>1, <2>0, <1>t DEF Inside, Far
    <3>5. LocalsFit(p)'
      BY <1>t, <2>0, <2>1, <3>2, <3>3, <3>4 DEF LocalsFit, Inside, Moves, WritePC
    <3> QED BY <3>1, <3>5 DEF LocalsInv
  <2>5. TextInv'
    BY <1>t, <2>0, <2>1, OutsideWrite DEF DeviceUnchanged, PC, ReadPC, WritePC, Moves
  <2> QED BY <2>3, <2>4, <2>5 DEF IInv
<1>4. ASSUME Return(p) PROVE IInv'
  <2>0. /\ pc[p] \in {"read_ret", "write_ret"} /\ io[p].file \in Files
        /\ io[p].positioned \/ io[p].at + Len(io[p].moved) \in 0 .. RW_BUFF_SIZE
    BY <1>4, <1>t DEF Return, IInv, LocalsInv, LocalsFit
  <2>1. f_pos' \in [Files -> 0 .. RW_BUFF_SIZE]
    BY <1>4, <2>0 DEF Return, StorePos, IInv, TypeOK
  <2>3. TypeOK'
    BY <1>4, <1>t, <2>1, NoCallTyped DEF Return, IInv, TypeOK, CallRecord, Moved, PC
  <2>4. LocalsInv'
    BY <1>4, <1>t DEF Return, IInv, LocalsInv, LocalsFit, Inside, Far, NoCall, WritePC
  <2>5. TextInv'
    BY <1>4, <1>t, OutsideWrite DEF Return, DeviceUnchanged, PC, ReadPC, WritePC
  <2> QED BY <2>3, <2>4, <2>5 DEF IInv
<1> QED BY <1>1, <1>2, <1>3, <1>4 DEF choen_read

-----------------------------------------------------------------------------
(* The steps of choen_write *)

\* A write that has nothing to write.
LEMMA WriteNothingInv ==
    ASSUME IInv, NEW p \in Procs, pc[p] = "idle", NEW c0 \in NewCalls(FALSE), WriteNothing(p, c0),
           UNCHANGED <<devVars, ioctl_test_buff, f_pos>>
    PROVE  IInv'
<1> USE DEF devVars, history, Goto
<1>t. /\ c0 \in CallRecord /\ c0.file \in Files /\ c0.moved = <<>>
      /\ (~c0.positioned => c0.at <= RW_BUFF_SIZE)
      /\ pc \in [Procs -> PC] /\ io \in [Procs -> CallRecord]
  BY NewCallTyped DEF IInv, TypeOK, CallRecord, Moved
<1>1. io' = [io EXCEPT ![p] = c0] /\ pc' = [pc EXCEPT ![p] = "write_ret"] /\ UNCHANGED <<text, mixed>>
  BY DEF WriteNothing
<1>2. TypeOK'
  BY <1>t, <1>1 DEF IInv, TypeOK, CallRecord, Moved, PC
<1>3. LocalsInv'
  BY <1>t, <1>1 DEF IInv, LocalsInv, LocalsFit, Inside, Far, CallRecord, WritePC
<1>4. TextInv'
  BY <1>t, <1>1, OutsideWrite DEF DeviceUnchanged, PC, WritePC
<1> QED BY <1>2, <1>3, <1>4 DEF IInv

LEMMA WriteBeginsInv ==
    ASSUME IInv, NEW p \in Procs, pc[p] = "idle", NEW c0 \in NewCalls(FALSE), WriteBegins(p, c0),
           UNCHANGED <<devVars, ioctl_test_buff, f_pos>>
    PROVE  IInv'
<1> DEFINE at == c0.at
           l_len == Clip(at, c0.len)
           next == IF at = 0 THEN "memset" ELSE "copy_in"
           c == [c0 EXCEPT !.l_len = l_len]
<1>0. /\ c0 \in CallRecord /\ c0.file \in Files /\ c0.moved = <<>> /\ at \in Nat /\ c0.len \in Nat
      /\ (~c0.positioned => at <= RW_BUFF_SIZE)
  BY NewCallTyped DEF IInv
<1>1. /\ l_len \in 0 .. INT_VALUES - 1 /\ ToInt(at + l_len) \in 0 .. RW_BUFF_SIZE
      /\ at <= INT_VALUES => at + l_len <= RW_BUFF_SIZE
      /\ next \in {"memset", "copy_in"}
      /\ next = "copy_in" => l_len > 0 /\ at # 0
      /\ next = "memset" <=> at = 0
  <2>1. at = 0 \/ l_len > 0
    BY DEF WriteBegins
  <2>2. /\ l_len \in IntValue /\ ToInt(at + l_len) \in 0 .. RW_BUFF_SIZE
        /\ at <= INT_VALUES => at + l_len <= RW_BUFF_SIZE
        /\ at = 0 => l_len >= 0
    BY <1>0, ClipBounds
  <2> HIDE DEF at, l_len
  <2>3. l_len \in 0 .. INT_VALUES - 1
    BY <2>1, <2>2 DEF IntValue
  <2> QED BY <2>1, <2>2, <2>3
<1>2. /\ c.file \in Files /\ c.at = at /\ c.l_len = l_len /\ c.moved = <<>> /\ c \in CallRecord
      /\ c.positioned = c0.positioned /\ c.positioned \in BOOLEAN
  <2> HIDE DEF l_len
  <2> QED BY <1>0, <1>1 DEF CallRecord
<1>3. /\ pc[p] = "idle"
      /\ pc' = [pc EXCEPT ![p] = next]
      /\ io' = [q \in Procs |-> IF q = p THEN c ELSE [io[q] EXCEPT !.quiet = FALSE]]
      /\ mixed' = (Writing # {} \/ (at # 0 /\ (mixed \/ at # Len(text))))
      /\ text' = IF mixed' \/ at = 0 THEN <<>> ELSE text
      /\ UNCHANGED <<rw_test_buff, rw_test_len, ioctl_test_buff, f_pos>>
  BY DEF WriteBegins, Goto, devVars
<1>4. \A q \in Procs \ {p} :
         /\ io'[q] \in CallRecord /\ io'[q].file = io[q].file /\ io'[q].at = io[q].at
         /\ io'[q].l_len = io[q].l_len /\ io'[q].moved = io[q].moved /\ pc'[q] = pc[q]
         /\ io'[q].positioned = io[q].positioned
  <2> SUFFICES ASSUME NEW q \in Procs \ {p}
               PROVE  /\ io'[q] \in CallRecord /\ io'[q].file = io[q].file /\ io'[q].at = io[q].at
                      /\ io'[q].l_len = io[q].l_len /\ io'[q].moved = io[q].moved /\ pc'[q] = pc[q]
                      /\ io'[q].positioned = io[q].positioned
    OBVIOUS
  <2>1. io'[q] = [io[q] EXCEPT !.quiet = FALSE] /\ io[q] \in CallRecord
    BY <1>3, CallFields DEF IInv
  <2>2. pc'[q] = pc[q]
    BY <1>3 DEF IInv, TypeOK
  <2> QED BY <2>1, <2>2 DEF CallRecord
<1>5. io'[p] = c /\ pc'[p] = next /\ DOMAIN io' = Procs /\ DOMAIN pc' = Procs
  BY <1>3 DEF IInv, TypeOK
<1> HIDE DEF at, l_len, next, c
<1>6. TypeOK'
  <2>1. io' \in [Procs -> CallRecord]
    BY <1>2, <1>3, <1>4, <1>5
  <2>2. pc' \in [Procs -> PC]
    BY <1>1, <1>3 DEF IInv, TypeOK, PC, WritePC
  <2>3. text' \in Seq(Byte) /\ mixed' \in BOOLEAN
    <3>1. <<>> \in Seq(Byte)
      OBVIOUS
    <3> QED BY <1>3, <3>1 DEF IInv, TypeOK
  <2> QED BY <1>3, <2>1, <2>2, <2>3 DEF IInv, TypeOK, CallRecord, Moved
<1>7. LocalsInv'
  <2>1. \A q \in Procs \ {p} : LocalsFit(q)'
    BY <1>4 DEF IInv, LocalsInv, LocalsFit, Inside, Far
  <2>2. LocalsFit(p)'
    <3>1. at + l_len <= RW_BUFF_SIZE \/ (c.positioned /\ at > INT_VALUES)
      BY <1>0, <1>1, <1>2 DEF at
    <3>2. Inside(p)'
      BY <3>1, <1>2, <1>5 DEF Inside, Far
    <3>3. ~c.positioned => at <= RW_BUFF_SIZE
      BY <1>0, <1>2 DEF at
    <3>4. c.moved \in Seq(Byte)
      BY <1>2
    <3> QED BY <3>2, <3>3, <3>4, <1>1, <1>2, <1>5 DEF LocalsFit, WritePC
  <2> QED BY <2>1, <2>2 DEF LocalsInv
<1>8. TextInv'
  <2>1. Len(text') <= RW_BUFF_SIZE
    <3>1. Len(<<>>) <= RW_BUFF_SIZE
      OBVIOUS
    <3> QED BY <3>1, <1>3 DEF IInv, TextInv
  <2>2. ASSUME ~mixed'
        PROVE  /\ (Writing = {} => Holds)'
               /\ (\A q, r \in Writing : q = r)'
               /\ (\A q \in Writing : ChunkInv(q))'
    <3>1. Writing = {} /\ (at = 0 \/ (~mixed /\ at = Len(text)))
      BY <2>2, <1>3
    <3>2. Writing' \subseteq {p}
      BY <3>1, <1>4 DEF Writing
    <3>3. CASE at = 0
      <4>1. text' = <<>> /\ Len(text') = 0 /\ pc'[p] = "memset" /\ io'[p].at = 0
        BY <3>3, <1>1, <1>2, <1>3, <1>5
      <4>2. p \in Writing'
        BY <4>1 DEF Writing, WritePC
      <4> QED BY <3>2, <4>1, <4>2 DEF ChunkInv
    <3>4. CASE at # 0
      <4>1. text' = text /\ Holds /\ io'[p].at = Len(text) /\ io'[p].moved = <<>>
            /\ rw_test_buff' = rw_test_buff /\ rw_test_len' = rw_test_len
        BY <3>4, <3>1, <2>2, <1>2, <1>3, <1>5 DEF IInv, TextInv
      <4>2. Holds'
        BY <4>1 DEF Holds
      <4>3. ChunkInv(p)'
        BY <4>1, <4>2 DEF ChunkInv
      <4> QED BY <3>2, <4>2, <4>3
    <3> QED BY <3>3, <3>4
  <2> QED BY <2>1, <2>2 DEF TextInv
<1> QED BY <1>6, <1>7, <1>8 DEF IInv

\* A step of the only writer from one statement of choen_write to another.
LEMMA InsideWrite ==
    ASSUME IInv, NEW p \in Procs, pc[p] \in WritePC, NEW next \in WritePC,
           pc' = [pc EXCEPT ![p] = next],
           \A q \in Procs \ {p} : io'[q] = io[q], UNCHANGED <<text, mixed>>,
           ~mixed => ChunkInv(p)'
    PROVE  TextInv'
<1>1. Writing' = Writing /\ p \in Writing
  BY DEF Writing, IInv, TypeOK, WritePC
<1>2. ~mixed => \A q \in Writing : q = p
  BY <1>1 DEF IInv, TextInv
<1> QED BY <1>1, <1>2 DEF IInv, TextInv

\* A step of the only writer out of choen_write.
LEMMA LeavesWrite ==
    ASSUME IInv, NEW p \in Procs, pc[p] \in WritePC, NEW next \in PC \ WritePC,
           pc' = [pc EXCEPT ![p] = next], UNCHANGED mixed,
           Len(text') <= RW_BUFF_SIZE,
           ~mixed => Holds'
    PROVE  TextInv'
<1>1. Writing' = Writing \ {p} /\ p \in Writing
  BY DEF Writing, IInv, TypeOK
<1>2. ~mixed => Writing' = {}
  BY <1>1 DEF IInv, TextInv
<1> QED BY <1>1, <1>2 DEF TextInv

LEMMA WriteStepInv ==
    ASSUME IInv, NEW p \in Procs, WriteMemset(p) \/ WriteReset(p) \/ WriteByte(p) \/ WriteSetLen(p)
    PROVE  IInv'
<1> USE DEF devVars, history, Goto
<1>t. /\ io[p] \in CallRecord /\ io[p].moved \in Seq(Moved) /\ Len(io[p].moved) \in Nat
      /\ io[p].at \in Nat /\ io[p].l_len \in 0 .. INT_VALUES - 1
      /\ rw_test_len \in 0 .. RW_BUFF_SIZE /\ pc \in [Procs -> PC] /\ io \in [Procs -> CallRecord]
      /\ rw_test_buff \in [Index -> Byte] /\ text \in Seq(Byte) /\ Len(text) \in Nat
      /\ Len(text) <= RW_BUFF_SIZE
  BY CallFields DEF IInv, TypeOK, CallRecord, Moved, TextInv
<1>w. ~mixed /\ pc[p] \in WritePC => ChunkInv(p)
  BY DEF IInv, TextInv, Writing
<1>f. pc[p] \in WritePC =>
         /\ Inside(p) /\ ToInt(io[p].at + io[p].l_len) \in 0 .. RW_BUFF_SIZE
         /\ io[p].moved \in Seq(Byte)
         /\ ~mixed => io[p].at + io[p].l_len <= RW_BUFF_SIZE
  BY <1>t, <1>w DEF IInv, LocalsInv, LocalsFit, Inside, Far, ChunkInv
<1>1. ASSUME WriteMemset(p) PROVE IInv'
  <2>0. pc[p] = "memset" /\ io[p].at = 0
    BY <1>1 DEF WriteMemset, IInv, LocalsInv, LocalsFit, Inside, Far, WritePC
  <2>1. TypeOK'
    BY <1>1, <1>t DEF WriteMemset, IInv, TypeOK, CallRecord, Moved, PC, WritePC, Cleared, Byte
  <2>2. LocalsInv'
    BY <1>1, <1>t DEF WriteMemset, IInv, LocalsInv, LocalsFit, Inside, Far, WritePC
  <2>3. ~mixed => ChunkInv(p)'
    BY <1>1, <1>t, <1>w, <2>0 DEF WriteMemset, ChunkInv, WritePC
  <2>4. TextInv'
    BY <1>1, <1>t, <2>3, InsideWrite DEF WriteMemset, WritePC
  <2> QED BY <2>1, <2>2, <2>4 DEF IInv
<1>2. ASSUME WriteReset(p) PROVE IInv'
  <2>0. pc[p] = "reset" /\ io[p].at = 0 /\ io[p].moved = <<>> /\ (~mixed => Len(text) = 0)
        /\ rw_test_len' = 0 /\ UNCHANGED <<text, mixed, rw_test_buff, io>>
    BY <1>2, <1>w DEF WriteReset, IInv, LocalsInv, LocalsFit, ChunkInv, WritePC
  <2>1. TypeOK'
    <3>1. 0 \in 0 .. RW_BUFF_SIZE
      OBVIOUS
    <3> QED BY <1>2, <1>t, <3>1 DEF WriteReset, IInv, TypeOK, CallRecord, Moved, PC, WritePC
  <2>2. LocalsInv'
    <3>1. \A q \in Procs \ {p} : LocalsFit(q)'
      BY <1>2, <1>t DEF WriteReset, IInv, LocalsInv, LocalsFit, Inside, Far, WritePC
    <3>2. LocalsFit(p)'
      <4>1. /\ io'[p] = io[p] /\ Len(io[p].moved) = 0 /\ io[p].file \in Files
            /\ Inside(p) /\ Inside(p)' = Inside(p) /\ io[p].moved \in Seq(Byte)
            /\ (~io[p].positioned => io[p].at <= RW_BUFF_SIZE) /\ ToInt(io[p].at + io[p].l_len) \in 0 .. RW_BUFF_SIZE
        BY <2>0, <1>t, <1>f DEF IInv, LocalsInv, LocalsFit, Inside, Far, WritePC
      <4>2. CASE io[p].l_len = 0
        BY <1>2, <1>t, <2>0, <4>1, <4>2 DEF WriteReset, LocalsFit, WritePC
      <4>3. CASE io[p].l_len # 0
        BY <1>2, <1>t, <2>0, <4>1, <4>3 DEF WriteReset, LocalsFit, WritePC
      <4> QED BY <4>2, <4>3
    <3> QED BY <3>1, <3>2 DEF LocalsInv
  <2>3. ~mixed => Holds'
    BY <2>0 DEF Holds
  <2>4. CASE io[p].l_len = 0
    <3>1. Len(text') <= RW_BUFF_SIZE /\ pc' = [pc EXCEPT ![p] = "write_ret"]
      BY <1>2, <1>t, <2>0, <2>4 DEF WriteReset
    <3>2. TextInv'
      BY <3>1, <2>0, <2>3, LeavesWrite DEF WritePC, PC
    <3> QED BY <2>1, <2>2, <3>2 DEF IInv
  <2>5. CASE io[p].l_len # 0
    <3>1. pc' = [pc EXCEPT ![p] = "copy_in"]
      BY <1>2, <2>5 DEF WriteReset
    <3>2. ~mixed => ChunkInv(p)'
      BY <1>t, <1>w, <2>0, <2>3 DEF ChunkInv
    <3>3. TextInv'
      BY <3>1, <3>2, <2>0, InsideWrite DEF WritePC
    <3> QED BY <2>1, <2>2, <3>3 DEF IInv
  <2> QED BY <2>4, <2>5
<1>3. ASSUME WriteByte(p) PROVE IInv'
  <2> DEFINE c == io[p]
             next == io[p].at + Len(io[p].moved)
             end == io[p].at + io[p].l_len
  <2>0. /\ pc[p] = "copy_in" /\ next < end /\ Inside(p) /\ ToInt(end) \in 0 .. RW_BUFF_SIZE
        /\ c.file \in Files /\ (~mixed => ChunkInv(p) /\ end <= RW_BUFF_SIZE /\ next \in Index)
        /\ next \in Nat /\ end \in Nat /\ c.positioned \in BOOLEAN
        /\ (~c.positioned => c.at <= RW_BUFF_SIZE) /\ c.moved \in Seq(Byte)
        /\ UNCHANGED <<rw_test_len, ioctl_test_buff, f_pos, text, mixed>>
    <3>1. /\ pc[p] = "copy_in" /\ (~mixed => ChunkInv(p))
          /\ UNCHANGED <<rw_test_len, ioctl_test_buff, f_pos, text, mixed>>
      BY <1>3, <1>w DEF WriteByte, WritePC
    <3>2. /\ c.file \in Files /\ Inside(p) /\ Len(c.moved) < c.l_len
          /\ (~mixed => end <= RW_BUFF_SIZE) /\ ToInt(end) \in 0 .. RW_BUFF_SIZE
          /\ (~c.positioned => c.at <= RW_BUFF_SIZE) /\ c.moved \in Seq(Byte)
      BY <3>1, <1>f DEF IInv, LocalsInv, LocalsFit, WritePC
    <3>3. next < end /\ next \in Nat /\ end \in Nat /\ (~mixed => next \in Index)
      BY <3>2, <1>t DEF Index
    <3>4. c.positioned \in BOOLEAN
      BY CallFields DEF IInv
    <3> QED BY <3>1, <3>2, <3>3, <3>4
  <2>1. ASSUME rw_test_buff' = [i \in Index |-> IF i = next THEN p ELSE rw_test_buff[i]],
               io' = [io EXCEPT ![p].moved = Append(@, p)],
               IF next + 1 = end THEN pc' = [pc EXCEPT ![p] = "set_len"] ELSE UNCHANGED pc
        PROVE  IInv'
    <3> DEFINE s == Append(c.moved, p)
    <3>1. /\ s \in Seq(Moved) /\ s \in Seq(Byte) /\ Len(s) = Len(c.moved) + 1 /\ s[Len(s)] = p
          /\ \A i \in 1 .. Len(c.moved) : s[i] = c.moved[i]
      BY <1>t, <2>0 DEF Moved, Byte
    <3>2. io' = [io EXCEPT ![p].moved = s] /\ io'[p] = [c EXCEPT !.moved = s]
      BY <2>1, <1>t
    <3> HIDE DEF s
    <3> DEFINE Moves(nx) == /\ pc' = [pc EXCEPT ![p] = nx]
                            /\ nx = "copy_in" => Len(s) < c.l_len
                            /\ nx = "set_len" => Len(s) = c.l_len
    <3> HIDE DEF Moves
    <3>3. PICK nx \in {"copy_in", "set_len"} : Moves(nx)
      <4>1. CASE next + 1 = end
        <5>1. Moves("set_len")
          BY SMTT(20), <4>1, <2>1, <3>1, <1>t DEF Moves
        <5> QED BY <5>1
      <4>2. CASE next + 1 # end
        <5>1. pc' = [pc EXCEPT ![p] = "copy_in"]
          BY <4>2, <2>0, <2>1, <1>t
        <5>2. Len(c.moved) + 1 < c.l_len
          <6> DEFINE n == Len(c.moved)
          <6>1. c.at \in Nat /\ n \in Nat /\ c.l_len \in Nat /\ c.at + n < c.at + c.l_len
                /\ c.at + n + 1 # c.at + c.l_len
            BY <4>2, <2>0, <1>t
          <6> HIDE DEF n, c
          <6>2. n + 1 < c.l_len
            BY <6>1
          <6> QED BY <6>2 DEF n
        <5>3. Moves("copy_in")
          BY <5>1, <5>2, <3>1 DEF Moves
        <5> QED BY <5>3
      <4> QED BY <4>1, <4>2
    <3>4. TypeOK'
      <4>1. rw_test_buff' \in [Index -> Byte]
        BY <2>1, <1>t DEF Byte
      <4>2. io' \in [Procs -> CallRecord]
        BY <3>1, <3>2, <1>t DEF CallRecord
      <4> QED BY <4>1, <4>2, <2>0, <3>3, <1>t DEF IInv, TypeOK, CallRecord, Moved, PC, WritePC, Moves
    <3>5. LocalsInv'
      <4>1. \A q \in Procs \ {p} : LocalsFit(q)'
        BY <1>t, <3>2, <3>3 DEF IInv, LocalsInv, LocalsFit, Inside, Far, Moves
      <4>2. /\ io'[p].l_len = c.l_len /\ io'[p].at = c.at /\ io'[p].moved = s
            /\ io'[p].positioned = c.positioned /\ io'[p].file = c.file /\ Inside(p)' = Inside(p)
        BY <1>t, <3>2 DEF CallRecord, Inside, Far
      <4>3. pc'[p] = nx
        BY <1>t, <3>3 DEF Moves
      <4>4. LocalsFit(p)'
        BY <2>0, <3>1, <3>3, <4>2, <4>3 DEF LocalsFit, WritePC, Moves
      <4> QED BY <4>1, <4>4 DEF LocalsInv
    <3>6. ~mixed => ChunkInv(p)'
      <4> SUFFICES ASSUME ~mixed PROVE ChunkInv(p)'
        OBVIOUS
      <4>1. Holds /\ c.at = Len(text)
            /\ end <= RW_BUFF_SIZE /\ next \in Index
            /\ \A i \in 1 .. Len(c.moved) : rw_test_buff[c.at + i - 1] = c.moved[i]
        BY <2>0 DEF ChunkInv
      <4>2. Holds'
        <5>1. \A i \in 1 .. Len(text) : i - 1 \in Index /\ i - 1 # next
          BY <4>1, <1>t DEF Index
        <5>2. \A i \in 1 .. Len(text) : rw_test_buff'[i - 1] = rw_test_buff[i - 1]
          BY <5>1, <2>1
        <5> QED BY <4>1, <5>2, <2>0 DEF Holds
      <4>3. io'[p].at = c.at /\ io'[p].moved = s
        BY <3>2, <1>t DEF CallRecord
      <4>4. ASSUME NEW i \in 1 .. Len(s) PROVE rw_test_buff'[c.at + i - 1] = s[i]
        <5>1. CASE i = Len(s)
          BY <5>1, <3>1, <4>1, <2>0, <2>1, <1>t
        <5>2. CASE i # Len(s)
          <6>1. i \in 1 .. Len(c.moved)
            BY <5>2, <3>1, <1>t
          <6>2. c.at + i - 1 \in Index /\ c.at + i - 1 # next
            BY SMTT(20), <6>1, <4>1, <2>0, <1>t DEF Index
          <6> QED BY <6>1, <6>2, <3>1, <4>1, <2>1, <1>t
        <5> QED BY <5>1, <5>2
      <4> QED BY <4>1, <4>2, <4>3, <4>4, <2>0 DEF ChunkInv
    <3>7. TextInv'
      BY <2>0, <3>2, <3>3, <3>6, <1>t, InsideWrite DEF WritePC, Moves
    <3> QED BY <3>4, <3>5, <3>7 DEF IInv
  <2>2. ASSUME rw_test_buff' = [i \in Index |-> IF next <= i /\ i < end THEN Zero ELSE rw_test_buff[i]],
               io' = [io EXCEPT ![p].fault = TRUE, ![p].moved = <<>>],
               pc' = [pc EXCEPT ![p] = "write_ret"]
        PROVE  IInv'
    <3>1. <<>> \in Seq(Moved) /\ Len(<<>>) = 0
      OBVIOUS
    <3>2. io' \in [Procs -> CallRecord]
      BY <2>2, <3>1, <1>t DEF CallRecord
    <3>3. TypeOK'
      <4>1. rw_test_buff' \in [Index -> Byte]
        BY <2>2, <1>t DEF Byte
      <4> QED BY <4>1, <3>2, <2>0, <2>2, <1>t DEF IInv, TypeOK, CallRecord, Moved, PC
    <3>4. LocalsInv'
      <4>1. \A q \in Procs \ {p} : LocalsFit(q)'
        BY <1>t, <2>2 DEF IInv, LocalsInv, LocalsFit, Inside, Far
      <4>2. /\ io'[p].at = c.at /\ io'[p].moved = <<>> /\ io'[p].positioned = c.positioned
            /\ io'[p].file = c.file /\ pc'[p] = "write_ret"
        BY <1>t, <2>2 DEF CallRecord
      <4>3. LocalsFit(p)'
        BY <1>t, <2>0, <3>1, <4>2 DEF LocalsFit, WritePC
      <4> QED BY <4>1, <4>3 DEF LocalsInv
    <3>5. ~mixed => Holds'
      BY SMTT(20), <1>t, <2>0, <2>2 DEF ChunkInv, Holds, Index
    <3>6. TextInv'
      BY <2>0, <2>2, <3>5, <1>t, LeavesWrite DEF WritePC, PC
    <3> QED BY <3>3, <3>4, <3>6 DEF IInv
  <2> QED BY <1>3, <2>1, <2>2 DEF WriteByte
<1>4. ASSUME WriteSetLen(p) PROVE IInv'
  <2> DEFINE c == io[p]
  <2>0. /\ pc[p] = "set_len" /\ Inside(p) /\ Len(c.moved) = c.l_len
        /\ (~mixed => ChunkInv(p) /\ c.at + c.l_len \in 0 .. RW_BUFF_SIZE)
        /\ c.moved \in Seq(Byte) /\ c.file \in Files
        /\ ToInt(c.at + c.l_len) \in 0 .. RW_BUFF_SIZE
        /\ rw_test_len' = ToInt(c.at + c.l_len) /\ text' = (IF mixed THEN text ELSE text \o c.moved)
        /\ pc' = [pc EXCEPT ![p] = "write_ret"]
        /\ UNCHANGED <<rw_test_buff, ioctl_test_buff, f_pos, io, mixed>>
    <3>1. pc[p] = "set_len" /\ pc[p] \in WritePC
      BY <1>4 DEF WriteSetLen, WritePC
    <3>2. Len(c.moved) = c.l_len /\ c.file \in Files
      BY <3>1 DEF IInv, LocalsInv, LocalsFit
    <3>3. ~mixed => c.at + c.l_len \in 0 .. RW_BUFF_SIZE
      BY <3>1, <1>t, <1>f
    <3> QED BY <1>4, <1>w, <1>f, <3>1, <3>2, <3>3 DEF WriteSetLen
  <2>a. ~mixed => rw_test_len' = c.at + c.l_len
    BY <2>0, BufferIsInt
  <2>1. /\ text \o c.moved \in Seq(Byte) /\ Len(text \o c.moved) = Len(text) + Len(c.moved)
        /\ \A i \in 1 .. Len(text) + Len(c.moved) :
              (text \o c.moved)[i] = IF i <= Len(text) THEN text[i] ELSE c.moved[i - Len(text)]
    <3>1. text \in Seq(Byte) /\ c.moved \in Seq(Byte)
      BY <1>t, <2>0
    <3> DEFINE r == c.moved
    <3> HIDE DEF c, r
    <3>2. r \in Seq(Byte)
      BY <3>1 DEF r
    <3> QED BY <3>1, <3>2, ConcatProperties DEF r
  <2>2. TypeOK'
    BY <2>0, <2>1, <1>t DEF IInv, TypeOK, CallRecord, Moved, PC
  <2>3. LocalsInv'
    BY <2>0, <1>t DEF IInv, LocalsInv, LocalsFit, Inside, Far, WritePC
  <2>4. ~mixed => Holds' /\ Len(text') <= RW_BUFF_SIZE
    <3> SUFFICES ASSUME ~mixed PROVE Holds' /\ Len(text') <= RW_BUFF_SIZE
      OBVIOUS
    <3>1. Holds /\ c.at = Len(text) /\ text' = text \o c.moved /\ rw_test_buff' = rw_test_buff
          /\ \A i \in 1 .. Len(c.moved) : rw_test_buff[c.at + i - 1] = c.moved[i]
      BY <2>0 DEF ChunkInv
    <3>2. Len(text') = Len(text) + Len(c.moved)
      BY <2>1, <3>1
    <3>3. ASSUME NEW i \in 1 .. Len(text') PROVE rw_test_buff'[i - 1] = text'[i]
      <4>1. CASE i <= Len(text)
        BY <4>1, <2>1, <3>1, <3>2, <1>t DEF Holds
      <4>2. CASE ~(i <= Len(text))
        <5>1. i - Len(text) \in 1 .. Len(c.moved) /\ c.at + (i - Len(text)) - 1 = i - 1
          BY <4>2, <3>1, <3>2, <1>t
        <5>2. rw_test_buff[i - 1] = c.moved[i - Len(text)]
          BY <5>1, <3>1
        <5> QED BY <4>2, <5>2, <2>1, <3>1, <3>2, <1>t
      <4> QED BY <4>1, <4>2
    <3> QED BY <3>1, <3>2, <3>3, <2>0, <2>a, <1>t DEF Holds
  <2>5. Len(text') <= RW_BUFF_SIZE
    BY <2>0, <2>4, <1>t
  <2>6. TextInv'
    BY <2>0, <2>4, <2>5, <1>t, LeavesWrite DEF WritePC, PC
  <2> QED BY <2>2, <2>3, <2>6 DEF IInv
<1> QED BY <1>1, <1>2, <1>3, <1>4

-----------------------------------------------------------------------------

LEMMA OtherStepInv ==
    ASSUME IInv, choen_ioctl \/ (\E f \in Files : choen_open(f)) \/ UNCHANGED vars
    PROVE  IInv'
<1> USE DEF devVars, history
<1>1. UNCHANGED <<rw_test_buff, rw_test_len, pc, io, text, mixed>>
  BY DEF choen_ioctl, choen_open, vars
<1>2. f_pos' \in [Files -> 0 .. RW_BUFF_SIZE]
  BY DEF choen_ioctl, choen_open, vars, IInv, TypeOK
<1>3. ioctl_test_buff' \in IntValue
  <2>1. 0 \in IntValue
    BY DEF IntValue
  <2>2. CASE choen_ioctl
    <3>1. PICK arg \in Args : ioctl_test_buff' \in {ToInt(arg), 0}
      BY <2>2 DEF choen_ioctl
    <3>2. ToInt(arg) \in IntValue
      BY ToIntIs
    <3> QED BY <2>1, <3>1, <3>2
  <2>3. CASE ~choen_ioctl
    BY <2>3 DEF choen_open, vars, IInv, TypeOK
  <2> QED BY <2>2, <2>3
<1>4. TypeOK'
  BY <1>1, <1>2, <1>3 DEF IInv, TypeOK
<1>5. LocalsInv'
  BY <1>1 DEF IInv, LocalsInv, LocalsFit, Inside, Far
<1>6. TextInv'
  BY <1>1 DEF IInv, TextInv, Writing, ChunkInv, Holds
<1> QED BY <1>4, <1>5, <1>6 DEF IInv

\* IInv is inductive.
LEMMA NextIInv == IInv /\ [Next]_vars => IInv'
<1> SUFFICES ASSUME IInv, [Next]_vars PROVE IInv'
  OBVIOUS
<1>1. ASSUME NEW p \in Procs, choen_read(p) \/ Return(p) PROVE IInv'
  BY <1>1, ReadStepInv
<1>2. ASSUME NEW p \in Procs, choen_write(p) PROVE IInv'
  <2>1. CASE WriteEnter(p)
    BY <2>1, WriteNothingInv, WriteBeginsInv DEF WriteEnter
  <2> QED BY <1>2, <2>1, WriteStepInv DEF choen_write
<1>3. CASE choen_ioctl \/ (\E f \in Files : choen_open(f)) \/ UNCHANGED vars
  BY <1>3, OtherStepInv
<1> QED BY <1>1, <1>2, <1>3 DEF Next

LEMMA SpecIInv == Spec => []IInv
  BY InitIInv, NextIInv, PTL DEF Spec

\* The length, the positions and the int of ioctl stay in range for every
\* buffer size and any number of processes and files.
THEOREM BaseTypeOK == Spec => []TypeOK
<1>1. IInv => TypeOK
  BY DEF IInv
<1> QED BY <1>1, SpecIInv, PTL

\* No copy of choen_read or choen_write leaves rw_test_buff, although
\* rw_test_len is tested, read and replaced without a lock.
THEOREM CopiesInsideHolds == Spec => []CopiesInside
<1>1. IInv => CopiesInside
  BY DEF IInv, LocalsInv, LocalsFit, Inside, CopiesInside, WritePC
<1> QED BY <1>1, SpecIInv, PTL

\* Chunks that are written alone are kept, faults leave no trace, and a lone
\* write at offset 0 undoes any mixture.
THEOREM TextKeptHolds == Spec => []TextKept
<1>1. IInv => TextKept
  BY DEF IInv, TextInv, TextKept, Holds
<1> QED BY <1>1, SpecIInv, PTL

-----------------------------------------------------------------------------
(* Reads that no write overlaps *)

\* What a read knows of the text while no write has begun.
QuietRead(p) ==
    LET c == io[p]
        asked == c.at + c.len
    IN  /\ Writing = {}
        /\ pc[p] \in {"clip", "copy_out", "read_ret"} =>
              Len(c.moved) <= c.len
        /\ pc[p] = "clip" => asked > rw_test_len
        /\ pc[p] = "copy_out" => c.l_len <= c.len
        /\ pc[p] = "copy_out" => c.l_len = (IF asked <= rw_test_len THEN c.len ELSE rw_test_len - c.at)
        /\ ~mixed /\ pc[p] \in {"copy_out", "read_ret"} /\ ~c.fault =>
              \A i \in 1 .. Len(c.moved) : c.at + i <= Len(text) /\ c.moved[i] = text[c.at + i]
        /\ pc[p] = "read_ret" /\ ~c.fault =>
              Len(c.moved) = (IF asked <= rw_test_len THEN c.len
                              ELSE IF rw_test_len - c.at <= 0 THEN 0 ELSE rw_test_len - c.at)

QuietInv == \A p \in Procs : io[p].quiet /\ pc[p] \in ReadPC /\ ~Far(p) => QuietRead(p)

\* A step that leaves the device, the writers and q alone.
LEMMA QuietOther ==
    ASSUME NEW q \in Procs, io[q].quiet /\ pc[q] \in ReadPC /\ ~Far(q) => QuietRead(q),
           DeviceUnchanged, Writing' = Writing, io'[q] = io[q], pc'[q] = pc[q]
    PROVE  (io[q].quiet /\ pc[q] \in ReadPC /\ ~Far(q) => QuietRead(q))'
  BY DEF QuietRead, DeviceUnchanged, Far

LEMMA QuietInvRead ==
    ASSUME IInv, QuietInv, NEW p \in Procs, choen_read(p) \/ Return(p)
    PROVE  QuietInv'
<1> USE DEF devVars, history, Goto
<1>t. /\ io[p] \in CallRecord /\ io[p].moved \in Seq(Moved) /\ Len(io[p].moved) \in Nat
      /\ io[p].at \in Nat /\ io[p].l_len \in Nat /\ io[p].len \in Nat /\ rw_test_len \in Nat
      /\ rw_test_len \in 0 .. RW_BUFF_SIZE
      /\ pc \in [Procs -> PC] /\ io \in [Procs -> CallRecord]
      /\ text \in Seq(Byte) /\ Len(text) \in Nat
  BY CallFields DEF IInv, TypeOK, CallRecord, Moved
<1>n. ~Far(p) => ToInt(rw_test_len - io[p].at) = rw_test_len - io[p].at
  <2>1. ~Far(p) => io[p].at <= INT_VALUES
    BY <1>t DEF Far, IInv, LocalsInv, LocalsFit
  <2> QED BY <1>t, <2>1, LeftBehind
<1>1. DeviceUnchanged /\ pc[p] \notin WritePC /\ pc'[p] \notin WritePC
      /\ \A q \in Procs \ {p} : io'[q] = io[q] /\ pc'[q] = pc[q]
  BY <1>t DEF choen_read, Return, ReadEnter, ReadTest, ReadClip, ReadByte, CopyOrReturn,
              DeviceUnchanged, WritePC
<1>2. Writing' = Writing
  BY <1>1 DEF Writing
<1>3. ASSUME NEW q \in Procs \ {p}
      PROVE  (io[q].quiet /\ pc[q] \in ReadPC /\ ~Far(q) => QuietRead(q))'
  BY <1>1, <1>2, QuietOther DEF QuietInv
<1>4. (io[p].quiet /\ pc[p] \in ReadPC /\ ~Far(p) => QuietRead(p))'
  <2>1. ASSUME ReadEnter(p)
        PROVE  (io[p].quiet /\ pc[p] \in ReadPC /\ ~Far(p) => QuietRead(p))'
    <3>0. (Writing = {}) \in BOOLEAN
      OBVIOUS
    <3>1. PICK c0 \in NewCalls(Writing = {}) : io'[p] = c0 /\ pc'[p] = "test"
      BY <2>1, <1>t DEF ReadEnter
    <3>2. ASSUME io'[p].quiet PROVE Writing = {}
      <4> HIDE DEF Writing
      <4>1. c0.quiet = (Writing = {})
        BY <3>0, <3>1, NewCallTyped DEF IInv
      <4> QED BY <3>1, <3>2, <4>1
    <3> QED BY <3>1, <3>2, <1>2 DEF QuietRead
  <2> DEFINE c == io[p]
  <2>2. ASSUME ReadTest(p) \/ ReadClip(p), io'[p].quiet, ~Far(p)'
        PROVE  QuietRead(p)'
    <3>0. /\ pc[p] \in {"test", "clip"} /\ c.moved = <<>> /\ QuietRead(p)
          /\ io'[p].quiet = c.quiet /\ io'[p].at = c.at /\ io'[p].len = c.len
          /\ io'[p].moved = c.moved /\ io'[p].fault = c.fault /\ ~Far(p)
      <4>1. pc[p] \in {"test", "clip"} /\ c.moved = <<>>
        BY <2>2 DEF ReadTest, ReadClip, IInv, LocalsInv, LocalsFit
      <4>2. /\ io'[p].quiet = c.quiet /\ io'[p].at = c.at /\ io'[p].len = c.len
            /\ io'[p].moved = c.moved /\ io'[p].fault = c.fault /\ io'[p].positioned = c.positioned
        <5>1. CASE UNCHANGED io
          BY <5>1
        <5>2. ASSUME NEW l \in Int, io' = [io EXCEPT ![p].l_len = l]
              PROVE  <4>2!:
          BY <5>2, <1>t DEF CallRecord
        <5>3. \/ UNCHANGED io
              \/ \E l \in Int : io' = [io EXCEPT ![p].l_len = l]
          <6>1. CASE ReadTest(p)
            <7>1. UNCHANGED io \/ CopyOrReturn(p, c.len, "copy_out", "read_ret")
              BY <6>1 DEF ReadTest
            <7>2. (IF c.len <= 0 THEN 0 ELSE c.len) \in Int
              BY <1>t
            <7> QED BY <7>1, <7>2 DEF CopyOrReturn
          <6>2. CASE ReadClip(p)
            <7> DEFINE left == ToInt(rw_test_len - c.at)
            <7>1. CopyOrReturn(p, left, "copy_out", "read_ret")
              BY <6>2 DEF ReadClip
            <7>2. (IF left <= 0 THEN 0 ELSE left) \in Int
              <8>1. left \in IntValue
                BY <1>t, LeftBehind
              <8>2. left \in Int
                BY <8>1 DEF IntValue
              <8> HIDE DEF left
              <8> QED BY <8>2
            <7> HIDE DEF left
            <7> QED BY <7>1, <7>2 DEF CopyOrReturn
          <6> QED BY <6>1, <6>2, <2>2
        <5> QED BY <5>1, <5>2, <5>3
      <4>3. ~Far(p)
        BY <4>2, <2>2 DEF Far
      <4> QED BY <4>1, <4>2, <4>3, <2>2 DEF QuietInv, ReadPC
    <3>n. ToInt(rw_test_len - c.at) = rw_test_len - c.at
      BY <1>n, <3>0
    <3>1. Len(c.moved) = 0
      BY <3>0
    <3>2. CASE c.at + c.len > rw_test_len
      <4>1. CASE pc'[p] = "clip"
        BY <4>1, <3>0, <3>1, <3>2, <1>1, <1>2, <1>t DEF QuietRead, DeviceUnchanged
      <4>2. CASE pc'[p] # "clip"
        <5>1. ReadClip(p)
          BY <4>2, <3>2, <2>2, <1>t DEF ReadTest
        <5>2. CASE rw_test_len - c.at <= 0
          <6>1. pc'[p] = "read_ret"
            BY <5>1, <5>2, <3>n, <1>t DEF ReadClip, CopyOrReturn
          <6> QED BY <6>1, <5>2, <3>0, <3>1, <3>2, <1>1, <1>2, <1>t DEF QuietRead, DeviceUnchanged
        <5>3. CASE ~(rw_test_len - c.at <= 0)
          <6>1. pc'[p] = "copy_out" /\ io'[p].l_len = rw_test_len - c.at
            BY <5>1, <5>3, <3>n, <1>t DEF ReadClip, CopyOrReturn, CallRecord
          <6> QED BY <6>1, <5>3, <3>0, <3>1, <3>2, <1>1, <1>2, <1>t DEF QuietRead, DeviceUnchanged
        <5> QED BY <5>2, <5>3
      <4> QED BY <4>1, <4>2
    <3>3. CASE ~(c.at + c.len > rw_test_len)
      <4>1. ReadTest(p)
        BY <3>3, <3>0, <2>2 DEF QuietRead, ReadClip
      <4>2. CASE c.len <= 0
        <5>1. pc'[p] = "read_ret"
          BY <4>1, <4>2, <3>3, <1>t DEF ReadTest, CopyOrReturn
        <5> QED BY <5>1, <4>2, <3>0, <3>1, <3>3, <1>1, <1>2, <1>t DEF QuietRead, DeviceUnchanged
      <4>3. CASE ~(c.len <= 0)
        <5>1. pc'[p] = "copy_out" /\ io'[p].l_len = c.len
          BY <4>1, <4>3, <3>3, <1>t DEF ReadTest, CopyOrReturn, CallRecord
        <5> QED BY <5>1, <4>3, <3>0, <3>1, <3>3, <1>1, <1>2, <1>t DEF QuietRead, DeviceUnchanged
      <4> QED BY <4>2, <4>3
    <3> QED BY <3>2, <3>3
  <2>3. ASSUME ReadByte(p), io'[p].quiet, ~Far(p)'
        PROVE  QuietRead(p)'
    <3> DEFINE x == Memory(c.at + Len(c.moved))
               s == Append(c.moved, x)
    <3>0. /\ pc[p] = "copy_out" /\ QuietRead(p) /\ c.at + c.l_len <= RW_BUFF_SIZE
          /\ Len(c.moved) < c.l_len
      <4>1. pc[p] = "copy_out" /\ c.quiet /\ ~Far(p)
        <5>1. ASSUME NEW b \in BOOLEAN, NEW r, io' = [io EXCEPT ![p].fault = b, ![p].moved = r]
              PROVE  c.quiet /\ ~Far(p)
          BY <5>1, <2>3, <1>t DEF CallRecord, Far
        <5>2. ASSUME NEW r, io' = [io EXCEPT ![p].moved = r]
              PROVE  c.quiet /\ ~Far(p)
          BY <5>2, <2>3, <1>t DEF CallRecord, Far
        <5> QED BY <5>1, <5>2, <2>3 DEF ReadByte
      <4>2. LocalsFit(p) /\ QuietRead(p)
        BY <4>1 DEF QuietInv, ReadPC, IInv, LocalsInv
      <4> QED BY <4>1, <4>2 DEF LocalsFit, Inside
    <3>1. CASE io' = [io EXCEPT ![p].fault = TRUE, ![p].moved = <<>>] /\ pc' = [pc EXCEPT ![p] = "read_ret"]
      <4>1. io'[p].fault /\ io'[p].moved = <<>> /\ Len(io'[p].moved) = 0 /\ pc'[p] = "read_ret"
            /\ io'[p].len = c.len
        BY <3>1, <1>t DEF CallRecord
      <4> QED BY <4>1, <3>0, <1>2, <1>t DEF QuietRead
    <3>2. CASE io' = [io EXCEPT ![p].moved = s]
               /\ IF Len(io'[p].moved) = c.l_len THEN pc' = [pc EXCEPT ![p] = "read_ret"] ELSE UNCHANGED pc
      <4>1. c.at + Len(c.moved) \in Index
        BY <1>t, <3>0 DEF Index
      <4>2. x \in Moved /\ x = rw_test_buff[c.at + Len(c.moved)]
        BY <4>1 DEF IInv, TypeOK, Memory, Moved
      <4> HIDE DEF x
      <4>3. /\ s \in Seq(Moved) /\ Len(s) = Len(c.moved) + 1 /\ s[Len(s)] = x
            /\ \A i \in 1 .. Len(c.moved) : s[i] = c.moved[i]
        BY <4>2, <1>t
      <4> HIDE DEF s
      <4>4. /\ io'[p].moved = s /\ io'[p].at = c.at /\ io'[p].len = c.len /\ io'[p].l_len = c.l_len
            /\ io'[p].fault = c.fault
        BY <3>2, <1>t DEF CallRecord
      <4>5. \/ pc'[p] = "read_ret" /\ Len(s) = c.l_len
            \/ pc'[p] = "copy_out" /\ Len(s) < c.l_len
        BY <3>0, <3>2, <4>3, <4>4, <1>t
      <4>6. ASSUME ~mixed, ~c.fault, NEW i \in 1 .. Len(s)
            PROVE  c.at + i <= Len(text) /\ s[i] = text[c.at + i]
        <5>1. Holds
          BY <4>6, <3>0 DEF QuietRead, IInv, TextInv
        <5>2. CASE i = Len(s)
          <6>1. c.at + i \in 1 .. Len(text)
            BY <5>1, <5>2, <4>3, <3>0, <1>t DEF QuietRead, Holds
          <6>2. x = text[c.at + i]
            <7>1. rw_test_buff[(c.at + i) - 1] = text[c.at + i]
              BY <5>1, <6>1 DEF Holds
            <7>2. (c.at + i) - 1 = c.at + Len(c.moved)
              BY <5>2, <4>3, <1>t
            <7> QED BY <7>1, <7>2, <4>2
          <6> QED BY <5>2, <6>1, <6>2, <4>3
        <5>3. CASE i # Len(s)
          <6>1. i \in 1 .. Len(c.moved)
            BY <5>3, <4>3, <1>t
          <6> QED BY <6>1, <4>3, <4>6, <3>0 DEF QuietRead
        <5> QED BY <5>2, <5>3
      <4>7. CASE pc'[p] = "read_ret" /\ Len(s) = c.l_len
        <5>1. c.l_len <= c.len /\ Len(s) <= c.len
              /\ Len(s) = (IF c.at + c.len <= rw_test_len THEN c.len ELSE rw_test_len - c.at)
          BY <4>7, <3>0, <1>t DEF QuietRead
        <5>2. 0 < Len(s)
          BY <4>3, <1>t
        <5> HIDE DEF c
        <5>3. Len(s) = (IF c.at + c.len <= rw_test_len THEN c.len
                        ELSE IF rw_test_len - c.at <= 0 THEN 0 ELSE rw_test_len - c.at)
          BY <5>1, <5>2, <4>3, <1>t DEF c
        <5>4. Writing' = {}
          BY <3>0, <1>2 DEF QuietRead
        <5> QED BY <5>1, <5>3, <5>4, <4>7, <4>3, <4>4, <4>6, <1>1, <1>t DEF QuietRead, DeviceUnchanged
      <4>8. CASE pc'[p] = "copy_out" /\ Len(s) < c.l_len
        BY <4>8, <4>3, <4>4, <4>6, <3>0, <1>1, <1>2, <1>t DEF QuietRead, DeviceUnchanged
      <4> QED BY <4>5, <4>7, <4>8
    <3> QED BY <2>3, <3>1, <3>2 DEF ReadByte
  <2>4. CASE Return(p)
    BY <2>4, <1>t DEF Return, ReadPC
  <2> QED BY <2>1, <2>2, <2>3, <2>4 DEF choen_read
<1> QED BY <1>3, <1>4 DEF QuietInv

LEMMA QuietInvWrite ==
    ASSUME IInv, QuietInv, NEW p \in Procs, choen_write(p)
    PROVE  QuietInv'
<1>t. pc \in [Procs -> PC] /\ io \in [Procs -> CallRecord]
  BY DEF IInv, TypeOK, CallRecord, Moved
<1>1. ASSUME pc[p] = "idle", NEW c \in NewCalls(FALSE), WriteBegins(p, c) PROVE QuietInv'
  <2>1. ASSUME NEW q \in Procs PROVE ~io'[q].quiet
    <3>1. CASE q = p
      <4>1. c \in CallRecord /\ ~c.quiet
        BY NewCallTyped DEF IInv
      <4>2. io'[p] = [c EXCEPT !.l_len = Clip(c.at, c.len)]
        BY <1>1 DEF WriteBegins
      <4> QED BY <3>1, <4>1, <4>2 DEF CallRecord
    <3>2. CASE q # p
      <4>1. io'[q] = [io[q] EXCEPT !.quiet = FALSE] /\ io[q] \in CallRecord
        BY <1>1, <1>t, <3>2 DEF WriteBegins
      <4> QED BY <4>1 DEF CallRecord
    <3> QED BY <3>1, <3>2
  <2> QED BY <2>1 DEF QuietInv
<1>3. ASSUME pc[p] = "idle", NEW c \in NewCalls(FALSE), WriteNothing(p, c), UNCHANGED devVars
      PROVE  QuietInv'
  <2>1. /\ DeviceUnchanged /\ pc'[p] = "write_ret"
        /\ \A q \in Procs \ {p} : io'[q] = io[q] /\ pc'[q] = pc[q]
    BY <1>3, <1>t DEF WriteNothing, Goto, DeviceUnchanged, devVars, history
  <2>2. Writing' = Writing
    BY <1>3, <2>1 DEF Writing, WritePC
  <2>3. \A q \in Procs \ {p} : (io[q].quiet /\ pc[q] \in ReadPC /\ ~Far(q) => QuietRead(q))'
    BY <2>1, <2>2, QuietOther DEF QuietInv
  <2>4. pc'[p] \notin ReadPC
    BY <2>1 DEF ReadPC
  <2> QED BY <2>3, <2>4 DEF QuietInv
<1>2. ASSUME WriteMemset(p) \/ WriteReset(p) \/ WriteByte(p) \/ WriteSetLen(p) PROVE QuietInv'
  <2>1. p \in Writing /\ pc'[p] \notin ReadPC
        /\ \A q \in Procs \ {p} : pc'[q] = pc[q] /\ io'[q] = io[q]
    BY <1>2, <1>t DEF WriteMemset, WriteReset, WriteByte, WriteSetLen, Goto, Writing, WritePC, ReadPC
  <2>2. \A q \in Procs : ~(io[q].quiet /\ pc[q] \in ReadPC /\ ~Far(q))
    BY <2>1 DEF QuietInv, QuietRead
  <2> QED BY <2>1, <2>2 DEF QuietInv, Far
<1> QED BY <1>1, <1>2, <1>3 DEF choen_write, WriteEnter

LEMMA SpecQuietInv == Spec => []QuietInv
<1>1. Init => QuietInv
  BY DEF Init, QuietInv, ReadPC
<1>2. IInv /\ QuietInv /\ [Next]_vars => QuietInv'
  <2> SUFFICES ASSUME IInv, QuietInv, [Next]_vars PROVE QuietInv'
    OBVIOUS
  <2>1. ASSUME NEW p \in Procs, choen_read(p) \/ Return(p) PROVE QuietInv'
    BY <2>1, QuietInvRead
  <2>2. ASSUME NEW p \in Procs, choen_write(p) PROVE QuietInv'
    BY <2>2, QuietInvWrite
  <2>3. CASE choen_ioctl \/ (\E f \in Files : choen_open(f)) \/ UNCHANGED vars
    <3>1. DeviceUnchanged /\ UNCHANGED <<pc, io>>
      BY <2>3 DEF choen_ioctl, choen_open, vars, devVars, history, DeviceUnchanged
    <3>2. Writing' = Writing
      BY <3>1 DEF Writing
    <3> QED BY <3>1, <3>2, QuietOther DEF QuietInv
  <2> QED BY <2>1, <2>2, <2>3 DEF Next
<1> QED BY <1>1, <1>2, SpecIInv, PTL DEF Spec

\* A read that no write overlaps returns exactly its part of a text that was
\* written alone, and never more bytes than it was asked for.
THEOREM QuietReadExactHolds == Spec => []QuietReadExact
<1>1. IInv /\ QuietInv => QuietReadExact
  <2> SUFFICES ASSUME IInv, QuietInv, NEW p \in Procs,
                      pc[p] = "read_ret", io[p].quiet, ~io[p].fault, ~Far(p)
               PROVE  LET asked == io[p].at + io[p].len
                          upto == IF asked <= Len(text) THEN asked ELSE Len(text)
                      IN  /\ Len(io[p].moved) <= io[p].len
                          /\ ~mixed => io[p].moved = SubSeq(text, io[p].at + 1, upto)
    BY DEF QuietReadExact
  <2> DEFINE c == io[p]
             asked == c.at + c.len
             upto == IF asked <= Len(text) THEN asked ELSE Len(text)
             t == SubSeq(text, c.at + 1, upto)
  <2>1. /\ c.moved \in Seq(Moved) /\ Len(c.moved) \in Nat /\ c.at \in Nat /\ c.len \in Nat
        /\ text \in Seq(Byte) /\ Len(text) \in Nat /\ QuietRead(p)
    BY CallFields DEF IInv, TypeOK, QuietInv, ReadPC
  <2>2. Len(c.moved) <= c.len
    BY <2>1 DEF QuietRead
  <2>3. ASSUME ~mixed PROVE c.moved = t
    <3>1. rw_test_len = Len(text)
      BY <2>1, <2>3 DEF QuietRead, IInv, TextInv, Holds
    <3>2. /\ Len(c.moved) = (IF c.at + 1 <= upto THEN upto - (c.at + 1) + 1 ELSE 0)
          /\ \A i \in 1 .. Len(c.moved) : c.at + i <= Len(text) /\ c.moved[i] = text[c.at + i]
      <4>1. Len(c.moved) = (IF c.at + c.len <= Len(text) THEN c.len
                            ELSE IF Len(text) - c.at <= 0 THEN 0 ELSE Len(text) - c.at)
        BY <2>1, <3>1 DEF QuietRead
      <4>2. \A i \in 1 .. Len(c.moved) : c.at + i <= Len(text) /\ c.moved[i] = text[c.at + i]
        BY <2>1, <2>3 DEF QuietRead
      <4> QED BY <2>1, <4>1, <4>2
    <3>3. c.at + 1 \in Int /\ upto \in Int /\ (\A i \in c.at + 1 .. upto : text[i] \in Byte)
      BY <2>1
    <3>4. /\ t \in Seq(Byte)
          /\ Len(t) = (IF c.at + 1 <= upto THEN upto - (c.at + 1) + 1 ELSE 0)
          /\ \A i \in 1 .. upto - (c.at + 1) + 1 : t[i] = text[(c.at + 1) + i - 1]
      <4> DEFINE m == c.at + 1
      <4> HIDE DEF upto, m
      <4>1. /\ SubSeq(text, m, upto) \in Seq(Byte)
            /\ Len(SubSeq(text, m, upto)) = (IF m <= upto THEN upto - m + 1 ELSE 0)
            /\ \A i \in 1 .. upto - m + 1 : SubSeq(text, m, upto)[i] = text[m + i - 1]
        BY <3>3, SubSeqProperties DEF m
      <4> QED BY <4>1 DEF m
    <3> HIDE DEF t
    <3>5. Len(c.moved) = Len(t)
      BY <3>2, <3>4
    <3>6. ASSUME NEW i \in 1 .. Len(c.moved) PROVE c.moved[i] = t[i]
      <4>1. c.moved[i] = text[c.at + i]
        BY <3>2
      <4>2. i \in 1 .. upto - (c.at + 1) + 1 /\ (c.at + 1) + i - 1 = c.at + i
        BY <3>2, <2>1
      <4>3. t[i] = text[(c.at + 1) + i - 1]
        BY <3>4, <4>2
      <4> QED BY <4>1, <4>2, <4>3
    <3>7. t \in Seq(Moved)
      BY <3>4 DEF Moved
    <3> QED BY <3>5, <3>6, <3>7, <2>1, SeqEqual
  <2> QED BY <2>2, <2>3
<1> QED BY <1>1, SpecIInv, SpecQuietInv, PTL
=============================================================================
