----------------------------- MODULE ChoenRing -----------------------------
(***************************************************************************)
(* ring_buffer_t of choen_rwblocking and choen_rwnonblocking: a circular   *)
(* buffer of NUM_OF_ITEMS slots, one message per slot.  A ring is a        *)
(* record; the operators below are what the functions of ring_buffer.c     *)
(* compute on it.  The semaphore of the C structure is in ChoenDev.        *)
(*                                                                         *)
(* A byte is abstracted to the write it comes from: message m is len bytes *)
(* that all equal m, Zero is the byte that memset leaves.  A slot that     *)
(* mixes two writes is then visible as a buffer with two different bytes.  *)
(***************************************************************************)
EXTENDS Integers, Sequences

CONSTANTS
    NUM_OF_ITEMS,   \* slots of the ring (4 in ring_buffer.h)
    RW_ITEM_SIZE,   \* bytes of a slot (256 in ring_buffer.h)
    Msg,            \* the messages a writer may write
    Zero            \* the byte written by memset(.., 0, ..)

ASSUME RingAssumption ==
    /\ NUM_OF_ITEMS \in Nat \ {0}
    /\ RW_ITEM_SIZE \in Nat \ {0}
    /\ Zero \notin Msg

Slot == 0 .. NUM_OF_ITEMS - 1
Byte == Msg \cup {Zero}

\* data_t: the bytes of a slot and how many of them are a message.
Item == [buff : [1 .. RW_ITEM_SIZE -> Byte], act_len : 0 .. RW_ITEM_SIZE]

\* ring_buffer_t without its semaphore.
Ring == [item : [Slot -> Item], wptr : Slot, rptr : Slot,
         load_cnt : 0 .. NUM_OF_ITEMS]

ClearItem == [buff |-> [b \in 1 .. RW_ITEM_SIZE |-> Zero], act_len |-> 0]

rb_init == [item |-> [i \in Slot |-> ClearItem], wptr |-> 0, rptr |-> 0,
            load_cnt |-> 0]

rb_is_writable(rb) == rb.load_cnt < NUM_OF_ITEMS
rb_is_readable(rb) == rb.load_cnt > 0

\* Mutant: the wrap-around is forgotten.
NextSlotNoWrap(i) == i + 1

NextSlot(i) == (i + 1) % NUM_OF_ITEMS

-----------------------------------------------------------------------------
(* rb_usr_write, in the order of its statements. *)

\* The argument checks that precede the copy.
WriteAccepted(rb, len) ==
    /\ rb.load_cnt < NUM_OF_ITEMS
    /\ len > 0
    /\ len <= RW_ITEM_SIZE

\* copy_from_user of len bytes of m of which the first n can be read: the
\* kernel zeroes the part of the destination it could not fill.
CopyFromUser(rb, m, len, n) ==
    [rb EXCEPT !.item[rb.wptr].buff =
        [b \in 1 .. RW_ITEM_SIZE |->
            IF b <= n THEN m ELSE IF b <= len THEN Zero ELSE @[b]]]

\* The slot at wptr becomes the newest message.
PutItem(rb, len) ==
    [rb EXCEPT !.item[rb.wptr].act_len = len,
               !.wptr = NextSlot(@),
               !.load_cnt = @ + 1]

-----------------------------------------------------------------------------
(* rb_usr_read, in the order of its statements. *)

ReadAccepted(rb, len) ==
    /\ rb.load_cnt > 0
    /\ len > 0

\* Mutant: the caller gets what it asked for, message or not.
ReadLenAsAsked(rb, len) == IF len > RW_ITEM_SIZE THEN RW_ITEM_SIZE ELSE len

\* How much of the oldest message a request for len bytes gets.
ReadLen(rb, len) ==
    LET act_len == rb.item[rb.rptr].act_len
    IN  IF act_len > len THEN len ELSE act_len

\* The first n bytes of the oldest slot, as copy_to_user hands them out.
CopyToUser(rb, n) == [b \in 1 .. n |-> rb.item[rb.rptr].buff[b]]

\* Mutant: act_len survives the read.
TakeItemKeepLen(rb) ==
    [rb EXCEPT !.item[rb.rptr].buff = ClearItem.buff,
               !.rptr = NextSlot(@),
               !.load_cnt = @ - 1]

\* The oldest slot is cleared and released, whatever was left unread in it.
TakeItem(rb) ==
    [rb EXCEPT !.item[rb.rptr] = ClearItem,
               !.rptr = NextSlot(@),
               !.load_cnt = @ - 1]

-----------------------------------------------------------------------------
(* What a ring stands for. *)

\* Distance of slot i from the read pointer, going forward.
Age(rb, i) == IF i >= rb.rptr THEN i - rb.rptr ELSE i + NUM_OF_ITEMS - rb.rptr

\* The slot that is k places after the read pointer.
SlotAt(rb, k) == IF rb.rptr + k < NUM_OF_ITEMS THEN rb.rptr + k
                 ELSE rb.rptr + k - NUM_OF_ITEMS

Occupied(rb, i) == Age(rb, i) < rb.load_cnt

\* The messages of the ring, oldest first, each the sequence of its bytes.
Contents(rb) ==
    [k \in 1 .. rb.load_cnt |->
        LET it == rb.item[SlotAt(rb, k - 1)]
        IN  [b \in 1 .. it.act_len |-> it.buff[b]]]

\* The write pointer is load_cnt places after the read pointer: the two
\* cursors and the counter, updated by different statements, agree.
CursorsAgree(rb) ==
    rb.wptr = (rb.rptr + rb.load_cnt) % NUM_OF_ITEMS

\* Exactly the slots between the cursors hold a message.
LengthsMatchLoad(rb) ==
    \A i \in Slot : Occupied(rb, i) <=> rb.item[i].act_len > 0

\* The bytes of a stored message all come from one write.
PayloadsWhole(rb) ==
    \A i \in Slot :
        Occupied(rb, i) =>
            \E m \in Msg : \A b \in 1 .. rb.item[i].act_len : rb.item[i].buff[b] = m

RingInv(rb) ==
    /\ CursorsAgree(rb)
    /\ LengthsMatchLoad(rb)
    /\ PayloadsWhole(rb)
=============================================================================
