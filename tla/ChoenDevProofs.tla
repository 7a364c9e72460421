--------------------------- MODULE ChoenDevProofs ---------------------------
(***************************************************************************)
(* Invariants of ChoenDev for any number of processes, files and slots.    *)
(* First what the functions of ring_buffer.c preserve; then the invariant, *)
(* proved in layers, each of which uses the ones before it:                *)
(*   LockInv   the semaphore excludes                                      *)
(*   CallInv   a process in a handler is in a call on an open file         *)
(*   RingLayer the ring is consistent, and a check made under the          *)
(*             semaphore still holds at the commit                         *)
(*   RetInv    at which statements the result of a call is known, and what *)
(*             it may be there                                             *)
(*   QueueInv  who sleeps is queued, and a wake-up is owed to it           *)
(***************************************************************************)
EXTENDS ChoenDev, SequenceTheorems, TLAPS

USE RingAssumption
-----------------------------------------------------------------------------
(* Arithmetic modulo NUM_OF_ITEMS, for the sums that occur *)

LEMMA ModOfSum ==
    ASSUME NEW x \in Nat, x < NUM_OF_ITEMS + NUM_OF_ITEMS
    PROVE  x % NUM_OF_ITEMS = IF x < NUM_OF_ITEMS THEN x ELSE x - NUM_OF_ITEMS
  BY SMT

\* Wrapping a cursor and wrapping the sum it stands for is the same.
LEMMA WrapsTogether ==
    ASSUME NEW x \in Nat, x + 1 < NUM_OF_ITEMS + NUM_OF_ITEMS, NEW w \in Nat,
           w = IF x < NUM_OF_ITEMS THEN x ELSE x - NUM_OF_ITEMS
    PROVE  (IF w + 1 < NUM_OF_ITEMS THEN w + 1 ELSE 0)
             = IF x + 1 < NUM_OF_ITEMS THEN x + 1 ELSE x + 1 - NUM_OF_ITEMS
  BY SMT

\* The slot after i.
LEMMA NextSlotValue ==
    ASSUME NEW i \in Slot
    PROVE  NextSlot(i) = IF i + 1 < NUM_OF_ITEMS THEN i + 1 ELSE 0
  BY ModOfSum DEF NextSlot, Slot

LEMMA RingFields ==
    ASSUME NEW rb \in Ring
    PROVE  /\ rb.wptr \in Slot /\ rb.rptr \in Slot
           /\ rb.load_cnt \in 0 .. NUM_OF_ITEMS
           /\ rb.item \in [Slot -> Item]
           /\ \A i \in Slot : /\ rb.item[i].buff \in [1 .. RW_ITEM_SIZE -> Byte]
                              /\ rb.item[i].act_len \in 0 .. RW_ITEM_SIZE
           /\ rb = [item |-> rb.item, wptr |-> rb.wptr, rptr |-> rb.rptr, load_cnt |-> rb.load_cnt]
  BY DEF Ring, Item

\* CursorsAgree without the remainder.
LEMMA CursorsAgreeValue ==
    ASSUME NEW rb \in Ring
    PROVE  CursorsAgree(rb) <=>
             rb.wptr = IF rb.rptr + rb.load_cnt < NUM_OF_ITEMS THEN rb.rptr + rb.load_cnt
                       ELSE rb.rptr + rb.load_cnt - NUM_OF_ITEMS
<1> DEFINE x == rb.rptr + rb.load_cnt
<1>0. rb.rptr \in Nat /\ rb.wptr \in Nat /\ rb.load_cnt \in Nat
  BY RingFields DEF Slot
<1>1. x \in Nat /\ x < NUM_OF_ITEMS + NUM_OF_ITEMS
  BY RingFields DEF Slot
<1>2. CursorsAgree(rb) <=> rb.wptr = x % NUM_OF_ITEMS
  BY DEF CursorsAgree
<1> HIDE DEF x
<1>3. x % NUM_OF_ITEMS = IF x < NUM_OF_ITEMS THEN x ELSE x - NUM_OF_ITEMS
  BY <1>1, ModOfSum
<1> QED BY <1>0, <1>2, <1>3 DEF x

\* The slot at wptr is free as long as one is.
LEMMA WptrIsFree ==
    ASSUME NEW rb \in Ring, CursorsAgree(rb), rb_is_writable(rb)
    PROVE  Age(rb, rb.wptr) = rb.load_cnt /\ ~Occupied(rb, rb.wptr)
  BY RingFields, CursorsAgreeValue DEF Age, Occupied, Slot, rb_is_writable

-----------------------------------------------------------------------------

LEMMA InitRing == rb_init \in Ring /\ RingInv(rb_init)
<1>1. ClearItem \in Item
  BY DEF ClearItem, Item, Byte
<1>2. rb_init \in Ring
  BY <1>1 DEF rb_init, Ring, Slot
<1>3. CursorsAgree(rb_init)
  BY <1>2, CursorsAgreeValue DEF rb_init
<1>4. \A i \in Slot : ~Occupied(rb_init, i) /\ rb_init.item[i].act_len = 0
  BY DEF rb_init, Occupied, Age, Slot, ClearItem
<1> QED BY <1>2, <1>3, <1>4 DEF RingInv, LengthsMatchLoad, PayloadsWhole

\* copy_from_user, complete or not, writes the free slot at wptr only.
LEMMA CopyFromUserFields ==
    ASSUME NEW rb \in Ring, NEW m \in Byte, NEW len \in Nat, NEW n \in Nat,
           NEW new, new = CopyFromUser(rb, m, len, n)
    PROVE  /\ new \in Ring
           /\ new.wptr = rb.wptr /\ new.rptr = rb.rptr /\ new.load_cnt = rb.load_cnt
           /\ \A i \in Slot : new.item[i].act_len = rb.item[i].act_len
           /\ \A i \in Slot : i # rb.wptr => new.item[i] = rb.item[i]
           /\ \A b \in 1 .. RW_ITEM_SIZE : b <= n => new.item[rb.wptr].buff[b] = m
<1> DEFINE buf == [b \in 1 .. RW_ITEM_SIZE |->
                     IF b <= n THEN m ELSE IF b <= len THEN Zero
                     ELSE rb.item[rb.wptr].buff[b]]
<1>1. buf \in [1 .. RW_ITEM_SIZE -> Byte]
  BY RingFields DEF Byte
<1>2. new = [rb EXCEPT !.item = [rb.item EXCEPT ![rb.wptr] = [rb.item[rb.wptr] EXCEPT !.buff = buf]]]
  BY DEF CopyFromUser
<1> HIDE DEF buf
<1>3. /\ new.wptr = rb.wptr /\ new.rptr = rb.rptr /\ new.load_cnt = rb.load_cnt
      /\ new.item = [rb.item EXCEPT ![rb.wptr] = [rb.item[rb.wptr] EXCEPT !.buff = buf]]
  BY <1>2 DEF Ring
<1>4. /\ new.item \in [Slot -> Item]
      /\ \A i \in Slot : new.item[i] = IF i = rb.wptr THEN [buff |-> buf, act_len |-> rb.item[i].act_len]
                                       ELSE rb.item[i]
  <2>1. rb.item \in [Slot -> Item] /\ rb.wptr \in Slot
    BY RingFields
  <2>2. [rb.item[rb.wptr] EXCEPT !.buff = buf] = [buff |-> buf, act_len |-> rb.item[rb.wptr].act_len]
    BY <2>1 DEF Item
  <2>3. [buff |-> buf, act_len |-> rb.item[rb.wptr].act_len] \in Item
    BY <1>1, RingFields DEF Item
  <2> QED BY <1>3, <2>1, <2>2, <2>3
<1>5. new \in Ring
  <2>1. new = [item |-> new.item, wptr |-> rb.wptr, rptr |-> rb.rptr, load_cnt |-> rb.load_cnt]
    BY <1>2, <1>3, RingFields
  <2> QED BY <1>4, <2>1, RingFields DEF Ring
<1> QED BY <1>3, <1>4, <1>5, RingFields DEF buf

\* A copy_from_user without a fault.
LEMMA WholeCopy ==
    ASSUME NEW rb \in Ring, NEW m \in Msg, NEW len \in 1 .. RW_ITEM_SIZE,
           NEW new, new = CopyFromUser(rb, m, len, len)
    PROVE  /\ new \in Ring
           /\ new.wptr = rb.wptr /\ new.load_cnt = rb.load_cnt
           /\ \A b \in 1 .. len : new.item[new.wptr].buff[b] = m
<1>1. m \in Byte /\ len \in Nat
  BY DEF Byte
<1>2. /\ new \in Ring
      /\ new.wptr = rb.wptr /\ new.rptr = rb.rptr /\ new.load_cnt = rb.load_cnt
      /\ \A i \in Slot : new.item[i].act_len = rb.item[i].act_len
      /\ \A i \in Slot : i # rb.wptr => new.item[i] = rb.item[i]
      /\ \A b \in 1 .. RW_ITEM_SIZE : b <= len => new.item[rb.wptr].buff[b] = m
  BY <1>1, CopyFromUserFields
<1>3. \A b \in 1 .. len : b \in 1 .. RW_ITEM_SIZE /\ b <= len
  OBVIOUS
<1> QED BY <1>2, <1>3

LEMMA CopyFromUserKeeps ==
    ASSUME NEW rb \in Ring, NEW m \in Byte, NEW len \in Nat, NEW n \in Nat,
           RingInv(rb), rb_is_writable(rb)
    PROVE  RingInv(CopyFromUser(rb, m, len, n))
<1> SUFFICES ASSUME NEW new, new = CopyFromUser(rb, m, len, n)
             PROVE  RingInv(new)
  OBVIOUS
<1>1. /\ new \in Ring
      /\ new.wptr = rb.wptr /\ new.rptr = rb.rptr /\ new.load_cnt = rb.load_cnt
      /\ \A i \in Slot : new.item[i].act_len = rb.item[i].act_len
      /\ \A i \in Slot : i # rb.wptr => new.item[i] = rb.item[i]
  BY CopyFromUserFields
<1>2. \A i \in Slot : Occupied(new, i) <=> Occupied(rb, i)
  BY <1>1 DEF Occupied, Age
<1>3. ~Occupied(rb, rb.wptr)
  BY WptrIsFree DEF RingInv
<1>4. CursorsAgree(new)
  BY <1>1 DEF RingInv, CursorsAgree
<1>5. LengthsMatchLoad(new)
  BY <1>1, <1>2 DEF RingInv, LengthsMatchLoad
<1>6. PayloadsWhole(new)
  BY <1>1, <1>2, <1>3 DEF RingInv, PayloadsWhole
<1> QED BY <1>4, <1>5, <1>6 DEF RingInv

\* What the commit of rb_usr_write writes.
LEMMA PutItemFields ==
    ASSUME NEW rb \in Ring, NEW len \in 1 .. RW_ITEM_SIZE, NEW new, new = PutItem(rb, len)
    PROVE  /\ new.wptr = NextSlot(rb.wptr) /\ new.rptr = rb.rptr /\ new.load_cnt = rb.load_cnt + 1
           /\ new = [item |-> new.item, wptr |-> new.wptr, rptr |-> new.rptr, load_cnt |-> new.load_cnt]
           /\ new.item \in [Slot -> Item]
           /\ \A i \in Slot : new.item[i] = IF i = rb.wptr THEN [buff |-> rb.item[i].buff, act_len |-> len]
                                            ELSE rb.item[i]
<1>0. rb.wptr \in Slot /\ rb.item \in [Slot -> Item]
  BY RingFields
<1>1. /\ new.wptr = NextSlot(rb.wptr) /\ new.rptr = rb.rptr /\ new.load_cnt = rb.load_cnt + 1
      /\ new.item = [rb.item EXCEPT ![rb.wptr] = [rb.item[rb.wptr] EXCEPT !.act_len = len]]
      /\ new = [item |-> new.item, wptr |-> new.wptr, rptr |-> new.rptr, load_cnt |-> new.load_cnt]
  <2>1. new = [rb EXCEPT !.item = [rb.item EXCEPT ![rb.wptr] = [rb.item[rb.wptr] EXCEPT !.act_len = len]],
                         !.wptr = NextSlot(rb.wptr),
                         !.load_cnt = rb.load_cnt + 1]
    BY DEF PutItem
  <2> QED BY <2>1 DEF Ring
<1>2. /\ new.item \in [Slot -> Item]
      /\ \A i \in Slot : new.item[i] = IF i = rb.wptr THEN [buff |-> rb.item[i].buff, act_len |-> len]
                                       ELSE rb.item[i]
  BY <1>0, <1>1 DEF Item
<1> QED BY <1>1, <1>2

\* The commit of rb_usr_write, over a slot that holds one whole message.
LEMMA PutItemKeeps ==
    ASSUME NEW rb \in Ring, RingInv(rb), rb_is_writable(rb),
           NEW len \in 1 .. RW_ITEM_SIZE, NEW m \in Msg,
           \A b \in 1 .. len : rb.item[rb.wptr].buff[b] = m
    PROVE  /\ PutItem(rb, len) \in Ring
           /\ RingInv(PutItem(rb, len))
           /\ PutItem(rb, len).load_cnt = rb.load_cnt + 1
<1> DEFINE new == PutItem(rb, len)
<1>0. /\ rb.wptr \in Slot /\ rb.rptr \in Slot /\ rb.load_cnt \in 0 .. NUM_OF_ITEMS - 1
      /\ rb.item \in [Slot -> Item]
      /\ NextSlot(rb.wptr) = IF rb.wptr + 1 < NUM_OF_ITEMS THEN rb.wptr + 1 ELSE 0
  BY RingFields, NextSlotValue DEF rb_is_writable
<1> HIDE DEF new
<1>1. /\ new.wptr = NextSlot(rb.wptr) /\ new.rptr = rb.rptr /\ new.load_cnt = rb.load_cnt + 1
      /\ new = [item |-> new.item, wptr |-> new.wptr, rptr |-> new.rptr, load_cnt |-> new.load_cnt]
  BY PutItemFields DEF new
<1>2. /\ new.item \in [Slot -> Item]
      /\ \A i \in Slot : new.item[i] = IF i = rb.wptr THEN [buff |-> rb.item[i].buff, act_len |-> len]
                                       ELSE rb.item[i]
  BY PutItemFields DEF new
<1>3. new.wptr \in Slot /\ new.load_cnt \in 0 .. NUM_OF_ITEMS
  BY <1>0, <1>1 DEF Slot
<1>4. new \in Ring
  BY <1>0, <1>1, <1>2, <1>3 DEF Ring
<1>5. CursorsAgree(new)
  <2>1. rb.wptr = IF rb.rptr + rb.load_cnt < NUM_OF_ITEMS THEN rb.rptr + rb.load_cnt
                  ELSE rb.rptr + rb.load_cnt - NUM_OF_ITEMS
    BY CursorsAgreeValue DEF RingInv
  <2>2. new.wptr = IF new.rptr + new.load_cnt < NUM_OF_ITEMS THEN new.rptr + new.load_cnt
                   ELSE new.rptr + new.load_cnt - NUM_OF_ITEMS
    <3>1. new.rptr + new.load_cnt = rb.rptr + rb.load_cnt + 1
      <4>1. rb.rptr \in Nat /\ rb.load_cnt \in Nat
        BY <1>0 DEF Slot
      <4>2. new.rptr = rb.rptr /\ new.load_cnt = rb.load_cnt + 1
        BY <1>1
      <4> QED BY <4>1, <4>2
    <3>2. new.wptr = IF rb.wptr + 1 < NUM_OF_ITEMS THEN rb.wptr + 1 ELSE 0
      BY <1>0, <1>1
    <3>3. /\ rb.rptr \in Nat /\ rb.wptr \in Nat /\ rb.load_cnt \in Nat
          /\ rb.rptr < NUM_OF_ITEMS /\ rb.wptr < NUM_OF_ITEMS /\ rb.load_cnt < NUM_OF_ITEMS
      BY <1>0 DEF Slot
    <3>4. /\ rb.rptr + rb.load_cnt \in Nat
          /\ rb.rptr + rb.load_cnt + 1 < NUM_OF_ITEMS + NUM_OF_ITEMS
      BY <3>3
    <3>5. (IF rb.wptr + 1 < NUM_OF_ITEMS THEN rb.wptr + 1 ELSE 0)
            = IF rb.rptr + rb.load_cnt + 1 < NUM_OF_ITEMS THEN rb.rptr + rb.load_cnt + 1
              ELSE rb.rptr + rb.load_cnt + 1 - NUM_OF_ITEMS
      BY <2>1, <3>3, <3>4, WrapsTogether
    <3>6. new.rptr \in Nat /\ new.load_cnt \in Nat /\ new.wptr \in Nat
      BY <1>0, <1>1, <1>3 DEF Slot
    <3> QED BY <3>1, <3>2, <3>3, <3>4, <3>5, <3>6
  <2> QED BY <1>4, <2>2, CursorsAgreeValue
<1>6. \A i \in Slot : Occupied(new, i) <=> Occupied(rb, i) \/ i = rb.wptr
  <2>1. Age(rb, rb.wptr) = rb.load_cnt
    BY WptrIsFree DEF RingInv
  <2>2. \A i \in Slot : Age(new, i) = Age(rb, i) /\ Age(rb, i) \in Nat
    <3>1. new.rptr = rb.rptr /\ rb.rptr \in Nat /\ rb.rptr < NUM_OF_ITEMS
      BY <1>0, <1>1 DEF Slot
    <3> QED BY <3>1 DEF Age, Slot
  <2>3. \A i \in Slot : Age(rb, i) = Age(rb, rb.wptr) => i = rb.wptr
    BY <1>0 DEF Age, Slot
  <2> QED BY <1>0, <1>1, <2>1, <2>2, <2>3 DEF Occupied
<1>7. /\ \A i \in Slot : i # rb.wptr => new.item[i] = rb.item[i]
      /\ new.item[rb.wptr].buff = rb.item[rb.wptr].buff
      /\ new.item[rb.wptr].act_len = len
  <2>1. new.item[rb.wptr] = [buff |-> rb.item[rb.wptr].buff, act_len |-> len]
    BY <1>0, <1>2
  <2>2. \A i \in Slot : i # rb.wptr => new.item[i] = rb.item[i]
    BY <1>2
  <2> QED BY <2>1, <2>2
<1>8. LengthsMatchLoad(new)
  BY <1>6, <1>7 DEF RingInv, LengthsMatchLoad
<1>9. PayloadsWhole(new)
  BY <1>0, <1>6, <1>7 DEF RingInv, PayloadsWhole
<1> QED BY <1>1, <1>4, <1>5, <1>8, <1>9 DEF RingInv, new

\* What the commit of rb_usr_read writes.
LEMMA TakeItemFields ==
    ASSUME NEW rb \in Ring, NEW new, new = TakeItem(rb)
    PROVE  /\ new.wptr = rb.wptr /\ new.rptr = NextSlot(rb.rptr) /\ new.load_cnt = rb.load_cnt - 1
           /\ new = [item |-> new.item, wptr |-> new.wptr, rptr |-> new.rptr, load_cnt |-> new.load_cnt]
           /\ new.item \in [Slot -> Item]
           /\ \A i \in Slot : new.item[i] = IF i = rb.rptr THEN ClearItem ELSE rb.item[i]
<1>0. rb.rptr \in Slot /\ rb.item \in [Slot -> Item]
  BY RingFields
<1>1. /\ new.wptr = rb.wptr /\ new.rptr = NextSlot(rb.rptr) /\ new.load_cnt = rb.load_cnt - 1
      /\ new.item = [rb.item EXCEPT ![rb.rptr] = ClearItem]
      /\ new = [item |-> new.item, wptr |-> new.wptr, rptr |-> new.rptr, load_cnt |-> new.load_cnt]
  <2>1. new = [rb EXCEPT !.item = [rb.item EXCEPT ![rb.rptr] = ClearItem],
                         !.rptr = NextSlot(rb.rptr),
                         !.load_cnt = rb.load_cnt - 1]
    BY DEF TakeItem
  <2> QED BY <2>1 DEF Ring
<1>2. ClearItem \in Item
  BY DEF ClearItem, Item, Byte
<1> QED BY <1>0, <1>1, <1>2

\* The commit of rb_usr_read.
LEMMA TakeItemKeeps ==
    ASSUME NEW rb \in Ring, RingInv(rb), rb_is_readable(rb)
    PROVE  /\ TakeItem(rb) \in Ring
           /\ RingInv(TakeItem(rb))
           /\ TakeItem(rb).load_cnt = rb.load_cnt - 1
<1> DEFINE new == TakeItem(rb)
<1>0. /\ rb.wptr \in Slot /\ rb.rptr \in Slot /\ rb.load_cnt \in 1 .. NUM_OF_ITEMS
      /\ rb.item \in [Slot -> Item]
      /\ NextSlot(rb.rptr) = IF rb.rptr + 1 < NUM_OF_ITEMS THEN rb.rptr + 1 ELSE 0
  BY RingFields, NextSlotValue DEF rb_is_readable
<1> HIDE DEF new
<1>1. /\ new.wptr = rb.wptr /\ new.rptr = NextSlot(rb.rptr) /\ new.load_cnt = rb.load_cnt - 1
      /\ new = [item |-> new.item, wptr |-> new.wptr, rptr |-> new.rptr, load_cnt |-> new.load_cnt]
  BY TakeItemFields DEF new
<1>2. /\ new.item \in [Slot -> Item]
      /\ \A i \in Slot : new.item[i] = IF i = rb.rptr THEN ClearItem ELSE rb.item[i]
  BY TakeItemFields DEF new
<1>3. new.rptr \in Slot /\ new.load_cnt \in 0 .. NUM_OF_ITEMS
  BY <1>0, <1>1 DEF Slot
<1>4. new \in Ring
  BY <1>0, <1>1, <1>2, <1>3 DEF Ring
<1>5. CursorsAgree(new)
  <2>1. rb.wptr = IF rb.rptr + rb.load_cnt < NUM_OF_ITEMS THEN rb.rptr + rb.load_cnt
                  ELSE rb.rptr + rb.load_cnt - NUM_OF_ITEMS
    BY CursorsAgreeValue DEF RingInv
  <2>2. CASE rb.rptr + 1 < NUM_OF_ITEMS
    <3>1. new.rptr = rb.rptr + 1 /\ new.rptr + new.load_cnt = rb.rptr + rb.load_cnt
      <4>1. rb.rptr \in Nat /\ rb.load_cnt \in Nat
        BY <1>0 DEF Slot
      <4>2. new.rptr = rb.rptr + 1 /\ new.load_cnt = rb.load_cnt - 1
        BY <1>0, <1>1, <2>2
      <4> QED BY <4>1, <4>2
    <3>2. new.wptr = IF new.rptr + new.load_cnt < NUM_OF_ITEMS THEN new.rptr + new.load_cnt
                     ELSE new.rptr + new.load_cnt - NUM_OF_ITEMS
      <4>1. new.wptr = rb.wptr
        BY <1>1
      <4>2. new.rptr + new.load_cnt = rb.rptr + rb.load_cnt
        BY <3>1
      <4>3. /\ rb.rptr \in Nat /\ rb.load_cnt \in Nat /\ rb.wptr \in Nat
            /\ new.rptr \in Nat /\ new.load_cnt \in Nat
        BY <1>0, <1>3 DEF Slot
      <4> QED BY <2>1, <4>1, <4>2, <4>3
    <3> QED BY <1>4, <3>2, CursorsAgreeValue
  <2>3. CASE rb.rptr + 1 = NUM_OF_ITEMS
    <3>1. /\ new.rptr = 0 /\ new.rptr + new.load_cnt = rb.load_cnt - 1
          /\ rb.load_cnt - 1 < NUM_OF_ITEMS
          /\ rb.rptr + rb.load_cnt >= NUM_OF_ITEMS
          /\ rb.rptr + rb.load_cnt - NUM_OF_ITEMS = rb.load_cnt - 1
      BY <1>0, <1>1, <2>3 DEF Slot
    <3>2. new.wptr = rb.load_cnt - 1
      BY <1>0, <1>1, <2>1, <3>1 DEF Slot
    <3> QED BY <1>4, <3>1, <3>2, CursorsAgreeValue
  <2> QED BY <1>0, <2>2, <2>3 DEF Slot
<1>6. \A i \in Slot : Occupied(new, i) <=> Occupied(rb, i) /\ i # rb.rptr
  <2>1. \A i \in Slot : i # rb.rptr => Age(new, i) = Age(rb, i) - 1
    BY <1>0, <1>1 DEF Age, Slot
  <2>2. Age(new, rb.rptr) = NUM_OF_ITEMS - 1
    BY <1>0, <1>1 DEF Age, Slot
  <2>3. \A i \in Slot : Age(rb, i) \in Nat
    BY <1>0 DEF Age, Slot
  <2> QED BY <1>0, <1>1, <2>1, <2>2, <2>3 DEF Occupied
<1>7. LengthsMatchLoad(new)
  BY <1>2, <1>6 DEF RingInv, LengthsMatchLoad, ClearItem
<1>8. PayloadsWhole(new)
  BY <1>2, <1>6 DEF RingInv, PayloadsWhole
<1> QED BY <1>1, <1>4, <1>5, <1>7, <1>8 DEF RingInv, new

HIDE RingAssumption

-----------------------------------------------------------------------------
(* LockInv: none of this looks at what is in the ring *)

\* The types of what the semaphore's state is made of.
LockTypeOK ==
    /\ sem_count \in {0, 1}
    /\ sem_wait \in Seq(Procs)
    /\ pc \in [Procs -> PC]

\* LockDiscipline is inductive once the types are known.
LockInv == LockTypeOK /\ LockDiscipline

CSPoints == {"check", "mask", "copy", "commit", "unlock"}

-----------------------------------------------------------------------------
(* RemoveAt, as LockInterrupted uses it *)

LEMMA RemoveAtProperties ==
    ASSUME NEW S, NEW s \in Seq(S), NEW i \in 1 .. Len(s)
    PROVE  /\ RemoveAt(s, i) \in Seq(S)
           /\ Len(RemoveAt(s, i)) = Len(s) - 1
           /\ \A j \in 1 .. Len(s) - 1 :
                 RemoveAt(s, i)[j] = IF j < i THEN s[j] ELSE s[j + 1]
<1> DEFINE a == SubSeq(s, 1, i - 1)
           b == SubSeq(s, i + 1, Len(s))
<1>1. a \in Seq(S) /\ Len(a) = i - 1 /\ \A k \in 1 .. i - 1 : a[k] = s[k]
  BY SMT
<1>2. b \in Seq(S) /\ Len(b) = Len(s) - i /\ \A k \in 1 .. Len(s) - i : b[k] = s[i + k]
  BY SMT
<1>3. RemoveAt(s, i) = a \o b
  BY DEF RemoveAt
<1> HIDE DEF a, b
<1>4. /\ a \o b \in Seq(S)
      /\ Len(a \o b) = Len(a) + Len(b)
      /\ \A k \in 1 .. Len(a) + Len(b) :
            (a \o b)[k] = IF k <= Len(a) THEN a[k] ELSE b[k - Len(a)]
  BY <1>1, <1>2, ConcatProperties
<1>5. ASSUME NEW j \in 1 .. Len(s) - 1
      PROVE  RemoveAt(s, i)[j] = IF j < i THEN s[j] ELSE s[j + 1]
  <2>1. CASE j < i
    BY <2>1, <1>1, <1>2, <1>3, <1>4, SMT
  <2>2. CASE ~(j < i)
    <3>1. j - (i - 1) \in 1 .. Len(s) - i /\ i + (j - (i - 1)) = j + 1
      BY <2>2, SMT
    <3>2. b[j - (i - 1)] = s[j + 1]
      BY <3>1, <1>2
    <3>3. (a \o b)[j] = b[j - (i - 1)]
      BY <2>2, <1>1, <1>2, <1>4, SMT
    <3> QED BY <2>2, <3>2, <3>3, <1>3
  <2> QED BY <2>1, <2>2
<1> QED BY <1>1, <1>2, <1>3, <1>4, <1>5, SMT

-----------------------------------------------------------------------------
(* The four ways a step can touch pc and the semaphore *)

\* A step that neither enters nor leaves the critical section or the wait list.
LEMMA LockMove ==
    ASSUME LockInv, NEW p \in Procs, NEW n \in PC,
           pc' = [pc EXCEPT ![p] = n], UNCHANGED <<sem_count, sem_wait>>,
           pc[p] \in CSPoints <=> n \in CSPoints,
           pc[p] # "sem_wait", n # "sem_wait"
    PROVE  LockInv'
<1> USE DEF LockInv, CSPoints
<1>1. LockTypeOK'
  BY DEF LockTypeOK
<1>2. \A q \in Procs : InCS(q)' <=> InCS(q)
  BY DEF LockTypeOK, InCS
<1>3. MutualExclusion' /\ SemMatchesHolder'
  BY <1>2 DEF LockDiscipline, MutualExclusion, SemMatchesHolder
<1>4. WaitListExact'
  BY DEF LockTypeOK, LockDiscipline, WaitListExact
<1> QED BY <1>1, <1>3, <1>4 DEF LockDiscipline

LEMMA LockStay ==
    ASSUME LockInv, UNCHANGED <<sem_count, sem_wait, pc>>
    PROVE  LockInv'
  BY DEF LockInv, LockTypeOK, LockDiscipline, MutualExclusion, SemMatchesHolder,
         WaitListExact, InCS

\* down finds the semaphore free, or queues.
LEMMA LockDown ==
    ASSUME LockInv, NEW p \in Procs, rb_lock(p)
    PROVE  LockInv'
<1> USE DEF LockInv, CSPoints
<1>1. CASE /\ sem_count > 0
           /\ sem_count' = sem_count - 1
           /\ pc' = [pc EXCEPT ![p] = AfterDown(p)]
           /\ sem_wait' = sem_wait
  <2>1. AfterDown(p) \in {"check", "mask"}
    BY DEF AfterDown
  <2>2. LockTypeOK'
    BY <1>1, <2>1 DEF LockTypeOK, PC
  <2>3. \A q \in Procs : ~InCS(q) /\ (InCS(q)' <=> q = p)
    BY <1>1, <2>1 DEF LockTypeOK, InCS, LockDiscipline, SemMatchesHolder
  <2>4. MutualExclusion' /\ SemMatchesHolder'
    BY <1>1, <2>3 DEF LockTypeOK, MutualExclusion, SemMatchesHolder
  <2>5. WaitListExact'
    BY <1>1, <2>1 DEF LockTypeOK, LockDiscipline, WaitListExact, rb_lock
  <2> QED BY <2>2, <2>4, <2>5 DEF LockDiscipline
<1>2. CASE /\ sem_count = 0
           /\ sem_wait' = Append(sem_wait, p)
           /\ pc' = [pc EXCEPT ![p] = "sem_wait"]
           /\ sem_count' = sem_count
  <2>1. LockTypeOK'
    BY <1>2 DEF LockTypeOK, PC
  <2>2. \A q \in Procs : InCS(q)' <=> InCS(q)
    BY <1>2 DEF LockTypeOK, InCS, rb_lock
  <2>3. MutualExclusion' /\ SemMatchesHolder'
    BY <1>2, <2>2 DEF LockDiscipline, MutualExclusion, SemMatchesHolder
  <2>4. /\ Len(sem_wait') = Len(sem_wait) + 1
        /\ \A i \in 1 .. Len(sem_wait) : sem_wait'[i] = sem_wait[i]
        /\ sem_wait'[Len(sem_wait) + 1] = p
        /\ Len(sem_wait) \in Nat
    BY <1>2 DEF LockTypeOK
  <2>5. \A i \in 1 .. Len(sem_wait) : sem_wait[i] # p
    BY DEF rb_lock, LockDiscipline, WaitListExact
  <2>6. WaitListExact'
    <3>1. ASSUME NEW q \in Procs
          PROVE  pc'[q] = "sem_wait" <=> \E i \in 1 .. Len(sem_wait') : sem_wait'[i] = q
      <4>1. CASE q = p
        BY <1>2, <2>4, <4>1 DEF LockTypeOK
      <4>2. CASE q # p
        <5>1. pc'[q] = pc[q]
          BY <1>2, <4>2 DEF LockTypeOK
        <5>2. (\E i \in 1 .. Len(sem_wait') : sem_wait'[i] = q)
                 <=> \E i \in 1 .. Len(sem_wait) : sem_wait[i] = q
          BY <2>4, <4>2
        <5> QED BY <5>1, <5>2 DEF LockDiscipline, WaitListExact
      <4> QED BY <4>1, <4>2
    <3>2. \A i, j \in 1 .. Len(sem_wait') : sem_wait'[i] = sem_wait'[j] => i = j
      BY <2>4, <2>5 DEF LockDiscipline, WaitListExact
    <3> QED BY <1>2, <3>1, <3>2 DEF WaitListExact
  <2> QED BY <2>1, <2>3, <2>6 DEF LockDiscipline
<1> QED BY <1>1, <1>2 DEF rb_lock, Goto

\* A signal takes the process off the wait list.
LEMMA LockAbandoned ==
    ASSUME LockInv, NEW p \in Procs, LockInterrupted(p)
    PROVE  LockInv'
<1> USE DEF LockInv
<1>1. PICK i \in 1 .. Len(sem_wait) :
         sem_wait[i] = p /\ sem_wait' = RemoveAt(sem_wait, i)
  BY DEF LockInterrupted
<1>2. pc' = [pc EXCEPT ![p] = "ret"] /\ pc[p] = "sem_wait" /\ sem_count' = sem_count
  BY DEF LockInterrupted, Goto
<1>3. /\ sem_wait' \in Seq(Procs)
      /\ Len(sem_wait') = Len(sem_wait) - 1
      /\ \A j \in 1 .. Len(sem_wait) - 1 :
            sem_wait'[j] = IF j < i THEN sem_wait[j] ELSE sem_wait[j + 1]
      /\ Len(sem_wait) \in Nat
  <2>1. sem_wait \in Seq(Procs) /\ Len(sem_wait) \in Nat
    BY DEF LockTypeOK
  <2>2. /\ RemoveAt(sem_wait, i) \in Seq(Procs)
        /\ Len(RemoveAt(sem_wait, i)) = Len(sem_wait) - 1
        /\ \A j \in 1 .. Len(sem_wait) - 1 :
              RemoveAt(sem_wait, i)[j] = IF j < i THEN sem_wait[j] ELSE sem_wait[j + 1]
    BY <2>1, RemoveAtProperties, Zenon
  <2> QED BY <1>1, <2>1, <2>2
<1>4. LockTypeOK'
  BY <1>2, <1>3 DEF LockTypeOK, PC
<1>5. \A q \in Procs : InCS(q)' <=> InCS(q)
  BY <1>2 DEF LockTypeOK, InCS
<1>6. MutualExclusion' /\ SemMatchesHolder'
  BY <1>2, <1>5 DEF LockDiscipline, MutualExclusion, SemMatchesHolder
<1>7. WaitListExact'
  <2>1. \A j, k \in 1 .. Len(sem_wait) : sem_wait[j] = sem_wait[k] => j = k
    BY DEF LockDiscipline, WaitListExact
  <2>2. \A j \in 1 .. Len(sem_wait') : sem_wait'[j] # p
    BY <1>1, <1>3, <2>1
  <2>3. ASSUME NEW q \in Procs
        PROVE  pc'[q] = "sem_wait" <=> \E j \in 1 .. Len(sem_wait') : sem_wait'[j] = q
    <3>1. CASE q = p
      BY <1>2, <2>2, <3>1 DEF LockTypeOK
    <3>2. CASE q # p
      <4>1. ASSUME NEW j \in 1 .. Len(sem_wait), sem_wait[j] = q
            PROVE  \E k \in 1 .. Len(sem_wait') : sem_wait'[k] = q
        <5>1. CASE j < i
          BY <1>3, <4>1, <5>1
        <5>2. CASE j > i
          <6>1. j - 1 \in 1 .. Len(sem_wait') /\ ~(j - 1 < i) /\ (j - 1) + 1 = j
            BY <1>3, <5>2
          <6> QED BY <1>3, <4>1, <6>1
        <5> QED BY <1>1, <3>2, <4>1, <5>1, <5>2
      <4>2. (\E j \in 1 .. Len(sem_wait') : sem_wait'[j] = q)
               => \E j \in 1 .. Len(sem_wait) : sem_wait[j] = q
        <5>1. ASSUME NEW j \in 1 .. Len(sem_wait'), sem_wait'[j] = q
              PROVE  \E k \in 1 .. Len(sem_wait) : sem_wait[k] = q
          <6>1. j \in 1 .. Len(sem_wait) - 1 /\ j \in 1 .. Len(sem_wait)
                   /\ j + 1 \in 1 .. Len(sem_wait)
            BY <1>3, <5>1
          <6>2. sem_wait'[j] = sem_wait[j] \/ sem_wait'[j] = sem_wait[j + 1]
            BY <1>3, <6>1
          <6> QED BY <5>1, <6>1, <6>2
        <5> QED BY <5>1
      <4>3. pc'[q] = pc[q]
        BY <1>2, <3>2 DEF LockTypeOK
      <4> QED BY <4>1, <4>2, <4>3 DEF LockDiscipline, WaitListExact
    <3> QED BY <3>1, <3>2
  <2>4. \A j, k \in 1 .. Len(sem_wait') : sem_wait'[j] = sem_wait'[k] => j = k
    BY <1>3, <2>1
  <2>5. sem_count' > 0 => sem_wait' = <<>>
    BY <1>1, <1>2 DEF LockTypeOK, LockDiscipline, WaitListExact
  <2> QED BY <2>3, <2>4, <2>5 DEF WaitListExact
<1> QED BY <1>4, <1>6, <1>7 DEF LockDiscipline

\* up frees the semaphore, or hands it to the head of the wait list.
LEMMA LockUp ==
    ASSUME LockInv, NEW p \in Procs, NEW n \in PC \ (CSPoints \cup {"sem_wait"}),
           InCS(p), rb_unlock(p, n)
    PROVE  LockInv'
<1> USE DEF LockInv, CSPoints
<1>0. /\ pc[p] # "sem_wait"
      /\ sem_count = 0
      /\ \A q \in Procs : InCS(q) => q = p
  BY DEF InCS, LockDiscipline, MutualExclusion, SemMatchesHolder
<1>1. CASE sem_wait = <<>>
  <2>1. sem_count' = 1 /\ pc' = [pc EXCEPT ![p] = n] /\ sem_wait' = sem_wait
    BY <1>0, <1>1 DEF rb_unlock, Goto
  <2>2. LockTypeOK'
    BY <2>1 DEF LockTypeOK
  <2>3. \A q \in Procs : ~InCS(q)'
    BY <1>0, <2>1 DEF LockTypeOK, InCS
  <2>4. MutualExclusion' /\ SemMatchesHolder'
    BY <2>1, <2>3 DEF MutualExclusion, SemMatchesHolder
  <2>5. WaitListExact'
    BY <1>0, <1>1, <2>1 DEF LockTypeOK, LockDiscipline, WaitListExact
  <2> QED BY <2>2, <2>4, <2>5 DEF LockDiscipline
<1>2. CASE sem_wait # <<>>
  <2> DEFINE h == Head(sem_wait)
  <2>1. /\ sem_wait' = Tail(sem_wait)
        /\ pc' = [pc EXCEPT ![p] = n, ![h] = AfterDown(h)]
        /\ sem_count' = sem_count
    BY <1>2 DEF rb_unlock
  <2>2. /\ h \in Procs /\ h = sem_wait[1]
        /\ Len(sem_wait) \in Nat \ {0}
        /\ sem_wait' \in Seq(Procs)
        /\ Len(sem_wait') = Len(sem_wait) - 1
        /\ \A i \in 1 .. Len(sem_wait') : sem_wait'[i] = sem_wait[i + 1]
    BY <1>2, <2>1, HeadTailProperties DEF LockTypeOK
  <2>3. pc[h] = "sem_wait" /\ h # p
    BY <1>0, <2>2 DEF LockDiscipline, WaitListExact
  <2>4. AfterDown(h) \in {"check", "mask"}
    BY DEF AfterDown
  <2> HIDE DEF h
  <2>5. \A q \in Procs : pc'[q] = IF q = h THEN AfterDown(h) ELSE IF q = p THEN n ELSE pc[q]
    BY <2>1, <2>2, <2>3 DEF LockTypeOK
  <2>6. LockTypeOK'
    BY <2>1, <2>2, <2>4 DEF LockTypeOK, PC
  <2>7. \A q \in Procs : InCS(q)' <=> q = h
    BY <1>0, <2>3, <2>4, <2>5 DEF InCS
  <2>8. MutualExclusion' /\ SemMatchesHolder'
    BY <1>0, <2>1, <2>2, <2>7 DEF MutualExclusion, SemMatchesHolder
  <2>9. WaitListExact'
    <3>1. \A i, j \in 1 .. Len(sem_wait) : sem_wait[i] = sem_wait[j] => i = j
      BY DEF LockDiscipline, WaitListExact
    <3>2. ASSUME NEW q \in Procs
          PROVE  pc'[q] = "sem_wait" <=> \E i \in 1 .. Len(sem_wait') : sem_wait'[i] = q
      <4>1. CASE q = h
        BY <2>2, <2>4, <2>5, <3>1, <4>1
      <4>2. CASE q = p
        BY <1>0, <2>2, <2>3, <2>5, <4>2 DEF LockDiscipline, WaitListExact
      <4>3. CASE q # h /\ q # p
        <5>1. ASSUME NEW i \in 1 .. Len(sem_wait), sem_wait[i] = q
              PROVE  \E j \in 1 .. Len(sem_wait') : sem_wait'[j] = q
          <6>1. i - 1 \in 1 .. Len(sem_wait') /\ (i - 1) + 1 = i
            BY <2>2, <4>3, <5>1
          <6> QED BY <2>2, <5>1, <6>1
        <5>2. (\E j \in 1 .. Len(sem_wait') : sem_wait'[j] = q)
                 => \E i \in 1 .. Len(sem_wait) : sem_wait[i] = q
          BY <2>2
        <5> QED BY <2>5, <4>3, <5>1, <5>2 DEF LockDiscipline, WaitListExact
      <4> QED BY <4>1, <4>2, <4>3
    <3>3. \A i, j \in 1 .. Len(sem_wait') : sem_wait'[i] = sem_wait'[j] => i = j
      BY <2>2, <3>1
    <3>4. sem_count' = 0
      BY <1>0, <2>1
    <3> QED BY <3>2, <3>3, <3>4 DEF WaitListExact
  <2> QED BY <2>6, <2>8, <2>9 DEF LockDiscipline
<1> QED BY <1>1, <1>2

-----------------------------------------------------------------------------
(* The actions of a process, by what they are part of *)

LoopStep(p) ==
    /\ call[p].op \in {"read", "write"}
    /\ \/ CheckReady(p) \/ UnlockAfterCopy(p)
       \/ PrepareToWait(p) \/ WaitCondition(p) \/ WakeFromWait(p)

ReadStep(p) ==
    call[p].op = "read" /\ (ReadCopy(p) \/ ReadCommit(p) \/ ReadNotify(p))

WriteStep(p) ==
    /\ call[p].op = "write"
    /\ WriteCopy(p) \/ WriteCommit(p) \/ WriteNotify(p) \/ WriteSigio(p)

PollStep(p) ==
    /\ call[p].op = "poll"
    /\ PollWait(p) \/ PollCheck(p) \/ PollUnlock(p) \/ PollWake(p)

EnterStep(p) == \E c \in CallsOf[p] : ReadEnter(p, c) \/ WriteEnter(p, c) \/ PollEnter(p, c)

LEMMA StepCases ==
    ASSUME NEW p \in Procs, Step(p) \/ UserStep(p)
    PROVE  \/ rb_lock(p) \/ LockInterrupted(p) \/ LoopStep(p)
           \/ ReadStep(p) \/ WriteStep(p) \/ PollStep(p)
           \/ WaitInterrupted(p) \/ PollInterrupted(p)
           \/ EnterStep(p) \/ Return(p)
  BY DEF Step, UserStep, choen_read, choen_write, choen_poll, LoopStep, ReadStep,
         WriteStep, PollStep, EnterStep

-----------------------------------------------------------------------------

LEMMA LockInit == Init => LockInv
  BY EmptySeq DEF Init, LockInv, LockTypeOK, PC, LockDiscipline, MutualExclusion,
     SemMatchesHolder, WaitListExact, InCS

\* The steps the handlers share.
LEMMA LockShared ==
    ASSUME LockInv, NEW p \in Procs,
           LoopStep(p) \/ PollUnlock(p) \/ WaitInterrupted(p) \/ Return(p)
    PROVE  LockInv'
<1> USE DEF LoopStep, Goto, semVars, CSPoints, PC, InCS
<1>1. CASE CheckReady(p)
  <2>1. pc[p] = "check" /\ InCS(p)
    BY <1>1 DEF CheckReady
  <2>2. \/ pc' = [pc EXCEPT ![p] = "copy"] /\ UNCHANGED <<sem_count, sem_wait>>
        \/ rb_unlock(p, "ret") \/ rb_unlock(p, "prepare")
    BY <1>1 DEF CheckReady
  <2> QED BY <2>1, <2>2, LockMove, LockUp
<1>2. CASE UnlockAfterCopy(p)
  <2>1. rb_unlock(p, "wake") \/ rb_unlock(p, "ret")
    BY <1>2 DEF UnlockAfterCopy
  <2> QED BY <1>2, <2>1, LockUp DEF UnlockAfterCopy
<1>3. CASE PollUnlock(p)
  <2>1. rb_unlock(p, "ret") \/ rb_unlock(p, "poll_sleep")
    BY <1>3 DEF PollUnlock
  <2> QED BY <1>3, <2>1, LockUp DEF PollUnlock
<1>4. CASE PrepareToWait(p)
  BY <1>4, LockMove DEF PrepareToWait
<1>5. CASE WaitCondition(p)
  <2>1. \/ pc' = [pc EXCEPT ![p] = "down"]
        \/ pc' = [pc EXCEPT ![p] = "asleep"]
    BY <1>5 DEF WaitCondition
  <2> QED BY <1>5, <2>1, LockMove DEF WaitCondition
<1>6. CASE WakeFromWait(p)
  BY <1>6, LockMove DEF WakeFromWait
<1>7. CASE WaitInterrupted(p)
  <2>1. \/ pc' = [pc EXCEPT ![p] = "down"]
        \/ pc' = [pc EXCEPT ![p] = "ret"]
    BY <1>7 DEF WaitInterrupted
  <2> QED BY <1>7, <2>1, LockMove DEF WaitInterrupted
<1>8. CASE Return(p)
  BY <1>8, LockMove DEF Return
<1> QED BY <1>1, <1>2, <1>3, <1>4, <1>5, <1>6, <1>7, <1>8

LEMMA LockHandlers ==
    ASSUME LockInv, NEW p \in Procs,
           \/ ReadStep(p) \/ WriteStep(p) \/ EnterStep(p)
           \/ PollWait(p) \/ PollCheck(p) \/ PollWake(p) \/ PollInterrupted(p)
    PROVE  LockInv'
<1> USE DEF ReadStep, WriteStep, EnterStep, Goto, semVars, CSPoints, PC
<1>1. CASE ReadCopy(p) \/ WriteCopy(p)
  <2>1. pc[p] = "copy" /\ UNCHANGED <<sem_count, sem_wait>>
    BY <1>1 DEF ReadCopy, WriteCopy
  <2>2. \/ pc' = [pc EXCEPT ![p] = "commit"]
        \/ pc' = [pc EXCEPT ![p] = "unlock"]
    BY <1>1 DEF ReadCopy, WriteCopy
  <2> QED BY <2>1, <2>2, LockMove
<1>2. CASE ReadCommit(p) \/ WriteCommit(p)
  BY <1>2, LockMove DEF ReadCommit, WriteCommit
<1>3. CASE ReadNotify(p)
  BY <1>3, LockMove DEF ReadNotify
<1>4. CASE WriteNotify(p)
  BY <1>4, LockMove DEF WriteNotify
<1>5. CASE WriteSigio(p)
  BY <1>5, LockMove DEF WriteSigio
<1>6. CASE PollWait(p)
  <2>1. /\ pc[p] \in {"poll_rd", "poll_wr"} /\ UNCHANGED <<sem_count, sem_wait>>
        /\ \/ pc' = [pc EXCEPT ![p] = "poll_wr"]
           \/ pc' = [pc EXCEPT ![p] = "down"]
    BY <1>6 DEF PollWait
  <2> QED BY <2>1, LockMove
<1>7. CASE PollCheck(p)
  BY <1>7, LockMove DEF PollCheck
<1>8. CASE PollWake(p)
  BY <1>8, LockMove DEF PollWake
<1>9. CASE PollInterrupted(p)
  BY <1>9, LockMove DEF PollInterrupted
<1>10. CASE EnterStep(p)
  <2>1. /\ pc[p] = "idle" /\ UNCHANGED <<sem_count, sem_wait>>
        /\ \/ pc' = [pc EXCEPT ![p] = "ret"]
           \/ pc' = [pc EXCEPT ![p] = "down"]
           \/ pc' = [pc EXCEPT ![p] = "poll_rd"]
    BY <1>10 DEF ReadEnter, WriteEnter, PollEnter, Enter
  <2> QED BY <2>1, LockMove
<1> QED BY <1>1, <1>2, <1>3, <1>4, <1>5, <1>6, <1>7, <1>8, <1>9, <1>10

LEMMA LockNext == LockInv /\ [Next]_vars => LockInv'
<1> SUFFICES ASSUME LockInv, [Next]_vars
             PROVE  LockInv'
  OBVIOUS
<1>1. ASSUME NEW p \in Procs, Step(p) \/ UserStep(p)
      PROVE  LockInv'
  BY <1>1, StepCases, LockDown, LockAbandoned, LockShared, LockHandlers DEF PollStep
<1>2. ASSUME NEW f \in Files, FileStep(f)
      PROVE  LockInv'
  BY <1>2, LockStay DEF FileStep, choen_open, choen_close, choen_fasync, TakeSigio, semVars
<1>3. CASE UNCHANGED vars
  BY <1>3, LockStay DEF vars
<1> QED BY <1>1, <1>2, <1>3 DEF Next

THEOREM LockInvariant == Spec => []LockInv
<1>1. Init => LockInv
  BY LockInit
<1>2. LockInv /\ [Next]_vars => LockInv'
  BY LockNext
<1> QED BY <1>1, <1>2, PTL DEF Spec

\* Every path of choen_read, choen_write and choen_poll pairs rb_lock with one
\* rb_unlock, at most one process is between the two, and the wait list of the
\* semaphore holds exactly the processes that wait, once each.
THEOREM LockDisciplineHolds == Spec => []LockDiscipline
<1>1. LockInv => LockDiscipline
  BY DEF LockInv
<1> QED BY <1>1, LockInvariant, PTL

-----------------------------------------------------------------------------
(* What a step of p leaves of the other processes *)

CallTypeOK == call \in [Procs -> Call \cup {NoCall}]

RetDomain == DOMAIN ret = Procs

\* up may let one other process, that waited for the semaphore, go on.
OthersMove(p) ==
    \A q \in Procs \ {p} :
        /\ call'[q] = call[q]
        /\ ret'[q] = ret[q]
        /\ \/ pc'[q] = pc[q]
           \/ pc[q] = "sem_wait" /\ pc'[q] = AfterDown(q)

LEMMA UnlockMoves ==
    ASSUME LockInv, NEW p \in Procs, NEW n, pc[p] # "sem_wait", rb_unlock(p, n)
    PROVE  /\ pc'[p] = n
           /\ \A q \in Procs \ {p} :
                 \/ pc'[q] = pc[q]
                 \/ pc[q] = "sem_wait" /\ pc'[q] = AfterDown(q)
<1>0. pc \in [Procs -> PC] /\ sem_wait \in Seq(Procs)
  BY DEF LockInv, LockTypeOK
<1>1. CASE sem_wait = <<>>
  <2>1. pc' = [pc EXCEPT ![p] = n]
    BY <1>1 DEF rb_unlock, Goto
  <2> QED BY <1>0, <2>1
<1>2. CASE sem_wait # <<>>
  <2> DEFINE h == Head(sem_wait)
  <2>1. h \in Procs /\ h = sem_wait[1] /\ Len(sem_wait) \in Nat \ {0}
    BY <1>0, <1>2
  <2>2. pc[h] = "sem_wait"
    BY <2>1 DEF LockInv, LockDiscipline, WaitListExact
  <2>3. pc' = [pc EXCEPT ![p] = n, ![h] = AfterDown(h)]
    BY <1>2 DEF rb_unlock
  <2> HIDE DEF h
  <2> QED BY <1>0, <2>1, <2>2, <2>3
<1> QED BY <1>1, <1>2

LEMMA Frame ==
    ASSUME LockInv, CallTypeOK, RetDomain, NEW p \in Procs, Step(p) \/ UserStep(p)
    PROVE  OthersMove(p)
<1> USE DEF LockInv, LockTypeOK, CallTypeOK, RetDomain, Goto, OthersMove
<1>1. CASE rb_lock(p) \/ LockInterrupted(p)
  BY <1>1 DEF rb_lock, LockInterrupted
<1>2. CASE CheckReady(p) \/ UnlockAfterCopy(p) \/ PollUnlock(p)
  <2>1. /\ pc[p] # "sem_wait"
        /\ \A q \in Procs \ {p} : call'[q] = call[q] /\ ret'[q] = ret[q]
    BY <1>2 DEF CheckReady, UnlockAfterCopy, PollUnlock
  <2>2. \/ pc' = [pc EXCEPT ![p] = "copy"]
        \/ \E n \in PC : rb_unlock(p, n)
    BY <1>2 DEF CheckReady, UnlockAfterCopy, PollUnlock, PC
  <2> QED BY <2>1, <2>2, UnlockMoves
<1>3. CASE PrepareToWait(p) \/ WaitCondition(p) \/ WakeFromWait(p) \/ WaitInterrupted(p)
  BY <1>3 DEF PrepareToWait, WaitCondition, WakeFromWait, WaitInterrupted
<1>4. CASE Return(p)
  BY <1>4 DEF Return
<1>5. CASE ReadCopy(p) \/ ReadCommit(p) \/ ReadNotify(p)
  BY <1>5 DEF ReadCopy, ReadCommit, ReadNotify
<1>6. CASE WriteCopy(p)
  BY <1>6 DEF WriteCopy
<1>7. CASE WriteCommit(p) \/ WriteNotify(p) \/ WriteSigio(p)
  BY <1>7 DEF WriteCommit, WriteNotify, WriteSigio
<1>8. CASE PollWait(p) \/ PollCheck(p) \/ PollWake(p) \/ PollInterrupted(p)
  BY <1>8 DEF PollWait, PollCheck, PollWake, PollInterrupted
<1>9. CASE EnterStep(p)
  BY <1>9 DEF EnterStep, ReadEnter, WriteEnter, PollEnter, Enter
<1> QED BY <1>1, <1>2, <1>3, <1>4, <1>5, <1>6, <1>7, <1>8, <1>9, StepCases
   DEF LoopStep, ReadStep, WriteStep, PollStep

\* Of the files a step of p moves the f_pos of its own, and marks SIGIO.
LEMMA FilesMove ==
    ASSUME NEW p \in Procs, Step(p) \/ UserStep(p)
    PROVE  /\ UNCHANGED <<async, opened>> /\ sigio \subseteq sigio'
           /\ advanced' \subseteq advanced \cup {call[p].file}
           /\ advanced' # advanced => pc[p] = "ret"
<1> USE DEF fileVars
<1>1. CASE rb_lock(p) \/ LockInterrupted(p) \/ WaitInterrupted(p) \/ PollInterrupted(p)
  BY <1>1 DEF rb_lock, LockInterrupted, WaitInterrupted, PollInterrupted
<1>2. CASE LoopStep(p)
  BY <1>2 DEF LoopStep, CheckReady, UnlockAfterCopy, PrepareToWait, WaitCondition, WakeFromWait
<1>3. CASE ReadStep(p) \/ WriteStep(p)
  BY <1>3 DEF ReadStep, ReadCopy, ReadCommit, ReadNotify, WriteStep, WriteCopy, WriteCommit,
     WriteNotify, WriteSigio
<1>4. CASE PollStep(p)
  BY <1>4 DEF PollStep, PollWait, PollCheck, PollUnlock, PollWake
<1>5. CASE EnterStep(p) \/ Return(p)
  BY <1>5 DEF EnterStep, ReadEnter, WriteEnter, PollEnter, Enter, Return
<1> QED BY <1>1, <1>2, <1>3, <1>4, <1>5, StepCases

-----------------------------------------------------------------------------
(* CallInv *)

FilesOK ==
    /\ opened \subseteq Files /\ advanced \subseteq opened
    /\ async \subseteq opened /\ sigio \subseteq Files

QueuesOK == rd_wq \subseteq Procs /\ wr_wq \subseteq Procs /\ woken \subseteq Procs

\* A process in a handler is in one of its calls, on a file that is open, and
\* at a statement of that handler.
InItsCall(q) ==
    /\ pc[q] = "idle" => call[q] = NoCall
    /\ pc[q] # "idle" => call[q] \in CallsOf[q] /\ call[q].file \in opened
    /\ pc[q] \in {"check", "copy", "commit", "prepare", "cond", "asleep", "wake"}
          => call[q].op \in {"read", "write"}
    /\ pc[q] = "sigio" => call[q].op = "write"
    /\ pc[q] \in {"poll_rd", "poll_wr", "mask", "poll_sleep"} => call[q].op = "poll"

CallInv == CallTypeOK /\ RetDomain /\ FilesOK /\ QueuesOK /\ \A q \in Procs : InItsCall(q)

LEMMA CallsAreTyped ==
    ASSUME NEW p \in Procs, NEW c \in CallsOf[p]
    PROVE  c \in Call /\ (c.op = "write" => c.msg \in Msg)
  BY DevAssumption

LEMMA AfterDownOp ==
    ASSUME NEW q \in Procs, pc[q] = "sem_wait", InItsCall(q)
    PROVE  /\ AfterDown(q) = "check" => call[q].op \in {"read", "write"}
           /\ AfterDown(q) = "mask" => call[q].op = "poll"
           /\ AfterDown(q) \in {"check", "mask"}
  BY CallsAreTyped DEF InItsCall, AfterDown, Call, Op

LEMMA OthersInTheirCalls ==
    ASSUME LockInv, CallInv, NEW p \in Procs, OthersMove(p), opened' = opened,
           NEW q \in Procs \ {p}
    PROVE  InItsCall(q)'
<1>1. call'[q] = call[q] /\ InItsCall(q)
  BY DEF OthersMove, CallInv
<1>2. CASE pc'[q] = pc[q]
  BY <1>1, <1>2 DEF InItsCall
<1>3. CASE pc[q] = "sem_wait" /\ pc'[q] = AfterDown(q)
  BY <1>1, <1>3, AfterDownOp DEF InItsCall
<1> QED BY <1>2, <1>3 DEF OthersMove

\* The steps that leave the call alone.
LEMMA CallStays ==
    ASSUME LockInv, CallInv, NEW p \in Procs,
           \/ rb_lock(p) \/ LockInterrupted(p) \/ LoopStep(p)
           \/ ReadStep(p) \/ WriteStep(p) \/ PollStep(p)
           \/ WaitInterrupted(p) \/ PollInterrupted(p)
    PROVE  /\ call' = call /\ opened' = opened /\ advanced' = advanced /\ async' = async
           /\ DOMAIN ret' = DOMAIN ret /\ QueuesOK' /\ sigio' \in {sigio, sigio \cup async}
           /\ InItsCall(p)'
<1> USE DEF Goto, fileVars, waitVars, wake_up, Dequeue
<1>0. pc \in [Procs -> PC] /\ InItsCall(p) /\ QueuesOK
  BY DEF LockInv, LockTypeOK, CallInv
<1>1. CASE rb_lock(p)
  <2>1. \/ pc' = [pc EXCEPT ![p] = AfterDown(p)]
        \/ pc' = [pc EXCEPT ![p] = "sem_wait"]
    BY <1>1 DEF rb_lock
  <2>2. AfterDown(p) = IF call[p].op = "poll" THEN "mask" ELSE "check"
    BY DEF AfterDown
  <2>3. call[p] \in CallsOf[p] /\ call[p].op \in Op
    BY <1>0, <1>1, CallsAreTyped DEF InItsCall, rb_lock, Call
  <2>4. InItsCall(p)'
    BY <1>0, <1>1, <2>1, <2>2, <2>3 DEF rb_lock, InItsCall, Op
  <2> QED BY <1>0, <1>1, <2>4 DEF rb_lock, QueuesOK
<1>2. CASE LockInterrupted(p)
  BY <1>0, <1>2 DEF LockInterrupted, InItsCall, QueuesOK
<1>3. CASE LoopStep(p)
  <2>1. CASE CheckReady(p) \/ UnlockAfterCopy(p)
    <3>1. pc'[p] \in {"copy", "ret", "prepare", "wake"}
      <4>1. \/ pc' = [pc EXCEPT ![p] = "copy"]
            \/ rb_unlock(p, "ret") \/ rb_unlock(p, "prepare") \/ rb_unlock(p, "wake")
        BY <2>1 DEF CheckReady, UnlockAfterCopy
      <4>2. pc[p] # "sem_wait"
        BY <2>1 DEF CheckReady, UnlockAfterCopy
      <4> QED BY <1>0, <4>1, <4>2, UnlockMoves
    <3> QED BY <1>0, <1>3, <2>1, <3>1
            DEF LoopStep, CheckReady, UnlockAfterCopy, InItsCall, QueuesOK
  <2>2. CASE PrepareToWait(p) \/ WaitCondition(p) \/ WakeFromWait(p)
    BY <1>0, <1>3, <2>2
       DEF LoopStep, PrepareToWait, WaitCondition, WakeFromWait, InItsCall, QueuesOK
  <2> QED BY <1>3, <2>1, <2>2 DEF LoopStep
<1>4. CASE ReadStep(p)
  BY <1>0, <1>4 DEF ReadStep, ReadCopy, ReadCommit, ReadNotify, InItsCall, QueuesOK
<1>5. CASE WriteStep(p)
  <2>1. CASE WriteCopy(p)
    BY <1>0, <1>5, <2>1 DEF WriteStep, WriteCopy, InItsCall, QueuesOK
  <2>2. CASE WriteCommit(p) \/ WriteNotify(p)
    BY <1>0, <1>5, <2>2 DEF WriteStep, WriteCommit, WriteNotify, InItsCall, QueuesOK
  <2>3. CASE WriteSigio(p)
    BY <1>0, <1>5, <2>3 DEF WriteStep, WriteSigio, InItsCall, QueuesOK
  <2> QED BY <1>5, <2>1, <2>2, <2>3 DEF WriteStep
<1>6. CASE PollStep(p)
  <2>1. CASE PollUnlock(p)
    <3>1. pc'[p] \in {"ret", "poll_sleep"}
      <4>1. rb_unlock(p, "ret") \/ rb_unlock(p, "poll_sleep")
        BY <2>1 DEF PollUnlock
      <4>2. pc[p] # "sem_wait"
        BY <2>1 DEF PollUnlock
      <4> QED BY <4>1, <4>2, UnlockMoves
    <3> QED BY <1>0, <1>6, <2>1, <3>1 DEF PollStep, PollUnlock, InItsCall, QueuesOK
  <2>2. CASE PollWait(p) \/ PollCheck(p) \/ PollWake(p)
    BY <1>0, <1>6, <2>2 DEF PollStep, PollWait, PollCheck, PollWake, InItsCall, QueuesOK
  <2> QED BY <1>6, <2>1, <2>2 DEF PollStep
<1>7. CASE WaitInterrupted(p)
  BY <1>0, <1>7 DEF WaitInterrupted, InItsCall, QueuesOK
<1>8. CASE PollInterrupted(p)
  BY <1>0, <1>8 DEF PollInterrupted, InItsCall, QueuesOK
<1> QED BY <1>1, <1>2, <1>3, <1>4, <1>5, <1>6, <1>7, <1>8

LEMMA CallStep ==
    ASSUME LockInv, CallInv, NEW p \in Procs, Step(p) \/ UserStep(p)
    PROVE  CallInv'
<1>0. /\ pc \in [Procs -> PC] /\ InItsCall(p) /\ QueuesOK /\ FilesOK
      /\ CallTypeOK /\ RetDomain
  BY DEF LockInv, LockTypeOK, CallInv
<1>1. OthersMove(p)
  BY <1>0, Frame
<1>2. CASE /\ call' = call /\ opened' = opened /\ advanced' = advanced /\ async' = async
           /\ DOMAIN ret' = DOMAIN ret /\ QueuesOK' /\ sigio' \in {sigio, sigio \cup async}
           /\ InItsCall(p)'
  <2>1. CallTypeOK' /\ RetDomain' /\ FilesOK'
    BY <1>0, <1>2 DEF CallTypeOK, RetDomain, FilesOK
  <2>2. \A q \in Procs : InItsCall(q)'
    BY <1>1, <1>2, OthersInTheirCalls
  <2> QED BY <1>2, <2>1, <2>2 DEF CallInv
<1>3. CASE EnterStep(p)
  <2>1. PICK c \in CallsOf[p] : ReadEnter(p, c) \/ WriteEnter(p, c) \/ PollEnter(p, c)
    BY <1>3 DEF EnterStep
  <2>2. /\ pc[p] = "idle" /\ c.file \in opened
        /\ call' = [call EXCEPT ![p] = c]
        /\ \/ pc' = [pc EXCEPT ![p] = "ret"]
           \/ pc' = [pc EXCEPT ![p] = "down"]
           \/ pc' = [pc EXCEPT ![p] = "poll_rd"] /\ c.op = "poll"
        /\ UNCHANGED <<waitVars, fileVars>>
        /\ DOMAIN ret' = DOMAIN ret
    BY <2>1 DEF ReadEnter, WriteEnter, PollEnter, Enter, Goto
  <2>3. CallTypeOK' /\ RetDomain' /\ FilesOK' /\ QueuesOK'
    BY <1>0, <2>2, CallsAreTyped DEF CallTypeOK, RetDomain, FilesOK, QueuesOK, waitVars, fileVars
  <2>4. InItsCall(p)'
    BY <1>0, <2>2 DEF InItsCall, CallTypeOK, fileVars
  <2>5. \A q \in Procs \ {p} : InItsCall(q)'
    BY <1>1, <2>2, OthersInTheirCalls DEF fileVars
  <2> QED BY <2>3, <2>4, <2>5 DEF CallInv
<1>4. CASE Return(p)
  <2>1. /\ call' = [call EXCEPT ![p] = NoCall] /\ pc' = [pc EXCEPT ![p] = "idle"]
        /\ pc[p] = "ret" /\ DOMAIN ret' = DOMAIN ret
        /\ UNCHANGED <<opened, async, sigio>>
        /\ advanced' \subseteq advanced \cup {call[p].file}
        /\ rd_wq' \subseteq rd_wq /\ wr_wq' \subseteq wr_wq /\ woken' \subseteq woken
    BY <1>4 DEF Return, Goto, Dequeue
  <2>2. call[p].file \in opened
    BY <1>0, <2>1 DEF InItsCall
  <2>3. CallTypeOK' /\ RetDomain' /\ FilesOK' /\ QueuesOK'
    BY <1>0, <2>1, <2>2 DEF CallTypeOK, RetDomain, FilesOK, QueuesOK
  <2>4. InItsCall(p)'
    BY <1>0, <2>1 DEF InItsCall, CallTypeOK
  <2>5. \A q \in Procs \ {p} : InItsCall(q)'
    BY <1>1, <2>1, OthersInTheirCalls
  <2> QED BY <2>3, <2>4, <2>5 DEF CallInv
<1> QED BY <1>2, <1>3, <1>4, StepCases, CallStays

LEMMA CallFile ==
    ASSUME LockInv, CallInv, NEW f \in Files, FileStep(f)
    PROVE  CallInv'
<1> USE DEF waitVars, semVars
<1>0. /\ FilesOK /\ QueuesOK /\ CallTypeOK /\ RetDomain /\ pc \in [Procs -> PC]
      /\ \A q \in Procs : InItsCall(q)
  BY DEF LockInv, LockTypeOK, CallInv
<1>1. /\ UNCHANGED <<rd_wq, wr_wq, woken, pc, call, ret>>
      /\ \A q \in Procs : call[q].file \in opened => call[q].file \in opened'
  BY <1>0 DEF FileStep, choen_open, choen_close, choen_fasync, TakeSigio
<1>2. FilesOK'
  BY <1>0 DEF FileStep, choen_open, choen_close, choen_fasync, TakeSigio, FilesOK
<1>3. QueuesOK' /\ CallTypeOK' /\ RetDomain'
  BY <1>0, <1>1 DEF QueuesOK, CallTypeOK, RetDomain
<1>4. \A q \in Procs : InItsCall(q)'
  BY <1>0, <1>1 DEF InItsCall
<1> QED BY <1>2, <1>3, <1>4 DEF CallInv

LEMMA CallStutter == ASSUME CallInv, UNCHANGED vars PROVE CallInv'
  BY DEF CallInv, CallTypeOK, RetDomain, FilesOK, QueuesOK, InItsCall, vars

LEMMA CallInit == Init => CallInv
  BY DEF Init, CallInv, CallTypeOK, RetDomain, FilesOK, QueuesOK, InItsCall

LEMMA CallNext == LockInv /\ CallInv /\ [Next]_vars => CallInv'
  BY CallStep, CallFile, CallStutter DEF Next

THEOREM CallInvariant == Spec => []CallInv
<1>1. Init => CallInv
  BY CallInit
<1>2. LockInv /\ CallInv /\ [Next]_vars => CallInv'
  BY CallNext
<1> QED BY <1>1, <1>2, LockInvariant, PTL DEF Spec

-----------------------------------------------------------------------------
(* RingLayer *)

\* Between the check and the commit the check stays true, and what a write is
\* about to commit is its own message.
Loaded(q) ==
    /\ pc[q] \in {"copy", "commit"} => Ready(q)
    /\ pc[q] = "commit" /\ call[q].op = "write" =>
          /\ call[q].len \in 1 .. RW_ITEM_SIZE
          /\ \A b \in 1 .. call[q].len : ring.item[ring.wptr].buff[b] = call[q].msg

RingLayer == ring \in Ring /\ RingInv(ring) /\ \A q \in Procs : Loaded(q)

LEMMA OthersLoaded ==
    ASSUME LockInv, NEW p \in Procs, OthersMove(p), ring' = ring \/ InCS(p),
           NEW q \in Procs \ {p}, Loaded(q)
    PROVE  Loaded(q)'
<1>1. CASE pc'[q] \notin {"copy", "commit"}
  BY <1>1 DEF Loaded
<1>2. CASE pc'[q] \in {"copy", "commit"}
  <2>1. pc'[q] = pc[q] /\ call'[q] = call[q]
    BY <1>2 DEF OthersMove, AfterDown
  <2>2. InCS(q)
    BY <1>2, <2>1 DEF InCS
  <2>3. ring' = ring
    BY <2>2 DEF LockInv, LockDiscipline, MutualExclusion
  <2> QED BY <2>1, <2>3 DEF Loaded, Ready
<1> QED BY <1>1, <1>2

\* The steps that neither touch the ring nor lead to the copy.
LEMMA RingStays ==
    ASSUME LockInv, CallInv, RingLayer, NEW p \in Procs, Step(p) \/ UserStep(p),
           ring' = ring, pc'[p] \notin {"copy", "commit"}
    PROVE  RingLayer'
<1>1. OthersMove(p)
  BY Frame DEF CallInv
<1>2. Loaded(p)'
  BY DEF Loaded
<1>3. \A q \in Procs : Loaded(q)'
  BY <1>1, <1>2, OthersLoaded DEF RingLayer
<1>4. ring' \in Ring /\ RingInv(ring)'
  BY DEF RingLayer, RingInv, CursorsAgree, LengthsMatchLoad, PayloadsWhole, Occupied, Age
<1> QED BY <1>3, <1>4 DEF RingLayer

\* The write of one message, given that the slot at wptr is free.
LEMMA RingWriteCopy ==
    ASSUME LockInv, CallInv, RingLayer, NEW p \in Procs, call[p].op = "write", WriteCopy(p)
    PROVE  ring' \in Ring /\ RingInv(ring') /\ Loaded(p)'
<1>0. /\ pc \in [Procs -> PC] /\ pc[p] = "copy" /\ call' = call
      /\ ring \in Ring /\ RingInv(ring) /\ rb_is_writable(ring)
  BY DEF LockInv, LockTypeOK, WriteCopy, RingLayer, Loaded, Ready
<1>1. call[p].len \in Nat /\ call[p].msg \in Msg
  BY <1>0, CallsAreTyped DEF CallInv, InItsCall, Call
<1>2. CASE /\ WriteAccepted(ring, call[p].len)
           /\ ring' = CopyFromUser(ring, call[p].msg, call[p].len, call[p].len)
           /\ pc' = [pc EXCEPT ![p] = "commit"]
  <2>1. call[p].len \in 1 .. RW_ITEM_SIZE
    BY <1>1, <1>2, RingAssumption DEF WriteAccepted
  <2>2. /\ ring' \in Ring /\ ring'.load_cnt = ring.load_cnt
        /\ \A b \in 1 .. call[p].len : ring'.item[ring'.wptr].buff[b] = call[p].msg
    BY <1>0, <1>1, <1>2, <2>1, WholeCopy
  <2>3. RingInv(ring')
    BY <1>0, <1>1, <1>2, CopyFromUserKeeps DEF Byte
  <2>4. pc'[p] = "commit" /\ Ready(p)'
    BY <1>0, <1>2, <2>2 DEF Ready, rb_is_writable
  <2> QED BY <1>0, <2>1, <2>2, <2>3, <2>4 DEF Loaded
<1>3. CASE /\ \E n \in 0 .. call[p].len - 1 :
                 ring' = CopyFromUser(ring, call[p].msg, call[p].len, n)
           /\ pc' = [pc EXCEPT ![p] = "unlock"]
  <2>1. PICK n \in 0 .. call[p].len - 1 : ring' = CopyFromUser(ring, call[p].msg, call[p].len, n)
    BY <1>3
  <2>2. ring' \in Ring /\ RingInv(ring')
    BY <1>0, <1>1, <2>1, CopyFromUserFields, CopyFromUserKeeps DEF Byte
  <2>3. pc'[p] = "unlock"
    BY <1>0, <1>3
  <2> QED BY <2>2, <2>3 DEF Loaded
<1>4. CASE ring' = ring /\ pc' = [pc EXCEPT ![p] = "unlock"]
  BY <1>0, <1>4 DEF Loaded
<1> QED BY <1>2, <1>3, <1>4 DEF WriteCopy, Goto

LEMMA RingStep ==
    ASSUME LockInv, CallInv, RingLayer, NEW p \in Procs, Step(p) \/ UserStep(p)
    PROVE  RingLayer'
<1>0. /\ pc \in [Procs -> PC] /\ ring \in Ring /\ RingInv(ring) /\ Loaded(p)
      /\ \A q \in Procs : Loaded(q)
  BY DEF LockInv, LockTypeOK, RingLayer
<1>1. OthersMove(p)
  BY Frame DEF CallInv
<1>2. ASSUME InCS(p) \/ ring' = ring, ring' \in Ring, RingInv(ring'), Loaded(p)'
      PROVE  RingLayer'
  <2>1. \A q \in Procs \ {p} : Loaded(q)'
    BY <1>0, <1>1, <1>2, OthersLoaded
  <2>2. RingInv(ring)'
    BY <1>2 DEF RingInv, CursorsAgree, LengthsMatchLoad, PayloadsWhole, Occupied, Age
  <2> QED BY <1>2, <2>1, <2>2 DEF RingLayer
<1>3. CASE ring' = ring /\ pc'[p] \notin {"copy", "commit"}
  BY <1>3, RingStays
<1>4. CASE LoopStep(p)
  <2>1. CASE CheckReady(p) /\ Ready(p) /\ pc' = [pc EXCEPT ![p] = "copy"]
    <3>1. ring' = ring /\ call' = call /\ pc'[p] = "copy"
      BY <1>0, <2>1 DEF CheckReady
    <3>2. Loaded(p)'
      BY <2>1, <3>1 DEF Loaded, Ready
    <3> QED BY <1>0, <1>2, <3>1, <3>2
  <2>2. CASE ~(CheckReady(p) /\ Ready(p) /\ pc' = [pc EXCEPT ![p] = "copy"])
    <3>1. ring' = ring /\ pc[p] # "sem_wait"
      BY <1>4 DEF LoopStep, CheckReady, UnlockAfterCopy, PrepareToWait, WaitCondition, WakeFromWait
    <3>2. \/ \E n \in {"ret", "prepare", "wake"} : rb_unlock(p, n)
          \/ \E n \in {"cond", "down", "asleep", "prepare"} : pc' = [pc EXCEPT ![p] = n]
      BY <1>4, <2>2 DEF LoopStep, CheckReady, UnlockAfterCopy, PrepareToWait, WaitCondition,
                        WakeFromWait, Goto
    <3>3. pc'[p] \notin {"copy", "commit"}
      BY <1>0, <3>1, <3>2, UnlockMoves
    <3> QED BY <1>3, <3>1, <3>3
  <2> QED BY <2>1, <2>2
<1>5. CASE ReadStep(p)
  <2>1. CASE ReadCopy(p)
    <3>1. /\ ring' = ring /\ call' = call /\ pc[p] = "copy" /\ call[p].op = "read"
          /\ pc'[p] \in {"commit", "unlock"}
      BY <1>0, <1>5, <2>1 DEF ReadStep, ReadCopy, Goto
    <3>2. Loaded(p)'
      BY <1>0, <3>1 DEF Loaded, Ready
    <3> QED BY <1>0, <1>2, <3>1, <3>2
  <2>2. CASE ReadCommit(p)
    <3>1. /\ ring' = TakeItem(ring) /\ pc[p] = "commit" /\ call[p].op = "read"
          /\ pc'[p] = "unlock"
      BY <1>0, <1>5, <2>2 DEF ReadStep, ReadCommit, Goto
    <3>2. rb_is_readable(ring)
      BY <1>0, <3>1 DEF Loaded, Ready
    <3>3. ring' \in Ring /\ RingInv(ring')
      BY <1>0, <3>1, <3>2, TakeItemKeeps
    <3> QED BY <1>2, <3>1, <3>3 DEF Loaded, InCS
  <2>3. CASE ReadNotify(p)
    BY <1>0, <1>3, <2>3 DEF ReadNotify, Goto
  <2> QED BY <1>5, <2>1, <2>2, <2>3 DEF ReadStep
<1>6. CASE WriteStep(p)
  <2>1. CASE WriteCopy(p)
    <3>1. call[p].op = "write" /\ InCS(p)
      BY <1>6, <2>1 DEF WriteStep, WriteCopy, InCS
    <3> QED BY <1>2, <2>1, <3>1, RingWriteCopy
  <2>2. CASE WriteCommit(p)
    <3>1. /\ ring' = PutItem(ring, call[p].len) /\ pc[p] = "commit" /\ call[p].op = "write"
          /\ pc'[p] = "unlock"
      BY <1>0, <1>6, <2>2 DEF WriteStep, WriteCommit, Goto
    <3>2. /\ rb_is_writable(ring)
          /\ call[p].len \in 1 .. RW_ITEM_SIZE
          /\ \A b \in 1 .. call[p].len : ring.item[ring.wptr].buff[b] = call[p].msg
      BY <1>0, <3>1 DEF Loaded, Ready
    <3>3. call[p].msg \in Msg
      BY <3>1, CallsAreTyped DEF CallInv, InItsCall
    <3>4. ring' \in Ring /\ RingInv(ring')
      BY <1>0, <3>1, <3>2, <3>3, PutItemKeeps
    <3> QED BY <1>2, <3>1, <3>4 DEF Loaded, InCS
  <2>3. CASE WriteNotify(p) \/ WriteSigio(p)
    BY <1>0, <1>3, <2>3 DEF WriteNotify, WriteSigio, Goto
  <2> QED BY <1>6, <2>1, <2>2, <2>3 DEF WriteStep
<1>7. CASE PollStep(p)
  <2>1. ring' = ring /\ pc[p] # "sem_wait"
    BY <1>7 DEF PollStep, PollWait, PollCheck, PollUnlock, PollWake
  <2>2. \/ \E n \in {"ret", "poll_sleep"} : rb_unlock(p, n)
        \/ \E n \in {"poll_wr", "down", "unlock"} : pc' = [pc EXCEPT ![p] = n]
    BY <1>7 DEF PollStep, PollWait, PollCheck, PollUnlock, PollWake, Goto
  <2>3. pc'[p] \notin {"copy", "commit"}
    BY <1>0, <2>1, <2>2, UnlockMoves
  <2> QED BY <1>3, <2>1, <2>3
<1>8. CASE rb_lock(p) \/ LockInterrupted(p)
  <2>1. ring' = ring /\ \E n \in {"check", "mask", "sem_wait", "ret"} : pc' = [pc EXCEPT ![p] = n]
    BY <1>8 DEF rb_lock, LockInterrupted, Goto, AfterDown
  <2> QED BY <1>0, <1>3, <2>1
<1>9. CASE WaitInterrupted(p) \/ PollInterrupted(p) \/ EnterStep(p) \/ Return(p)
  <2>1. /\ ring' = ring
        /\ \E n \in {"ret", "down", "poll_rd", "idle"} : pc' = [pc EXCEPT ![p] = n]
    BY <1>9 DEF WaitInterrupted, PollInterrupted, EnterStep, Return, ReadEnter, WriteEnter,
                PollEnter, Goto
  <2> QED BY <1>0, <1>3, <2>1
<1> QED BY <1>4, <1>5, <1>6, <1>7, <1>8, <1>9, StepCases

LEMMA RingUnchanged ==
    ASSUME RingLayer, UNCHANGED <<ring, pc, call>>
    PROVE  RingLayer'
  BY DEF RingLayer, RingInv, CursorsAgree, LengthsMatchLoad, PayloadsWhole, Occupied, Age,
         Loaded, Ready

LEMMA RingStart == Init => RingLayer
  BY InitRing DEF Init, RingLayer, Loaded

LEMMA RingNext == LockInv /\ CallInv /\ RingLayer /\ [Next]_vars => RingLayer'
<1> SUFFICES ASSUME LockInv, CallInv, RingLayer, [Next]_vars
             PROVE  RingLayer'
  OBVIOUS
<1>1. ASSUME NEW f \in Files, FileStep(f)
      PROVE  UNCHANGED <<ring, pc, call>>
  BY <1>1 DEF FileStep, choen_open, choen_close, choen_fasync, TakeSigio
<1> QED BY <1>1, RingStep, RingUnchanged DEF Next, vars

THEOREM RingInvariant == Spec => []RingLayer
<1>1. Init => RingLayer
  BY RingStart
<1>2. LockInv /\ CallInv /\ RingLayer /\ [Next]_vars => RingLayer'
  BY RingNext
<1> QED BY <1>1, <1>2, LockInvariant, CallInvariant, PTL DEF Spec

\* The ring never loses, invents, mixes or duplicates a slot, whatever copy
\* faulted and whoever was interrupted.
THEOREM RingConsistentHolds == Spec => []RingConsistent
<1>1. RingLayer => RingConsistent
  BY DEF RingLayer, RingConsistent
<1> QED BY <1>1, RingInvariant, PTL

\* Nobody takes the message, or the free slot, a process has found under the
\* semaphore, before that process commits.
THEOREM CheckStillHoldsAlways == Spec => []CheckStillHolds
<1>1. RingLayer => CheckStillHolds
  BY DEF RingLayer, Loaded, CheckStillHolds
<1> QED BY <1>1, RingInvariant, PTL

-----------------------------------------------------------------------------
(* RetInv *)

\* Before the copy, and while poll looks or sleeps, there is no result; what
\* is committed and notified is a success; what is unlocked is one or a fault.
ResultKnown(q) ==
    /\ ret[q] \in Ret
    /\ pc[q] \notin {"commit", "unlock", "wake", "sigio", "ret"} => ret[q] = NoRet
    /\ pc[q] \in {"commit", "wake", "sigio"} => ret[q].code = "OK"
    /\ pc[q] = "unlock" /\ call[q].op # "poll" => ret[q].code \in {"OK", "EFAULT"}
    /\ pc[q] = "unlock" /\ call[q].op = "poll" => ret[q] = NoRet \/ ret[q].code = "OK"

RetInv == ret \in [Procs -> Ret] /\ \A q \in Procs : ResultKnown(q)

LEMMA RetCodeIsRet ==
    ASSUME NEW c \in Code
    PROVE  RetCode(c) \in Ret /\ RetCode(c).code = c /\ NoRet \in Ret
  BY EmptySeq DEF RetCode, Ret, NoRet, Code

\* What copy_to_user hands out are bytes of the slot.
LEMMA CopyToUserIsData ==
    ASSUME NEW rb \in Ring, NEW len \in Nat
    PROVE  CopyToUser(rb, ReadLen(rb, len)) \in Seq(Byte)
<1> DEFINE n == ReadLen(rb, len)
<1>1. n \in Nat /\ n <= RW_ITEM_SIZE
  BY RingFields, RingAssumption DEF ReadLen
<1> HIDE DEF n
<1>2. \A b \in 1 .. n : rb.item[rb.rptr].buff[b] \in Byte
  BY <1>1, RingFields, RingAssumption
<1>3. CopyToUser(rb, n) = [b \in 1 .. n |-> rb.item[rb.rptr].buff[b]]
  BY DEF CopyToUser
<1>4. CopyToUser(rb, n) \in [1 .. n -> Byte]
  BY <1>2, <1>3
<1>5. CopyToUser(rb, n) \in Seq(Byte)
  BY <1>1, <1>4, SeqDef
<1> QED BY <1>5 DEF n

LEMMA OthersResults ==
    ASSUME RetInv, NEW p \in Procs, OthersMove(p), NEW q \in Procs \ {p}
    PROVE  ResultKnown(q)'
<1>1. ret'[q] = ret[q] /\ call'[q] = call[q] /\ ResultKnown(q)
  BY DEF OthersMove, RetInv
<1>2. CASE pc'[q] = pc[q]
  BY <1>1, <1>2 DEF ResultKnown
<1>3. CASE pc[q] = "sem_wait" /\ pc'[q] = AfterDown(q)
  BY <1>1, <1>3 DEF ResultKnown, AfterDown
<1> QED BY <1>2, <1>3 DEF OthersMove

\* Steps that leave the result as it is, at statements where it stays valid.
LEMMA ResultStays ==
    ASSUME LockInv, CallInv, RetInv, NEW p \in Procs,
           \/ rb_lock(p) \/ (ReadStep(p) /\ ~ReadCopy(p))
           \/ (WriteStep(p) /\ ~WriteCopy(p)) \/ PollWait(p) \/ PollWake(p)
           \/ PrepareToWait(p) \/ WaitCondition(p) \/ WakeFromWait(p)
    PROVE  ResultKnown(p)'
<1>0. pc \in [Procs -> PC] /\ ResultKnown(p)
  BY DEF LockInv, LockTypeOK, RetInv
<1> USE DEF ResultKnown, Goto
<1>1. CASE rb_lock(p)
  BY <1>0, <1>1 DEF rb_lock, AfterDown
<1>2. CASE ReadStep(p) /\ ~ReadCopy(p)
  BY <1>0, <1>2 DEF ReadStep, ReadCommit, ReadNotify
<1>3. CASE WriteStep(p) /\ ~WriteCopy(p)
  BY <1>0, <1>3 DEF WriteStep, WriteCommit, WriteNotify, WriteSigio
<1>4. CASE PollWait(p) \/ PollWake(p)
  BY <1>0, <1>4 DEF PollWait, PollWake
<1>5. CASE PrepareToWait(p) \/ WaitCondition(p) \/ WakeFromWait(p)
  BY <1>0, <1>5 DEF PrepareToWait, WaitCondition, WakeFromWait
<1> QED BY <1>1, <1>2, <1>3, <1>4, <1>5

\* Steps that end the wait, or the call.
LEMMA ResultSettled ==
    ASSUME LockInv, CallInv, RetInv, NEW p \in Procs,
           \/ LockInterrupted(p) \/ WaitInterrupted(p) \/ PollInterrupted(p)
           \/ EnterStep(p) \/ Return(p)
    PROVE  ResultKnown(p)'
<1>0. pc \in [Procs -> PC] /\ ResultKnown(p) /\ DOMAIN ret = Procs
  BY DEF LockInv, LockTypeOK, RetInv, CallInv, RetDomain
<1>1. \A c \in Code : RetCode(c) \in Ret /\ RetCode(c).code = c /\ NoRet \in Ret
  BY RetCodeIsRet
<1>2. {"ERESTARTSYS", "EOF", "OK"} \subseteq Code
  BY DEF Code
<1> USE DEF ResultKnown, Goto
<1>3. CASE LockInterrupted(p) \/ PollInterrupted(p)
  BY <1>0, <1>1, <1>2, <1>3 DEF LockInterrupted, PollInterrupted
<1>4. CASE WaitInterrupted(p)
  BY <1>0, <1>1, <1>2, <1>4 DEF WaitInterrupted
<1>5. CASE EnterStep(p)
  <2>1. /\ pc[p] = "idle"
        /\ \/ /\ pc' = [pc EXCEPT ![p] = "ret"]
              /\ \E c \in {"EOF", "OK"} : ret' = [ret EXCEPT ![p] = RetCode(c)]
           \/ pc' = [pc EXCEPT ![p] = "down"] /\ ret' = ret
           \/ pc' = [pc EXCEPT ![p] = "poll_rd"] /\ ret' = ret
    BY <1>5 DEF EnterStep, ReadEnter, WriteEnter, PollEnter, Enter
  <2> QED BY <1>0, <1>1, <1>2, <2>1
<1>6. CASE Return(p)
  BY <1>0, <1>1, <1>2, <1>6 DEF Return
<1> QED BY <1>3, <1>4, <1>5, <1>6

\* Steps with the semaphore held that decide the call.
LEMMA ResultDecided ==
    ASSUME LockInv, CallInv, RingLayer, RetInv, NEW p \in Procs,
           \/ CheckReady(p) \/ (UnlockAfterCopy(p) /\ call[p].op \in {"read", "write"})
           \/ (ReadStep(p) /\ ReadCopy(p)) \/ (WriteStep(p) /\ WriteCopy(p))
           \/ PollStep(p) /\ (PollCheck(p) \/ PollUnlock(p))
    PROVE  ResultKnown(p)'
<1>0. /\ pc \in [Procs -> PC] /\ ResultKnown(p) /\ DOMAIN ret = Procs
      /\ InItsCall(p) /\ ring \in Ring
  BY DEF LockInv, LockTypeOK, RetInv, CallInv, RetDomain, RingLayer
<1>1. \A c \in Code : RetCode(c) \in Ret /\ RetCode(c).code = c /\ NoRet \in Ret
  BY RetCodeIsRet
<1>2. {"EFAULT", "EAGAIN", "OK"} \subseteq Code
  BY DEF Code
<1> USE DEF ResultKnown
<1>3. CASE CheckReady(p)
  <2>1. /\ pc[p] = "check"
        /\ \/ pc' = [pc EXCEPT ![p] = "copy"] /\ ret' = ret
           \/ rb_unlock(p, "ret") /\ ret' = [ret EXCEPT ![p] = RetCode("EAGAIN")]
           \/ rb_unlock(p, "prepare") /\ ret' = ret
    BY <1>3 DEF CheckReady, Goto
  <2>2. \/ pc'[p] = "copy" /\ ret' = ret
        \/ pc'[p] = "ret" /\ ret' = [ret EXCEPT ![p] = RetCode("EAGAIN")]
        \/ pc'[p] = "prepare" /\ ret' = ret
    BY <1>0, <2>1, UnlockMoves
  <2> QED BY <1>0, <1>1, <1>2, <2>1, <2>2
<1>4. CASE UnlockAfterCopy(p) /\ call[p].op \in {"read", "write"}
  <2>1. pc[p] = "unlock" /\ ret' = ret /\ call' = call
    BY <1>4 DEF UnlockAfterCopy
  <2>2. pc'[p] = IF ret[p].code = "OK" THEN "wake" ELSE "ret"
    BY <1>4, <2>1, UnlockMoves DEF UnlockAfterCopy
  <2> QED BY <1>0, <2>1, <2>2
<1>5. CASE ReadStep(p) /\ ReadCopy(p)
  <2>1. call' = call /\ pc[p] = "copy" /\ call[p].op = "read"
    BY <1>5 DEF ReadStep, ReadCopy
  <2>2. CASE pc' = [pc EXCEPT ![p] = "unlock"] /\ ret' = [ret EXCEPT ![p] = RetCode("EFAULT")]
    BY <1>0, <1>1, <1>2, <2>1, <2>2
  <2>3. CASE /\ pc' = [pc EXCEPT ![p] = "commit"]
             /\ ret' = [ret EXCEPT ![p].code = "OK",
                                   ![p].data = CopyToUser(ring, ReadLen(ring, call[p].len))]
    <3> DEFINE d == CopyToUser(ring, ReadLen(ring, call[p].len))
    <3>1. call[p].len \in Nat
      BY <1>0, <2>1, CallsAreTyped DEF InItsCall, Call
    <3>2. d \in Seq(Byte)
      BY <1>0, <3>1, CopyToUserIsData
    <3> HIDE DEF d
    <3>3. ret' = [ret EXCEPT ![p] = [[ret[p] EXCEPT !.code = "OK"] EXCEPT !.data = d]]
      BY <1>0, <2>3 DEF d
    <3>4. ret'[p] = [code |-> "OK", data |-> d, revents |-> ret[p].revents]
      BY <1>0, <3>3 DEF Ret
    <3>5. ret'[p] \in Ret /\ ret'[p].code = "OK"
      BY <1>0, <1>2, <3>2, <3>4 DEF Ret
    <3> QED BY <1>0, <2>1, <2>3, <3>5
  <2> QED BY <1>5, <2>2, <2>3 DEF ReadCopy, Goto
<1>6. CASE WriteStep(p) /\ WriteCopy(p)
  <2>1. call' = call /\ call[p].op = "write"
    BY <1>6 DEF WriteStep, WriteCopy
  <2>2. \/ pc' = [pc EXCEPT ![p] = "commit"] /\ ret' = [ret EXCEPT ![p] = RetCode("OK")]
        \/ pc' = [pc EXCEPT ![p] = "unlock"] /\ ret' = [ret EXCEPT ![p] = RetCode("EFAULT")]
    BY <1>6 DEF WriteCopy, Goto
  <2> QED BY <1>0, <1>1, <1>2, <2>1, <2>2
<1>7. CASE PollStep(p) /\ PollCheck(p)
  <2>1. /\ call' = call /\ call[p].op = "poll" /\ ret[p] = NoRet /\ pc' = [pc EXCEPT ![p] = "unlock"]
        /\ \/ ret' = ret
           \/ \E e \in SUBSET Event : ret' = [ret EXCEPT ![p].code = "OK", ![p].revents = e]
    <3>1. PollMask(ring) \cap call[p].events \in SUBSET Event
      BY DEF PollMask
    <3> QED BY <1>0, <1>7, <3>1 DEF PollStep, PollCheck, Goto
  <2>2. ASSUME NEW e \in SUBSET Event, ret' = [ret EXCEPT ![p].code = "OK", ![p].revents = e]
        PROVE  ret'[p] \in Ret /\ ret'[p].code = "OK"
    <3>1. ret' = [ret EXCEPT ![p] = [[ret[p] EXCEPT !.code = "OK"] EXCEPT !.revents = e]]
      BY <1>0, <2>2
    <3>2. ret'[p] = [code |-> "OK", data |-> ret[p].data, revents |-> e]
      BY <1>0, <3>1 DEF Ret
    <3> QED BY <1>0, <1>2, <3>2 DEF Ret
  <2> QED BY <1>0, <2>1, <2>2
<1>8. CASE PollStep(p) /\ PollUnlock(p)
  <2>1. pc[p] = "unlock" /\ ret' = ret /\ call' = call /\ call[p].op = "poll"
    BY <1>8 DEF PollStep, PollUnlock
  <2>2. pc'[p] = IF ret[p].code = "OK" THEN "ret" ELSE "poll_sleep"
    BY <1>8, <2>1, UnlockMoves DEF PollUnlock
  <2> QED BY <1>0, <2>1, <2>2
<1> QED BY <1>3, <1>4, <1>5, <1>6, <1>7, <1>8

\* A step of p writes at most ret[p].
LEMMA OneResult ==
    ASSUME RetInv, NEW p \in Procs, Step(p) \/ UserStep(p)
    PROVE  ret' = ret \/ \E r : ret' = [ret EXCEPT ![p] = r]
<1>1. CASE rb_lock(p) \/ LockInterrupted(p) \/ LoopStep(p)
  BY <1>1 DEF rb_lock, LockInterrupted, LoopStep, CheckReady, UnlockAfterCopy, PrepareToWait,
              WaitCondition, WakeFromWait
<1>2. CASE ReadStep(p)
  BY <1>2 DEF ReadStep, ReadCopy, ReadCommit, ReadNotify, RetInv
<1>3. CASE WriteStep(p)
  BY <1>3 DEF WriteStep, WriteCopy, WriteCommit, WriteNotify, WriteSigio
<1>4. CASE PollStep(p)
  BY <1>4 DEF PollStep, PollWait, PollCheck, PollUnlock, PollWake, RetInv
<1>5. CASE WaitInterrupted(p) \/ PollInterrupted(p) \/ EnterStep(p) \/ Return(p)
  BY <1>5 DEF WaitInterrupted, PollInterrupted, EnterStep, Return, ReadEnter, WriteEnter, PollEnter
<1> QED BY <1>1, <1>2, <1>3, <1>4, <1>5, StepCases

LEMMA RetStep ==
    ASSUME LockInv, CallInv, RingLayer, RetInv, NEW p \in Procs, Step(p) \/ UserStep(p)
    PROVE  RetInv'
<1>1. OthersMove(p)
  BY Frame DEF CallInv
<1>2. ResultKnown(p)'
  <2>1. CASE LoopStep(p)
    BY <2>1, ResultStays, ResultDecided DEF LoopStep
  <2>2. CASE ReadStep(p)
    BY <2>2, ResultStays, ResultDecided
  <2>3. CASE WriteStep(p)
    BY <2>3, ResultStays, ResultDecided
  <2>4. CASE PollStep(p)
    BY <2>4, ResultStays, ResultDecided DEF PollStep
  <2>5. CASE rb_lock(p)
    BY <2>5, ResultStays
  <2>6. CASE \/ LockInterrupted(p) \/ WaitInterrupted(p) \/ PollInterrupted(p)
             \/ EnterStep(p) \/ Return(p)
    BY <2>6, ResultSettled
  <2> QED BY <2>1, <2>2, <2>3, <2>4, <2>5, <2>6, StepCases
<1>3. \A q \in Procs : ResultKnown(q)'
  BY <1>1, <1>2, OthersResults
<1>4. ret' \in [Procs -> Ret]
  BY <1>3, OneResult DEF RetInv, ResultKnown
<1> QED BY <1>3, <1>4 DEF RetInv

LEMMA RetInit == Init => RetInv
  BY RetCodeIsRet DEF Init, RetInv, ResultKnown, Code

LEMMA RetNext == LockInv /\ CallInv /\ RingLayer /\ RetInv /\ [Next]_vars => RetInv'
<1> SUFFICES ASSUME LockInv, CallInv, RingLayer, RetInv, [Next]_vars
             PROVE  RetInv'
  OBVIOUS
<1>1. ASSUME NEW f \in Files, FileStep(f)
      PROVE  UNCHANGED <<pc, call, ret>>
  BY <1>1 DEF FileStep, choen_open, choen_close, choen_fasync, TakeSigio
<1>2. ASSUME UNCHANGED <<pc, call, ret>>
      PROVE  RetInv'
  BY <1>2 DEF RetInv, ResultKnown
<1> QED BY <1>1, <1>2, RetStep DEF Next, vars

THEOREM RetInvariant == Spec => []RetInv
<1>1. Init => RetInv
  BY RetInit
<1>2. LockInv /\ CallInv /\ RingLayer /\ RetInv /\ [Next]_vars => RetInv'
  BY RetNext
<1> QED BY <1>1, <1>2, LockInvariant, CallInvariant, RingInvariant, PTL DEF Spec

\* Every variable keeps its type: the counters and cursors of the ring stay in
\* range, queues hold processes, and only open files are on the async list.
THEOREM TypeOKHolds == Spec => []TypeOK
<1>1. LockInv /\ CallInv /\ RingLayer /\ RetInv => TypeOK
  BY DEF LockInv, LockTypeOK, CallInv, CallTypeOK, RetDomain, FilesOK, QueuesOK,
         RingLayer, RetInv, ResultKnown, TypeOK
<1> QED BY <1>1, LockInvariant, CallInvariant, RingInvariant, RetInvariant, PTL

-----------------------------------------------------------------------------
(* QueueInv *)

\* Whoever is about to sleep is on the queue its wake-up will come through,
\* and what poll found missing under the semaphore is still missing when it
\* releases it.
Queued(q) ==
    /\ pc[q] \in {"cond", "asleep"} /\ call[q].op = "read" => q \in rd_wq
    /\ pc[q] \in {"cond", "asleep"} /\ call[q].op = "write" => q \in wr_wq
    /\ pc[q] = "poll_wr" => q \in rd_wq
    /\ pc[q] \in {"down", "sem_wait", "mask", "unlock", "poll_sleep"} /\ call[q].op = "poll"
          => q \in rd_wq /\ q \in wr_wq
    /\ pc[q] = "unlock" /\ call[q].op = "poll" /\ ret[q].code # "OK"
          => PollMask(ring) \cap call[q].events = {}

\* NoLostWakeUp for one process.
NotForgotten(q) ==
    Sleeping(q) =>
        /\ WantsToRead(q) /\ rb_is_readable(ring) => WakeUpDue("write")
        /\ WantsToWrite(q) /\ rb_is_writable(ring) => WakeUpDue("read")

QueueInv == \A q \in Procs : Queued(q) /\ NotForgotten(q)

\* Nobody takes another process off a queue, or its wake-up away.
LEMMA QueuesKept ==
    ASSUME NEW p \in Procs, Step(p) \/ UserStep(p), NEW q \in Procs \ {p}
    PROVE  /\ q \in rd_wq => q \in rd_wq'
           /\ q \in wr_wq => q \in wr_wq'
           /\ q \in woken => q \in woken'
<1> USE DEF waitVars, wake_up, Dequeue
<1>1. CASE rb_lock(p) \/ LockInterrupted(p)
  BY <1>1 DEF rb_lock, LockInterrupted
<1>2. CASE LoopStep(p)
  BY <1>2 DEF LoopStep, CheckReady, UnlockAfterCopy, PrepareToWait, WaitCondition, WakeFromWait
<1>3. CASE ReadStep(p)
  BY <1>3 DEF ReadStep, ReadCopy, ReadCommit, ReadNotify
<1>4. CASE WriteStep(p)
  BY <1>4 DEF WriteStep, WriteCopy, WriteCommit, WriteNotify, WriteSigio
<1>5. CASE PollStep(p)
  BY <1>5 DEF PollStep, PollWait, PollCheck, PollUnlock, PollWake
<1>6. CASE WaitInterrupted(p) \/ PollInterrupted(p)
  BY <1>6 DEF WaitInterrupted, PollInterrupted
<1>7. CASE EnterStep(p) \/ Return(p)
  BY <1>7 DEF EnterStep, Return, ReadEnter, WriteEnter, PollEnter
<1> QED BY <1>1, <1>2, <1>3, <1>4, <1>5, <1>6, <1>7, StepCases

\* What a step does to load_cnt: only the commits change it, by one.
LEMMA LoadChanges ==
    ASSUME LockInv, CallInv, RingLayer, NEW p \in Procs, Step(p) \/ UserStep(p)
    PROVE  \/ ring'.load_cnt = ring.load_cnt
           \/ /\ call[p].op = "read" /\ ReadCommit(p)
              /\ ring'.load_cnt = ring.load_cnt - 1 /\ ring.load_cnt \in Nat \ {0}
           \/ /\ call[p].op = "write" /\ WriteCommit(p)
              /\ ring'.load_cnt = ring.load_cnt + 1 /\ ring.load_cnt < NUM_OF_ITEMS
              /\ ring.load_cnt \in Nat
<1>0. /\ ring \in Ring /\ RingInv(ring) /\ Loaded(p)
      /\ ring.load_cnt \in 0 .. NUM_OF_ITEMS
  BY RingFields DEF RingLayer
<1>1. CASE rb_lock(p) \/ LockInterrupted(p) \/ LoopStep(p)
  BY <1>1 DEF rb_lock, LockInterrupted, LoopStep, CheckReady, UnlockAfterCopy, PrepareToWait,
              WaitCondition, WakeFromWait
<1>2. CASE ReadStep(p)
  <2>1. CASE ReadCommit(p)
    <3>1. ring' = TakeItem(ring) /\ rb_is_readable(ring) /\ call[p].op = "read"
      BY <1>0, <1>2, <2>1 DEF ReadStep, ReadCommit, Loaded, Ready
    <3>2. ring'.load_cnt = ring.load_cnt - 1
      BY <1>0, <3>1, TakeItemKeeps
    <3> QED BY <1>0, <2>1, <3>1, <3>2 DEF rb_is_readable
  <2> QED BY <1>2, <2>1 DEF ReadStep, ReadCopy, ReadNotify
<1>3. CASE WriteStep(p)
  <2>1. CASE WriteCopy(p)
    <3>1. call[p].len \in Nat /\ call[p].msg \in Byte
      BY <1>3, <2>1, CallsAreTyped DEF WriteStep, WriteCopy, CallInv, InItsCall, Call
    <3>2. ring' = ring \/ \E n \in Nat : ring' = CopyFromUser(ring, call[p].msg, call[p].len, n)
      BY <2>1, <3>1 DEF WriteCopy
    <3>3. CASE \E n \in Nat : ring' = CopyFromUser(ring, call[p].msg, call[p].len, n)
      <4>1. PICK n \in Nat : ring' = CopyFromUser(ring, call[p].msg, call[p].len, n)
        BY <3>3
      <4>2. ring'.load_cnt = ring.load_cnt
        BY <1>0, <4>1 DEF CopyFromUser, Ring
      <4> QED BY <4>2
    <3> QED BY <3>2, <3>3
  <2>2. CASE WriteCommit(p)
    <3>1. /\ ring' = PutItem(ring, call[p].len) /\ rb_is_writable(ring) /\ call[p].op = "write"
          /\ call[p].len \in 1 .. RW_ITEM_SIZE
          /\ \A b \in 1 .. call[p].len : ring.item[ring.wptr].buff[b] = call[p].msg
      BY <1>0, <1>3, <2>2 DEF WriteStep, WriteCommit, Loaded, Ready
    <3>2. call[p].msg \in Msg
      BY <2>2, <3>1, CallsAreTyped DEF WriteCommit, CallInv, InItsCall
    <3>3. ring'.load_cnt = ring.load_cnt + 1
      BY <1>0, <3>1, <3>2, PutItemKeeps
    <3> QED BY <1>0, <2>2, <3>1, <3>3 DEF rb_is_writable
  <2>3. CASE WriteNotify(p) \/ WriteSigio(p)
    BY <2>3 DEF WriteNotify, WriteSigio
  <2> QED BY <1>3, <2>1, <2>2, <2>3 DEF WriteStep
<1>4. CASE PollStep(p)
  BY <1>4 DEF PollStep, PollWait, PollCheck, PollUnlock, PollWake
<1>5. CASE WaitInterrupted(p) \/ PollInterrupted(p) \/ EnterStep(p) \/ Return(p)
  BY <1>5 DEF WaitInterrupted, PollInterrupted, EnterStep, Return, ReadEnter, WriteEnter, PollEnter
<1> QED BY <1>1, <1>2, <1>3, <1>4, <1>5, StepCases

\* A wake-up that is due stays due until it is made.
LEMMA DueStays ==
    ASSUME LockInv, CallInv, RetInv, NEW p \in Procs, Step(p) \/ UserStep(p),
           NEW op, WakeUpDue(op)
    PROVE  \/ WakeUpDue(op)'
           \/ op = "read" /\ ReadNotify(p)
           \/ op = "write" /\ WriteNotify(p)
           \/ op = "poll"
<1>0. pc \in [Procs -> PC] /\ OthersMove(p) /\ ResultKnown(p)
  BY Frame DEF LockInv, LockTypeOK, CallInv, RetInv
<1>1. PICK q \in Procs : call[q].op = op /\ pc[q] \in {"unlock", "wake"} /\ ret[q].code = "OK"
  BY DEF WakeUpDue
<1>2. CASE q # p
  BY <1>0, <1>1, <1>2 DEF OthersMove, WakeUpDue
<1>3. CASE q = p /\ op # "poll"
  <2>1. CASE UnlockAfterCopy(p)
    <3>1. rb_unlock(p, "wake") /\ call' = call /\ ret' = ret /\ pc[p] # "sem_wait"
      BY <1>1, <1>3, <2>1 DEF UnlockAfterCopy
    <3>2. pc'[p] = "wake"
      BY <3>1, UnlockMoves
    <3> QED BY <1>1, <1>3, <3>1, <3>2 DEF WakeUpDue
  <2>2. CASE ~UnlockAfterCopy(p)
    <3>1. \/ call[p].op = "read" /\ ReadNotify(p)
          \/ call[p].op = "write" /\ WriteNotify(p)
      BY <1>0, <1>1, <1>3, <2>2, StepCases
         DEF rb_lock, LockInterrupted, LoopStep, CheckReady, PrepareToWait, WaitCondition,
             WakeFromWait, ReadStep, ReadCopy, ReadCommit, WriteStep, WriteCopy, WriteCommit,
             WriteSigio, PollStep, PollWait, PollCheck, PollUnlock, PollWake, WaitInterrupted,
             PollInterrupted, EnterStep, ReadEnter, WriteEnter, PollEnter, Enter, Return
    <3> QED BY <1>1, <1>3, <3>1
  <2> QED BY <2>1, <2>2
<1> QED BY <1>2, <1>3

\* The other processes: still queued, and still owed a wake-up.
LEMMA OthersQueued ==
    ASSUME LockInv, CallInv, RingLayer, RetInv, QueueInv, NEW p \in Procs,
           Step(p) \/ UserStep(p), NEW q \in Procs \ {p}
    PROVE  Queued(q)'
<1>0. /\ pc \in [Procs -> PC] /\ OthersMove(p) /\ Queued(q)
      /\ call'[q] = call[q] /\ ret'[q] = ret[q]
      /\ q \in rd_wq => q \in rd_wq'
      /\ q \in wr_wq => q \in wr_wq'
  BY Frame, QueuesKept DEF LockInv, LockTypeOK, CallInv, QueueInv, OthersMove
<1>1. CASE pc[q] = "sem_wait" /\ pc'[q] = AfterDown(q)
  BY <1>0, <1>1 DEF Queued, AfterDown
<1>2. CASE pc'[q] = pc[q] /\ pc[q] # "unlock"
  BY <1>0, <1>2 DEF Queued
<1>3. CASE pc'[q] = pc[q] /\ pc[q] = "unlock"
  <2>1. ~InCS(p)
    BY <1>3 DEF InCS, LockInv, LockDiscipline, MutualExclusion
  <2>2. ring'.load_cnt = ring.load_cnt
    BY <2>1, LoadChanges DEF InCS, ReadCommit, WriteCommit
  <2>3. PollMask(ring') = PollMask(ring)
    BY <2>2 DEF PollMask, rb_is_readable, rb_is_writable
  <2>4. PollMask(ring)' = PollMask(ring)
    BY <2>3
  <2> QED BY <1>0, <1>3, <2>4 DEF Queued
<1> QED BY <1>0, <1>1, <1>2, <1>3 DEF OthersMove

LEMMA OthersNotForgotten ==
    ASSUME LockInv, CallInv, RingLayer, RetInv, QueueInv, NEW p \in Procs,
           Step(p) \/ UserStep(p), NEW q \in Procs \ {p}, Sleeping(q)'
    PROVE  NotForgotten(q)'
<1>0. /\ pc \in [Procs -> PC] /\ OthersMove(p) /\ Queued(q) /\ NotForgotten(q)
      /\ call'[q] = call[q] /\ InItsCall(q) /\ ResultKnown(p)
      /\ q \in woken => q \in woken'
  BY Frame, QueuesKept DEF LockInv, LockTypeOK, CallInv, RetInv, QueueInv, OthersMove
<1>1. pc'[q] = pc[q] /\ Sleeping(q) /\ q \notin woken'
  BY <1>0 DEF Sleeping, OthersMove, AfterDown
<1>2. /\ WantsToRead(q)' => WantsToRead(q)
      /\ WantsToWrite(q)' => WantsToWrite(q)
  BY <1>0 DEF WantsToRead, WantsToWrite
<1>3. /\ WantsToRead(q) => q \in rd_wq
      /\ WantsToWrite(q) => q \in wr_wq
  BY <1>0, <1>1 DEF Sleeping, InItsCall, Queued, WantsToRead, WantsToWrite
<1>4. ASSUME NEW op, pc[p] = "commit", pc' = [pc EXCEPT ![p] = "unlock"], call' = call,
             ret' = ret, call[p].op = op
      PROVE  WakeUpDue(op)'
  <2>1. ret'[p].code = "OK" /\ pc'[p] = "unlock" /\ call'[p].op = op
    BY <1>0, <1>4 DEF ResultKnown
  <2> QED BY <2>1 DEF WakeUpDue
<1>5. ASSUME WantsToRead(q), rb_is_readable(ring)'
      PROVE  WakeUpDue("write")'
  <2>1. CASE rb_is_readable(ring)
    <3>1. WakeUpDue("write")
      BY <1>0, <1>1, <1>5, <2>1 DEF NotForgotten
    <3>2. ~WriteNotify(p)
      BY <1>1, <1>3, <1>5 DEF WriteNotify, wake_up
    <3> QED BY <3>1, <3>2, DueStays
  <2>2. CASE ~rb_is_readable(ring)
    <3>1. call[p].op = "write" /\ WriteCommit(p)
      BY <1>5, <2>2, LoadChanges DEF rb_is_readable
    <3> QED BY <1>4, <3>1 DEF WriteCommit, Goto
  <2> QED BY <2>1, <2>2
<1>6. ASSUME WantsToWrite(q), rb_is_writable(ring)'
      PROVE  WakeUpDue("read")'
  <2>1. CASE rb_is_writable(ring)
    <3>1. WakeUpDue("read")
      BY <1>0, <1>1, <1>6, <2>1 DEF NotForgotten
    <3>2. ~ReadNotify(p)
      BY <1>1, <1>3, <1>6 DEF ReadNotify, wake_up
    <3> QED BY <3>1, <3>2, DueStays
  <2>2. CASE ~rb_is_writable(ring)
    <3>0. ring.load_cnt \in Nat /\ ring'.load_cnt \in Int
      <4>1. ring.load_cnt \in Nat
        BY RingFields DEF RingLayer
      <4> QED BY <4>1, LoadChanges
    <3>1. call[p].op = "read" /\ ReadCommit(p)
      BY <1>6, <2>2, <3>0, LoadChanges, RingAssumption DEF rb_is_writable
    <3> QED BY <1>4, <3>1 DEF ReadCommit, Goto
  <2> QED BY <2>1, <2>2
<1> QED BY <1>2, <1>5, <1>6 DEF NotForgotten

\* The process itself: it queues before it sleeps, and sleeps only over a
\* ring that has nothing for it.
LEMMA OwnQueue ==
    ASSUME LockInv, CallInv, RingLayer, RetInv, QueueInv, NEW p \in Procs,
           Step(p) \/ UserStep(p)
    PROVE  Queued(p)' /\ NotForgotten(p)'
<1>0. /\ pc \in [Procs -> PC] /\ Queued(p) /\ InItsCall(p) /\ CallTypeOK
      /\ ResultKnown(p)
  BY DEF LockInv, LockTypeOK, CallInv, QueueInv, RetInv
<1> USE DEF Goto, waitVars, fileVars, Dequeue
<1>1. ASSUME pc'[p] \notin {"asleep", "poll_sleep"}
      PROVE  NotForgotten(p)'
  BY <1>1 DEF NotForgotten, Sleeping
<1>2. ASSUME pc'[p] \notin {"cond", "asleep", "poll_wr", "poll_sleep"},
             call'[p].op # "poll" \/ pc'[p] \notin {"down", "sem_wait", "mask", "unlock"}
      PROVE  Queued(p)' /\ NotForgotten(p)'
  BY <1>1, <1>2 DEF Queued
<1>3. CASE rb_lock(p)
  <2>1. /\ pc[p] = "down" /\ call' = call /\ rd_wq' = rd_wq /\ wr_wq' = wr_wq
        /\ pc'[p] \in {"sem_wait", "mask", "check"}
    BY <1>0, <1>3 DEF rb_lock, AfterDown
  <2> QED BY <1>0, <1>1, <2>1 DEF Queued
<1>4. CASE LockInterrupted(p) \/ PollInterrupted(p) \/ Return(p)
  BY <1>0, <1>2, <1>4 DEF LockInterrupted, PollInterrupted, Return
<1>5. CASE WaitInterrupted(p)
  BY <1>0, <1>2, <1>5 DEF WaitInterrupted, InItsCall
<1>6. CASE EnterStep(p)
  <2>1. PICK c \in CallsOf[p] : ReadEnter(p, c) \/ WriteEnter(p, c) \/ PollEnter(p, c)
    BY <1>6 DEF EnterStep
  <2>2. /\ call'[p] = c
        /\ \/ pc'[p] \in {"ret", "down"} /\ c.op # "poll"
           \/ pc'[p] = "poll_rd"
    BY <1>0, <2>1 DEF ReadEnter, WriteEnter, PollEnter, Enter, CallTypeOK
  <2> QED BY <1>2, <2>2
<1>7. CASE LoopStep(p)
  <2>1. call' = call /\ call[p].op \in {"read", "write"}
    BY <1>7 DEF LoopStep, CheckReady, UnlockAfterCopy, PrepareToWait, WaitCondition, WakeFromWait
  <2>2. CASE CheckReady(p) \/ UnlockAfterCopy(p)
    <3>1. /\ pc[p] # "sem_wait"
          /\ \/ pc' = [pc EXCEPT ![p] = "copy"]
             \/ \E n \in {"ret", "prepare", "wake"} : rb_unlock(p, n)
      BY <2>2 DEF CheckReady, UnlockAfterCopy
    <3>2. pc'[p] \in {"copy", "ret", "prepare", "wake"}
      BY <1>0, <3>1, UnlockMoves
    <3> QED BY <1>2, <2>1, <3>2
  <2>3. CASE PrepareToWait(p)
    <3>1. /\ pc'[p] = "cond"
          /\ call[p].op = "read" => p \in rd_wq'
          /\ call[p].op = "write" => p \in wr_wq'
      BY <1>0, <2>3 DEF PrepareToWait
    <3> QED BY <1>1, <2>1, <3>1 DEF Queued
  <2>4. CASE WaitCondition(p)
    <3>1. CASE pc' = [pc EXCEPT ![p] = "down"]
      BY <1>0, <1>2, <2>1, <3>1
    <3>2. CASE ~Ready(p) /\ pc' = [pc EXCEPT ![p] = "asleep"]
      <4>1. /\ pc[p] = "cond" /\ pc'[p] = "asleep" /\ ring' = ring
            /\ rd_wq' = rd_wq /\ wr_wq' = wr_wq
        BY <1>0, <2>4, <3>2 DEF WaitCondition
      <4>2. Queued(p)'
        BY <1>0, <2>1, <4>1 DEF Queued
      <4>3. ~(call[p].op = "read" /\ rb_is_readable(ring)) /\ ~(call[p].op = "write" /\ rb_is_writable(ring))
        BY <3>2 DEF Ready
      <4>4. NotForgotten(p)'
        BY <2>1, <4>1, <4>3 DEF NotForgotten, WantsToRead, WantsToWrite
      <4> QED BY <4>2, <4>4
    <3> QED BY <2>4, <3>1, <3>2 DEF WaitCondition
  <2>5. CASE WakeFromWait(p)
    BY <1>0, <1>2, <2>1, <2>5 DEF WakeFromWait
  <2> QED BY <1>7, <2>2, <2>3, <2>4, <2>5 DEF LoopStep
<1>8. CASE ReadStep(p) \/ WriteStep(p)
  <2>1. /\ call' = call /\ call[p].op \in {"read", "write"}
        /\ pc'[p] \in {"commit", "unlock", "ret", "sigio"}
    BY <1>0, <1>8 DEF ReadStep, WriteStep, ReadCopy, ReadCommit, ReadNotify, WriteCopy,
                      WriteCommit, WriteNotify, WriteSigio
  <2> QED BY <1>2, <2>1
<1>9. CASE PollStep(p)
  <2>1. call' = call /\ ring' = ring /\ call[p].op = "poll"
    BY <1>9 DEF PollStep, PollWait, PollCheck, PollUnlock, PollWake
  <2>2. CASE PollWait(p)
    <3>1. \/ pc'[p] = "poll_wr" /\ p \in rd_wq'
          \/ pc'[p] = "down" /\ p \in rd_wq' /\ p \in wr_wq'
      BY <1>0, <2>2 DEF PollWait, Queued
    <3> QED BY <1>1, <2>1, <3>1 DEF Queued
  <2>3. CASE PollWake(p)
    <3>1. pc'[p] = "down" /\ p \in rd_wq' /\ p \in wr_wq'
      BY <1>0, <2>1, <2>3 DEF PollWake, Queued
    <3> QED BY <1>1, <2>1, <3>1 DEF Queued
  <2>4. CASE PollCheck(p)
    <3>1. pc'[p] = "unlock" /\ p \in rd_wq' /\ p \in wr_wq'
      BY <1>0, <2>1, <2>4 DEF PollCheck, Queued
    <3>2. ret'[p].code # "OK" => PollMask(ring) \cap call[p].events = {}
      <4>1. DOMAIN ret = Procs
        BY DEF CallInv, RetDomain
      <4>2. ret[p] = NoRet /\ NoRet \in Ret
        BY <1>0, <2>4, RetCodeIsRet DEF PollCheck, ResultKnown, Code
      <4>3. ASSUME NEW e, ret' = [ret EXCEPT ![p].code = "OK", ![p].revents = e]
            PROVE  ret'[p].code = "OK"
        <5>1. ret'[p] = [[ret[p] EXCEPT !.code = "OK"] EXCEPT !.revents = e]
          BY <4>1, <4>3
        <5> QED BY <4>2, <5>1 DEF NoRet
      <4> QED BY <2>4, <4>3 DEF PollCheck
    <3> QED BY <1>1, <2>1, <3>1, <3>2 DEF Queued
  <2>5. CASE PollUnlock(p)
    <3>1. pc[p] = "unlock" /\ ret' = ret /\ rd_wq' = rd_wq /\ wr_wq' = wr_wq
      BY <2>5 DEF PollUnlock
    <3>2. pc'[p] = IF ret[p].code = "OK" THEN "ret" ELSE "poll_sleep"
      BY <2>5, <3>1, UnlockMoves DEF PollUnlock
    <3>3. CASE ret[p].code = "OK"
      BY <1>2, <3>2, <3>3
    <3>4. CASE ret[p].code # "OK"
      <4>1. /\ pc'[p] = "poll_sleep" /\ p \in rd_wq' /\ p \in wr_wq'
            /\ PollMask(ring) \cap call[p].events = {}
        BY <1>0, <2>1, <3>1, <3>2, <3>4 DEF Queued
      <4>2. Queued(p)'
        BY <4>1 DEF Queued
      <4>3. /\ ~("IN" \in call[p].events /\ rb_is_readable(ring))
            /\ ~("OUT" \in call[p].events /\ rb_is_writable(ring))
        BY <4>1 DEF PollMask, Event
      <4>4. NotForgotten(p)'
        BY <2>1, <4>3 DEF NotForgotten, WantsToRead, WantsToWrite
      <4> QED BY <4>2, <4>4
    <3> QED BY <3>3, <3>4
  <2> QED BY <1>9, <2>2, <2>3, <2>4, <2>5 DEF PollStep
<1> QED BY <1>3, <1>4, <1>5, <1>6, <1>7, <1>8, <1>9, StepCases

LEMMA QueueInit == Init => QueueInv
  BY DEF Init, QueueInv, Queued, NotForgotten, Sleeping

LEMMA QueueNext ==
    LockInv /\ CallInv /\ RingLayer /\ RetInv /\ QueueInv /\ [Next]_vars => QueueInv'
<1> SUFFICES ASSUME LockInv, CallInv, RingLayer, RetInv, QueueInv, [Next]_vars
             PROVE  QueueInv'
  OBVIOUS
<1>1. ASSUME NEW p \in Procs, Step(p) \/ UserStep(p)
      PROVE  QueueInv'
  <2>1. \A q \in Procs \ {p} : Queued(q)'
    BY <1>1, OthersQueued
  <2>2. \A q \in Procs \ {p} : NotForgotten(q)'
    <3>1. ASSUME NEW q \in Procs \ {p}, ~Sleeping(q)'
          PROVE  NotForgotten(q)'
      BY <3>1 DEF NotForgotten
    <3> QED BY <1>1, <3>1, OthersNotForgotten
  <2>3. Queued(p)' /\ NotForgotten(p)'
    BY <1>1, OwnQueue
  <2> QED BY <2>1, <2>2, <2>3 DEF QueueInv
<1>2. ASSUME NEW f \in Files, FileStep(f)
      PROVE  UNCHANGED <<ring, pc, call, ret, rd_wq, wr_wq, woken>>
  BY <1>2 DEF FileStep, choen_open, choen_close, choen_fasync, TakeSigio, waitVars
<1>3. ASSUME UNCHANGED <<ring, pc, call, ret, rd_wq, wr_wq, woken>>
      PROVE  QueueInv'
  BY <1>3 DEF QueueInv, Queued, NotForgotten, Sleeping, WantsToRead, WantsToWrite, WakeUpDue
<1> QED BY <1>1, <1>2, <1>3 DEF Next, vars

THEOREM QueueInvariant == Spec => []QueueInv
<1>1. Init => QueueInv
  BY QueueInit
<1>2. LockInv /\ CallInv /\ RingLayer /\ RetInv /\ QueueInv /\ [Next]_vars => QueueInv'
  BY QueueNext
<1> QED BY <1>1, <1>2, LockInvariant, CallInvariant, RingInvariant, RetInvariant, PTL DEF Spec

\* No reader, writer or poll sleeps on over a ring that has what it waits for,
\* unless a process is on its way to the wake_up that will reach it.
THEOREM NoLostWakeUpHolds == Spec => []NoLostWakeUp
<1>1. QueueInv => NoLostWakeUp
  BY DEF QueueInv, NotForgotten, NoLostWakeUp
<1> QED BY <1>1, QueueInvariant, PTL
=============================================================================
