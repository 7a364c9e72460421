----------------------------- MODULE Stm32Proofs -----------------------------
(***************************************************************************)
(* The lifetime of a usb_stm32 object, for any number of devices, objects, *)
(* processes, files and transfers, while the modules of the two drivers    *)
(* come and go: BothSpec keeps ReferencesExact, PointersLive,              *)
(* TransferFindsObject, NothingToOpen and UnloadedLeavesNothing.           *)
(***************************************************************************)
EXTENDS Stm32Int, FiniteSetTheorems, TLAPS

-----------------------------------------------------------------------------
(* The inductive invariant *)

\* What the core's state says of the pointers, the minor number and the
\* cable of a device.
CoreOK(d) ==
    /\ dev[d] # None <=> core[d] \in {"endpoints", "register", "deregister", "put"}
    /\ intfdata[d] # None <=> loaded = "bulk" /\ core[d] \in {"register", "bound", "flush"}
    /\ d \in minors <=> loaded = "bulk" /\ core[d] \in {"bound", "flush", "deregister"}
    /\ core[d] = "register" => dev[d] = intfdata[d]
    /\ core[d] \in {"register", "deregister", "put"} => loaded = "bulk"
    /\ core[d] \in {"absent", "gone"} => d \notin plugged
    /\ d \in plugged \ UNBINDABLE =>
          leaving \/ core[d] \in {"probe", "endpoints", "register", "bound", "unbound"}

\* An object that is still being set up has not been opened.
NewUnopened(d) ==
    core[d] \in {"endpoints", "register"} => \A f \in Files : private_data[f] # dev[d]

\* An object knows the device that owns it.
OwnerKnown == \A o \in Objs : \A d \in Owners(o) : udev[o] = d

\* A device that is never unbound by hand leaves an object that is still
\* needed only when it is gone for good.
OwnerStays ==
    \A o \in Objs : udev[o] \in Devs \ UNBINDABLE =>
        udev[o] \in Owners(o) \/ core[udev[o]] = "gone"

Opening(p) == pc[p] \in {"find", "get"}
Transferring(p) == pc[p] \in {"size", "submit_in", "submit_out"}

\* The call that process p is in, and what it may rely on.
CallOK(p) ==
    /\ p \in readers <=> Opening(p)
    /\ call[p].file = None <=> pc[p] = "idle"
    /\ pc[p] \in {"idle", "find"} => call[p].obj = None
    /\ Opening(p) => /\ call[p].dev \in minors
                     /\ private_data[call[p].file] = None
                     /\ \A q \in Procs \ {p} : call[q].file # call[p].file
    /\ pc[p] = "get" => call[p].obj \in Objs /\ call[p].dev \in Owners(call[p].obj)
    /\ Transferring(p) => /\ call[p].obj \in Objs
                          /\ private_data[call[p].file] = call[p].obj
                          /\ call[p].dev = udev[call[p].obj]

\* A transfer of a device that is never unbound by hand.
UrbOK(u) ==
    urb[u] # NoUrb /\ urb[u].dev \notin UNBINDABLE =>
        /\ urb[u].dev \in Devs /\ urb[u].obj \in Objs
        /\ core[urb[u].dev] \in {"bound", "flush"}
        /\ intfdata[urb[u].dev] = urb[u].obj

CoreInv == \A d \in Devs : CoreOK(d) /\ NewUnopened(d)
ObjInv == ReferencesExact /\ OwnerKnown /\ OwnerStays
CallInv == \A p \in Procs : CallOK(p)
UrbInv == \A u \in Urbs : UrbOK(u)

UsbInv == TypeOK /\ CoreInv /\ ObjInv /\ CallInv /\ UrbInv

\* Without a driver no device has one, and nobody has a device open then, nor
\* while the module is being removed.
LoadInv ==
    /\ loaded \in {"bulk", "int", "none"} /\ leaving \in BOOLEAN
    /\ loaded = "none" => ~leaving /\ \A d \in Devs : core[d] \in {"absent", "unbound", "gone"}
    /\ leaving \/ loaded = "none" => readers = {} /\ \A f \in Files : private_data[f] = None

BothInv == UsbInv /\ LoadInv

-----------------------------------------------------------------------------
(* Counting *)

LEMMA CountType ==
    ASSUME NEW o \in Objs
    PROVE  /\ IsFiniteSet(Owners(o)) /\ Cardinality(Owners(o)) \in Nat
           /\ IsFiniteSet(Openers(o)) /\ Cardinality(Openers(o)) \in Nat
<1>1. Owners(o) \in SUBSET Devs /\ Openers(o) \in SUBSET Files
  BY DEF Owners, Openers
<1>2. IsFiniteSet(Owners(o)) /\ IsFiniteSet(Openers(o))
  BY <1>1, FS_Subset, BulkAssumption
<1> QED BY <1>2, FS_CardinalityType

\* What is referred to has not been deleted.
LEMMA Referenced ==
    ASSUME ReferencesExact, NEW o \in Objs, Owners(o) # {} \/ Openers(o) # {}
    PROVE  kref[o] > 0
<1>1. Cardinality(Owners(o)) # 0 \/ Cardinality(Openers(o)) # 0
  BY CountType, FS_EmptySet
<1> QED BY <1>1, CountType, SMT DEF ReferencesExact

\* A reference that is not the last leaves the object alone.
LEMMA NotTheLast ==
    ASSUME ReferencesExact, NEW o \in Objs, Owners(o) # {}, Openers(o) # {}
    PROVE  kref[o] # 1
<1>1. Cardinality(Owners(o)) # 0 /\ Cardinality(Openers(o)) # 0
  BY CountType, FS_EmptySet
<1> QED BY <1>1, CountType, SMT DEF ReferencesExact

LEMMA NotTheLastFile ==
    ASSUME ReferencesExact, NEW o \in Objs, NEW f \in Openers(o), NEW g \in Openers(o), f # g
    PROVE  kref[o] # 1
<1>1. Cardinality(Openers(o)) # 0 /\ Cardinality(Openers(o)) # 1
  <2>1. Openers(o) # {} /\ ~(\E x : Openers(o) = {x})
    OBVIOUS
  <2> QED BY <2>1, CountType, FS_EmptySet, FS_Singleton
<1> QED BY <1>1, CountType, SMT DEF ReferencesExact

\* The only reference is the last.
LEMMA TheLast ==
    ASSUME ReferencesExact, NEW o \in Objs, NEW d \in Devs, Owners(o) = {d}, Openers(o) = {}
    PROVE  kref[o] = 1
<1>1. Cardinality(Owners(o)) = 1 /\ Cardinality(Openers(o)) = 0
  BY FS_EmptySet, FS_Singleton
<1> QED BY <1>1, SMT DEF ReferencesExact

\* kref_put by whom the object counts, and kref_get.
LEMMA OwnerPuts ==
    ASSUME TypeOK, ReferencesExact, NEW o \in Objs, NEW d \in Owners(o), kref_put(o),
           Owners(o)' = Owners(o) \ {d},
           \A x \in Objs \ {o} : Owners(x)' = Owners(x),
           \A x \in Objs : Openers(x)' = Openers(x)
    PROVE  ReferencesExact' /\ kref' \in [Objs -> Nat]
<1>1. kref[o] > 0
  BY Referenced
<1>2. kref' \in [Objs -> Nat]
  BY <1>1, SMT DEF TypeOK, kref_put
<1>3. Cardinality(Owners(o) \ {d}) = Cardinality(Owners(o)) - 1
  BY CountType, FS_RemoveElement
<1>4. ASSUME NEW x \in Objs
      PROVE  kref'[x] = Cardinality(Owners(x)') + Cardinality(Openers(x)')
  <2>1. CASE x = o
    <3>1. kref'[o] = (Cardinality(Owners(o)) + Cardinality(Openers(o))) - 1
      BY SMT DEF ReferencesExact, TypeOK, kref_put
    <3>2. Cardinality(Owners(o)') + Cardinality(Openers(o)') =
             (Cardinality(Owners(o)) + Cardinality(Openers(o))) - 1
      BY <1>3, CountType, SMT
    <3> QED BY <2>1, <3>1, <3>2
  <2>2. CASE x # o
    <3>1. kref'[x] = kref[x]
      BY <2>2, SMT DEF TypeOK, kref_put
    <3>2. Owners(x)' = Owners(x) /\ Openers(x)' = Openers(x)
      BY <2>2
    <3> QED BY <3>1, <3>2 DEF ReferencesExact
  <2> QED BY <2>1, <2>2
<1> QED BY <1>2, <1>4 DEF ReferencesExact

LEMMA FilePuts ==
    ASSUME TypeOK, ReferencesExact, NEW o \in Objs, NEW f \in Openers(o), kref_put(o),
           Openers(o)' = Openers(o) \ {f},
           \A x \in Objs \ {o} : Openers(x)' = Openers(x),
           \A x \in Objs : Owners(x)' = Owners(x)
    PROVE  ReferencesExact' /\ kref' \in [Objs -> Nat]
<1>1. kref[o] > 0
  BY Referenced
<1>2. kref' \in [Objs -> Nat]
  BY <1>1, SMT DEF TypeOK, kref_put
<1>3. Cardinality(Openers(o) \ {f}) = Cardinality(Openers(o)) - 1
  BY CountType, FS_RemoveElement
<1>4. ASSUME NEW x \in Objs
      PROVE  kref'[x] = Cardinality(Owners(x)') + Cardinality(Openers(x)')
  <2>1. CASE x = o
    <3>1. kref'[o] = (Cardinality(Owners(o)) + Cardinality(Openers(o))) - 1
      BY SMT DEF ReferencesExact, TypeOK, kref_put
    <3>2. Cardinality(Owners(o)') + Cardinality(Openers(o)') =
             (Cardinality(Owners(o)) + Cardinality(Openers(o))) - 1
      BY <1>3, CountType, SMT
    <3> QED BY <2>1, <3>1, <3>2
  <2>2. CASE x # o
    <3>1. kref'[x] = kref[x]
      BY <2>2, SMT DEF TypeOK, kref_put
    <3>2. Owners(x)' = Owners(x) /\ Openers(x)' = Openers(x)
      BY <2>2
    <3> QED BY <3>1, <3>2 DEF ReferencesExact
  <2> QED BY <2>1, <2>2
<1> QED BY <1>2, <1>4 DEF ReferencesExact

LEMMA FileGets ==
    ASSUME TypeOK, ReferencesExact, NEW o \in Objs, NEW f, f \notin Openers(o),
           kref' = [kref EXCEPT ![o] = @ + 1],
           Openers(o)' = Openers(o) \cup {f},
           \A x \in Objs \ {o} : Openers(x)' = Openers(x),
           \A x \in Objs : Owners(x)' = Owners(x)
    PROVE  ReferencesExact' /\ kref' \in [Objs -> Nat]
<1>1. Cardinality(Openers(o) \cup {f}) = Cardinality(Openers(o)) + 1
  BY CountType, FS_AddElement
<1>2. ASSUME NEW x \in Objs
      PROVE  kref'[x] = Cardinality(Owners(x)') + Cardinality(Openers(x)')
  <2>1. CASE x = o
    <3>1. kref'[o] = Cardinality(Owners(o)) + Cardinality(Openers(o)) + 1
      BY SMT DEF ReferencesExact, TypeOK
    <3>2. Cardinality(Owners(o)') + Cardinality(Openers(o)') =
             Cardinality(Owners(o)) + Cardinality(Openers(o)) + 1
      BY <1>1, CountType, SMT
    <3> QED BY <2>1, <3>1, <3>2
  <2>2. CASE x # o
    <3>1. kref'[x] = kref[x]
      BY <2>2, SMT DEF TypeOK
    <3>2. Owners(x)' = Owners(x) /\ Openers(x)' = Openers(x)
      BY <2>2
    <3> QED BY <3>1, <3>2 DEF ReferencesExact
  <2> QED BY <2>1, <2>2
<1>3. kref' \in [Objs -> Nat]
  BY SMT DEF TypeOK
<1> QED BY <1>2, <1>3 DEF ReferencesExact

\* kref_init of a block that nobody refers to.
LEMMA OwnerInits ==
    ASSUME TypeOK, ReferencesExact, NEW o \in Objs, NEW d, kref[o] = 0,
           kref' = [kref EXCEPT ![o] = 1],
           Owners(o)' = {d},
           \A x \in Objs \ {o} : Owners(x)' = Owners(x),
           \A x \in Objs : Openers(x)' = Openers(x)
    PROVE  ReferencesExact' /\ kref' \in [Objs -> Nat]
<1>1. Openers(o) = {}
  BY Referenced, SMT DEF TypeOK
<1>2. Cardinality({d}) = 1 /\ Cardinality(Openers(o)) = 0
  BY <1>1, FS_Singleton, FS_EmptySet
<1>3. ASSUME NEW x \in Objs
      PROVE  kref'[x] = Cardinality(Owners(x)') + Cardinality(Openers(x)')
  <2>1. CASE x = o
    <3>1. kref'[o] = 1
      BY SMT DEF TypeOK
    <3>2. Cardinality(Owners(o)') + Cardinality(Openers(o)') = 1
      BY <1>1, <1>2, SMT
    <3> QED BY <2>1, <3>1, <3>2
  <2>2. CASE x # o
    <3>1. kref'[x] = kref[x]
      BY <2>2, SMT DEF TypeOK
    <3>2. Owners(x)' = Owners(x) /\ Openers(x)' = Openers(x)
      BY <2>2
    <3> QED BY <3>1, <3>2 DEF ReferencesExact
  <2> QED BY <2>1, <2>2
<1>4. kref' \in [Objs -> Nat]
  BY SMT DEF TypeOK
<1> QED BY <1>3, <1>4 DEF ReferencesExact

-----------------------------------------------------------------------------
(* Facts that the steps share *)

LEMMA NoneIsNew == None \notin Devs /\ None \notin Objs /\ None \notin Procs /\ None \notin Files
BY BulkAssumption

\* A step that leaves pointers, counts and the core alone.
LEMMA CoreFrame ==
    ASSUME CoreInv, ObjInv, UNCHANGED <<coreVars, objVars, private_data, loaded, leaving>>
    PROVE  CoreInv' /\ ObjInv'
<1> USE DEF coreVars, objVars
<1>1. \A o \in Objs : Owners(o)' = Owners(o) /\ Openers(o)' = Openers(o)
  BY DEF Owners, Openers
<1>2. ReferencesExact' /\ OwnerKnown' /\ OwnerStays'
  BY <1>1 DEF ObjInv, ReferencesExact, OwnerKnown, OwnerStays, Owners, Openers
<1>3. CoreInv'
  BY DEF CoreInv, CoreOK, NewUnopened
<1> QED BY <1>2, <1>3 DEF ObjInv

\* A step that leaves everybody's call alone, and what calls rely on.
LEMMA CallFrame ==
    ASSUME CallInv, UNCHANGED <<readers, private_data, pc, call>>,
           \A p \in Procs : Opening(p) => call[p].dev \in minors',
           \A p \in Procs : Transferring(p) => udev'[call[p].obj] = udev[call[p].obj],
           \A p \in Procs : pc[p] = "get" => call[p].dev \in Owners(call[p].obj)'
    PROVE  CallInv'
BY DEF CallInv, CallOK, Opening, Transferring

\* Nor is the call of a process that is not p disturbed by a step of p.
LEMMA CallStep ==
    ASSUME CallInv, NEW p \in Procs, UNCHANGED <<coreVars, objVars, private_data>>,
           \A q \in Procs \ {p} : pc'[q] = pc[q] /\ call'[q] = call[q]
                                  /\ (q \in readers' <=> q \in readers)
                                  /\ (Opening(q) => call'[p].file # call[q].file),
           CallOK(p)'
    PROVE  CallInv'
<1> SUFFICES ASSUME NEW q \in Procs, q # p PROVE CallOK(q)'
  BY DEF CallInv
<1>1. CallOK(q)
  BY DEF CallInv
<1> USE DEF coreVars, objVars
<1>2. \A o \in Objs : Owners(o)' = Owners(o)
  BY DEF Owners
<1>3. (Opening(q)' <=> Opening(q)) /\ (Transferring(q)' <=> Transferring(q))
  BY DEF Opening, Transferring
<1>4. \A r \in Procs \ {q} : Opening(q) => call'[r].file # call'[q].file
  BY <1>1 DEF CallOK
<1> QED BY <1>1, <1>2, <1>3, <1>4 DEF CallOK, Opening

-----------------------------------------------------------------------------
(* The steps of processes and of transfers *)

LEMMA UrbFrame ==
    ASSUME UrbInv, UNCHANGED <<core, intfdata, urb>>
    PROVE  UrbInv'
BY DEF UrbInv, UrbOK

LEMMA OpenEnterStep ==
    ASSUME UsbInv, NEW p \in Procs, NEW f \in Files, NEW d \in Devs, OpenEnter(p, f, d),
           UNCHANGED <<loaded, leaving>>
    PROVE  UsbInv'
<1> USE NoneIsNew
<1>1. CoreInv' /\ ObjInv' /\ UrbInv'
  BY CoreFrame, UrbFrame DEF UsbInv, OpenEnter, coreVars
<1>2. /\ call'[p] \in [file : Files \cup {None}, dev : Devs \cup {None},
                       obj : Objs \cup {None}, len : Nat]
      /\ call'[p].file = f /\ call'[p].dev = d /\ call'[p].obj = None
      /\ \A q \in Procs \ {p} : call'[q] = call[q]
  <2> DEFINE r == [NoCall EXCEPT !.file = f, !.dev = d]
  <2>1. /\ r \in [file : Files \cup {None}, dev : Devs \cup {None},
                  obj : Objs \cup {None}, len : Nat]
        /\ r.file = f /\ r.dev = d /\ r.obj = None
    BY DEF NoCall
  <2>2. call' = [call EXCEPT ![p] = r]
    BY DEF OpenEnter
  <2> HIDE DEF r
  <2> QED BY <2>1, <2>2 DEF UsbInv, TypeOK
<1>3. /\ pc'[p] = "find" /\ p \in readers'
      /\ \A q \in Procs \ {p} : pc'[q] = pc[q] /\ (q \in readers' <=> q \in readers)
  BY DEF OpenEnter, Goto, UsbInv, TypeOK
<1>4. TypeOK'
  <2>1. call' \in [Procs -> [file : Files \cup {None}, dev : Devs \cup {None},
                             obj : Objs \cup {None}, len : Nat]]
    BY <1>2 DEF OpenEnter, UsbInv, TypeOK
  <2>2. pc' \in [Procs -> PC] /\ readers' \subseteq Procs
    BY DEF OpenEnter, UsbInv, TypeOK, Goto, PC
  <2> QED BY <2>1, <2>2 DEF OpenEnter, UsbInv, TypeOK, coreVars, objVars, bufVars
<1>5. \A q \in Procs : call[q].file # f
  BY DEF OpenEnter, Unused
<1>6. CallOK(p)'
  BY <1>2, <1>3, <1>5 DEF CallOK, Opening, Transferring, OpenEnter, Unused, coreVars
<1>7. CallInv'
  BY <1>2, <1>3, <1>5, <1>6, CallStep DEF UsbInv, OpenEnter
<1> QED BY <1>1, <1>4, <1>7 DEF UsbInv

LEMMA OpenFindStep ==
    ASSUME UsbInv, NEW p \in Procs, OpenFind(p),
           UNCHANGED <<loaded, leaving>>
    PROVE  UsbInv'
<1> USE NoneIsNew
<1> DEFINE d == call[p].dev
           o == intfdata[d]
<1>1. CoreInv' /\ ObjInv' /\ UrbInv'
  BY CoreFrame, UrbFrame DEF UsbInv, OpenFind, coreVars
<1>2. /\ CallOK(p) /\ pc[p] = "find" /\ d \in Devs /\ d \in minors
      /\ o \in Objs \cup {None}
  BY DEF UsbInv, CallInv, CallOK, OpenFind, TypeOK, Opening
<1>3. CASE o = None
  <2>1. /\ call'[p] = NoCall /\ pc'[p] = "idle" /\ p \notin readers'
        /\ \A q \in Procs \ {p} : /\ pc'[q] = pc[q] /\ call'[q] = call[q]
                                  /\ (q \in readers' <=> q \in readers)
    BY <1>3 DEF OpenFind, Goto, UsbInv, TypeOK
  <2>2. TypeOK'
    <3>1. call' \in [Procs -> [file : Files \cup {None}, dev : Devs \cup {None},
                               obj : Objs \cup {None}, len : Nat]]
      BY <1>3, SMT DEF OpenFind, UsbInv, TypeOK, NoCall
    <3>2. pc' \in [Procs -> PC] /\ readers' \subseteq Procs
      BY <1>3 DEF OpenFind, UsbInv, TypeOK, Goto, PC
    <3> QED BY <3>1, <3>2 DEF OpenFind, UsbInv, TypeOK, coreVars, objVars, bufVars
  <2>3. CallOK(p)'
    BY <2>1 DEF CallOK, Opening, Transferring, NoCall
  <2>4. \A q \in Procs \ {p} : Opening(q) => call'[p].file # call[q].file
    BY <2>1 DEF UsbInv, CallInv, CallOK, NoCall, Opening
  <2>5. CallInv'
    BY <2>1, <2>3, <2>4, CallStep DEF UsbInv, OpenFind
  <2> QED BY <1>1, <2>2, <2>5 DEF UsbInv
<1>4. CASE o # None
  <2>1. PICK e \in Devs, x \in Objs : e = call[p].dev /\ x = intfdata[e]
    BY <1>2, <1>4
  <2>2. /\ call' = [call EXCEPT ![p].obj = x] /\ pc' = [pc EXCEPT ![p] = "get"]
        /\ readers' = readers
    BY <1>4, <2>1 DEF OpenFind, Goto
  <2>3. /\ call'[p].file = call[p].file /\ call'[p].dev = e /\ call'[p].obj = x
        /\ pc'[p] = "get"
        /\ \A q \in Procs \ {p} : pc'[q] = pc[q] /\ call'[q] = call[q]
    BY <2>1, <2>2 DEF UsbInv, TypeOK
  <2>4. TypeOK'
    <3> DEFINE C == [file : Files \cup {None}, dev : Devs \cup {None},
                     obj : Objs \cup {None}, len : Nat]
               r == [call[p] EXCEPT !.obj = x]
    <3>0. call \in [Procs -> C] /\ call[p] \in C
      BY DEF UsbInv, TypeOK
    <3>3. r \in C
      BY <3>0
    <3>4. call' = [call EXCEPT ![p] = r]
      BY <2>2
    <3>1. call' \in [Procs -> C]
      <4> HIDE DEF C, r
      <4> QED BY <3>0, <3>3, <3>4
    <3>2. pc' \in [Procs -> PC]
      BY <2>2 DEF UsbInv, TypeOK, PC
    <3> QED BY <2>2, <3>1, <3>2 DEF OpenFind, UsbInv, TypeOK, coreVars, objVars, bufVars
  <2>5. minors' = minors /\ private_data' = private_data /\ e \in Owners(x)'
    BY <2>1 DEF OpenFind, coreVars, Owners
  <2>6. /\ p \in readers /\ call[p].file # None /\ private_data[call[p].file] = None
        /\ e \in minors /\ \A q \in Procs \ {p} : call[q].file # call[p].file
    BY <1>2, <2>1 DEF CallOK, Opening
  <2>7. (call[p].dev \in Owners(call[p].obj))'
    BY <2>3, <2>5 DEF Owners
  <2>8. CallOK(p)'
    BY <2>2, <2>3, <2>5, <2>6, <2>7 DEF CallOK, Opening, Transferring
  <2>9. \A q \in Procs \ {p} : Opening(q) => call'[p].file # call[q].file
    BY <2>3 DEF UsbInv, CallInv, CallOK
  <2>10. CallInv'
    BY <2>2, <2>3, <2>8, <2>9, CallStep DEF UsbInv, OpenFind
  <2> QED BY <1>1, <2>4, <2>10 DEF UsbInv
<1> QED BY <1>3, <1>4

\* A process that begins a transfer shares the file with others that do.
LEMMA TransferEnters ==
    ASSUME UsbInv, NEW p \in Procs, NEW f \in Files, NEW n \in Lens, NEW dir,
           Transfer(p, f, n, dir), UNCHANGED <<coreVars, readers, objVars, private_data, urb, loaded, leaving>>,
           pc' = [pc EXCEPT ![p] = "size"] \/ pc' = [pc EXCEPT ![p] = "submit_out"]
    PROVE  /\ CoreInv' /\ ObjInv' /\ CallInv' /\ UrbInv'
           /\ call' \in [Procs -> [file : Files \cup {None}, dev : Devs \cup {None},
                                   obj : Objs \cup {None}, len : Nat]]
           /\ pc' \in [Procs -> PC]
<1> USE NoneIsNew
<1>1. CoreInv' /\ ObjInv' /\ UrbInv'
  BY CoreFrame, UrbFrame DEF UsbInv, coreVars
<1>2. private_data[f] \in Objs /\ udev[private_data[f]] \in Devs \cup {None} /\ n \in Nat
  BY BulkAssumption DEF Transfer, UsbInv, TypeOK
<1>3. /\ call'[p].file = f /\ call'[p].obj = private_data[f]
      /\ call'[p].dev = udev[private_data[f]]
      /\ \A q \in Procs \ {p} : call'[q] = call[q] /\ pc'[q] = pc[q]
      /\ pc'[p] \in {"size", "submit_out"}
  BY SMT DEF Transfer, UsbInv, TypeOK
<1>4. call' \in [Procs -> [file : Files \cup {None}, dev : Devs \cup {None},
                           obj : Objs \cup {None}, len : Nat]]
  BY <1>2, SMT DEF Transfer, UsbInv, TypeOK
<1>5. pc' \in [Procs -> PC]
  BY DEF UsbInv, TypeOK, PC
<1>6. p \notin readers
  BY DEF Transfer, UsbInv, CallInv, CallOK, Opening
<1>7. CallOK(p)'
  BY <1>2, <1>3, <1>6 DEF CallOK, Opening, Transferring, objVars
<1>8. \A q \in Procs \ {p} : Opening(q) => call'[p].file # call[q].file
  BY <1>2, <1>3 DEF UsbInv, CallInv, CallOK
<1>9. CallInv'
  BY <1>3, <1>7, <1>8, CallStep DEF UsbInv
<1> QED BY <1>1, <1>4, <1>5, <1>9

LEMMA ReadEnterStep ==
    ASSUME UsbInv, NEW p \in Procs, NEW f \in Files, NEW n \in Lens, ReadEnter(p, f, n),
           UNCHANGED <<loaded, leaving>>
    PROVE  UsbInv'
<1>1. /\ CoreInv' /\ ObjInv' /\ CallInv' /\ UrbInv'
      /\ call' \in [Procs -> [file : Files \cup {None}, dev : Devs \cup {None},
                              obj : Objs \cup {None}, len : Nat]]
      /\ pc' \in [Procs -> PC]
  BY TransferEnters DEF ReadEnter, Goto
<1>2. Rx_UsrSpc_Buf' \in [Objs -> Procs \cup {None}]
  BY DEF ReadEnter, UsbInv, TypeOK
<1>3. TypeOK'
  BY <1>1, <1>2 DEF ReadEnter, UsbInv, TypeOK, coreVars, objVars
<1> QED BY <1>1, <1>3 DEF UsbInv

LEMMA WriteEnterStep ==
    ASSUME UsbInv, NEW p \in Procs, NEW f \in Files, NEW n \in Lens, WriteEnter(p, f, n),
           UNCHANGED <<loaded, leaving>>
    PROVE  UsbInv'
<1>1. /\ CoreInv' /\ ObjInv' /\ CallInv' /\ UrbInv'
      /\ call' \in [Procs -> [file : Files \cup {None}, dev : Devs \cup {None},
                              obj : Objs \cup {None}, len : Nat]]
      /\ pc' \in [Procs -> PC]
  BY TransferEnters DEF WriteEnter, Goto
<1>2. TypeOK'
  BY <1>1 DEF WriteEnter, UsbInv, TypeOK, coreVars, objVars, bufVars
<1> QED BY <1>1, <1>2 DEF UsbInv

LEMMA ReadSizeStep ==
    ASSUME UsbInv, NEW p \in Procs, ReadSize(p),
           UNCHANGED <<loaded, leaving>>
    PROVE  UsbInv'
<1> USE NoneIsNew
<1>1. CoreInv' /\ ObjInv' /\ UrbInv'
  BY CoreFrame, UrbFrame DEF UsbInv, ReadSize, coreVars
<1>2. /\ pc'[p] = "submit_in" /\ pc[p] = "size"
      /\ \A q \in Procs \ {p} : pc'[q] = pc[q]
      /\ call' = call /\ readers' = readers
  BY DEF ReadSize, Goto, UsbInv, TypeOK
<1>3. TypeOK'
  <2>1. Rx_Actual_Size' \in [Objs -> Nat]
    <3>1. call[p].len \in Nat
      BY DEF UsbInv, TypeOK
    <3> QED BY <3>1 DEF ReadSize, UsbInv, TypeOK
  <2>2. pc' \in [Procs -> PC]
    BY DEF ReadSize, UsbInv, TypeOK, Goto, PC
  <2> QED BY <2>1, <2>2 DEF ReadSize, UsbInv, TypeOK, coreVars, objVars
<1>4. CallOK(p)'
  BY <1>2 DEF ReadSize, UsbInv, CallInv, CallOK, Opening, Transferring, objVars
<1>5. \A q \in Procs \ {p} : Opening(q) => call'[p].file # call[q].file
  BY <1>2 DEF UsbInv, CallInv, CallOK
<1>6. CallInv'
  BY <1>2, <1>4, <1>5, CallStep DEF UsbInv, ReadSize
<1> QED BY <1>1, <1>3, <1>6 DEF UsbInv

\* An object that has been opened is still its device's, if that is plugged
\* in and is never unbound by hand.
LEMMA OpenedIsOwned ==
    ASSUME UsbInv, LoadInv, NEW o \in Objs, NEW f \in Files, private_data[f] = o,
           udev[o] \in plugged \ UNBINDABLE
    PROVE  core[udev[o]] = "bound" /\ intfdata[udev[o]] = o
<1> DEFINE d == udev[o]
<1>0. ~leaving
  BY NoneIsNew DEF LoadInv
<1>1. d \in Devs /\ CoreOK(d) /\ NewUnopened(d)
  BY DEF UsbInv, TypeOK, CoreInv
<1>2. d \in Owners(o)
  BY <1>1, <1>0 DEF UsbInv, ObjInv, OwnerStays, CoreOK
<1>3. dev[d] = o \/ intfdata[d] = o
  BY <1>2 DEF Owners
<1> QED BY <1>0, <1>1, <1>3, NoneIsNew DEF CoreOK, NewUnopened

LEMMA SubmitStep ==
    ASSUME UsbInv, LoadInv, NEW p \in Procs, Submit(p),
           UNCHANGED <<loaded, leaving>>
    PROVE  UsbInv'
<1> USE NoneIsNew
<1> DEFINE d == call[p].dev
           o == call[p].obj
<1>1. CoreInv' /\ ObjInv'
  BY CoreFrame DEF UsbInv, Submit
<1>2. /\ pc[p] \in {"submit_in", "submit_out"} /\ pc'[p] = "idle" /\ call'[p] = NoCall
      /\ \A q \in Procs \ {p} : pc'[q] = pc[q] /\ call'[q] = call[q]
      /\ readers' = readers
  BY DEF Submit, Goto, UsbInv, TypeOK
<1>3. o \in Objs /\ private_data[call[p].file] = o /\ d = udev[o] /\ p \notin readers
      /\ call[p].file \in Files
  BY <1>2 DEF UsbInv, CallInv, CallOK, Opening, Transferring, TypeOK
<1>4. TypeOK'
  <2>1. call' \in [Procs -> [file : Files \cup {None}, dev : Devs \cup {None},
                             obj : Objs \cup {None}, len : Nat]]
    BY SMT DEF Submit, UsbInv, TypeOK, NoCall
  <2>2. urb' \in [Urbs -> [dir : {"none", "in", "out"}, obj : Objs \cup {None},
                           dev : Devs \cup {None}, proc : Procs \cup {None}, len : Nat]]
    BY SMT DEF Submit, UsbInv, TypeOK
  <2>3. pc' \in [Procs -> PC]
    BY DEF Submit, UsbInv, TypeOK, Goto, PC
  <2> QED BY <2>1, <2>2, <2>3 DEF Submit, UsbInv, TypeOK, coreVars, objVars, bufVars
<1>5. CallInv'
  <2>1. CallOK(p)'
    BY <1>2, <1>3 DEF CallOK, Opening, Transferring, NoCall
  <2>2. \A q \in Procs \ {p} : Opening(q) => call'[p].file # call[q].file
    BY <1>2 DEF UsbInv, CallInv, CallOK, NoCall, Opening
  <2> QED BY <1>2, <2>1, <2>2, CallStep DEF UsbInv, Submit
<1>6. ASSUME NEW u \in Urbs
      PROVE  UrbOK(u)'
  <2>1. UrbOK(u) /\ UNCHANGED <<core, intfdata>>
    BY DEF UsbInv, UrbInv, Submit, coreVars
  <2>2. CASE urb'[u] = urb[u]
    BY <2>1, <2>2 DEF UrbOK
  <2>3. CASE urb'[u] # urb[u]
    <3>1. urb'[u].dev = d /\ urb'[u].obj = o /\ d \in ep_on
      BY <2>3, SMT DEF Submit, UsbInv, TypeOK
    <3>2. d \notin UNBINDABLE => core[d] = "bound" /\ intfdata[d] = o
      BY <1>3, <3>1, OpenedIsOwned DEF UsbInv, TypeOK
    <3>3. d \in Devs
      BY <3>1 DEF UsbInv, TypeOK
    <3> QED BY <1>3, <2>1, <3>1, <3>2, <3>3 DEF UrbOK
  <2> QED BY <2>2, <2>3
<1> QED BY <1>1, <1>4, <1>5, <1>6 DEF UsbInv, UrbInv

LEMMA CompleteStep ==
    ASSUME UsbInv, NEW u \in Urbs, Complete(u),
           UNCHANGED <<loaded, leaving>>
    PROVE  UsbInv'
<1>1. CoreInv' /\ ObjInv'
  BY CoreFrame DEF UsbInv, Complete
<1>2. CallInv'
  BY CallFrame DEF UsbInv, Complete, coreVars, objVars, CallInv, CallOK, Owners
<1>3. UrbInv'
  BY DEF UsbInv, UrbInv, UrbOK, Complete, TypeOK, coreVars
<1>4. TypeOK'
  BY SMT DEF UsbInv, TypeOK, Complete, coreVars, objVars, bufVars, NoUrb
<1> QED BY <1>1, <1>2, <1>3, <1>4 DEF UsbInv

-----------------------------------------------------------------------------
(* The steps of the core that leave the objects alone *)

\* A step of the core for one device does not disturb the others.
LEMMA CoreStep ==
    ASSUME CoreInv, NEW d \in Devs, UNCHANGED <<private_data, loaded, leaving>>,
           \A e \in Devs \ {d} :
              /\ core'[e] = core[e] /\ dev'[e] = dev[e] /\ intfdata'[e] = intfdata[e]
              /\ (e \in minors' <=> e \in minors) /\ (e \in plugged' <=> e \in plugged),
           CoreOK(d)', NewUnopened(d)'
    PROVE  CoreInv'
BY DEF CoreInv, CoreOK, NewUnopened

\* Nor does one after which every object has the owners it had.
LEMMA SameOwners ==
    ASSUME UsbInv, NEW d \in Devs,
           UNCHANGED <<readers, objVars, private_data, pc, call, urb, loaded, leaving>>,
           \A e \in Devs \ {d} :
              /\ core'[e] = core[e] /\ dev'[e] = dev[e] /\ intfdata'[e] = intfdata[e]
              /\ (e \in minors' <=> e \in minors) /\ (e \in plugged' <=> e \in plugged),
           \A o \in Objs : Owners(o)' = Owners(o),
           d \in minors => d \in minors' \/ readers = {},
           core[d] # "gone",
           CoreOK(d)', NewUnopened(d)', UrbInv'
    PROVE  CoreInv' /\ ObjInv' /\ CallInv' /\ UrbInv'
<1> USE DEF objVars
<1>1. CoreInv'
  BY CoreStep DEF UsbInv
<1>2. \A o \in Objs : Openers(o)' = Openers(o)
  BY DEF Openers
<1>3. ReferencesExact'
  BY <1>2 DEF UsbInv, ObjInv, ReferencesExact
<1>4. OwnerKnown' /\ OwnerStays'
  BY DEF UsbInv, ObjInv, OwnerKnown, OwnerStays
<1>5. CallInv'
  <2>1. ASSUME NEW p \in Procs, Opening(p)
        PROVE  call[p].dev \in minors'
    BY <2>1 DEF UsbInv, CallInv, CallOK, TypeOK
  <2>2. ASSUME NEW p \in Procs, pc[p] = "get"
        PROVE  call[p].dev \in Owners(call[p].obj)'
    <3>1. PICK o \in Objs : o = call[p].obj /\ call[p].dev \in Owners(o)
      BY <2>2 DEF UsbInv, CallInv, CallOK
    <3>2. call[p].dev \in Owners(o)'
      BY <3>1
    <3> QED BY <3>1, <3>2 DEF Owners
  <2> QED BY <2>1, <2>2, CallFrame DEF UsbInv
<1> QED BY <1>1, <1>3, <1>4, <1>5 DEF ObjInv

LEMMA QuietCore ==
    ASSUME UsbInv, NEW d \in Devs,
           UNCHANGED <<dev, intfdata, readers, objVars, private_data, pc, call, urb,
                       loaded, leaving>>,
           \A e \in Devs \ {d} :
              /\ core'[e] = core[e]
              /\ (e \in minors' <=> e \in minors) /\ (e \in plugged' <=> e \in plugged),
           d \in minors => d \in minors' \/ readers = {},
           core[d] # "gone",
           core[d] \in {"bound", "flush"} => core'[d] \in {"bound", "flush", "oops"},
           core'[d] = "oops" => intfdata[d] = None,
           CoreOK(d)', core'[d] \notin {"endpoints", "register"}
    PROVE  CoreInv' /\ ObjInv' /\ CallInv' /\ UrbInv'
<1>1. \A o \in Objs : Owners(o)' = Owners(o)
  BY DEF Owners
<1>2. UrbInv'
  BY NoneIsNew DEF UsbInv, UrbInv, UrbOK
<1> QED BY <1>1, <1>2, SameOwners DEF NewUnopened

LEMMA PlugStep ==
    ASSUME UsbInv, NEW d \in Devs, Plug(d),
           UNCHANGED <<loaded, leaving>>
    PROVE  UsbInv'
<1>1. /\ core'[d] = "unbound" /\ core[d] = "absent"
      /\ \A e \in Devs \ {d} : core'[e] = core[e]
  BY DEF Plug, CoreGoto, UsbInv, TypeOK
<1>2. CoreOK(d)'
  BY <1>1 DEF Plug, UsbInv, CoreInv, CoreOK
<1>3. CoreInv' /\ ObjInv' /\ CallInv' /\ UrbInv'
  BY <1>1, <1>2, QuietCore DEF Plug
<1>4. TypeOK'
  BY DEF Plug, CoreGoto, UsbInv, TypeOK, CorePC, objVars, bufVars
<1> QED BY <1>3, <1>4 DEF UsbInv

LEMMA UnplugStep ==
    ASSUME UsbInv, NEW d \in Devs, Unplug(d),
           UNCHANGED <<loaded, leaving>>
    PROVE  UsbInv'
<1>1. /\ core'[d] = (IF core[d] = "bound" THEN "flush" ELSE IF core[d] = "unbound" THEN "gone" ELSE core[d])
      /\ core[d] \in {"bound", "flush", "deregister", "put", "unbound"}
      /\ \A e \in Devs \ {d} : core'[e] = core[e]
  BY DEF Unplug, UsbInv, TypeOK
<1>2. CoreOK(d)'
  BY <1>1 DEF Unplug, UsbInv, CoreInv, CoreOK
<1>3. CoreInv' /\ ObjInv' /\ CallInv' /\ UrbInv'
  BY <1>1, <1>2, QuietCore DEF Unplug
<1>4. TypeOK'
  <2>1. core' \in [Devs -> CorePC]
    BY <1>1 DEF Unplug, UsbInv, TypeOK, CorePC
  <2> QED BY <2>1 DEF Unplug, UsbInv, TypeOK, objVars, bufVars
<1> QED BY <1>3, <1>4 DEF UsbInv

LEMMA TakeOffStep ==
    ASSUME UsbInv, NEW d \in Devs, TakeOff(d), d \in UNBINDABLE \/ leaving,
           UNCHANGED <<loaded, leaving>>
    PROVE  UsbInv'
<1>1. /\ core'[d] = "flush" /\ core[d] = "bound"
      /\ \A e \in Devs \ {d} : core'[e] = core[e]
  BY DEF TakeOff, CoreGoto, UsbInv, TypeOK
<1>2. CoreOK(d)'
  BY <1>1 DEF TakeOff, UsbInv, CoreInv, CoreOK
<1>3. CoreInv' /\ ObjInv' /\ CallInv' /\ UrbInv'
  BY <1>1, <1>2, QuietCore DEF TakeOff
<1>4. TypeOK'
  BY DEF TakeOff, CoreGoto, UsbInv, TypeOK, CorePC, objVars, bufVars
<1> QED BY <1>3, <1>4 DEF UsbInv

LEMMA OfferStep ==
    ASSUME UsbInv, NEW d \in Devs, Offer(d),
           UNCHANGED <<loaded, leaving>>
    PROVE  UsbInv'
<1>1. /\ core'[d] = "probe" /\ core[d] = "unbound"
      /\ \A e \in Devs \ {d} : core'[e] = core[e]
  BY DEF Offer, CoreGoto, UsbInv, TypeOK
<1>2. CoreOK(d)'
  BY <1>1 DEF Offer, UsbInv, CoreInv, CoreOK
<1>3. CoreInv' /\ ObjInv' /\ CallInv' /\ UrbInv'
  BY <1>1, <1>2, QuietCore DEF Offer
<1>4. TypeOK'
  BY DEF Offer, CoreGoto, UsbInv, TypeOK, CorePC, objVars, bufVars
<1> QED BY <1>3, <1>4 DEF UsbInv

LEMMA DeregisterStep ==
    ASSUME UsbInv, NEW d \in Devs, Deregister(d),
           UNCHANGED <<loaded, leaving>>
    PROVE  UsbInv'
<1>1. /\ core'[d] = "put" /\ core[d] = "deregister"
      /\ \A e \in Devs \ {d} : core'[e] = core[e]
  BY DEF Deregister, CoreGoto, UsbInv, TypeOK
<1>2. CoreOK(d)'
  BY <1>1 DEF Deregister, UsbInv, CoreInv, CoreOK
<1>3. CoreInv' /\ ObjInv' /\ CallInv' /\ UrbInv'
  BY <1>1, <1>2, QuietCore DEF Deregister
<1>4. TypeOK'
  BY DEF Deregister, CoreGoto, UsbInv, TypeOK, CorePC, objVars, bufVars
<1> QED BY <1>3, <1>4 DEF UsbInv

LEMMA IntDisconnectStep ==
    ASSUME UsbInv, NEW d \in Devs, loaded = "int", IntDisconnect(d),
           UNCHANGED <<loaded, leaving>>
    PROVE  UsbInv'
<1>1. /\ core'[d] = "oops" /\ core[d] = "flush" /\ intfdata[d] = None
      /\ \A e \in Devs \ {d} : core'[e] = core[e]
  BY DEF IntDisconnect, CoreGoto, UsbInv, TypeOK
<1>2. CoreOK(d)'
  BY <1>1 DEF IntDisconnect, UsbInv, CoreInv, CoreOK
<1>3. CoreInv' /\ ObjInv' /\ CallInv' /\ UrbInv'
  BY <1>1, <1>2, QuietCore DEF IntDisconnect
<1>4. TypeOK'
  BY DEF IntDisconnect, CoreGoto, UsbInv, TypeOK, CorePC, objVars, bufVars
<1> QED BY <1>3, <1>4 DEF UsbInv

-----------------------------------------------------------------------------
(* The steps of the core that pass an object on *)

LEMMA SetUpStep ==
    ASSUME UsbInv, NEW d \in Devs, core[d] = "endpoints", loaded = "bulk",
           intfdata' = [intfdata EXCEPT ![d] = dev[d]], CoreGoto(d, "register"),
           UNCHANGED <<dev, objVars, plugged, ep_on, minors, readers, bufVars,
                       private_data, pc, call, urb, loaded, leaving>>
    PROVE  UsbInv'
<1> USE NoneIsNew
<1>1. CoreOK(d) /\ NewUnopened(d) /\ dev[d] \in Objs
  BY DEF UsbInv, CoreInv, CoreOK, TypeOK
<1>2. /\ core'[d] = "register" /\ intfdata'[d] = dev[d] /\ dev' = dev
      /\ \A e \in Devs \ {d} : core'[e] = core[e] /\ intfdata'[e] = intfdata[e]
  BY DEF CoreGoto, UsbInv, TypeOK
<1>3. \A o \in Objs : Owners(o)' = Owners(o)
  BY <1>1, <1>2 DEF Owners, CoreOK
<1>4. CoreOK(d)' /\ NewUnopened(d)'
  BY <1>1, <1>2 DEF CoreOK, NewUnopened
<1>5. UrbInv'
  BY <1>2 DEF UsbInv, UrbInv, UrbOK
<1>6. CoreInv' /\ ObjInv' /\ CallInv' /\ UrbInv'
  BY <1>2, <1>3, <1>4, <1>5, SameOwners
<1>7. TypeOK'
  BY <1>1 DEF UsbInv, TypeOK, CoreGoto, CorePC, objVars, bufVars
<1> QED BY <1>6, <1>7 DEF UsbInv

LEMMA RegisterStep ==
    ASSUME UsbInv, NEW d \in Devs, core[d] = "register", readers = {},
           minors' = minors \cup {d}, CoreGoto(d, "bound"),
           dev' = [dev EXCEPT ![d] = None],
           UNCHANGED <<intfdata, objVars, plugged, ep_on, readers, bufVars,
                       private_data, pc, call, urb, loaded, leaving>>
    PROVE  UsbInv'
<1> USE NoneIsNew
<1>1. CoreOK(d) /\ intfdata[d] = dev[d] /\ dev[d] \in Objs
  BY DEF UsbInv, CoreInv, CoreOK, TypeOK
<1>2. /\ core'[d] = "bound" /\ dev'[d] = None /\ intfdata' = intfdata
      /\ \A e \in Devs \ {d} : core'[e] = core[e] /\ dev'[e] = dev[e]
  BY DEF CoreGoto, UsbInv, TypeOK
<1>3. \A o \in Objs : Owners(o)' = Owners(o)
  BY <1>1, <1>2 DEF Owners
<1>4. CoreOK(d)' /\ NewUnopened(d)'
  BY <1>1, <1>2 DEF CoreOK, NewUnopened
<1>5. UrbInv'
  BY <1>2 DEF UsbInv, UrbInv, UrbOK
<1>6. CoreInv' /\ ObjInv' /\ CallInv' /\ UrbInv'
  BY <1>2, <1>3, <1>4, <1>5, SameOwners
<1>7. TypeOK'
  BY DEF UsbInv, TypeOK, CoreGoto, CorePC, objVars, bufVars
<1> QED BY <1>6, <1>7 DEF UsbInv

LEMMA DisconnectBegins ==
    ASSUME UsbInv, NEW d \in Devs, loaded = "bulk", Disconnect(d),
           UNCHANGED <<loaded, leaving>>
    PROVE  UsbInv'
<1> USE NoneIsNew
<1>1. CoreOK(d) /\ intfdata[d] \in Objs /\ dev[d] = None /\ core[d] = "flush"
  BY DEF UsbInv, CoreInv, CoreOK, TypeOK, Disconnect
<1>2. /\ core'[d] = "deregister" /\ dev'[d] = intfdata[d] /\ intfdata'[d] = None
      /\ \A e \in Devs \ {d} :
            core'[e] = core[e] /\ dev'[e] = dev[e] /\ intfdata'[e] = intfdata[e]
  BY DEF CoreGoto, UsbInv, TypeOK, Disconnect
<1>3. \A o \in Objs : Owners(o)' = Owners(o)
  BY <1>1, <1>2 DEF Owners
<1>4. CoreOK(d)' /\ NewUnopened(d)'
  BY <1>1, <1>2 DEF CoreOK, NewUnopened, Disconnect
<1>5. UrbInv'
  BY <1>2 DEF UsbInv, UrbInv, UrbOK, Disconnect
<1>6. CoreInv' /\ ObjInv' /\ CallInv' /\ UrbInv'
  BY <1>1, <1>2, <1>3, <1>4, <1>5, SameOwners DEF Disconnect
<1>7. TypeOK'
  BY <1>1 DEF UsbInv, TypeOK, CoreGoto, CorePC, objVars, bufVars, Disconnect
<1> QED BY <1>6, <1>7 DEF UsbInv

-----------------------------------------------------------------------------
(* Allocation and the references *)

\* kref_init: for ProbeAlloc of either driver.
LEMMA AllocStep ==
    ASSUME UsbInv, NEW d \in Devs, core[d] = "probe", AllocObject(d), CoreGoto(d, "endpoints"),
           UNCHANGED <<plugged, ep_on, intfdata, minors, readers, private_data, pc, call, urb,
                       loaded, leaving>>
    PROVE  UsbInv'
<1> USE NoneIsNew
<1>1. PICK o \in Objs :
          /\ kref[o] = 0
          /\ kref' = [kref EXCEPT ![o] = 1]
          /\ udev' = [udev EXCEPT ![o] = d]
          /\ Rx_UsrSpc_Buf' = [Rx_UsrSpc_Buf EXCEPT ![o] = None]
          /\ Rx_Actual_Size' = [Rx_Actual_Size EXCEPT ![o] = 0]
          /\ dev' = [dev EXCEPT ![d] = o]
  BY DEF AllocObject
<1>2. CoreOK(d) /\ dev[d] = None /\ intfdata[d] = None
  BY DEF UsbInv, CoreInv, CoreOK
<1>3. Owners(o) = {} /\ Openers(o) = {}
  BY <1>1, Referenced DEF UsbInv, ObjInv
<1>4. /\ core'[d] = "endpoints" /\ dev'[d] = o /\ udev'[o] = d
      /\ \A e \in Devs \ {d} : core'[e] = core[e] /\ dev'[e] = dev[e]
      /\ \A x \in Objs \ {o} : udev'[x] = udev[x]
  BY <1>1 DEF CoreGoto, UsbInv, TypeOK
<1>5. /\ Owners(o)' = {d}
      /\ \A x \in Objs \ {o} : Owners(x)' = Owners(x)
      /\ \A x \in Objs : Openers(x)' = Openers(x)
  BY <1>2, <1>3, <1>4 DEF Owners, Openers
<1>6. ReferencesExact' /\ kref' \in [Objs -> Nat]
  BY <1>1, <1>5, OwnerInits DEF UsbInv, ObjInv
<1>7. OwnerKnown' /\ OwnerStays'
  BY <1>4, <1>5 DEF UsbInv, ObjInv, OwnerKnown, OwnerStays
<1>8. CoreInv'
  <2>1. \A f \in Files : private_data[f] # o
    BY <1>3 DEF Openers
  <2>2. CoreOK(d)' /\ NewUnopened(d)'
    BY <1>2, <1>4, <2>1 DEF CoreOK, NewUnopened
  <2> QED BY <1>4, <2>2, CoreStep DEF UsbInv
<1>9. CallInv'
  <2>1. ASSUME NEW p \in Procs, Opening(p)
        PROVE  call[p].dev \in minors'
    BY <2>1 DEF UsbInv, CallInv, CallOK
  <2>2. ASSUME NEW p \in Procs, Transferring(p)
        PROVE  udev'[call[p].obj] = udev[call[p].obj]
    <3>1. call[p].obj \in Objs /\ call[p].file \in Files /\ private_data[call[p].file] = call[p].obj
      BY <2>2 DEF UsbInv, CallInv, CallOK, TypeOK, Transferring
    <3>2. call[p].obj # o
      BY <1>3, <3>1 DEF Openers
    <3> QED BY <1>4, <3>1, <3>2
  <2>3. ASSUME NEW p \in Procs, pc[p] = "get"
        PROVE  call[p].dev \in Owners(call[p].obj)'
    <3>1. PICK x \in Objs : x = call[p].obj /\ call[p].dev \in Owners(x)
      BY <2>3 DEF UsbInv, CallInv, CallOK
    <3>2. call[p].dev \in Owners(x)'
      BY <1>3, <1>5, <3>1
    <3> QED BY <3>1, <3>2 DEF Owners
  <2> QED BY <2>1, <2>2, <2>3, CallFrame DEF UsbInv
<1>10. UrbInv'
  BY <1>4 DEF UsbInv, UrbInv, UrbOK
<1>11. TypeOK'
  <2>1. udev' \in [Objs -> Devs \cup {None}] /\ dev' \in [Devs -> Objs \cup {None}]
    BY <1>1 DEF UsbInv, TypeOK
  <2>2. Rx_UsrSpc_Buf' \in [Objs -> Procs \cup {None}] /\ Rx_Actual_Size' \in [Objs -> Nat]
    BY <1>1 DEF UsbInv, TypeOK
  <2> QED BY <1>6, <2>1, <2>2 DEF UsbInv, TypeOK, CoreGoto, CorePC
<1> QED BY <1>6, <1>7, <1>8, <1>9, <1>10, <1>11 DEF UsbInv, ObjInv

\* kref_put of stm32_probe, at error, and of stm32_disconnect.
LEMMA CorePuts ==
    ASSUME UsbInv, LoadInv, NEW d \in Devs, core[d] \in {"endpoints", "register", "put"},
           kref_put(dev[d]), dev' = [dev EXCEPT ![d] = None],
           intfdata' = [intfdata EXCEPT ![d] = None],
           NEW c \in {"unbound", "bound", "gone"}, CoreGoto(d, c),
           c = "bound" => loaded = "int",
           core[d] = "put" => c = (IF d \in plugged THEN "unbound" ELSE "gone"),
           core[d] # "put" => c # "gone",
           ep_on' \subseteq plugged',
           UNCHANGED <<plugged, minors, readers, bufVars, private_data, pc, call, urb,
                       loaded, leaving>>
    PROVE  UsbInv'
<1> USE NoneIsNew
<1>1. CoreOK(d) /\ NewUnopened(d) /\ d \in Owners(dev[d])
  BY DEF UsbInv, CoreInv, CoreOK, Owners
<1>2. PICK o \in Objs : o = dev[d] /\ kref_put(o)
  BY <1>1 DEF CoreOK, UsbInv, TypeOK
<1>3. Owners(o) = {d} /\ udev[o] = d
  BY <1>1, <1>2 DEF UsbInv, ObjInv, OwnerKnown, Owners
<1>4. /\ core'[d] = c /\ dev'[d] = None /\ intfdata'[d] = None
      /\ \A e \in Devs \ {d} :
            core'[e] = core[e] /\ dev'[e] = dev[e] /\ intfdata'[e] = intfdata[e]
  BY DEF CoreGoto, UsbInv, TypeOK
<1>5. /\ Owners(o)' = {}
      /\ \A x \in Objs \ {o} : Owners(x)' = Owners(x)
      /\ \A x \in Objs : Openers(x)' = Openers(x)
  <2>1. ASSUME NEW x \in Objs \ {o}
        PROVE  Owners(x)' = Owners(x)
    BY <1>1, <1>2, <1>4 DEF Owners, CoreOK
  <2>2. Owners(o)' = {}
    BY <1>3, <1>4 DEF Owners
  <2> QED BY <2>1, <2>2 DEF Openers
<1>6. ReferencesExact' /\ kref' \in [Objs -> Nat]
  <2>1. d \in Owners(o) /\ Owners(o)' = Owners(o) \ {d}
    BY <1>3, <1>5
  <2> QED BY <1>2, <1>5, <2>1, OwnerPuts DEF UsbInv, ObjInv
<1>7. /\ udev' \in [Objs -> Devs \cup {None}]
      /\ \A x \in Objs \ {o} : udev'[x] = udev[x]
      /\ udev'[o] = IF kref[o] = 1 THEN None ELSE d
  BY <1>2, <1>3 DEF kref_put, UsbInv, TypeOK
<1>8. Openers(o) # {} => kref[o] # 1
  BY <1>3, NotTheLast DEF UsbInv, ObjInv
<1>9. OwnerKnown'
  BY <1>5, <1>7 DEF UsbInv, ObjInv, OwnerKnown
<1>10. OwnerStays'
  <2>1. CASE core[d] = "put"
    <3>1. CASE leaving
      <4>1. Openers(o) = {}
        BY <1>2, <3>1, NoneIsNew DEF LoadInv, Openers
      <4>2. kref[o] = 1
        BY <1>3, <4>1, TheLast DEF UsbInv, ObjInv
      <4> QED BY <1>4, <1>5, <1>7, <4>2 DEF UsbInv, ObjInv, OwnerStays
    <3>2. CASE ~leaving
      BY <1>1, <1>4, <1>5, <1>7, <2>1, <3>2 DEF UsbInv, ObjInv, OwnerStays, CoreOK
    <3> QED BY <3>1, <3>2
  <2>2. CASE core[d] # "put"
    <3>1. Openers(o) = {}
      BY <1>1, <1>2, <2>2 DEF NewUnopened, Openers
    <3>2. kref[o] = 1
      BY <1>3, <3>1, TheLast DEF UsbInv, ObjInv
    <3> QED BY <1>4, <1>5, <1>7, <2>2, <3>2 DEF UsbInv, ObjInv, OwnerStays
  <2> QED BY <2>1, <2>2
<1>11. CoreInv'
  <2>1. CoreOK(d)' /\ NewUnopened(d)'
    BY <1>1, <1>4 DEF CoreOK, NewUnopened
  <2> QED BY <1>4, <2>1, CoreStep DEF UsbInv
<1>12. CallInv'
  <2>1. ASSUME NEW p \in Procs, Opening(p)
        PROVE  call[p].dev \in minors'
    BY <2>1 DEF UsbInv, CallInv, CallOK
  <2>2. ASSUME NEW p \in Procs, Transferring(p)
        PROVE  udev'[call[p].obj] = udev[call[p].obj]
    <3>1. call[p].obj \in Objs /\ call[p].file \in Files /\ private_data[call[p].file] = call[p].obj
      BY <2>2 DEF UsbInv, CallInv, CallOK, TypeOK, Transferring
    <3>2. Openers(call[p].obj) # {}
      BY <3>1 DEF Openers
    <3> QED BY <1>3, <1>7, <1>8, <3>1, <3>2
  <2>3. ASSUME NEW p \in Procs, pc[p] = "get"
        PROVE  call[p].dev \in Owners(call[p].obj)'
    <3>1. PICK x \in Objs : x = call[p].obj /\ call[p].dev \in Owners(x)
      BY <2>3 DEF UsbInv, CallInv, CallOK
    <3>2. call[p].dev # d
      BY <1>1, <2>3 DEF UsbInv, CallInv, CallOK, CoreOK, Opening
    <3>3. call[p].dev \in Owners(x)'
      BY <1>3, <1>5, <3>1, <3>2
    <3> QED BY <3>1, <3>3 DEF Owners
  <2> QED BY <2>1, <2>2, <2>3, CallFrame DEF UsbInv
<1>13. UrbInv'
  BY <1>4 DEF UsbInv, UrbInv, UrbOK
<1>14. TypeOK'
  BY <1>6, <1>7 DEF UsbInv, TypeOK, CoreGoto, CorePC, bufVars
<1> QED BY <1>6, <1>9, <1>10, <1>11, <1>12, <1>13, <1>14 DEF UsbInv, ObjInv

\* kref_get.
LEMMA OpenGetStep ==
    ASSUME UsbInv, NEW p \in Procs, OpenGet(p),
           UNCHANGED <<loaded, leaving>>
    PROVE  UsbInv'
<1> USE NoneIsNew
<1>1. PICK o \in Objs, f \in Files, d \in Devs :
          /\ call[p].obj = o /\ call[p].file = f /\ call[p].dev = d
          /\ private_data[f] = None /\ d \in Owners(o) /\ d \in minors
          /\ \A q \in Procs \ {p} : call[q].file # f
  <2>1. CallOK(p) /\ Opening(p) /\ pc[p] = "get"
    BY DEF OpenGet, Opening, UsbInv, CallInv
  <2>2. call[p].file \in Files /\ call[p].obj \in Objs /\ call[p].dev \in Devs
    BY <2>1 DEF UsbInv, TypeOK, CallOK
  <2> QED BY <2>1, <2>2 DEF CallOK
<1>2. /\ kref' = [kref EXCEPT ![o] = @ + 1]
      /\ private_data' = [private_data EXCEPT ![f] = o]
      /\ readers' = readers \ {p}
      /\ call' = [call EXCEPT ![p] = NoCall]
      /\ pc' = [pc EXCEPT ![p] = "idle"]
      /\ UNCHANGED <<plugged, ep_on, core, dev, intfdata, minors, udev,
                     Rx_UsrSpc_Buf, Rx_Actual_Size, urb>>
  BY <1>1 DEF OpenGet, Goto, coreVars, bufVars
<1>3. /\ private_data'[f] = o /\ \A g \in Files \ {f} : private_data'[g] = private_data[g]
      /\ call'[p] = NoCall /\ pc'[p] = "idle"
      /\ \A q \in Procs \ {p} : call'[q] = call[q] /\ pc'[q] = pc[q]
  BY <1>2 DEF UsbInv, TypeOK
<1>4. \A x \in Objs : Owners(x)' = Owners(x)
  BY <1>2 DEF Owners
<1>5. f \notin Openers(o) /\ Openers(o)' = Openers(o) \cup {f}
  BY <1>1, <1>3 DEF Openers
<1>6. \A x \in Objs \ {o} : Openers(x)' = Openers(x)
  BY <1>1, <1>3 DEF Openers
<1>7. ReferencesExact' /\ kref' \in [Objs -> Nat]
  BY <1>2, <1>4, <1>5, <1>6, FileGets DEF UsbInv, ObjInv
<1>8. OwnerKnown' /\ OwnerStays'
  BY <1>2, <1>4 DEF UsbInv, ObjInv, OwnerKnown, OwnerStays
<1>9. CoreInv'
  <2>1. ASSUME NEW e \in Devs
        PROVE  CoreOK(e)' /\ NewUnopened(e)'
    <3>1. CoreOK(e) /\ NewUnopened(e) /\ CoreOK(d)
      BY DEF UsbInv, CoreInv
    <3>2. CoreOK(e)'
      BY <1>2, <3>1 DEF CoreOK
    <3>3. core[e] \in {"endpoints", "register"} => dev[e] # o
      <4>1. dev[e] = o => e = d
        BY <1>1 DEF UsbInv, ObjInv, OwnerKnown, Owners
      <4> QED BY <1>1, <3>1, <4>1 DEF CoreOK
    <3> QED BY <1>2, <1>3, <3>1, <3>2, <3>3 DEF NewUnopened
  <2> QED BY <2>1 DEF CoreInv
<1>10. CallInv'
  <2>1. CallOK(p)'
    BY <1>2, <1>3 DEF CallOK, Opening, Transferring, NoCall
  <2>2. ASSUME NEW q \in Procs \ {p}
        PROVE  CallOK(q)'
    <3>1. CallOK(q) /\ call'[q] = call[q] /\ pc'[q] = pc[q] /\ (q \in readers' <=> q \in readers)
      BY <1>2, <1>3 DEF UsbInv, CallInv
    <3>2. call[q].file \in Files => private_data'[call[q].file] = private_data[call[q].file]
      BY <1>1, <1>3
    <3>3. pc[q] # "idle" => call[q].file \in Files
      BY <3>1 DEF CallOK, UsbInv, TypeOK
    <3>4. Opening(q) => \A r \in Procs \ {q} : call'[r].file # call'[q].file
      BY <1>3, <3>1, <3>3 DEF CallOK, NoCall, Opening
    <3>5. (call[q].dev \in Owners(call[q].obj))' <=> call[q].dev \in Owners(call[q].obj)
      BY <1>2, <3>1 DEF Owners
    <3> QED BY <1>2, <3>1, <3>2, <3>3, <3>4, <3>5 DEF CallOK, Opening, Transferring
  <2> QED BY <2>1, <2>2 DEF CallInv
<1>11. UrbInv'
  BY <1>2, UrbFrame DEF UsbInv
<1>12. TypeOK'
  <2>1. call' \in [Procs -> [file : Files \cup {None}, dev : Devs \cup {None},
                             obj : Objs \cup {None}, len : Nat]]
    BY <1>2, SMT DEF UsbInv, TypeOK, NoCall
  <2>2. pc' \in [Procs -> PC] /\ private_data' \in [Files -> Objs \cup {None}]
        /\ readers' \subseteq Procs
    BY <1>2 DEF UsbInv, TypeOK, PC
  <2> QED BY <1>2, <1>7, <2>1, <2>2 DEF UsbInv, TypeOK
<1> QED BY <1>7, <1>8, <1>9, <1>10, <1>11, <1>12 DEF UsbInv, ObjInv

\* kref_put of stm32_release.
LEMMA ReleaseStep ==
    ASSUME UsbInv, NEW f \in Files, stm32_release(f),
           UNCHANGED <<loaded, leaving>>
    PROVE  UsbInv'
<1> USE NoneIsNew
<1>1. PICK o \in Objs : private_data[f] = o /\ kref_put(o)
  BY DEF stm32_release, UsbInv, TypeOK
<1>2. /\ private_data' = [private_data EXCEPT ![f] = None]
      /\ UNCHANGED <<plugged, ep_on, core, dev, intfdata, minors, readers,
                     Rx_UsrSpc_Buf, Rx_Actual_Size, pc, call, urb>>
      /\ \A p \in Procs : call[p].file # f
  BY DEF stm32_release, coreVars, bufVars
<1>3. private_data'[f] = None /\ \A g \in Files \ {f} : private_data'[g] = private_data[g]
  BY <1>2 DEF UsbInv, TypeOK
<1>4. \A x \in Objs : Owners(x)' = Owners(x)
  BY <1>2 DEF Owners
<1>5. f \in Openers(o) /\ Openers(o)' = Openers(o) \ {f}
  BY <1>1, <1>3 DEF Openers
<1>6. \A x \in Objs \ {o} : Openers(x)' = Openers(x)
  BY <1>1, <1>3 DEF Openers
<1>7. ReferencesExact' /\ kref' \in [Objs -> Nat]
  BY <1>1, <1>4, <1>5, <1>6, FilePuts DEF UsbInv, ObjInv
<1>8. /\ udev' \in [Objs -> Devs \cup {None}]
      /\ \A x \in Objs \ {o} : udev'[x] = udev[x]
      /\ udev'[o] = IF kref[o] = 1 THEN None ELSE udev[o]
  BY <1>1 DEF kref_put, UsbInv, TypeOK
<1>9. Owners(o) # {} => udev'[o] = udev[o]
  BY <1>5, <1>8, NotTheLast DEF UsbInv, ObjInv
<1>10. OwnerKnown'
  BY <1>4, <1>8, <1>9 DEF UsbInv, ObjInv, OwnerKnown
<1>11. OwnerStays'
  BY <1>2, <1>4, <1>8 DEF UsbInv, ObjInv, OwnerStays
<1>12. CoreInv'
  BY <1>2, <1>3 DEF UsbInv, CoreInv, CoreOK, NewUnopened
<1>13. CallInv'
  <2>1. ASSUME NEW p \in Procs
        PROVE  CallOK(p)'
    <3>1. CallOK(p) /\ (Opening(p)' <=> Opening(p)) /\ (Transferring(p)' <=> Transferring(p))
      BY <1>2 DEF UsbInv, CallInv, Opening, Transferring
    <3>2. call[p].file # None => private_data'[call[p].file] = private_data[call[p].file]
      BY <1>2, <1>3 DEF UsbInv, TypeOK
    <3>3. ASSUME Transferring(p)
          PROVE  udev'[call[p].obj] = udev[call[p].obj]
      <4>1. call[p].obj \in Objs /\ call[p].file \in Openers(call[p].obj)
        BY <3>1, <3>3 DEF CallOK, Openers, UsbInv, TypeOK, Transferring
      <4>2. call[p].obj = o => kref[o] # 1
        BY <1>2, <1>5, <4>1, NotTheLastFile DEF UsbInv, ObjInv
      <4> QED BY <1>8, <4>1, <4>2
    <3>4. (call[p].dev \in Owners(call[p].obj))' <=> call[p].dev \in Owners(call[p].obj)
      BY <1>2 DEF Owners
    <3> QED BY <1>2, <3>1, <3>2, <3>3, <3>4 DEF CallOK, Opening, Transferring
  <2> QED BY <2>1 DEF CallInv
<1>14. UrbInv'
  BY <1>2, UrbFrame DEF UsbInv
<1>15. TypeOK'
  BY <1>2, <1>7, <1>8 DEF UsbInv, TypeOK
<1> QED BY <1>7, <1>10, <1>11, <1>12, <1>13, <1>14, <1>15 DEF UsbInv, ObjInv

-----------------------------------------------------------------------------
(* All steps *)

LEMMA InitBothInv == BothInit => BothInv
<1> SUFFICES ASSUME Init, loaded = "none", leaving = FALSE PROVE UsbInv /\ LoadInv
  BY DEF BothInit, BothInv
<1> USE NoneIsNew
<1>1. TypeOK
  <2>1. NoCall \in [file : Files \cup {None}, dev : Devs \cup {None},
                    obj : Objs \cup {None}, len : Nat]
    BY DEF NoCall
  <2>2. NoUrb \in [dir : {"none", "in", "out"}, obj : Objs \cup {None},
                   dev : Devs \cup {None}, proc : Procs \cup {None}, len : Nat]
    BY DEF NoUrb
  <2> QED BY <2>1, <2>2 DEF Init, TypeOK, CorePC, PC
<1>2. CoreInv
  BY DEF Init, CoreInv, CoreOK, NewUnopened
<1>3. ObjInv
  <2>1. \A o \in Objs : Owners(o) = {} /\ Openers(o) = {}
    BY DEF Init, Owners, Openers
  <2>2. ReferencesExact
    <3>1. ASSUME NEW o \in Objs
          PROVE  kref[o] = 0 /\ Cardinality(Owners(o)) = 0 /\ Cardinality(Openers(o)) = 0
      BY <2>1, FS_EmptySet DEF Init
    <3> QED BY <3>1 DEF ReferencesExact
  <2>3. OwnerKnown /\ OwnerStays
    BY <2>1 DEF Init, OwnerKnown, OwnerStays
  <2> QED BY <2>2, <2>3 DEF ObjInv
<1>4. CallInv
  BY DEF Init, CallInv, CallOK, NoCall, Opening, Transferring
<1>5. UrbInv
  BY DEF Init, UrbInv, UrbOK
<1>6. LoadInv
  BY DEF Init, LoadInv
<1> QED BY <1>1, <1>2, <1>3, <1>4, <1>5, <1>6 DEF UsbInv

\* What the core does with a device when the bulk driver is loaded.
LEMMA DriverStepKeeps ==
    ASSUME UsbInv, LoadInv, NEW d \in Devs, loaded = "bulk", DriverStep(d),
           UNCHANGED <<loaded, leaving>>
    PROVE  UsbInv'
<1> USE NoneIsNew
<1>0. CoreOK(d) /\ NewUnopened(d)
  BY DEF UsbInv, CoreInv
<1>1. CASE ProbeAlloc(d)
  <2>1. CASE AllocObject(d) /\ CoreGoto(d, "endpoints")
    BY <1>1, <2>1, AllocStep DEF ProbeAlloc
  <2>2. CASE CoreGoto(d, "unbound") /\ UNCHANGED <<dev, objVars, bufVars>>
    <3>1. /\ core'[d] = "unbound" /\ core[d] = "probe"
          /\ \A e \in Devs \ {d} : core'[e] = core[e]
      BY <1>1, <2>2 DEF ProbeAlloc, CoreGoto, UsbInv, TypeOK
    <3>2. CoreOK(d)'
      BY <1>0, <1>1, <2>2, <3>1 DEF ProbeAlloc, CoreOK
    <3>3. CoreInv' /\ ObjInv' /\ CallInv' /\ UrbInv'
      BY <1>1, <2>2, <3>1, <3>2, QuietCore DEF ProbeAlloc
    <3>4. TypeOK'
      BY <1>1, <2>2 DEF ProbeAlloc, CoreGoto, UsbInv, TypeOK, CorePC, objVars, bufVars
    <3> QED BY <3>3, <3>4 DEF UsbInv
  <2> QED BY <1>1, <2>1, <2>2 DEF ProbeAlloc
<1>2. CASE ProbeEndpoints(d)
  <2>1. CASE intfdata' = [intfdata EXCEPT ![d] = dev[d]] /\ CoreGoto(d, "register")
             /\ UNCHANGED <<dev, objVars>>
    BY <1>2, <2>1, SetUpStep DEF ProbeEndpoints
  <2>2. CASE ProbeError(d) /\ UNCHANGED intfdata
    <3>1. intfdata' = [intfdata EXCEPT ![d] = None]
      BY <1>0, <1>2, <2>2 DEF ProbeEndpoints, CoreOK, UsbInv, TypeOK
    <3>2. ep_on' \subseteq plugged'
      BY <1>2 DEF ProbeEndpoints, UsbInv, TypeOK
    <3> QED BY <1>2, <2>2, <3>1, <3>2, CorePuts DEF ProbeEndpoints, ProbeError
  <2> QED BY <1>2, <2>1, <2>2 DEF ProbeEndpoints
<1>3. CASE ProbeRegister(d)
  <2>1. CASE /\ minors' = minors \cup {d} /\ CoreGoto(d, "bound")
             /\ dev' = [dev EXCEPT ![d] = None] /\ UNCHANGED <<intfdata, objVars>>
    BY <1>3, <2>1, RegisterStep DEF ProbeRegister
  <2>2. CASE intfdata' = [intfdata EXCEPT ![d] = None] /\ ProbeError(d) /\ UNCHANGED minors
    <3>1. ep_on' \subseteq plugged'
      BY <1>3 DEF ProbeRegister, UsbInv, TypeOK
    <3> QED BY <1>3, <2>2, <3>1, CorePuts DEF ProbeRegister, ProbeError
  <2> QED BY <1>3, <2>1, <2>2 DEF ProbeRegister
<1>4. CASE Disconnect(d)
  BY <1>4, DisconnectBegins
<1>5. CASE Deregister(d)
  BY <1>5, DeregisterStep
<1>6. CASE DisconnectPut(d)
  <2>1. intfdata' = [intfdata EXCEPT ![d] = None]
    BY <1>0, <1>6 DEF DisconnectPut, CoreOK, UsbInv, TypeOK
  <2>2. ep_on' \subseteq plugged'
    BY <1>6 DEF DisconnectPut, UsbInv, TypeOK
  <2>3. PICK c \in {"unbound", "bound", "gone"} :
            c = (IF d \in plugged THEN "unbound" ELSE "gone") /\ CoreGoto(d, c)
    BY <1>6 DEF DisconnectPut
  <2> QED BY <1>6, <2>1, <2>2, <2>3, CorePuts DEF DisconnectPut
<1> QED BY <1>1, <1>2, <1>3, <1>4, <1>5, <1>6 DEF DriverStep, ProbeStep, DisconnectStep

\* And when it is the interrupt driver, whose probe never registers it.
LEMMA IntDriverStepKeeps ==
    ASSUME UsbInv, LoadInv, NEW d \in Devs, loaded = "int", IntDriverStep(d),
           UNCHANGED <<loaded, leaving>>
    PROVE  UsbInv'
<1> USE NoneIsNew
<1>0. CoreOK(d) /\ NewUnopened(d)
  BY DEF UsbInv, CoreInv
<1>1. CASE IntProbeAlloc(d)
  <2>1. CASE AllocObject(d) /\ CoreGoto(d, "endpoints")
    BY <1>0, <1>1, <2>1, AllocStep DEF IntProbeAlloc
  <2>2. CASE CoreGoto(d, "bound") /\ UNCHANGED <<dev, objVars, bufVars>>
    <3>1. /\ core'[d] = "bound" /\ core[d] = "probe"
          /\ \A e \in Devs \ {d} : core'[e] = core[e]
      BY <1>0, <1>1, <2>2 DEF IntProbeAlloc, CoreGoto, UsbInv, TypeOK
    <3>2. CoreOK(d)'
      BY <1>0, <1>1, <2>2, <3>1 DEF IntProbeAlloc, CoreOK
    <3>3. CoreInv' /\ ObjInv' /\ CallInv' /\ UrbInv'
      BY <1>0, <1>1, <2>2, <3>1, <3>2, QuietCore DEF IntProbeAlloc
    <3>4. TypeOK'
      BY <1>1, <2>2 DEF IntProbeAlloc, CoreGoto, UsbInv, TypeOK, CorePC, objVars, bufVars
    <3> QED BY <3>3, <3>4 DEF UsbInv
  <2> QED BY <1>1, <2>1, <2>2 DEF IntProbeAlloc
<1>2. CASE IntProbeEndpoints(d)
  <2>1. ~IntHasEndpoints(d)
    BY DEF IntHasEndpoints, IntMatches
  <2>2. intfdata' = [intfdata EXCEPT ![d] = None]
    BY <1>0, <1>2, <2>1 DEF IntProbeEndpoints, CoreOK, UsbInv, TypeOK
  <2>3. ep_on' \subseteq plugged'
    BY <1>2 DEF IntProbeEndpoints, UsbInv, TypeOK
  <2> QED BY <1>0, <1>2, <2>1, <2>2, <2>3, CorePuts DEF IntProbeEndpoints
<1>3. CASE IntDisconnect(d)
  BY <1>3, IntDisconnectStep
<1> QED BY <1>1, <1>2, <1>3 DEF IntDriverStep

LEMMA UserNextKeeps ==
    ASSUME UsbInv, LoadInv, UserNext, UNCHANGED <<loaded, leaving>>
    PROVE  UsbInv'
<1>1. ASSUME NEW d \in Devs, UserCable(d)
      PROVE  UsbInv'
  BY <1>1, PlugStep, UnplugStep, TakeOffStep DEF UserCable, Unbind
<1>2. ASSUME NEW p \in Procs, Step(p)
      PROVE  UsbInv'
  BY <1>2, OpenFindStep, OpenGetStep, ReadSizeStep, SubmitStep DEF Step
<1>3. ASSUME NEW p \in Procs, UserCall(p)
      PROVE  UsbInv'
  BY <1>3, ReadEnterStep, WriteEnterStep DEF UserCall
<1> QED BY <1>1, <1>2, <1>3, ReleaseStep, CompleteStep DEF UserNext

\* Loading, and the begin and the end of unloading, change what CoreOK says
\* of a device, but not its state.
LEMMA LoadKeeps ==
    ASSUME UsbInv, UNCHANGED vars, \A d \in Devs : CoreOK(d)'
    PROVE  UsbInv'
<1>1. CoreInv'
  BY DEF UsbInv, CoreInv, NewUnopened, vars, coreVars
<1>2. \A o \in Objs : Owners(o)' = Owners(o) /\ Openers(o)' = Openers(o)
  BY DEF Owners, Openers, vars, coreVars
<1>3. ObjInv'
  BY <1>2 DEF UsbInv, ObjInv, ReferencesExact, OwnerKnown, OwnerStays, Owners, Openers,
              vars, coreVars, objVars
<1>4. CallInv' /\ UrbInv'
  BY DEF UsbInv, vars, coreVars, objVars, CallInv, CallOK, Opening, Transferring,
         Owners, UrbInv, UrbOK
<1>5. TypeOK'
  BY DEF UsbInv, TypeOK, vars, coreVars, objVars, bufVars
<1> QED BY <1>1, <1>3, <1>4, <1>5 DEF UsbInv

-----------------------------------------------------------------------------
(* The modules *)

\* What a step that neither loads nor unloads does to LoadInv.
LEMMA LoadFrame ==
    ASSUME LoadInv, UNCHANGED <<loaded, leaving>>,
           readers' \subseteq readers,
           \A f \in Files : private_data'[f] \in {None, private_data[f]},
           loaded = "none" => \A d \in Devs : core'[d] \in {"absent", "unbound", "gone"}
    PROVE  LoadInv'
BY DEF LoadInv

\* Cables, and processes.
LEMMA UserLoad ==
    ASSUME UsbInv, LoadInv, UserNext, UNCHANGED <<loaded, leaving>>
    PROVE  LoadInv'
<1>1. CASE \E d \in Devs : UserCable(d)
  <2>1. PICK d \in Devs : UserCable(d)
    BY <1>1
  <2>2. UNCHANGED <<readers, private_data>>
    BY <2>1 DEF UserCable, Plug, Unplug, Unbind, TakeOff
  <2>3. \A e \in Devs \ {d} : core'[e] = core[e]
    BY <2>1 DEF UserCable, Plug, Unplug, Unbind, TakeOff, CoreGoto, UsbInv, TypeOK
  <2>4. core'[d] \in {"unbound", "gone"} \/ core[d] \notin {"absent", "unbound", "gone"}
    BY <2>1 DEF UserCable, Plug, Unplug, Unbind, TakeOff, CoreGoto, UsbInv, TypeOK
  <2> QED BY <2>2, <2>3, <2>4, LoadFrame DEF LoadInv
<1>2. ASSUME NEW p \in Procs, Step(p)
      PROVE  LoadInv'
  <2>1. CASE OpenGet(p)
    <3>1. p \in readers
      BY <2>1 DEF OpenGet, UsbInv, CallInv, CallOK, Opening
    <3>2. ~leaving /\ loaded # "none"
      BY <3>1 DEF LoadInv
    <3> QED BY <3>2 DEF LoadInv
  <2>2. CASE OpenFind(p) \/ ReadSize(p) \/ Submit(p)
    <3>1. readers' \subseteq readers /\ UNCHANGED <<core, private_data>>
      BY <2>2 DEF OpenFind, ReadSize, Submit, coreVars
    <3> QED BY <3>1, LoadFrame DEF LoadInv
  <2> QED BY <1>2, <2>1, <2>2 DEF Step
<1>3. ASSUME NEW p \in Procs, UserCall(p)
      PROVE  LoadInv'
  <2>1. UNCHANGED <<core, readers, private_data>>
    BY <1>3 DEF UserCall, ReadEnter, WriteEnter, coreVars
  <2> QED BY <2>1, LoadFrame DEF LoadInv
<1>4. ASSUME NEW f \in Files, stm32_release(f)
      PROVE  LoadInv'
  <2>1. /\ UNCHANGED <<core, readers>>
        /\ \A g \in Files : private_data'[g] \in {None, private_data[g]}
    BY <1>4 DEF stm32_release, coreVars, UsbInv, TypeOK
  <2> QED BY <2>1, LoadFrame DEF LoadInv
<1>5. ASSUME NEW u \in Urbs, Complete(u)
      PROVE  LoadInv'
  <2>1. UNCHANGED <<core, readers, private_data>>
    BY <1>5 DEF Complete, coreVars
  <2> QED BY <2>1, LoadFrame DEF LoadInv
<1> QED BY <1>1, <1>2, <1>3, <1>4, <1>5 DEF UserNext

\* The steps of a driver that is there.
LEMMA CoreKeeps ==
    ASSUME UsbInv, LoadInv, CoreNext, UNCHANGED <<loaded, leaving>>
    PROVE  UsbInv' /\ LoadInv'
<1>1. UsbInv'
  BY OfferStep, DriverStepKeeps, IntDriverStepKeeps DEF CoreNext
<1>2. loaded # "none"
  BY DEF CoreNext
<1>3. UNCHANGED <<readers, private_data>>
  BY DEF CoreNext, Offer, DriverStep, ProbeStep, DisconnectStep, ProbeAlloc, ProbeEndpoints,
         ProbeRegister, Disconnect, Deregister, DisconnectPut, IntDriverStep, IntProbeAlloc,
         IntProbeEndpoints, IntDisconnect
<1> QED BY <1>1, <1>2, <1>3, LoadFrame

LEMMA OpenKeeps ==
    ASSUME UsbInv, LoadInv, ~leaving, NEW p \in Procs, stm32_open(p),
           UNCHANGED <<loaded, leaving>>
    PROVE  UsbInv' /\ LoadInv'
<1>1. PICK f \in Files, d \in Devs : OpenEnter(p, f, d)
  BY DEF stm32_open
<1>2. UsbInv'
  BY <1>1, OpenEnterStep
<1>3. loaded = "bulk"
  BY <1>1 DEF OpenEnter, UsbInv, CoreInv, CoreOK
<1> QED BY <1>2, <1>3 DEF LoadInv

LEMMA InitKeeps ==
    ASSUME UsbInv, LoadInv, stm32_init
    PROVE  UsbInv' /\ LoadInv'
<1>1. \A d \in Devs : CoreOK(d)'
  BY DEF UsbInv, CoreInv, CoreOK, LoadInv, stm32_init, vars, coreVars
<1>2. LoadInv'
  BY DEF LoadInv, stm32_init, vars, coreVars
<1> QED BY <1>1, <1>2, LoadKeeps DEF stm32_init

LEMMA ExitKeeps ==
    ASSUME UsbInv, LoadInv, stm32_exit
    PROVE  UsbInv' /\ LoadInv'
<1>1. CASE ExitBegins
  <2>1. \A d \in Devs : CoreOK(d)'
    BY <1>1 DEF UsbInv, CoreInv, CoreOK, ExitBegins, vars, coreVars
  <2>2. LoadInv'
    BY <1>1 DEF LoadInv, ExitBegins, vars, coreVars
  <2> QED BY <1>1, <2>1, <2>2, LoadKeeps DEF ExitBegins
<1>2. ASSUME NEW d \in Devs, ExitTakesOff(d)
      PROVE  UsbInv' /\ LoadInv'
  <2>1. UsbInv'
    BY <1>2, TakeOffStep DEF ExitTakesOff
  <2>2. LoadInv'
    BY <1>2, LoadFrame DEF ExitTakesOff, TakeOff, LoadInv
  <2> QED BY <2>1, <2>2
<1>3. CASE ExitEnds
  <2>1. \A d \in Devs : CoreOK(d)'
    BY <1>3 DEF UsbInv, CoreInv, CoreOK, ExitEnds, vars, coreVars
  <2>2. LoadInv'
    BY <1>3 DEF LoadInv, ExitEnds, vars, coreVars
  <2> QED BY <1>3, <2>1, <2>2, LoadKeeps DEF ExitEnds
<1> QED BY <1>1, <1>2, <1>3 DEF stm32_exit

LEMMA NextBothInv == BothInv /\ [BothNext]_bothVars => BothInv'
<1> SUFFICES ASSUME UsbInv, LoadInv, [BothNext]_bothVars PROVE UsbInv' /\ LoadInv'
  BY DEF BothInv
<1>1. CASE UserNext /\ UNCHANGED <<loaded, leaving>>
  BY <1>1, UserNextKeeps, UserLoad
<1>2. CASE CoreNext /\ UNCHANGED <<loaded, leaving>>
  BY <1>2, CoreKeeps
<1>3. CASE /\ ~leaving /\ \E p \in Procs : stm32_open(p)
           /\ UNCHANGED <<loaded, leaving>>
  BY <1>3, OpenKeeps
<1>4. CASE UNCHANGED bothVars
  <2>1. \A d \in Devs : CoreOK(d)'
    BY <1>4 DEF UsbInv, CoreInv, CoreOK, bothVars, vars, coreVars
  <2>2. UsbInv'
    BY <1>4, <2>1, LoadKeeps DEF bothVars
  <2> QED BY <1>4, <2>2 DEF LoadInv, bothVars, vars, coreVars
<1> QED BY <1>1, <1>2, <1>3, <1>4, InitKeeps, ExitKeeps DEF BothNext

\* All of it holds in every state of the two drivers under the core.
THEOREM BothInvHolds == BothSpec => []BothInv
BY InitBothInv, NextBothInv, PTL DEF BothSpec

\* The variables keep their types; above all no count drops below zero.
THEOREM UsbTypeOK == BothSpec => []TypeOK
<1>1. BothInv => TypeOK
  BY DEF BothInv, UsbInv
<1> QED BY <1>1, BothInvHolds, PTL

\* stm32_kref counts the probe and the open files, no more and no less, at
\* every step of probe, its error paths, disconnect, open and release.
THEOREM ReferencesExactHolds == BothSpec => []ReferencesExact
<1>1. BothInv => ReferencesExact
  BY DEF BothInv, UsbInv, ObjInv
<1> QED BY <1>1, BothInvHolds, PTL

\* Nobody who can still reach an object finds it deleted, not even an open
\* that disconnect has overtaken.
THEOREM PointersLiveHolds == BothSpec => []PointersLive
<1>1. BothInv => PointersLive
  <2> SUFFICES ASSUME UsbInv PROVE PointersLive
    BY DEF BothInv
  <2>1. \A o \in Objs : Owners(o) # {} \/ Openers(o) # {} => kref[o] > 0
    BY Referenced DEF UsbInv, ObjInv
  <2>2. ASSUME NEW d \in Devs
        PROVE  /\ dev[d] # None => kref[dev[d]] > 0
               /\ intfdata[d] # None => kref[intfdata[d]] > 0
    BY <2>1 DEF Owners, UsbInv, TypeOK
  <2>3. ASSUME NEW f \in Files, private_data[f] # None
        PROVE  kref[private_data[f]] > 0
    <3>1. private_data[f] \in Objs /\ f \in Openers(private_data[f])
      BY <2>3 DEF Openers, UsbInv, TypeOK
    <3> QED BY <2>1, <3>1
  <2>4. ASSUME NEW p \in Procs, call[p].obj # None
        PROVE  kref[call[p].obj] > 0
    <3>1. CallOK(p) /\ pc[p] \notin {"idle", "find"}
      BY <2>4 DEF UsbInv, CallInv, CallOK
    <3>2. CASE pc[p] = "get"
      BY <2>1, <3>1, <3>2 DEF CallOK
    <3>3. CASE Transferring(p)
      <4>1. call[p].obj \in Objs /\ call[p].file \in Openers(call[p].obj)
        BY <3>1, <3>3 DEF CallOK, Openers, UsbInv, TypeOK, Transferring
      <4> QED BY <2>1, <4>1
    <3> QED BY <3>1, <3>2, <3>3 DEF UsbInv, TypeOK, PC, Transferring
  <2> QED BY <2>2, <2>3, <2>4 DEF PointersLive
<1> QED BY <1>1, BothInvHolds, PTL

\* A transfer, which holds no reference, finds its object, whatever is closed
\* or unplugged before it completes.
THEOREM TransferFindsObjectHolds == BothSpec => []TransferFindsObject
<1>1. BothInv => TransferFindsObject
  <2> SUFFICES ASSUME UsbInv, NEW u \in Urbs, urb[u] # NoUrb, urb[u].dev \notin UNBINDABLE
               PROVE  Finds(u)
    BY DEF BothInv, TransferFindsObject
  <2>1. urb[u].dev \in Devs /\ urb[u].obj \in Objs /\ urb[u].dev \in Owners(urb[u].obj)
    BY DEF UsbInv, UrbInv, UrbOK, Owners
  <2>2. kref[urb[u].obj] > 0
    BY <2>1, Referenced DEF UsbInv, ObjInv
  <2>3. udev[urb[u].obj] = urb[u].dev
    BY <2>1 DEF UsbInv, ObjInv, OwnerKnown
  <2> QED BY <2>2, <2>3 DEF Finds
<1> QED BY <1>1, BothInvHolds, PTL

\* The interrupt driver never registers a device, whatever its endpoints.
THEOREM NothingToOpenHolds == BothSpec => []NothingToOpen
<1>1. BothInv => NothingToOpen
  BY DEF BothInv, UsbInv, CoreInv, CoreOK, NothingToOpen
<1> QED BY <1>1, BothInvHolds, PTL

\* The end of rmmod is the end of all the module has begun: every object is
\* freed, every minor number given back, every file closed, every transfer
\* over.
THEOREM UnloadedLeavesNothingHolds == BothSpec => []UnloadedLeavesNothing
<1>1. BothInv => UnloadedLeavesNothing
  <2> SUFFICES ASSUME UsbInv, LoadInv, loaded = "none"
               PROVE  /\ minors = {} /\ \A o \in Objs : kref[o] = 0
                      /\ \A f \in Files : private_data[f] = None
                      /\ \A u \in Urbs : urb[u] # NoUrb => urb[u].dev \in UNBINDABLE
    BY DEF BothInv, UnloadedLeavesNothing
  <2>1. \A d \in Devs : dev[d] = None /\ intfdata[d] = None /\ d \notin minors
    BY DEF UsbInv, CoreInv, CoreOK, LoadInv
  <2>2. minors = {}
    BY <2>1 DEF UsbInv, TypeOK
  <2>3. \A f \in Files : private_data[f] = None
    BY DEF LoadInv
  <2>4. ASSUME NEW o \in Objs
        PROVE  kref[o] = 0
    <3>1. Owners(o) = {} /\ Openers(o) = {}
      BY <2>1, <2>3, NoneIsNew DEF Owners, Openers
    <3>2. Cardinality(Owners(o)) = 0 /\ Cardinality(Openers(o)) = 0
      BY <3>1, FS_EmptySet
    <3> QED BY <3>2 DEF UsbInv, ObjInv, ReferencesExact
  <2>5. \A u \in Urbs : urb[u] # NoUrb => urb[u].dev \in UNBINDABLE
    BY DEF UsbInv, UrbInv, UrbOK, LoadInv
  <2> QED BY <2>2, <2>3, <2>4, <2>5
<1> QED BY <1>1, BothInvHolds, PTL
=============================================================================
