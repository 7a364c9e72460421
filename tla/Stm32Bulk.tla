----------------------------- MODULE Stm32Bulk -----------------------------
(***************************************************************************)
(* stm32_bulk_driver_v2.c: a USB driver that keeps one usb_stm32 object    *)
(* per plugged device, shared by the USB core (probe, disconnect), the     *)
(* processes that have the device open, and the transfers in flight.  The  *)
(* question is how long the object lives and whom its fields speak of.     *)
(*                                                                         *)
(* The USB core is modelled by what the driver relies on: open runs under  *)
(* minor_rwsem held for reading, usb_register_dev and usb_deregister_dev   *)
(* take it for writing; before disconnect the core stops the endpoints and *)
(* waits for the transfers in flight, and a stopped endpoint refuses new   *)
(* ones; when a device that is still plugged in has been unbound, the core *)
(* enables its endpoints again.                                            *)
(***************************************************************************)
EXTENDS Integers, Sequences, FiniteSets

CONSTANTS
    Devs,       \* the devices that may be plugged in, each once
    Objs,       \* the memory blocks usb_stm32 objects are allocated from
    Procs,      \* the user processes, each with a buffer of its own
    Files,      \* the open file descriptions
    Urbs,       \* the request blocks; bounds the transfers in flight
    Desc,       \* Desc[d]: the endpoints device d describes
    Lens,       \* the lengths user programs ask for
    UNBINDABLE, \* the devices that may be unbound while they are plugged in
    None

Endpoint == [dir : {"in", "out"}, bulk : BOOLEAN, max : Nat]

ASSUME BulkAssumption ==
    /\ Desc \in [Devs -> Seq(Endpoint)]
    /\ Lens \subseteq Nat
    /\ UNBINDABLE \subseteq Devs
    /\ IsFiniteSet(Devs) /\ IsFiniteSet(Files)
    /\ \A S \in {Devs, Objs, Procs, Files} : None \notin S

VARIABLES
    plugged,        \* the devices that are there
    ep_on,          \* the devices whose endpoints accept transfers
    core,           \* core[d]: what the USB core does with d next
    dev,            \* dev[d]: pUSB_stm32_dev of stm32_probe and stm32_disconnect
    intfdata,       \* the interface's data pointer
    minors,         \* the devices that have a minor number
    readers,        \* the processes that hold minor_rwsem for reading
    kref,           \* stm32_kref; 0 is a free block
    udev,           \* stm32_udev
    Rx_UsrSpc_Buf,  \* the process whose buffer the next answer goes to
    Rx_Actual_Size, \* and how many bytes of it
    private_data,   \* private_data of each file, None when it is not open
    pc, call,       \* call[p]: file, device, object and length of p's call
    urb             \* the transfers in flight

coreVars == <<plugged, ep_on, core, dev, intfdata, minors>>
objVars == <<kref, udev>>
bufVars == <<Rx_UsrSpc_Buf, Rx_Actual_Size>>
vars == <<coreVars, readers, objVars, bufVars, private_data, pc, call, urb>>

NoUrb == [dir |-> "none", obj |-> None, dev |-> None, proc |-> None, len |-> 0]
NoCall == [file |-> None, dev |-> None, obj |-> None, len |-> 0]

CorePC == {"absent", "probe", "endpoints", "register", "bound", "flush",
           "deregister", "put", "unbound", "gone", "oops"}
PC == {"idle", "find", "get", "size", "submit_in", "submit_out"}

Init ==
    /\ plugged = {} /\ ep_on = {} /\ minors = {} /\ readers = {}
    /\ core = [d \in Devs |-> "absent"]
    /\ dev = [d \in Devs |-> None]
    /\ intfdata = [d \in Devs |-> None]
    /\ kref = [o \in Objs |-> 0]
    /\ udev = [o \in Objs |-> None]
    /\ Rx_UsrSpc_Buf = [o \in Objs |-> None]
    /\ Rx_Actual_Size = [o \in Objs |-> 0]
    /\ private_data = [f \in Files |-> None]
    /\ pc = [p \in Procs |-> "idle"]
    /\ call = [p \in Procs |-> NoCall]
    /\ urb = [u \in Urbs |-> NoUrb]

CoreGoto(d, next) == core' = [core EXCEPT ![d] = next]
Goto(p, next) == pc' = [pc EXCEPT ![p] = next]

\* kref_put; at zero stm32_delete frees the object and all it owns.
kref_put(o) ==
    /\ kref' = [kref EXCEPT ![o] = @ - 1]
    /\ udev' = IF kref[o] = 1 THEN [udev EXCEPT ![o] = None] ELSE udev

\* The first bulk endpoint of a direction: the others are passed over.
BulkEndpoints(d, dir) == SelectSeq(Desc[d], LAMBDA ep : ep.bulk /\ ep.dir = dir)
HasEndpoints(d) == \A dir \in {"in", "out"} : BulkEndpoints(d, dir) # <<>>
PacketSize(o, dir) == Head(BulkEndpoints(udev[o], dir)).max

-----------------------------------------------------------------------------
(* The USB core and stm32_probe *)

\* A device is there, without a driver.
Plug(d) ==
    /\ core[d] = "absent"
    /\ CoreGoto(d, "unbound")
    /\ plugged' = plugged \cup {d}
    /\ ep_on' = ep_on \cup {d}
    /\ UNCHANGED <<dev, intfdata, minors, readers, objVars, bufVars, private_data,
                   pc, call, urb>>

\* The core offers it to the driver: when it has been plugged in, and again
\* by hand, also after a probe that failed.
Offer(d) ==
    /\ core[d] = "unbound"
    /\ CoreGoto(d, "probe")
    /\ UNCHANGED <<plugged, ep_on, dev, intfdata, minors, readers, objVars, bufVars,
                   private_data, pc, call, urb>>

\* kmalloc, memset and kref_init of d's object.
AllocObject(d) ==
    \E o \in Objs :
        /\ kref[o] = 0
        /\ kref' = [kref EXCEPT ![o] = 1]
        /\ udev' = [udev EXCEPT ![o] = d]
        /\ Rx_UsrSpc_Buf' = [Rx_UsrSpc_Buf EXCEPT ![o] = None]
        /\ Rx_Actual_Size' = [Rx_Actual_Size EXCEPT ![o] = 0]
        /\ dev' = [dev EXCEPT ![d] = o]

\* The object, or -ENOMEM.
ProbeAlloc(d) ==
    /\ core[d] = "probe"
    /\ \/ AllocObject(d) /\ CoreGoto(d, "endpoints")
       \/ CoreGoto(d, "unbound") /\ UNCHANGED <<dev, objVars, bufVars>>
    /\ UNCHANGED <<plugged, ep_on, intfdata, minors, readers, private_data, pc, call, urb>>

\* error: of stm32_probe.
ProbeError(d) ==
    /\ kref_put(dev[d])
    /\ dev' = [dev EXCEPT ![d] = None]
    /\ CoreGoto(d, "unbound")

\* The search for the endpoints, and the transfer buffers.  It fails when an
\* endpoint is missing or a kmalloc fails.
ProbeEndpoints(d) ==
    /\ core[d] = "endpoints"
    /\ \/ /\ HasEndpoints(d)
          /\ intfdata' = [intfdata EXCEPT ![d] = dev[d]]
          /\ CoreGoto(d, "register")
          /\ UNCHANGED <<dev, objVars>>
       \/ ProbeError(d) /\ UNCHANGED intfdata
    /\ UNCHANGED <<plugged, ep_on, minors, readers, bufVars, private_data, pc, call, urb>>

\* Mutant: the error path of usb_register_dev returns without kref_put.
ProbeRegisterLeak(d) ==
    /\ core[d] = "register"
    /\ readers = {}
    /\ \/ /\ minors' = minors \cup {d}
          /\ CoreGoto(d, "bound")
          /\ dev' = [dev EXCEPT ![d] = None]
          /\ UNCHANGED <<intfdata, objVars>>
       \/ /\ intfdata' = [intfdata EXCEPT ![d] = None]
          /\ CoreGoto(d, "unbound")
          /\ dev' = [dev EXCEPT ![d] = None]
          /\ UNCHANGED <<minors, objVars>>
    /\ UNCHANGED <<plugged, ep_on, readers, bufVars, private_data, pc, call, urb>>

\* usb_register_dev: the device can be opened from here on; or it fails.
ProbeRegister(d) ==
    /\ core[d] = "register"
    /\ readers = {}
    /\ \/ /\ minors' = minors \cup {d}
          /\ CoreGoto(d, "bound")
          /\ dev' = [dev EXCEPT ![d] = None]
          /\ UNCHANGED <<intfdata, objVars>>
       \/ /\ intfdata' = [intfdata EXCEPT ![d] = None]
          /\ ProbeError(d)
          /\ UNCHANGED minors
    /\ UNCHANGED <<plugged, ep_on, readers, bufVars, private_data, pc, call, urb>>

\* The cable is pulled: transfers are refused from now on, and the core
\* starts to take the driver off.
Unplug(d) ==
    /\ d \in plugged
    /\ core[d] \in {"bound", "flush", "deregister", "put", "unbound"}
    /\ plugged' = plugged \ {d}
    /\ ep_on' = ep_on \ {d}
    /\ core' = [core EXCEPT ![d] = IF @ = "bound" THEN "flush"
                                   ELSE IF @ = "unbound" THEN "gone" ELSE @]
    /\ UNCHANGED <<dev, intfdata, minors, readers, objVars, bufVars, private_data,
                   pc, call, urb>>

\* The core takes the driver off a device that stays.
TakeOff(d) ==
    /\ core[d] = "bound"
    /\ ep_on' = ep_on \ {d}
    /\ CoreGoto(d, "flush")
    /\ UNCHANGED <<plugged, dev, intfdata, minors, readers, objVars, bufVars,
                   private_data, pc, call, urb>>

\* By hand, whether it is open or not.
Unbind(d) == d \in UNBINDABLE /\ TakeOff(d)

-----------------------------------------------------------------------------
(* stm32_disconnect *)

\* Mutant: the reference is given up before the minor number.
DisconnectPutEarly(d) ==
    /\ core[d] = "flush"
    /\ \A u \in Urbs : urb[u].dev # d
    /\ kref_put(intfdata[d])
    /\ dev' = [dev EXCEPT ![d] = intfdata[d]]
    /\ CoreGoto(d, "deregister")
    /\ UNCHANGED <<plugged, ep_on, intfdata, minors, readers, bufVars, private_data, pc, call, urb>>

\* The core has waited for the transfers; the driver takes the object off
\* the interface.
Disconnect(d) ==
    /\ core[d] = "flush"
    /\ \A u \in Urbs : urb[u].dev # d
    /\ dev' = [dev EXCEPT ![d] = intfdata[d]]
    /\ intfdata' = [intfdata EXCEPT ![d] = None]
    /\ CoreGoto(d, "deregister")
    /\ UNCHANGED <<plugged, ep_on, minors, readers, objVars, bufVars, private_data,
                   pc, call, urb>>

\* Mutant: disconnect waits until nobody has the device open.
DeregisterWhenUnused(d) ==
    /\ core[d] = "deregister"
    /\ readers = {}
    /\ kref[dev[d]] = 1
    /\ minors' = minors \ {d}
    /\ CoreGoto(d, "put")
    /\ UNCHANGED <<plugged, ep_on, dev, intfdata, readers, objVars, bufVars,
                   private_data, pc, call, urb>>

\* usb_deregister_dev: no open is in progress, and none will find d again.
Deregister(d) ==
    /\ core[d] = "deregister"
    /\ readers = {}
    /\ minors' = minors \ {d}
    /\ CoreGoto(d, "put")
    /\ UNCHANGED <<plugged, ep_on, dev, intfdata, readers, objVars, bufVars,
                   private_data, pc, call, urb>>

\* kref_put, and back in the core, which enables what is still plugged in.
DisconnectPut(d) ==
    /\ core[d] = "put"
    /\ kref_put(dev[d])
    /\ dev' = [dev EXCEPT ![d] = None]
    /\ CoreGoto(d, IF d \in plugged THEN "unbound" ELSE "gone")
    /\ ep_on' = ep_on \cup ({d} \cap plugged)
    /\ UNCHANGED <<plugged, intfdata, minors, readers, bufVars, private_data, pc, call, urb>>

-----------------------------------------------------------------------------
(* stm32_open and stm32_release *)

\* Nobody uses f, or is about to.
Unused(f) == private_data[f] = None /\ \A p \in Procs : call[p].file # f

\* The core finds the driver by the minor number, under minor_rwsem; a
\* writer that waits for the lock keeps new readers out.
OpenEnter(p, f, d) ==
    /\ pc[p] = "idle"
    /\ Unused(f)
    /\ d \in minors
    /\ \A e \in Devs : core[e] # "deregister"
    /\ readers' = readers \cup {p}
    /\ call' = [call EXCEPT ![p] = [NoCall EXCEPT !.file = f, !.dev = d]]
    /\ Goto(p, "find")
    /\ UNCHANGED <<coreVars, objVars, bufVars, private_data, urb>>

\* usb_find_interface and usb_get_intfdata; -ENODEV when disconnect was there.
OpenFind(p) ==
    /\ pc[p] = "find"
    /\ LET o == intfdata[call[p].dev]
       IN  IF o = None
           THEN /\ readers' = readers \ {p}
                /\ call' = [call EXCEPT ![p] = NoCall]
                /\ Goto(p, "idle")
           ELSE /\ call' = [call EXCEPT ![p].obj = o]
                /\ Goto(p, "get")
                /\ UNCHANGED readers
    /\ UNCHANGED <<coreVars, objVars, bufVars, private_data, urb>>

\* Mutant: the file keeps the object without a reference of its own.
OpenGetBorrowed(p) ==
    /\ pc[p] = "get"
    /\ private_data' = [private_data EXCEPT ![call[p].file] = call[p].obj]
    /\ readers' = readers \ {p}
    /\ call' = [call EXCEPT ![p] = NoCall]
    /\ Goto(p, "idle")
    /\ UNCHANGED <<coreVars, objVars, bufVars, urb>>

\* kref_get; the file keeps the object.
OpenGet(p) ==
    /\ pc[p] = "get"
    /\ kref' = [kref EXCEPT ![call[p].obj] = @ + 1]
    /\ private_data' = [private_data EXCEPT ![call[p].file] = call[p].obj]
    /\ readers' = readers \ {p}
    /\ call' = [call EXCEPT ![p] = NoCall]
    /\ Goto(p, "idle")
    /\ UNCHANGED <<coreVars, udev, bufVars, urb>>

\* The last reference to the file goes away; no call is in progress on it.
stm32_release(f) ==
    /\ private_data[f] # None
    /\ \A p \in Procs : call[p].file # f
    /\ kref_put(private_data[f])
    /\ private_data' = [private_data EXCEPT ![f] = None]
    /\ UNCHANGED <<coreVars, readers, bufVars, pc, call, urb>>

-----------------------------------------------------------------------------
(* stm32_read and stm32_write: both return before the transfer is over *)

\* A call of p on an open file that asks for n bytes within a packet.
\* Others are refused, or, by stm32_write, ignored.
Transfer(p, f, n, dir) ==
    /\ pc[p] = "idle"
    /\ private_data[f] # None
    /\ n >= 1 /\ n <= PacketSize(private_data[f], dir)
    /\ call' = [call EXCEPT ![p] = [file |-> f, dev |-> udev[private_data[f]],
                                    obj |-> private_data[f], len |-> n]]

ReadEnter(p, f, n) ==
    /\ Transfer(p, f, n, "in")
    /\ Rx_UsrSpc_Buf' = [Rx_UsrSpc_Buf EXCEPT ![private_data[f]] = p]
    /\ Goto(p, "size")
    /\ UNCHANGED <<coreVars, readers, objVars, Rx_Actual_Size, private_data, urb>>

ReadSize(p) ==
    /\ pc[p] = "size"
    /\ Rx_Actual_Size' = [Rx_Actual_Size EXCEPT ![call[p].obj] = call[p].len]
    /\ Goto(p, "submit_in")
    /\ UNCHANGED <<coreVars, readers, objVars, Rx_UsrSpc_Buf, private_data, call, urb>>

\* copy_from_user; the bytes are not modelled.  A write that faults ends as
\* one whose submission fails: with no transfer.
WriteEnter(p, f, n) ==
    /\ Transfer(p, f, n, "out")
    /\ Goto(p, "submit_out")
    /\ UNCHANGED <<coreVars, readers, objVars, bufVars, private_data, urb>>

\* usb_alloc_urb and usb_submit_urb.  Either may fail; a stopped endpoint
\* always refuses.  The call is over either way.
Submit(p) ==
    /\ pc[p] \in {"submit_in", "submit_out"}
    /\ \/ \E u \in Urbs :
             /\ urb[u] = NoUrb
             /\ call[p].dev \in ep_on
             /\ urb' = [urb EXCEPT ![u] =
                          [dir |-> IF pc[p] = "submit_in" THEN "in" ELSE "out",
                           obj |-> call[p].obj, dev |-> call[p].dev,
                           proc |-> p, len |-> call[p].len]]
       \/ UNCHANGED urb
    /\ call' = [call EXCEPT ![p] = NoCall]
    /\ Goto(p, "idle")
    /\ UNCHANGED <<coreVars, readers, objVars, bufVars, private_data>>

\* The transfer is over, or has been killed, and stm32_read_callback or
\* stm32_write_callback has run.
Complete(u) ==
    /\ urb[u] # NoUrb
    /\ urb' = [urb EXCEPT ![u] = NoUrb]
    /\ UNCHANGED <<coreVars, readers, objVars, bufVars, private_data, pc, call>>

-----------------------------------------------------------------------------

ProbeStep(d) == ProbeAlloc(d) \/ ProbeEndpoints(d) \/ ProbeRegister(d)
DisconnectStep(d) == Disconnect(d) \/ Deregister(d) \/ DisconnectPut(d)
UserCable(d) == Plug(d) \/ Unplug(d) \/ Unbind(d)

\* What the kernel executes for p once p has entered a call.
Step(p) == OpenFind(p) \/ OpenGet(p) \/ ReadSize(p) \/ Submit(p)

stm32_open(p) == \E f \in Files, d \in Devs : OpenEnter(p, f, d)

UserCall(p) == \E f \in Files, n \in Lens : ReadEnter(p, f, n) \/ WriteEnter(p, f, n)

DriverStep(d) == ProbeStep(d) \/ DisconnectStep(d)

\* What happens whether or not a driver is there: cables, and processes and
\* answers as long as there is a file or a transfer.
UserNext ==
    \/ \E d \in Devs : UserCable(d)
    \/ \E p \in Procs : Step(p) \/ UserCall(p)
    \/ \E f \in Files : stm32_release(f)
    \/ \E u \in Urbs : Complete(u)

\* The driver stays loaded.
Next ==
    \/ UserNext
    \/ \E p \in Procs : stm32_open(p)
    \/ \E d \in Devs : Offer(d) \/ DriverStep(d)

Spec == Init /\ [][Next]_vars

-----------------------------------------------------------------------------
(* Properties *)

TypeOK ==
    /\ plugged \subseteq Devs /\ ep_on \subseteq plugged /\ minors \subseteq Devs
    /\ readers \subseteq Procs
    /\ core \in [Devs -> CorePC]
    /\ dev \in [Devs -> Objs \cup {None}]
    /\ intfdata \in [Devs -> Objs \cup {None}]
    /\ kref \in [Objs -> Nat]
    /\ udev \in [Objs -> Devs \cup {None}]
    /\ Rx_UsrSpc_Buf \in [Objs -> Procs \cup {None}]
    /\ Rx_Actual_Size \in [Objs -> Nat]
    /\ private_data \in [Files -> Objs \cup {None}]
    /\ pc \in [Procs -> PC]
    /\ call \in [Procs -> [file : Files \cup {None}, dev : Devs \cup {None},
                           obj : Objs \cup {None}, len : Nat]]
    /\ urb \in [Urbs -> [dir : {"none", "in", "out"}, obj : Objs \cup {None},
                         dev : Devs \cup {None}, proc : Procs \cup {None}, len : Nat]]

\* The devices whose probe owns a reference to o that no disconnect, and no
\* error path, has given up yet; and the files that refer to o.
Owners(o) == {d \in Devs : dev[d] = o \/ intfdata[d] = o}
Openers(o) == {f \in Files : private_data[f] = o}

\* stm32_kref counts one reference for the probe of the device and one for
\* each open file ("refer at open - finish at release function"), in every
\* state of every probe, failed probe, disconnect and open.  So an object is
\* there exactly as long as one of them needs it: nothing leaks.
ReferencesExact ==
    \A o \in Objs : kref[o] = Cardinality(Owners(o)) + Cardinality(Openers(o))

\* Whatever still points to an object points to one that has not been
\* deleted: the interface, the core's handler, an open file, and a process
\* in stm32_open that has read the interface's pointer but not yet taken its
\* reference while stm32_disconnect is running.
PointersLive ==
    /\ \A d \in Devs : /\ dev[d] # None => kref[dev[d]] > 0
                       /\ intfdata[d] # None => kref[intfdata[d]] > 0
    /\ \A f \in Files : private_data[f] # None => kref[private_data[f]] > 0
    /\ \A p \in Procs : call[p].obj # None => kref[call[p].obj] > 0

Finds(u) == kref[urb[u].obj] > 0 /\ udev[urb[u].obj] = urb[u].dev

\* A transfer in flight finds the object, and with it the buffers, that it
\* was given, although it holds no reference and the file it was begun
\* through may be closed: the core waits for it before the disconnect, and an
\* unplugged device takes no other.
TransferFindsObject ==
    \A u \in Urbs : urb[u] # NoUrb /\ urb[u].dev \notin UNBINDABLE => Finds(u)

\* The same of a device that is unbound while it is plugged in, if "finish at
\* release function" were the end of all that an open file has begun.
FinishedAtRelease == \A u \in Urbs : urb[u] # NoUrb => Finds(u)

\* The record of where the answer goes is the one of the read that asked:
\* "save user space buffer".
AnswerGoesToItsReader ==
    \A u \in Urbs : urb[u].dir = "in" =>
        /\ Rx_UsrSpc_Buf[urb[u].obj] = urb[u].proc
        /\ Rx_Actual_Size[urb[u].obj] = urb[u].len
=============================================================================
