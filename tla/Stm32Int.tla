------------------------------ MODULE Stm32Int ------------------------------
(***************************************************************************)
(* stm32_int_driver.c and stm32_bulk_driver_v2.c, which claim the same     *)
(* devices, and register with the core under the same name: either is      *)
(* loaded, or none.  Their modules come and go, while devices are plugged  *)
(* in or not.                                                              *)
(*                                                                         *)
(* The probe of the interrupt driver differs from the bulk driver's in     *)
(* what it takes for an endpoint, and in retval, which is 0 at error: the  *)
(* core takes a probe that has failed for one that succeeded, and calls    *)
(* stm32_disconnect in the end.  Its stm32_open, stm32_read and            *)
(* stm32_write are not reached: NothingToOpen.                             *)
(***************************************************************************)
EXTENDS Stm32Bulk

VARIABLES
    loaded,     \* the driver that is registered: "bulk", "int" or "none"
    leaving     \* whether its module is being removed

bothVars == <<vars, loaded, leaving>>

\* bEndpointAddress is masked with the direction, and USB_DIR_OUT is 0: no
\* address passes for OUT.
IntMatches(ep, dir) == ~ep.bulk /\ ep.dir = dir /\ dir # "out"

IntHasEndpoints(d) ==
    \A dir \in {"in", "out"} : \E i \in 1 .. Len(Desc[d]) : IntMatches(Desc[d][i], dir)

\* As ProbeAlloc, but without memory the core is told that all is well.
IntProbeAlloc(d) ==
    /\ core[d] = "probe"
    /\ \/ AllocObject(d) /\ CoreGoto(d, "endpoints")
       \/ CoreGoto(d, "bound") /\ UNCHANGED <<dev, objVars, bufVars>>
    /\ UNCHANGED <<plugged, ep_on, intfdata, minors, readers, private_data, pc, call, urb>>

\* Mutant: usb_set_intfdata comes before the check of the endpoints.
IntProbeEndpointsDataFirst(d) ==
    /\ core[d] = "endpoints"
    /\ intfdata' = [intfdata EXCEPT ![d] = dev[d]]
    /\ kref_put(dev[d])
    /\ dev' = [dev EXCEPT ![d] = None]
    /\ CoreGoto(d, "bound")
    /\ UNCHANGED <<plugged, ep_on, minors, readers, bufVars, private_data, pc, call, urb>>

\* The search for the endpoints, which would go on to usb_register_dev; at
\* error the object is deleted, and 0 returned.
IntProbeEndpoints(d) ==
    /\ core[d] = "endpoints"
    /\ IF IntHasEndpoints(d)
       THEN /\ intfdata' = [intfdata EXCEPT ![d] = dev[d]]
            /\ CoreGoto(d, "register")
            /\ UNCHANGED <<dev, objVars>>
       ELSE /\ kref_put(dev[d])
            /\ dev' = [dev EXCEPT ![d] = None]
            /\ CoreGoto(d, "bound")
            /\ UNCHANGED intfdata
    /\ UNCHANGED <<plugged, ep_on, minors, readers, bufVars, private_data, pc, call, urb>>

\* stm32_disconnect, in which the thread of the core ends, with the device in
\* its hands.  usb_deregister_dev does nothing without a minor number;
\* kref_put follows what usb_get_intfdata has returned, a null pointer.
IntDisconnect(d) ==
    /\ core[d] = "flush"
    /\ intfdata[d] = None
    /\ CoreGoto(d, "oops")
    /\ UNCHANGED <<plugged, ep_on, dev, intfdata, minors, readers, objVars, bufVars,
                   private_data, pc, call, urb>>

IntDriverStep(d) == IntProbeAlloc(d) \/ IntProbeEndpoints(d) \/ IntDisconnect(d)

CoreNext ==
    \E d \in Devs :
       \/ loaded # "none" /\ ~leaving /\ Offer(d)
       \/ loaded = "bulk" /\ DriverStep(d)
       \/ loaded = "int" /\ IntDriverStep(d)

-----------------------------------------------------------------------------
(* Loading and unloading *)

\* usb_register, which fails while another driver has the name.
stm32_init ==
    /\ loaded = "none"
    /\ loaded' \in {"bulk", "int"}
    /\ UNCHANGED <<vars, leaving>>

\* rmmod, which is refused while a file, or an open in progress, holds the
\* module: .owner = THIS_MODULE.  From here on the driver is offered nothing,
\* and usb_open no longer gets the module.
ExitBegins ==
    /\ loaded # "none" /\ ~leaving
    /\ readers = {} /\ \A f \in Files : private_data[f] = None
    /\ leaving' = TRUE
    /\ UNCHANGED <<vars, loaded>>

\* usb_deregister takes the driver off one device after the other; in which
\* order, and how unplugging overlaps it, is left open.
ExitTakesOff(d) ==
    /\ leaving
    /\ TakeOff(d)
    /\ UNCHANGED <<loaded, leaving>>

\* Mutant: usb_deregister does not wait for the devices.
ExitEndsAtOnce ==
    /\ leaving
    /\ loaded' = "none" /\ leaving' = FALSE
    /\ UNCHANGED vars

\* The end of usb_deregister.
ExitEnds ==
    /\ leaving
    /\ \A d \in Devs : core[d] \in {"absent", "unbound", "gone"}
    /\ loaded' = "none" /\ leaving' = FALSE
    /\ UNCHANGED vars

stm32_exit == ExitBegins \/ ExitEnds \/ \E d \in Devs : ExitTakesOff(d)

-----------------------------------------------------------------------------

BothInit == Init /\ loaded = "none" /\ leaving = FALSE

BothNext ==
    \/ stm32_init
    \/ stm32_exit
    \/ /\ \/ UserNext
          \/ CoreNext
          \/ ~leaving /\ \E p \in Procs : stm32_open(p)
       /\ UNCHANGED <<loaded, leaving>>

BothSpec == BothInit /\ [][BothNext]_bothVars

\* The core kills the transfers of a stopped endpoint.
Kill(u) == urb[u].dev \notin ep_on /\ Complete(u) /\ UNCHANGED <<loaded, leaving>>

\* The core runs the handlers of the bulk driver to their end, also when the
\* module is removed, and the kernel every process inside a call; and
\* minor_rwsem is granted to a writer that waits for it.  Nobody is obliged
\* to plug, unplug, open, close, load or unload, and no transfer has to be
\* answered.
CoreEnds(d) ==
    /\ loaded = "bulk" /\ DriverStep(d)
    /\ UNCHANGED <<loaded, leaving>>

BothFairness ==
    /\ \A d \in Devs : WF_bothVars(CoreEnds(d))
    /\ \A p \in Procs : WF_bothVars(Step(p) /\ UNCHANGED <<loaded, leaving>>)
    /\ \A u \in Urbs : WF_bothVars(Kill(u))

BothFairSpec == BothSpec /\ BothFairness

-----------------------------------------------------------------------------
(* Properties *)

\* The interrupt driver never keeps an object and never gets a minor number,
\* with whatever endpoints and however often it is bound: none of the null
\* pointers of its stm32_open, stm32_read and stm32_write are reached.  What
\* it has allocated is given back (ReferencesExact), and every disconnect
\* that follows finds no object.
NothingToOpen ==
    loaded = "int" =>
        \A d \in Devs : d \notin minors /\ intfdata[d] = None
                       /\ (core[d] \in {"bound", "flush"} => dev[d] = None)

\* When the module is gone nothing of it is left: no object, no minor number,
\* no open file, and no transfer whose callback would be called in it (again
\* of a device that is never unbound by hand).
UnloadedLeavesNothing ==
    loaded = "none" =>
        /\ minors = {} /\ \A o \in Objs : kref[o] = 0
        /\ \A f \in Files : private_data[f] = None
        /\ \A u \in Urbs : urb[u] # NoUrb => urb[u].dev \in UNBINDABLE

\* A disconnect of the bulk driver comes to its end, whatever processes and
\* transfers are in its way, and without waiting for a file to be closed.
DisconnectEnds ==
    \A d \in Devs :
        loaded = "bulk" /\ core[d] = "flush" ~> core[d] \in {"unbound", "gone"}
=============================================================================
