-------------------------- MODULE DriverLifecycle --------------------------
(***************************************************************************)
(* Load and unload of a module (choen_init, choen_exit) and, for the       *)
(* platform drivers, probe and remove of its devices.  All of them acquire *)
(* resources in a fixed order, on failure jump to a label that releases    *)
(* some, and release some at the end.  Which ones and in which order is    *)
(* what tells the drivers apart: DriverScripts has it, the constant Script *)
(* of this module.                                                         *)
(*                                                                         *)
(* The kernel is modelled by what the drivers rely on.  cdev_add enters a  *)
(* device in a table without looking whether the number is taken, the      *)
(* newest entry of a number is the one that open finds, and cdev_del       *)
(* removes the newest entry of its number.  device_create refuses a number *)
(* or a name that is in use.  Releasing what is not held does nothing.     *)
(***************************************************************************)
EXTENDS Integers, SequencesExt

CONSTANTS
    Devs,           \* the platform devices
    Drivers,        \* the drivers, one of which is looked at
    Script,         \* Script[drv]: what each acquires and releases
    Leftover,       \* Leftover[drv]: what it is known to leave behind
    FailLeftover,   \* FailLeftover[drv]: what besides, when it fails to load
    MAX_BINDS,      \* bound on dev_count
    OVERLAP         \* whether handlers of two devices may overlap

ASSUME LifecycleAssumption ==
    /\ Drivers \subseteq DOMAIN Script
    /\ Drivers \subseteq DOMAIN Leftover \cap DOMAIN FailLeftover
    /\ \A n \in Drivers :
          /\ Len(Script[n].initError) = Len(Script[n].init)
          /\ Len(Script[n].probeError) = Len(Script[n].probe)
    /\ MAX_BINDS \in Nat
    /\ OVERLAP \in BOOLEAN

VARIABLES
    drv,        \* the driver
    mod,        \* what the module does: "out", "init", "in", "exit", or,
                \* when choen_init fails, "fail" and "failed"
    mtodo,      \* what it has yet to acquire or release
    held,       \* the resources of the module
    dev_count,  \* choen_drv_box.dev_count
    dpc,        \* dpc[d]: what the driver does with d: "unbound", "probe",
                \* "count", "store", "bound", "undo"
    dtodo,      \* dtodo[d]: what it has yet to acquire or release
    has,        \* has[d]: the resources of d, except its cdev
    dev_num,    \* dev_num[d]: the minor number in d's handler
    name,       \* name[d]: the number in the name of d's device node
    cdevs,      \* the kernel's table of character devices, newest first
    count       \* count[d]: dev_count as the probe of d read it to add 1

modVars == <<drv, mod, mtodo, held>>
devVars == <<dpc, dtodo, has, dev_num, name, cdevs, count>>
vars == <<modVars, dev_count, devVars>>

InitOrder == Script[drv].init        \* what choen_init acquires
InitNodes == Script[drv].nodes       \* its nodes; it does not notice when one fails
InitFatal == Script[drv].fatal       \* it goes on with an error value: not modelled
InitError == Script[drv].initError   \* InitError[k]: released when the k-th fails
InitUnset == Script[drv].unset       \* the k at which it returns a value never set
ExitOrder == Script[drv].exit        \* what choen_exit releases
ProbeOrder == Script[drv].probe      \* the same for choen_probe
ProbeError == Script[drv].probeError
RemoveOrder == Script[drv].remove    \* and choen_remove

Init ==
    /\ drv \in Drivers
    /\ mod = "out" /\ mtodo = <<>> /\ held = {}
    /\ dev_count = 0
    /\ dpc = [d \in Devs |-> "unbound"]
    /\ dtodo = [d \in Devs |-> <<>>]
    /\ has = [d \in Devs |-> {}]
    /\ dev_num = [d \in Devs |-> 0]
    /\ name = [d \in Devs |-> 0]
    /\ cdevs = <<>>
    /\ count = [d \in Devs |-> 0]

-----------------------------------------------------------------------------
(* The module *)

\* insmod: the module's static data are new.  A module that left a class or
\* an entry of the table behind is not followed further.
Load ==
    /\ mod \in {"out", "failed"}
    /\ held \cap InitFatal = {} /\ cdevs = <<>>
    /\ mod' = "init"
    /\ mtodo' = InitOrder
    /\ dev_count' = 0
    /\ UNCHANGED <<drv, held, devVars>>

\* choen_init, or choen_exit, goes on with todo and ends in state to.
ModuleGoto(from, to, todo) ==
    /\ mtodo' = todo
    /\ mod' = IF todo = <<>> THEN to ELSE from

\* choen_init fails at its k-th step.  The loader takes any value but 0 for
\* a failure, so that a module that returns an unset value may stay.
InitFails(k) ==
    \/ ModuleGoto("fail", "failed", InitError[k])
    \/ k \in InitUnset /\ mod' = "in" /\ mtodo' = <<>>

\* One acquisition of choen_init: it succeeds, fails, or fails unnoticed.
InitStep ==
    /\ mod = "init"
    /\ LET r == Head(mtodo)
           k == Len(InitOrder) - Len(mtodo) + 1
       IN  \/ held' = held \cup {r} /\ ModuleGoto("init", "in", Tail(mtodo))
           \/ r \notin InitNodes \cup InitFatal /\ InitFails(k) /\ UNCHANGED held
           \/ r \in InitNodes /\ ModuleGoto("init", "in", Tail(mtodo)) /\ UNCHANGED held
    /\ UNCHANGED <<drv, dev_count, devVars>>

Unload ==
    /\ mod = "in"
    /\ ModuleGoto("exit", "out", ExitOrder)
    /\ UNCHANGED <<drv, held, dev_count, devVars>>

\* One release.  platform_driver_unregister comes back when the driver has
\* been taken off every device.
UndoStep ==
    /\ mod \in {"fail", "exit"}
    /\ Head(mtodo) = "driver" => \A d \in Devs : dpc[d] = "unbound"
    /\ held' = held \ {Head(mtodo)}
    /\ ModuleGoto(mod, IF mod = "fail" THEN "failed" ELSE "out", Tail(mtodo))
    /\ UNCHANGED <<drv, dev_count, devVars>>

-----------------------------------------------------------------------------
(* A device *)

\* The driver core starts a handler of d.
Alone(d) == OVERLAP \/ \A e \in Devs \ {d} : dpc[e] \in {"unbound", "bound"}

Bind(d) ==
    /\ mod = "in" /\ "driver" \in held
    /\ dpc[d] = "unbound"
    /\ dev_count < MAX_BINDS
    /\ Alone(d)
    /\ dpc' = [dpc EXCEPT ![d] = "probe"]
    /\ dtodo' = [dtodo EXCEPT ![d] = ProbeOrder]
    /\ UNCHANGED <<modVars, dev_count, has, dev_num, name, cdevs, count>>

DeviceGoto(d, from, to, todo) ==
    /\ dtodo' = [dtodo EXCEPT ![d] = todo]
    /\ dpc' = [dpc EXCEPT ![d] = IF todo = <<>> THEN to ELSE from]

ProbeNext(d) == DeviceGoto(d, "probe", "count", Tail(dtodo[d]))

NodeInUse(d, n, m) ==
    \E e \in Devs \ {d} : "node" \in has[e] /\ (dev_num[e] = n \/ name[e] = m)

\* kzalloc; the new handler gets its number.
ProbeBox(d) ==
    /\ has' = [has EXCEPT ![d] = @ \cup {"box"}]
    /\ dev_num' = [dev_num EXCEPT ![d] = dev_count]
    /\ ProbeNext(d)
    /\ UNCHANGED <<name, cdevs>>

\* cdev_add.
ProbeCdev(d) ==
    /\ cdevs' = <<[num |-> dev_num[d], dev |-> d]>> \o cdevs
    /\ ProbeNext(d)
    /\ UNCHANGED <<has, dev_num, name>>

\* device_create, for which dev_count is read again, for the name.
ProbeNode(d) ==
    /\ ~NodeInUse(d, dev_num[d], dev_count)
    /\ name' = [name EXCEPT ![d] = dev_count]
    /\ has' = [has EXCEPT ![d] = @ \cup {"node"}]
    /\ ProbeNext(d)
    /\ UNCHANGED <<dev_num, cdevs>>

\* sysfs_create_file.
ProbeAttr(d) ==
    /\ has' = [has EXCEPT ![d] = @ \cup {Head(dtodo[d])}]
    /\ ProbeNext(d)
    /\ UNCHANGED <<dev_num, name, cdevs>>

\* Any of them may fail.
ProbeFails(d) ==
    /\ DeviceGoto(d, "undo", "unbound", ProbeError[Len(ProbeOrder) - Len(dtodo[d]) + 1])
    /\ UNCHANGED <<has, dev_num, name, cdevs>>

ProbeStep(d) ==
    /\ dpc[d] = "probe"
    /\ \/ Head(dtodo[d]) = "box" /\ ProbeBox(d)
       \/ Head(dtodo[d]) = "cdev" /\ ProbeCdev(d)
       \/ Head(dtodo[d]) = "node" /\ ProbeNode(d)
       \/ Head(dtodo[d]) \notin {"box", "cdev", "node"} /\ ProbeAttr(d)
       \/ ProbeFails(d)
    /\ UNCHANGED <<modVars, dev_count, count>>

\* Mutant: dev_count++ is forgotten.
ProbeCountForgotten(d) ==
    /\ dpc[d] = "count"
    /\ dpc' = [dpc EXCEPT ![d] = "bound"]
    /\ UNCHANGED <<modVars, dev_count, dtodo, has, dev_num, name, cdevs, count>>

\* Mutant: the device is counted twice.
ProbeCountTwice(d) ==
    /\ dpc[d] = "count"
    /\ dev_count' = dev_count + 2
    /\ dpc' = [dpc EXCEPT ![d] = "bound"]
    /\ UNCHANGED <<modVars, dtodo, has, dev_num, name, cdevs, count>>

\* dev_count++, without a lock: read, then write.
ProbeCount(d) ==
    \/ /\ dpc[d] = "count"
       /\ count' = [count EXCEPT ![d] = dev_count]
       /\ dpc' = [dpc EXCEPT ![d] = "store"]
       /\ UNCHANGED <<modVars, dev_count, dtodo, has, dev_num, name, cdevs>>
    \/ /\ dpc[d] = "store"
       /\ dev_count' = count[d] + 1
       /\ dpc' = [dpc EXCEPT ![d] = "bound"]
       /\ UNCHANGED <<modVars, dtodo, has, dev_num, name, cdevs, count>>

\* The device goes away, is unbound by hand, or the module is unloaded.
Unbind(d) ==
    /\ dpc[d] = "bound"
    /\ Alone(d)
    /\ DeviceGoto(d, "undo", "unbound", RemoveOrder)
    /\ UNCHANGED <<modVars, dev_count, has, dev_num, name, cdevs, count>>

\* cdev_del removes the newest entry of the number.
CdevDel(n) ==
    LET hits == {i \in 1 .. Len(cdevs) : cdevs[i].num = n}
    IN  IF hits = {} THEN cdevs
        ELSE RemoveAt(cdevs, CHOOSE i \in hits : \A j \in hits : i <= j)

DeviceUndo(d) ==
    /\ dpc[d] = "undo"
    /\ LET r == Head(dtodo[d])
       IN  /\ has' = [has EXCEPT ![d] = @ \ {r}]
           /\ cdevs' = IF r = "cdev" THEN CdevDel(dev_num[d]) ELSE cdevs
    /\ DeviceGoto(d, "undo", "unbound", Tail(dtodo[d]))
    /\ UNCHANGED <<modVars, dev_count, dev_num, name, count>>

-----------------------------------------------------------------------------

Next ==
    \/ Load \/ InitStep \/ Unload \/ UndoStep
    \/ \E d \in Devs : Bind(d) \/ ProbeStep(d) \/ ProbeCount(d) \/ Unbind(d) \/ DeviceUndo(d)

Spec == Init /\ [][Next]_vars

-----------------------------------------------------------------------------
(* Properties *)

TypeOK ==
    /\ drv \in Drivers
    /\ mod \in {"out", "init", "in", "exit", "fail", "failed"}
    /\ held \subseteq ToSet(InitOrder)
    /\ dev_count \in IF OVERLAP THEN Nat ELSE 0 .. MAX_BINDS
    /\ dpc \in [Devs -> {"unbound", "probe", "count", "store", "bound", "undo"}]
    /\ has \in [Devs -> SUBSET ToSet(ProbeOrder)]
    /\ \A d \in Devs : dev_num[d] \in Nat /\ name[d] \in Nat /\ count[d] \in Nat

\* A load that failed and an unload give back all the module had acquired, a
\* probe that failed and a remove all the device had acquired, whichever step
\* failed: no numbers, no class, no memory, no node, no attribute, no entry.
\* Except for Leftover, and FailLeftover of a load that failed: the defects
\* the README lists, and no others.
NothingElseLeft ==
    /\ mod = "out" => held \subseteq Leftover[drv]
    /\ mod = "failed" => held \subseteq Leftover[drv] \cup FailLeftover[drv]
    /\ \A d \in Devs : dpc[d] = "unbound" =>
          /\ has[d] \subseteq Leftover[drv]
          /\ \A i \in 1 .. Len(cdevs) : cdevs[i].dev = d => "cdev" \in Leftover[drv]

\* open, or cdev_del, of d's number finds d's entry, not one of another device.
Reaches(d) ==
    \E i \in 1 .. Len(cdevs) :
        /\ cdevs[i] = [num |-> dev_num[d], dev |-> d]
        /\ \A j \in 1 .. i - 1 : cdevs[j].num # dev_num[d]

\* Every release of an error label of choen_probe and of choen_remove finds
\* what it releases: nothing is released twice, or without having been
\* acquired, and cdev_del takes the device's own entry.
ReleasesOwn ==
    \A d \in Devs : dpc[d] = "undo" =>
        LET r == Head(dtodo[d]) IN IF r = "cdev" THEN Reaches(d) ELSE r \in has[d]

\* What the kernel's table leads to is a handler that is allocated, at every
\* step of every probe and remove.  (platform1's leftover entries lead to
\* handlers of earlier binds, which the model no longer tells apart.)
EntriesLive ==
    "cdev" \notin Leftover[drv] => \A i \in 1 .. Len(cdevs) : "box" \in has[cdevs[i].dev]

\* Where devices have a cdev, opening the number of a bound one reaches that
\* device, while others come, fail and go.
BoundReachable ==
    \A d \in Devs : dpc[d] = "bound" /\ Contains(ProbeOrder, "cdev") => Reaches(d)

\* The class outlives its device nodes, and the reserved numbers the bound
\* devices that use them: choen_exit takes things down in the right order.
OrderedTeardown ==
    /\ (\E d \in Devs : "node" \in has[d]) \/ held \cap InitNodes # {} => "class" \in held
    /\ \A d \in Devs : dpc[d] = "bound" => "region" \in held
=============================================================================
