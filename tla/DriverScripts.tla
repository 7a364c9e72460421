--------------------------- MODULE DriverScripts ---------------------------
(***************************************************************************)
(* What choen_init, choen_exit, choen_probe and choen_remove of each       *)
(* driver acquire and release, in the order of their statements, for       *)
(* DriverLifecycle.  "box" is the choen_dev_handler, "attr" and "attr2"    *)
(* the two sysfs attributes.                                               *)
(***************************************************************************)
EXTENDS Naturals, Sequences

-----------------------------------------------------------------------------
(* platform2 *)

Platform2Init == <<"region", "class", "driver">>

\* The labels error1 to error3.
Platform2InitError == << <<>>, <<"region">>, <<"class", "region">> >>

Platform2Exit == <<"driver", "class", "region">>

Platform2Probe == <<"box", "cdev", "node", "attr", "attr2">>

\* Mutant: the last failure jumps to error3.
Platform2ProbeErrorLabel ==
    << <<>>, <<"box">>, <<"cdev", "box">>, <<"node", "cdev", "box">>, <<"node", "cdev", "box">> >>

\* Mutant: when cdev_add fails it jumps to error2.
Platform2ProbeErrorCdev ==
    << <<>>, <<"cdev", "box">>, <<"cdev", "box">>, <<"node", "cdev", "box">>,
       <<"attr", "node", "cdev", "box">> >>

\* The labels error1 to error4.
Platform2ProbeError ==
    << <<>>, <<"box">>, <<"cdev", "box">>, <<"node", "cdev", "box">>,
       <<"attr", "node", "cdev", "box">> >>

\* Mutant: cdev_del and kfree change places.
Platform2RemoveBoxFirst == <<"attr2", "attr", "node", "box", "cdev">>

Platform2Remove == <<"attr2", "attr", "node", "cdev", "box">>

-----------------------------------------------------------------------------
(* platform1: as platform2, without the attributes *)

Platform1Probe == <<"box", "cdev", "node">>

Platform1ProbeError == << <<>>, <<"box">>, <<"cdev", "box">> >>

Platform1Remove == <<"node">>

-----------------------------------------------------------------------------
(* bbb_gpio1 *)

GpioInit == <<"region", "class", "driver">>

\* Without a device number, ret has not been set when it is returned.
GpioInitUnset == {1}

GpioInitError == << <<>>, <<"region">>, <<"class", "region">> >>

GpioExit == <<"driver", "class">>

GpioProbe == <<"box", "node">>

GpioProbeError == << <<>>, <<"box">> >>

GpioRemove == <<"node", "box">>

-----------------------------------------------------------------------------
(* choen_rwnonblocking and choen_rwblocking: two numbers, two cdevs *)

RwInit == <<"region", "cdev0", "cdev1">>

\* error1, for either cdev.
RwInitError == << <<>>, <<"region">>, <<"region">> >>

RwExit == <<"cdev0", "cdev1", "region">>

-----------------------------------------------------------------------------
(* choen_base: five numbers, two cdevs, a node per number *)

BaseInit ==
    <<"region5", "class", "cdev0", "node0", "node1", "node2", "cdev1", "node3", "node4">>

BaseNodes == {"node0", "node1", "node2", "node3", "node4"}

\* Only alloc_chrdev_region and the two cdev_add are looked at.  A region is
\* found by its first number and its length, so that error1 finds none.
BaseInitError ==
    [k \in 1 .. Len(BaseInit) |-> IF k = 1 THEN <<>> ELSE <<"region2">>]

\* Mutant: class_destroy comes first.
BaseExitClassFirst ==
    <<"class", "node0", "node1", "node2", "node3", "node4", "cdev0", "cdev1", "region2">>

BaseExit ==
    <<"node0", "node1", "node2", "node3", "node4", "class", "cdev0", "cdev1", "region2">>

-----------------------------------------------------------------------------
(* All of them, as DriverLifecycle takes them *)

\* A driver with devices: init, initError, exit, probe, probeError, remove.
PlatformScript(init, initError, unset, exit, probe, probeError, remove) ==
    [init |-> init, nodes |-> {}, fatal |-> {}, initError |-> initError, unset |-> unset,
     exit |-> exit, probe |-> probe, probeError |-> probeError, remove |-> remove]

\* A module that makes its devices itself.  choen_base does not look whether
\* class_create has failed.
CharScript(init, nodes, fatal, initError, exit) ==
    [init |-> init, nodes |-> nodes, fatal |-> fatal, initError |-> initError, unset |-> {},
     exit |-> exit, probe |-> <<>>, probeError |-> <<>>, remove |-> <<>>]

Scripts ==
    [platform2 |-> PlatformScript(Platform2Init, Platform2InitError, {}, Platform2Exit,
                                  Platform2Probe, Platform2ProbeError, Platform2Remove),
     platform1 |-> PlatformScript(Platform2Init, Platform2InitError, {}, Platform2Exit,
                                  Platform1Probe, Platform1ProbeError, Platform1Remove),
     bbb_gpio1 |-> PlatformScript(GpioInit, GpioInitError, GpioInitUnset, GpioExit,
                                  GpioProbe, GpioProbeError, GpioRemove),
     choen_base |-> CharScript(BaseInit, BaseNodes, {"class"}, BaseInitError, BaseExit),
     choen_rw |-> CharScript(RwInit, {}, {}, RwInitError, RwExit)]

\* What is known to stay behind: platform1's remove forgets the handler and
\* its cdev; bbb_gpio1's unload its numbers; choen_base never gives back its
\* numbers.
KnownLeftover ==
    [platform2 |-> {}, platform1 |-> {"box", "cdev"}, bbb_gpio1 |-> {"region"},
     choen_base |-> {"region5"}, choen_rw |-> {}]

\* And when they fail to load: choen_base neither gives back the class nor the
\* first device, the ring drivers not the first cdev.
KnownFailLeftover ==
    [platform2 |-> {}, platform1 |-> {}, bbb_gpio1 |-> {},
     choen_base |-> {"class", "cdev0", "node0", "node1", "node2"}, choen_rw |-> {"cdev0"}]
=============================================================================
