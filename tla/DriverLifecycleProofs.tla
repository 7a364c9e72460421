----------------------- MODULE DriverLifecycleProofs -----------------------
(***************************************************************************)
(* Load, unload, probe and remove of the drivers of DriverScripts, for any *)
(* number of devices and of binds.  What the proofs need of a driver is    *)
(* the predicate WellScripted; that the five drivers have it is a lemma    *)
(* about their statements.  The invariant has three layers:                *)
(*   ModuleInv  what choen_init has acquired and choen_exit yet to release *)
(*   DeviceInv  the same of choen_probe and choen_remove of each device    *)
(*   TableInv   the numbers in the table of character devices, as long as  *)
(*              the handlers of two devices do not overlap                 *)
(***************************************************************************)
EXTENDS DriverLifecycle, DriverScripts, SequenceTheorems, TLAPS

-----------------------------------------------------------------------------
(* What a driver's statements have to be like *)

Resource ==
    {"region", "class", "driver", "box", "cdev", "node", "attr", "attr2",
     "region2", "region5", "cdev0", "cdev1", "node0", "node1", "node2", "node3", "node4"}

\* The elements of s before its k-th.
Before(s, k) == {s[i] : i \in 1 .. k - 1}

NoDuplicates(s) == \A i, j \in 1 .. Len(s) : s[i] = s[j] => i = j

\* a comes before b wherever b occurs.
Precedes(a, b, s) == \A i \in 1 .. Len(s) : s[i] = b => a \in Before(s, i)

\* The cdev is never released after the handler that it leads to.
CdevBeforeBox(s) ==
    \A i \in 1 .. Len(s) : s[i] = "cdev" => \E j \in i + 1 .. Len(s) : s[j] = "box"

\* What an error label or choen_remove releases.
Releases(s) == s \in Seq(Resource) /\ NoDuplicates(s) /\ CdevBeforeBox(s)

ProbeScripted(probe, error, remove, left) ==
    /\ probe \in Seq(Resource) /\ NoDuplicates(probe) /\ Precedes("box", "cdev", probe)
    /\ \A k \in 1 .. Len(probe) : Releases(error[k]) /\ ToSet(error[k]) = Before(probe, k)
    /\ Releases(remove)
    /\ ToSet(remove) \subseteq ToSet(probe)
    /\ ToSet(probe) \subseteq ToSet(remove) \cup left

\* An error label is not reached from a step that choen_init does not look at.
InitScripted(init, nodes, fatal, error, exit, left, fail) ==
    /\ init \in Seq(Resource) /\ Len(init) > 0 /\ NoDuplicates(init)
    /\ \A k \in 1 .. Len(init) : error[k] \in Seq(Resource)
    /\ \A k \in 1 .. Len(init) : init[k] \notin nodes \cup fatal =>
          /\ Before(init, k) \subseteq ToSet(error[k]) \cup left \cup fail
          /\ "class" \in ToSet(error[k]) => nodes = {}
    /\ exit \in Seq(Resource) /\ ToSet(init) \subseteq ToSet(exit) \cup left
    /\ "class" \notin nodes
    /\ \A n \in nodes : Precedes("class", n, init) /\ Precedes(n, "class", exit)

\* A driver with devices registers itself last and unregisters itself first.
DriverScripted(init, nodes, exit, probe, left) ==
    /\ nodes = {}
    /\ init[Len(init)] = "driver"
    /\ {"region", "class"} \subseteq ToSet(init)
    /\ Len(exit) > 0 /\ exit[1] = "driver"
    /\ Len(probe) > 0
    /\ "driver" \notin left /\ "node" \notin left

WellScripted(s, left, fail) ==
    /\ ProbeScripted(s.probe, s.probeError, s.remove, left)
    /\ InitScripted(s.init, s.nodes, s.fatal, s.initError, s.exit, left, fail)
    /\ IF "driver" \in ToSet(s.init)
       THEN DriverScripted(s.init, s.nodes, s.exit, s.probe, left)
       ELSE ToSet(s.probe) = {}

TheDrivers ==
    /\ Drivers \subseteq DOMAIN Scripts
    /\ Script = Scripts
    /\ Leftover = KnownLeftover
    /\ FailLeftover = KnownFailLeftover

-----------------------------------------------------------------------------
(* The invariant *)

\* What choen_init has acquired, choen_exit or an error label yet to release.
InitGot ==
    CASE mod = "init" -> Before(InitOrder, Len(InitOrder) - Len(mtodo) + 1)
      [] mod = "in"   -> ToSet(InitOrder)
      [] mod \in {"fail", "exit"} -> ToSet(mtodo)
      [] OTHER        -> {}

\* t is what remains of s.
Remains(t, s) ==
    /\ Len(t) <= Len(s)
    /\ \A i \in 1 .. Len(t) : t[i] = s[Len(s) - Len(t) + i]

\* What may be held besides: a module that has been loaded has it all again.
MayBeLeft == Leftover[drv] \cup IF mod \in {"in", "exit", "out"} THEN {} ELSE FailLeftover[drv]

ModuleInv ==
    /\ drv \in Drivers
    /\ mod \in {"out", "init", "in", "exit", "fail", "failed"}
    /\ mtodo \in Seq(Resource) /\ (mod \in {"init", "exit", "fail"} => mtodo # <<>>)
    /\ mod = "init" => Remains(mtodo, InitOrder) /\ InitGot \ InitNodes \subseteq held
    /\ held \subseteq ToSet(InitOrder)
    /\ held \subseteq InitGot \cup MayBeLeft
    /\ held \cap InitNodes # {} => "class" \in held
    /\ mod \in {"fail", "exit"} => \A i \in 1 .. Len(mtodo) :
          mtodo[i] = "class" => held \cap InitNodes \subseteq Before(mtodo, i)
    /\ "driver" \in held =>
          /\ ToSet(InitOrder) \subseteq held
          /\ mod = "in" \/ (mod = "exit" /\ Head(mtodo) = "driver")

\* What d's handler has acquired, or has yet to release.
Got(d) ==
    CASE dpc[d] = "probe" -> Before(ProbeOrder, Len(ProbeOrder) - Len(dtodo[d]) + 1)
      [] dpc[d] \in {"count", "store", "bound"} -> ToSet(ProbeOrder)
      [] dpc[d] = "undo" -> ToSet(dtodo[d])
      [] OTHER -> {}

DeviceOK(d) ==
    /\ dpc[d] \in {"probe", "undo"} => dtodo[d] # <<>>
    /\ dpc[d] = "probe" => Remains(dtodo[d], ProbeOrder)
    /\ dpc[d] = "undo" => NoDuplicates(dtodo[d]) /\ CdevBeforeBox(dtodo[d])
    /\ dpc[d] # "unbound" => "driver" \in held
    /\ Got(d) \subseteq ToSet(ProbeOrder)
    /\ Got(d) \ {"cdev"} \subseteq has[d]
    /\ has[d] \subseteq Got(d) \cup Leftover[drv]

DeviceTypeOK ==
    /\ dpc \in [Devs -> {"unbound", "probe", "count", "store", "bound", "undo"}]
    /\ dtodo \in [Devs -> Seq(Resource)]
    /\ has \in [Devs -> SUBSET ToSet(ProbeOrder)]
    /\ dev_num \in [Devs -> Nat] /\ name \in [Devs -> Nat] /\ count \in [Devs -> Nat]
    /\ dev_count \in Nat

DeviceInv == DeviceTypeOK /\ \A d \in Devs : DeviceOK(d)

\* A handler of d runs.
Active(d) == dpc[d] \notin {"unbound", "bound"}

OneActive == \A d, e \in Devs : Active(d) /\ Active(e) => d = e

CountOK(d) ==
    /\ dpc[d] \in {"probe", "count", "store"} => dev_count < MAX_BINDS
    /\ dpc[d] = "probe" /\ "box" \in Got(d) => dev_num[d] = dev_count
    /\ dpc[d] = "store" => count[d] = dev_count

\* A number that is not behind dev_count yet is that of the active device.
EntryOK(c) ==
    /\ c.num <= dev_count
    /\ c.num = dev_count =>
          Active(c.dev) /\ "cdev" \in Got(c.dev) /\ dev_num[c.dev] = dev_count
    /\ "cdev" \notin Leftover[drv] => "cdev" \in Got(c.dev) /\ dev_num[c.dev] = c.num

TableInv ==
    /\ cdevs \in Seq([num : Nat, dev : Devs])
    /\ OneActive
    /\ dev_count <= MAX_BINDS
    /\ \A d \in Devs : CountOK(d)
    /\ \A i, j \in 1 .. Len(cdevs) : cdevs[i].num = cdevs[j].num => i = j
    /\ \A d \in Devs : "cdev" \in Got(d) =>
          \E i \in 1 .. Len(cdevs) : cdevs[i] = [num |-> dev_num[d], dev |-> d]
    /\ \A i \in 1 .. Len(cdevs) : EntryOK(cdevs[i])

-----------------------------------------------------------------------------
(* Sequences of which one element at a time is done *)

LEMMA BeforeEnds ==
    ASSUME NEW s \in Seq(Resource)
    PROVE  /\ Before(s, 1) = {}
           /\ Before(s, Len(s) + 1) = ToSet(s)
           /\ \A k \in 1 .. Len(s) + 1 : Before(s, k) \subseteq ToSet(s)
           /\ Remains(s, s)
  BY DEF Before, ToSet, Remains

LEMMA TailElements ==
    ASSUME NEW t \in Seq(Resource), t # <<>>
    PROVE  /\ Len(t) \in Nat \ {0} /\ Head(t) = t[1] /\ Head(t) \in ToSet(t)
           /\ Tail(t) \in Seq(Resource) /\ Len(Tail(t)) = Len(t) - 1
           /\ \A i \in 1 .. Len(t) - 1 : Tail(t)[i] = t[i + 1]
           /\ ToSet(t) = {Head(t)} \cup ToSet(Tail(t))
<1>1. /\ Len(t) \in Nat \ {0} /\ Head(t) = t[1]
      /\ Tail(t) \in Seq(Resource) /\ Len(Tail(t)) = Len(t) - 1
      /\ \A i \in 1 .. Len(t) - 1 : Tail(t)[i] = t[i + 1]
  BY HeadTailProperties
<1>2. DOMAIN t = 1 .. Len(t) /\ DOMAIN Tail(t) = 1 .. Len(t) - 1
  BY <1>1
<1>3. ToSet(t) = {t[i] : i \in 1 .. Len(t)}
  BY <1>2 DEF ToSet
<1>4. ToSet(Tail(t)) = {t[i + 1] : i \in 1 .. Len(t) - 1}
  BY <1>1, <1>2 DEF ToSet
<1>5. \A i \in 1 .. Len(t) : i = 1 \/ (i - 1 \in 1 .. Len(t) - 1 /\ t[i] = t[(i - 1) + 1])
  BY <1>1
<1>6. ToSet(t) = {t[1]} \cup ToSet(Tail(t))
  <2>1. ASSUME NEW x \in ToSet(t) PROVE x \in {t[1]} \cup ToSet(Tail(t))
    BY <1>3, <1>4, <1>5
  <2>2. ASSUME NEW x \in {t[1]} \cup ToSet(Tail(t)) PROVE x \in ToSet(t)
    <3>1. \A i \in 1 .. Len(t) - 1 : i + 1 \in 1 .. Len(t)
      BY <1>1
    <3> QED BY <1>1, <1>3, <1>4, <3>1
  <2> QED BY <2>1, <2>2
<1> QED BY <1>1, <1>6

LEMMA LastElement ==
    ASSUME NEW t \in Seq(Resource), t # <<>>
    PROVE  Tail(t) = <<>> <=> Len(t) = 1
<1>1. PICK u \in Seq(Resource) : u = Tail(t) /\ Len(u) = Len(t) - 1 /\ Len(t) \in Nat
  BY TailElements
<1>2. u = <<>> <=> Len(u) = 0
  BY EmptySeq
<1>3. Len(u) = 0 <=> Len(t) = 1
  BY <1>1
<1> QED BY <1>1, <1>2, <1>3

\* A step forward: the next element is acquired.
LEMMA TailAdvances ==
    ASSUME NEW s \in Seq(Resource), NEW t \in Seq(Resource), t # <<>>, Remains(t, s),
           NEW k, k = Len(s) - Len(t) + 1
    PROVE  /\ k \in 1 .. Len(s) /\ Head(t) = s[k]
           /\ Len(s) - Len(Tail(t)) + 1 = k + 1
           /\ Remains(Tail(t), s)
           /\ Before(s, k + 1) = Before(s, k) \cup {Head(t)}
           /\ Tail(t) = <<>> => Before(s, k + 1) = ToSet(s)
           /\ Tail(t) = <<>> <=> k = Len(s)
<1>1. k \in 1 .. Len(s) /\ Head(t) = s[k] /\ Len(Tail(t)) = Len(t) - 1
  BY TailElements DEF Remains
<1>2. Remains(Tail(t), s)
  BY TailElements DEF Remains
<1>3. \A i \in 1 .. (k + 1) - 1 : i = k \/ i \in 1 .. k - 1
  BY <1>1
<1>4. Before(s, k + 1) = Before(s, k) \cup {s[k]}
  BY <1>1, <1>3 DEF Before
<1>5. Len(t) \in Nat /\ Len(s) \in Nat
  OBVIOUS
<1>6. Len(t) = 1 <=> k = Len(s)
  <2>1. \A x, y \in Nat : y = 1 <=> x - y + 1 = x
    OBVIOUS
  <2> QED BY <1>5, <2>1
<1>7. Tail(t) = <<>> <=> k = Len(s)
  BY <1>6, LastElement
<1> QED BY <1>1, <1>2, <1>4, <1>7, BeforeEnds

\* A step back: the next element is released.
LEMMA TailReleases ==
    ASSUME NEW t \in Seq(Resource), t # <<>>
    PROVE  /\ NoDuplicates(t) => NoDuplicates(Tail(t)) /\ Head(t) \notin ToSet(Tail(t))
           /\ CdevBeforeBox(t) => CdevBeforeBox(Tail(t))
           /\ CdevBeforeBox(t) /\ "cdev" \in ToSet(t) => "box" \in ToSet(t)
           /\ \A i \in 1 .. Len(Tail(t)) : Before(t, i + 1) = {Head(t)} \cup Before(Tail(t), i)
<1> USE TailElements
<1>1. DOMAIN t = 1 .. Len(t) /\ DOMAIN Tail(t) = 1 .. Len(t) - 1
  OBVIOUS
<1>2. ASSUME NoDuplicates(t)
      PROVE  NoDuplicates(Tail(t)) /\ Head(t) \notin ToSet(Tail(t))
  BY <1>1, <1>2 DEF NoDuplicates, ToSet
<1>3. ASSUME CdevBeforeBox(t)
      PROVE  CdevBeforeBox(Tail(t))
  <2> SUFFICES ASSUME NEW i \in 1 .. Len(Tail(t)), Tail(t)[i] = "cdev"
               PROVE  \E j \in i + 1 .. Len(Tail(t)) : Tail(t)[j] = "box"
    BY DEF CdevBeforeBox
  <2>1. t[i + 1] = "cdev" /\ i + 1 \in 1 .. Len(t)
    OBVIOUS
  <2>2. PICK j \in (i + 1) + 1 .. Len(t) : t[j] = "box"
    BY <1>3, <2>1 DEF CdevBeforeBox
  <2>3. j - 1 \in i + 1 .. Len(Tail(t)) /\ j - 1 \in 1 .. Len(t) - 1 /\ t[(j - 1) + 1] = t[j]
    BY <2>2
  <2> QED BY <2>2, <2>3
<1>4. CdevBeforeBox(t) /\ "cdev" \in ToSet(t) => "box" \in ToSet(t)
  BY <1>1 DEF CdevBeforeBox, ToSet
<1>5. ASSUME NEW i \in 1 .. Len(Tail(t))
      PROVE  Before(t, i + 1) = {Head(t)} \cup Before(Tail(t), i)
  <2>1. \A j \in 1 .. (i + 1) - 1 : j = 1 \/ (j - 1 \in 1 .. i - 1 /\ Tail(t)[j - 1] = t[j])
    OBVIOUS
  <2>2. \A j \in 1 .. i - 1 : Tail(t)[j] = t[j + 1] /\ j + 1 \in 1 .. (i + 1) - 1
    OBVIOUS
  <2> QED BY <2>1, <2>2 DEF Before
<1> QED BY <1>2, <1>3, <1>4, <1>5

-----------------------------------------------------------------------------
(* The five drivers *)

LEMMA ShortSeqs ==
    ASSUME NEW S, NEW a \in S, NEW b \in S, NEW c \in S, NEW d \in S, NEW e \in S
    PROVE  /\ <<>> \in Seq(S) /\ <<a>> \in Seq(S) /\ <<a, b>> \in Seq(S)
           /\ <<a, b, c>> \in Seq(S) /\ <<a, b, c, d>> \in Seq(S)
           /\ <<a, b, c, d, e>> \in Seq(S)
  OBVIOUS

LEMMA LongSeq ==
    ASSUME NEW S, NEW a \in S, NEW b \in S, NEW c \in S, NEW d \in S, NEW e \in S,
           NEW f \in S, NEW g \in S, NEW h \in S, NEW i \in S
    PROVE  <<a, b, c, d, e, f, g, h, i>> \in Seq(S)
  OBVIOUS

LEMMA Names ==
    /\ {"region", "class", "driver", "box", "cdev", "node", "attr", "attr2"} \subseteq Resource
    /\ {"region2", "region5", "cdev0", "cdev1"} \subseteq Resource
    /\ {"node0", "node1", "node2", "node3", "node4"} \subseteq Resource
  BY DEF Resource

LEMMA Platform2Well ==
    WellScripted(Scripts.platform2, KnownLeftover.platform2, KnownFailLeftover.platform2)
<1> USE ShortSeqs, Names
<1>1. ProbeScripted(Platform2Probe, Platform2ProbeError, Platform2Remove, {})
  <2> DEFINE p == Platform2Probe
             e == Platform2ProbeError
  <2>1. p \in Seq(Resource) /\ NoDuplicates(p) /\ Precedes("box", "cdev", p)
    BY DEF Platform2Probe, NoDuplicates, Precedes, Before
  <2>2. Releases(e[1]) /\ Releases(e[2]) /\ Releases(e[3]) /\ Releases(e[4]) /\ Releases(e[5])
    BY DEF Platform2ProbeError, Releases, NoDuplicates, CdevBeforeBox
  <2>3. /\ ToSet(e[1]) = Before(p, 1) /\ ToSet(e[2]) = Before(p, 2) /\ ToSet(e[3]) = Before(p, 3)
        /\ ToSet(e[4]) = Before(p, 4) /\ ToSet(e[5]) = Before(p, 5)
    BY DEF Platform2Probe, Platform2ProbeError, ToSet, Before
  <2>4. Releases(Platform2Remove) /\ ToSet(Platform2Remove) = ToSet(p)
    BY DEF Platform2Probe, Platform2Remove, Releases, NoDuplicates, CdevBeforeBox, ToSet
  <2>5. Len(p) = 5
    BY DEF Platform2Probe
  <2> QED BY <2>1, <2>2, <2>3, <2>4, <2>5 DEF ProbeScripted
<1>2. InitScripted(Platform2Init, {}, {}, Platform2InitError, Platform2Exit, {}, {})
  <2> DEFINE i == Platform2Init
             e == Platform2InitError
  <2>1. i \in Seq(Resource) /\ NoDuplicates(i) /\ Len(i) = 3
    BY DEF Platform2Init, NoDuplicates
  <2>2. e[1] \in Seq(Resource) /\ e[2] \in Seq(Resource) /\ e[3] \in Seq(Resource)
    BY DEF Platform2InitError
  <2>3. Before(i, 1) = ToSet(e[1]) /\ Before(i, 2) = ToSet(e[2]) /\ Before(i, 3) = ToSet(e[3])
    BY DEF Platform2Init, Platform2InitError, ToSet, Before
  <2>4. Platform2Exit \in Seq(Resource) /\ ToSet(i) = ToSet(Platform2Exit)
    BY DEF Platform2Init, Platform2Exit, ToSet
  <2> QED BY <2>1, <2>2, <2>3, <2>4 DEF InitScripted
<1>3. DriverScripted(Platform2Init, {}, Platform2Exit, Platform2Probe, {})
  BY DEF DriverScripted, ToSet, Platform2Init, Platform2Exit, Platform2Probe
<1>5. "driver" \in ToSet(Platform2Init)
  BY DEF Platform2Init, ToSet
<1> QED BY <1>1, <1>2, <1>3, <1>5
        DEF WellScripted, Scripts, KnownLeftover, KnownFailLeftover, PlatformScript

LEMMA Platform1Well ==
    WellScripted(Scripts.platform1, KnownLeftover.platform1, KnownFailLeftover.platform1)
<1> USE ShortSeqs, Names
<1>1. ProbeScripted(Platform1Probe, Platform1ProbeError, Platform1Remove, {"box", "cdev"})
  <2> DEFINE p == Platform1Probe
             e == Platform1ProbeError
  <2>1. p \in Seq(Resource) /\ NoDuplicates(p) /\ Precedes("box", "cdev", p) /\ Len(p) = 3
    BY DEF Platform1Probe, NoDuplicates, Precedes, Before
  <2>2. Releases(e[1]) /\ Releases(e[2]) /\ Releases(e[3])
    BY DEF Platform1ProbeError, Releases, NoDuplicates, CdevBeforeBox
  <2>3. ToSet(e[1]) = Before(p, 1) /\ ToSet(e[2]) = Before(p, 2) /\ ToSet(e[3]) = Before(p, 3)
    BY DEF Platform1Probe, Platform1ProbeError, ToSet, Before
  <2>4. Releases(Platform1Remove)
    BY DEF Platform1Remove, Releases, NoDuplicates, CdevBeforeBox
  <2>5. /\ ToSet(Platform1Remove) \subseteq ToSet(p)
        /\ ToSet(p) \subseteq ToSet(Platform1Remove) \cup {"box", "cdev"}
    BY DEF Platform1Probe, Platform1Remove, ToSet
  <2> QED BY <2>1, <2>2, <2>3, <2>4, <2>5 DEF ProbeScripted
<1>2. InitScripted(Platform2Init, {}, {}, Platform2InitError, Platform2Exit, {}, {})
  BY Platform2Well
     DEF WellScripted, Scripts, KnownLeftover, KnownFailLeftover, PlatformScript
<1>3. InitScripted(Platform2Init, {}, {}, Platform2InitError, Platform2Exit, {"box", "cdev"}, {})
  BY <1>2 DEF InitScripted
<1>4. DriverScripted(Platform2Init, {}, Platform2Exit, Platform1Probe, {"box", "cdev"})
  BY DEF DriverScripted, ToSet, Platform2Init, Platform2Exit, Platform1Probe
<1>5. "driver" \in ToSet(Platform2Init)
  BY DEF Platform2Init, ToSet
<1> QED BY <1>1, <1>3, <1>4, <1>5
        DEF WellScripted, Scripts, KnownLeftover, KnownFailLeftover, PlatformScript

LEMMA GpioWell ==
    WellScripted(Scripts.bbb_gpio1, KnownLeftover.bbb_gpio1, KnownFailLeftover.bbb_gpio1)
<1> USE ShortSeqs, Names
<1>1. ProbeScripted(GpioProbe, GpioProbeError, GpioRemove, {"region"})
  <2> DEFINE p == GpioProbe
             e == GpioProbeError
  <2>1. p \in Seq(Resource) /\ NoDuplicates(p) /\ Precedes("box", "cdev", p) /\ Len(p) = 2
    BY DEF GpioProbe, NoDuplicates, Precedes, Before
  <2>2. Releases(e[1]) /\ Releases(e[2])
    BY DEF GpioProbeError, Releases, NoDuplicates, CdevBeforeBox
  <2>3. ToSet(e[1]) = Before(p, 1) /\ ToSet(e[2]) = Before(p, 2)
    BY DEF GpioProbe, GpioProbeError, ToSet, Before
  <2>4. Releases(GpioRemove) /\ ToSet(GpioRemove) = ToSet(p)
    BY DEF GpioProbe, GpioRemove, Releases, NoDuplicates, CdevBeforeBox, ToSet
  <2> QED BY <2>1, <2>2, <2>3, <2>4 DEF ProbeScripted
<1>2. InitScripted(GpioInit, {}, {}, GpioInitError, GpioExit, {"region"}, {})
  <2> DEFINE i == GpioInit
             e == GpioInitError
  <2>1. i \in Seq(Resource) /\ NoDuplicates(i) /\ Len(i) = 3
    BY DEF GpioInit, NoDuplicates
  <2>2. e[1] \in Seq(Resource) /\ e[2] \in Seq(Resource) /\ e[3] \in Seq(Resource)
    BY DEF GpioInitError
  <2>3. Before(i, 1) = ToSet(e[1]) /\ Before(i, 2) = ToSet(e[2]) /\ Before(i, 3) = ToSet(e[3])
    BY DEF GpioInit, GpioInitError, ToSet, Before
  <2>4. GpioExit \in Seq(Resource) /\ ToSet(i) \subseteq ToSet(GpioExit) \cup {"region"}
    BY DEF GpioInit, GpioExit, ToSet
  <2> QED BY <2>1, <2>2, <2>3, <2>4 DEF InitScripted
<1>3. DriverScripted(GpioInit, {}, GpioExit, GpioProbe, {"region"})
  BY DEF DriverScripted, ToSet, GpioInit, GpioExit, GpioProbe
<1>5. "driver" \in ToSet(GpioInit)
  BY DEF GpioInit, ToSet
<1> QED BY <1>1, <1>2, <1>3, <1>5
        DEF WellScripted, Scripts, KnownLeftover, KnownFailLeftover, PlatformScript

\* Without devices, nothing is probed.
LEMMA NoProbe ==
    ASSUME NEW left PROVE ProbeScripted(<<>>, <<>>, <<>>, left) /\ ToSet(<<>>) = {}
  BY ShortSeqs, Names
     DEF ProbeScripted, Releases, NoDuplicates, Precedes, CdevBeforeBox, Before, ToSet

LEMMA BaseWell ==
    WellScripted(Scripts.choen_base, KnownLeftover.choen_base, KnownFailLeftover.choen_base)
<1> DEFINE i == BaseInit
           e == BaseInitError
           left == {"region5"}
           fail == {"class", "cdev0", "node0", "node1", "node2"}
<1>1. i \in Seq(Resource) /\ BaseExit \in Seq(Resource)
  BY LongSeq, Names DEF BaseInit, BaseExit
<1>2. Len(i) = 9 /\ NoDuplicates(i)
  BY DEF BaseInit, NoDuplicates
<1>3. ToSet(i) \subseteq ToSet(BaseExit) \cup left /\ "driver" \notin ToSet(i)
  BY DEF BaseInit, BaseExit, ToSet
<1>4. e[1] = <<>> /\ \A k \in 2 .. 9 : e[k] = <<"region2">>
  BY <1>2 DEF BaseInitError
<1>5. \A k \in 1 .. 9 : e[k] \in Seq(Resource) /\ "class" \notin ToSet(e[k])
  <2>1. "class" \notin ToSet(<<>>) /\ "class" \notin ToSet(<<"region2">>)
    BY DEF ToSet
  <2>2. <<>> \in Seq(Resource) /\ <<"region2">> \in Seq(Resource)
    BY ShortSeqs, Names
  <2>3. \A k \in 1 .. 9 : k = 1 \/ k \in 2 .. 9
    OBVIOUS
  <2> QED BY <1>4, <2>1, <2>2, <2>3
<1>6. \A k \in 1 .. 9 : i[k] \notin BaseNodes \cup {"class"} => k = 1 \/ k = 3 \/ k = 7
  BY DEF BaseInit, BaseNodes
<1>7. \A k \in {1, 3, 7} : Before(i, k) \subseteq left \cup fail
  BY DEF BaseInit, Before
<1>8. /\ "class" \notin BaseNodes
      /\ \A n \in BaseNodes : Precedes("class", n, i) /\ Precedes(n, "class", BaseExit)
  BY DEF BaseNodes, BaseInit, BaseExit, Precedes, Before
<1> HIDE DEF i, e, left, fail
<1>9. \A k \in 1 .. 9 :
        i[k] \notin BaseNodes \cup {"class"} => Before(i, k) \subseteq left \cup fail
  BY <1>6, <1>7
<1>10. InitScripted(i, BaseNodes, {"class"}, e, BaseExit, left, fail)
  <2>1. \A k \in 1 .. Len(i) : e[k] \in Seq(Resource) /\ "class" \notin ToSet(e[k])
    BY <1>2, <1>5
  <2>2. \A k \in 1 .. Len(i) :
          i[k] \notin BaseNodes \cup {"class"} => Before(i, k) \subseteq left \cup fail
    BY <1>2, <1>9
  <2>3. Len(i) > 0
    BY <1>2
  <2> QED BY <1>1, <1>2, <1>3, <1>8, <2>1, <2>2, <2>3 DEF InitScripted
<1> QED BY <1>3, <1>10, NoProbe
        DEF WellScripted, Scripts, KnownLeftover, KnownFailLeftover, CharScript, i, e, left, fail

LEMMA RwWell ==
    WellScripted(Scripts.choen_rw, KnownLeftover.choen_rw, KnownFailLeftover.choen_rw)
<1> USE ShortSeqs, Names
<1> DEFINE i == RwInit
           e == RwInitError
<1>1. i \in Seq(Resource) /\ RwExit \in Seq(Resource)
  BY DEF RwInit, RwExit
<1>2. Len(i) = 3 /\ NoDuplicates(i)
  BY DEF RwInit, NoDuplicates
<1>3. ToSet(i) = ToSet(RwExit) /\ "driver" \notin ToSet(i)
  BY DEF RwInit, RwExit, ToSet
<1>4. e[1] \in Seq(Resource) /\ e[2] \in Seq(Resource) /\ e[3] \in Seq(Resource)
  BY DEF RwInitError
<1>5. /\ Before(i, 1) \subseteq ToSet(e[1])
      /\ Before(i, 2) \subseteq ToSet(e[2])
      /\ Before(i, 3) \subseteq ToSet(e[3]) \cup {"cdev0"}
  BY DEF RwInit, RwInitError, Before, ToSet
<1>6. InitScripted(i, {}, {}, e, RwExit, {}, {"cdev0"})
  BY <1>1, <1>2, <1>3, <1>4, <1>5 DEF InitScripted
<1> QED BY <1>3, <1>6, NoProbe
        DEF WellScripted, Scripts, KnownLeftover, KnownFailLeftover, CharScript

\* What the proofs below use of the drivers.
AllWell == \A n \in Drivers : WellScripted(Script[n], Leftover[n], FailLeftover[n])

LEMMA TheDriversAreWell == TheDrivers => AllWell
<1> SUFFICES ASSUME TheDrivers, NEW n \in Drivers
             PROVE  WellScripted(Scripts[n], KnownLeftover[n], KnownFailLeftover[n])
  BY DEF AllWell, TheDrivers
<1>1. n \in {"platform2", "platform1", "bbb_gpio1", "choen_base", "choen_rw"}
  BY DEF TheDrivers, Scripts
<1> QED BY <1>1, Platform2Well, Platform1Well, GpioWell, BaseWell, RwWell

-----------------------------------------------------------------------------
(* ModuleInv *)

\* The driver's statements, under the names of DriverLifecycle.
LEMMA DriverFacts ==
    ASSUME AllWell, drv \in Drivers
    PROVE  /\ ProbeScripted(ProbeOrder, ProbeError, RemoveOrder, Leftover[drv])
           /\ InitScripted(InitOrder, InitNodes, InitFatal, InitError, ExitOrder,
                           Leftover[drv], FailLeftover[drv])
           /\ "driver" \in ToSet(InitOrder) =>
                 DriverScripted(InitOrder, InitNodes, ExitOrder, ProbeOrder, Leftover[drv])
           /\ "driver" \notin ToSet(InitOrder) => ToSet(ProbeOrder) = {}
  BY DEF AllWell, WellScripted, ProbeOrder, ProbeError, RemoveOrder, InitOrder, InitNodes,
         InitFatal, InitError, ExitOrder

LEMMA ModuleInit == Init => ModuleInv
  BY ShortSeqs, Names DEF Init, ModuleInv, InitGot

LEMMA LoadKeeps ==
    ASSUME AllWell, ModuleInv, Load
    PROVE  ModuleInv'
<1>1. /\ mod \in {"out", "failed"} /\ mod' = "init" /\ mtodo' = InitOrder
      /\ UNCHANGED <<drv, held>> /\ drv \in Drivers
      /\ InitOrder' = InitOrder /\ InitNodes' = InitNodes
  BY DEF Load, ModuleInv, InitOrder, InitNodes
<1>2. /\ InitOrder \in Seq(Resource) /\ Len(InitOrder) > 0
  BY <1>1, DriverFacts DEF InitScripted
<1>3. mtodo' \in Seq(Resource) /\ mtodo' # <<>>
  BY <1>1, <1>2
<1>4. Remains(InitOrder, InitOrder) /\ InitGot' = {}
  <2>1. Len(InitOrder) - Len(InitOrder) + 1 = 1
    BY <1>2
  <2> QED BY <1>1, <1>2, <2>1, BeforeEnds DEF InitGot
<1>5. held \subseteq MayBeLeft' /\ "driver" \notin held
  BY <1>1 DEF ModuleInv, InitGot, MayBeLeft
<1> QED BY <1>1, <1>3, <1>4, <1>5 DEF ModuleInv

\* The step that acquires r, or goes on without it.
LEMMA AcquireKeeps ==
    ASSUME AllWell, ModuleInv, mod = "init", ModuleGoto("init", "in", Tail(mtodo)),
           UNCHANGED drv,
           \/ held' = held \cup {Head(mtodo)}
           \/ Head(mtodo) \in InitNodes /\ UNCHANGED held
    PROVE  ModuleInv'
<1> DEFINE k == Len(InitOrder) - Len(mtodo) + 1
           r == Head(mtodo)
<1>0. /\ drv \in Drivers /\ mtodo \in Seq(Resource) /\ mtodo # <<>>
      /\ Remains(mtodo, InitOrder)
      /\ InitOrder' = InitOrder /\ InitNodes' = InitNodes
  BY DEF ModuleInv, InitOrder, InitNodes
<1>1. InitScripted(InitOrder, InitNodes, InitFatal, InitError, ExitOrder,
                 Leftover[drv], FailLeftover[drv])
  BY <1>0, DriverFacts
<1>2. InitOrder \in Seq(Resource)
  BY <1>1 DEF InitScripted
<1>3. /\ k \in 1 .. Len(InitOrder) /\ r = InitOrder[k] /\ r \in ToSet(InitOrder)
      /\ Len(InitOrder) - Len(Tail(mtodo)) + 1 = k + 1
      /\ Remains(Tail(mtodo), InitOrder)
      /\ Before(InitOrder, k + 1) = Before(InitOrder, k) \cup {r}
      /\ Tail(mtodo) = <<>> => Before(InitOrder, k + 1) = ToSet(InitOrder)
      /\ k = Len(InitOrder) => Tail(mtodo) = <<>>
      /\ Tail(mtodo) \in Seq(Resource)
  <2>1. InitOrder[k] \in ToSet(InitOrder)
    BY <1>0, <1>2, TailAdvances DEF ToSet
  <2> QED BY <1>0, <1>2, <2>1, TailAdvances, TailElements
<1>4. InitGot = Before(InitOrder, k)
  BY DEF InitGot
<1>5. InitGot' = InitGot \cup {r}
  <2>1. CASE Tail(mtodo) = <<>>
    BY <1>0, <1>3, <1>4, <2>1 DEF InitGot, ModuleGoto
  <2>2. CASE Tail(mtodo) # <<>>
    <3>1. mod' = "init" /\ Len(InitOrder) - Len(mtodo') + 1 = k + 1
      BY <1>3, <2>2 DEF ModuleGoto
    <3> QED BY <1>0, <1>3, <1>4, <3>1 DEF InitGot
  <2> QED BY <2>1, <2>2
<1> HIDE DEF k
<1>6. InitGot' \ InitNodes \subseteq held'
  BY <1>5 DEF ModuleInv
<1>7. held' \subseteq ToSet(InitOrder) /\ held' \subseteq InitGot' \cup MayBeLeft'
  <2>1. held' \subseteq ToSet(InitOrder) /\ held' \subseteq InitGot' \cup MayBeLeft
    BY <1>3, <1>5 DEF ModuleInv
  <2>2. CASE mod' = "init"
    BY <2>1, <2>2 DEF MayBeLeft
  <2>3. CASE mod' = "in"
    BY <1>0, <2>1, <2>3 DEF InitGot
  <2> QED BY <2>1, <2>2, <2>3 DEF ModuleGoto
<1>8. r \in InitNodes => "class" \in held
  <2>1. r \in InitNodes => "class" \in Before(InitOrder, k) /\ "class" \notin InitNodes
    BY <1>1, <1>3 DEF InitScripted, Precedes
  <2> QED BY <1>4, <2>1 DEF ModuleInv
<1>9. held' \cap InitNodes # {} => "class" \in held'
  BY <1>8 DEF ModuleInv
<1>10. "driver" \in held' => Tail(mtodo) = <<>> /\ InitNodes = {}
  <2> SUFFICES ASSUME "driver" \in held'
               PROVE  Tail(mtodo) = <<>> /\ InitNodes = {}
    OBVIOUS
  <2>1. r = "driver" /\ "driver" \in ToSet(InitOrder)
    BY <1>3 DEF ModuleInv
  <2>2. InitNodes = {} /\ InitOrder[Len(InitOrder)] = "driver"
    BY <1>0, <2>1, DriverFacts DEF DriverScripted
  <2>3. k = Len(InitOrder)
    BY <1>1, <1>3, <2>1, <2>2 DEF InitScripted, NoDuplicates
  <2> QED BY <1>3, <2>2, <2>3
<1>11. "driver" \in held' => ToSet(InitOrder) \subseteq held' /\ mod' = "in"
  BY <1>3, <1>4, <1>5, <1>6, <1>10 DEF ModuleGoto
<1>12. /\ mod' \in {"init", "in"} /\ mtodo' = Tail(mtodo)
       /\ mod' = "init" => mtodo' # <<>>
  BY DEF ModuleGoto
<1> QED BY <1>0, <1>3, <1>6, <1>7, <1>9, <1>11, <1>12 DEF ModuleInv

\* The step that fails and jumps to its label.
LEMMA FailKeeps ==
    ASSUME AllWell, ModuleInv, mod = "init", UNCHANGED <<drv, held>>,
           Head(mtodo) \notin InitNodes \cup InitFatal,
           InitFails(Len(InitOrder) - Len(mtodo) + 1)
    PROVE  ModuleInv'
<1> DEFINE k == Len(InitOrder) - Len(mtodo) + 1
<1>0. /\ drv \in Drivers /\ mtodo \in Seq(Resource) /\ mtodo # <<>>
      /\ Remains(mtodo, InitOrder) /\ "driver" \notin held
      /\ InitOrder' = InitOrder /\ InitNodes' = InitNodes
  BY DEF ModuleInv, InitOrder, InitNodes
<1>1. InitScripted(InitOrder, InitNodes, InitFatal, InitError, ExitOrder,
                 Leftover[drv], FailLeftover[drv])
  BY <1>0, DriverFacts
<1>2. k \in 1 .. Len(InitOrder) /\ Head(mtodo) = InitOrder[k]
  BY <1>0, <1>1, TailAdvances DEF InitScripted
<1>3. /\ InitError[k] \in Seq(Resource)
      /\ Before(InitOrder, k) \subseteq ToSet(InitError[k]) \cup MayBeLeft
      /\ "class" \in ToSet(InitError[k]) => InitNodes = {}
  BY <1>1, <1>2 DEF InitScripted, MayBeLeft
<1>4. held \subseteq Before(InitOrder, k) \cup MayBeLeft
  BY DEF ModuleInv, InitGot
<1>5. k = Len(InitOrder) - Len(mtodo) + 1
  OBVIOUS
<1> HIDE DEF k
<1>6. CASE mod' = "in" /\ mtodo' = <<>>
  BY <1>0, <1>6, ShortSeqs, Names DEF ModuleInv, InitGot
<1>7. CASE ModuleGoto("fail", "failed", InitError[k])
  <2>0. mod' \in {"fail", "failed"} /\ MayBeLeft' = MayBeLeft
    BY <1>7 DEF ModuleGoto, MayBeLeft
  <2>1. CASE InitError[k] = <<>>
    <3>1. ToSet(InitError[k]) = {}
      BY <2>1 DEF ToSet
    <3>2. mod' = "failed" /\ mtodo' = <<>> /\ held \subseteq MayBeLeft'
      BY <1>3, <1>4, <1>7, <2>0, <2>1, <3>1 DEF ModuleGoto
    <3> QED BY <1>0, <3>2, ShortSeqs, Names DEF ModuleInv, InitGot
  <2>2. CASE InitError[k] # <<>>
    <3>1. mod' = "fail" /\ mtodo' = InitError[k]
      BY <1>7, <2>2 DEF ModuleGoto
    <3>2. InitGot' = ToSet(InitError[k])
      BY <3>1 DEF InitGot
    <3>3. \A i \in 1 .. Len(mtodo') : mtodo'[i] = "class" => InitNodes = {}
      BY <1>3, <3>1 DEF ToSet
    <3> QED BY <1>0, <1>3, <1>4, <2>0, <2>2, <3>1, <3>2, <3>3 DEF ModuleInv
  <2> QED BY <2>1, <2>2
<1> QED BY <1>5, <1>6, <1>7 DEF InitFails

LEMMA UnloadKeeps ==
    ASSUME AllWell, ModuleInv, Unload
    PROVE  ModuleInv'
<1>0. /\ mod = "in" /\ drv \in Drivers /\ UNCHANGED <<drv, held>>
      /\ InitOrder' = InitOrder /\ InitNodes' = InitNodes
  BY DEF Unload, ModuleInv, InitOrder, InitNodes
<1>1. InitScripted(InitOrder, InitNodes, InitFatal, InitError, ExitOrder,
                 Leftover[drv], FailLeftover[drv])
  BY <1>0, DriverFacts
<1>2. held \subseteq ToSet(ExitOrder) \cup Leftover[drv] /\ ExitOrder \in Seq(Resource)
  BY <1>1 DEF ModuleInv, InitScripted
<1>3. CASE ExitOrder = <<>>
  <2>1. mod' = "out" /\ mtodo' = <<>> /\ ToSet(ExitOrder) = {}
    BY <1>3 DEF Unload, ModuleGoto, ToSet
  <2>2. "driver" \notin held
    <3>1. "driver" \in held => "driver" \in ToSet(InitOrder)
      BY DEF ModuleInv
    <3>2. "driver" \in ToSet(InitOrder) => Len(ExitOrder) > 0
      BY <1>0, DriverFacts DEF DriverScripted
    <3> QED BY <1>3, <3>1, <3>2
  <2> QED BY <1>0, <1>2, <2>1, <2>2, ShortSeqs, Names DEF ModuleInv, InitGot, MayBeLeft
<1>4. CASE ExitOrder # <<>>
  <2>1. mod' = "exit" /\ mtodo' = ExitOrder
    BY <1>4 DEF Unload, ModuleGoto
  <2>2. InitGot' = ToSet(ExitOrder)
    BY <2>1 DEF InitGot
  <2>3. \A i \in 1 .. Len(ExitOrder) :
          ExitOrder[i] = "class" => InitNodes \subseteq Before(ExitOrder, i)
    BY <1>1 DEF InitScripted, Precedes
  <2>4. "driver" \in held => ToSet(InitOrder) \subseteq held /\ Head(ExitOrder) = "driver"
    <3>1. "driver" \in held => ToSet(InitOrder) \subseteq held /\ "driver" \in ToSet(InitOrder)
      BY DEF ModuleInv
    <3>2. "driver" \in ToSet(InitOrder) => ExitOrder[1] = "driver"
      BY <1>0, DriverFacts DEF DriverScripted
    <3>3. Head(ExitOrder) = ExitOrder[1]
      BY <1>2, <1>4, TailElements
    <3> QED BY <3>1, <3>2, <3>3
  <2> QED BY <1>0, <1>2, <1>4, <2>1, <2>2, <2>3, <2>4 DEF ModuleInv, MayBeLeft
<1> QED BY <1>3, <1>4

LEMMA ReleaseKeeps ==
    ASSUME AllWell, ModuleInv, UndoStep
    PROVE  ModuleInv'
<1> DEFINE r == Head(mtodo)
           u == Tail(mtodo)
<1>0. /\ mod \in {"fail", "exit"} /\ mtodo \in Seq(Resource) /\ mtodo # <<>>
      /\ drv \in Drivers /\ drv' = drv /\ held' = held \ {r}
      /\ mtodo' = u
      /\ mod' = IF u = <<>> THEN (IF mod = "fail" THEN "failed" ELSE "out") ELSE mod
      /\ mod' \in {"fail", "failed", "exit", "out"}
      /\ InitOrder' = InitOrder /\ InitNodes' = InitNodes
  BY DEF UndoStep, ModuleInv, ModuleGoto, InitOrder, InitNodes
<1>1. /\ u \in Seq(Resource) /\ ToSet(mtodo) = {r} \cup ToSet(u) /\ r = mtodo[1]
      /\ \A i \in 1 .. Len(u) : i + 1 \in 1 .. Len(mtodo) /\ u[i] = mtodo[i + 1]
      /\ \A i \in 1 .. Len(u) : Before(mtodo, i + 1) = {r} \cup Before(u, i)
      /\ Before(mtodo, 1) = {} /\ 1 \in 1 .. Len(mtodo)
  BY <1>0, TailElements, TailReleases, BeforeEnds
<1> HIDE DEF r, u
<1>2. held \subseteq ToSet(mtodo) \cup MayBeLeft /\ MayBeLeft' = MayBeLeft
  BY <1>0 DEF ModuleInv, InitGot, MayBeLeft
<1>3. held' \subseteq ToSet(u) \cup MayBeLeft' /\ held' \subseteq held
  BY <1>0, <1>1, <1>2
<1>4. InitGot' = ToSet(u)
  <2>1. u = <<>> => ToSet(u) = {}
    BY DEF ToSet
  <2> QED BY <1>0, <2>1 DEF InitGot
<1>5. \A i \in 1 .. Len(u) : u[i] = "class" => held' \cap InitNodes \subseteq Before(u, i)
  <2> SUFFICES ASSUME NEW i \in 1 .. Len(u), u[i] = "class"
               PROVE  held' \cap InitNodes \subseteq Before(u, i)
    OBVIOUS
  <2>1. held \cap InitNodes \subseteq Before(mtodo, i + 1)
    BY <1>0, <1>1 DEF ModuleInv
  <2> QED BY <1>0, <1>1, <2>1
<1>6. held' \cap InitNodes # {} => "class" \in held'
  <2>1. r = "class" => held \cap InitNodes = {}
    BY <1>0, <1>1 DEF ModuleInv
  <2> QED BY <1>0, <2>1 DEF ModuleInv
<1>7. "driver" \notin held'
  BY <1>0 DEF ModuleInv, r
<1>8. held' \subseteq ToSet(InitOrder)
  BY <1>3 DEF ModuleInv
<1> QED BY <1>0, <1>1, <1>3, <1>4, <1>5, <1>6, <1>7, <1>8 DEF ModuleInv

LEMMA ModuleStutter ==
    ASSUME ModuleInv, UNCHANGED modVars
    PROVE  ModuleInv'
  BY DEF ModuleInv, modVars, InitGot, MayBeLeft, InitOrder, InitNodes, Remains, Before

LEMMA ModuleNext == AllWell /\ ModuleInv /\ [Next]_vars => ModuleInv'
<1> SUFFICES ASSUME AllWell, ModuleInv, [Next]_vars
             PROVE  ModuleInv'
  OBVIOUS
<1>1. CASE InitStep
  <2>1. mod = "init" /\ UNCHANGED drv
    BY <1>1 DEF InitStep
  <2>2. \/ ModuleGoto("init", "in", Tail(mtodo)) /\ held' = held \cup {Head(mtodo)}
        \/ /\ ModuleGoto("init", "in", Tail(mtodo))
           /\ Head(mtodo) \in InitNodes /\ UNCHANGED held
        \/ /\ Head(mtodo) \notin InitNodes \cup InitFatal
           /\ InitFails(Len(InitOrder) - Len(mtodo) + 1) /\ UNCHANGED held
    BY <1>1 DEF InitStep
  <2> QED BY <2>1, <2>2, AcquireKeeps, FailKeeps
<1>2. CASE UNCHANGED modVars
  BY <1>2, ModuleStutter
<1>3. CASE \E d \in Devs : Bind(d) \/ ProbeStep(d) \/ ProbeCount(d) \/ Unbind(d) \/ DeviceUndo(d)
  BY <1>2, <1>3 DEF Bind, ProbeStep, ProbeCount, Unbind, DeviceUndo
<1> QED BY <1>1, <1>2, <1>3, LoadKeeps, UnloadKeeps, ReleaseKeeps DEF Next, vars

-----------------------------------------------------------------------------
(* DeviceInv *)

\* d's handler is done with its last element, or goes on.
LEMMA DeviceMoves ==
    ASSUME DeviceTypeOK, NEW d \in Devs, NEW from, NEW to, NEW todo,
           from \in {"probe", "undo"}, to \in {"count", "unbound"},
           todo \in Seq(Resource), DeviceGoto(d, from, to, todo)
    PROVE  /\ dpc' \in [Devs -> {"unbound", "probe", "count", "store", "bound", "undo"}]
           /\ dtodo' \in [Devs -> Seq(Resource)] /\ dtodo'[d] = todo
           /\ dpc'[d] = IF todo = <<>> THEN to ELSE from
           /\ \A e \in Devs \ {d} : dpc'[e] = dpc[e] /\ dtodo'[e] = dtodo[e]
  BY DEF DeviceTypeOK, DeviceGoto

\* What the handler has yet to release, once it has to.
LEMMA UndoGot ==
    ASSUME DeviceTypeOK, NEW d \in Devs, NEW todo, Releases(todo),
           DeviceGoto(d, "undo", "unbound", todo)
    PROVE  /\ Got(d)' = ToSet(todo)
           /\ \/ dpc'[d] = "undo" /\ dtodo'[d] = todo /\ todo # <<>>
              \/ dpc'[d] = "unbound" /\ todo = <<>>
<1>1. todo \in Seq(Resource)
  BY DEF Releases
<1>2. dtodo'[d] = todo /\ dpc'[d] = IF todo = <<>> THEN "unbound" ELSE "undo"
  BY <1>1, DeviceMoves
<1>3. ToSet(<<>>) = {}
  BY DEF ToSet
<1> QED BY <1>2, <1>3 DEF Got

\* What the handler has acquired, after its next acquisition.
LEMMA ProbeGot ==
    ASSUME DeviceTypeOK, NEW d \in Devs, dpc[d] = "probe", dtodo[d] # <<>>,
           ProbeOrder \in Seq(Resource), Remains(dtodo[d], ProbeOrder), drv' = drv,
           ProbeNext(d)
    PROVE  /\ Got(d)' = Got(d) \cup {Head(dtodo[d])}
           /\ dpc'[d] = "probe" => dtodo'[d] # <<>> /\ Remains(dtodo'[d], ProbeOrder)
           /\ dpc'[d] \in {"probe", "count"}
           /\ Head(dtodo[d]) \in ToSet(ProbeOrder)
           /\ Len(ProbeOrder) - Len(dtodo[d]) + 1 \in 1 .. Len(ProbeOrder)
           /\ Head(dtodo[d]) = ProbeOrder[Len(ProbeOrder) - Len(dtodo[d]) + 1]
<1>0. PICK t \in Seq(Resource), p \in Seq(Resource) :
           t = dtodo[d] /\ t # <<>> /\ p = ProbeOrder /\ p = ProbeOrder' /\ Remains(t, p)
  BY DEF DeviceTypeOK, ProbeOrder
<1>k. PICK k : k = Len(p) - Len(t) + 1
  OBVIOUS
<1>1. /\ k \in 1 .. Len(p) /\ Head(t) = p[k] /\ Len(p) - Len(Tail(t)) + 1 = k + 1
      /\ Remains(Tail(t), p) /\ Before(p, k + 1) = Before(p, k) \cup {Head(t)}
      /\ Tail(t) = <<>> => Before(p, k + 1) = ToSet(p)
  <2>0. t # <<>> /\ Remains(t, p) /\ k = Len(p) - Len(t) + 1
    BY <1>0, <1>k
  <2>1. k \in 1 .. Len(p) /\ Head(t) = p[k]
    BY <2>0, TailAdvances
  <2>2. Len(p) - Len(Tail(t)) + 1 = k + 1
    BY <2>0, TailAdvances
  <2>3. Remains(Tail(t), p)
    BY <2>0, TailAdvances
  <2>4. Before(p, k + 1) = Before(p, k) \cup {Head(t)}
    BY <2>0, TailAdvances
  <2>5. Tail(t) = <<>> => Before(p, k + 1) = ToSet(p)
    BY <2>0, TailAdvances
  <2> QED BY <2>1, <2>2, <2>3, <2>4, <2>5
<1>2. PICK u \in Seq(Resource) : u = Tail(t)
  BY <1>0, TailElements
<1>3. dtodo'[d] = u /\ dpc'[d] = IF u = <<>> THEN "count" ELSE "probe"
  <2>1. DeviceGoto(d, "probe", "count", u)
    BY <1>0, <1>2 DEF ProbeNext
  <2> QED BY <2>1, DeviceMoves
<1>4. Got(d) = Before(p, k)
  BY <1>0, <1>k DEF Got
<1>5. Got(d)' = Before(p, k + 1)
  <2>1. CASE u = <<>>
    BY <1>0, <1>1, <1>2, <1>3, <2>1 DEF Got
  <2>2. CASE u # <<>>
    <3>1. dpc'[d] = "probe" /\ Len(p) - Len(dtodo'[d]) + 1 = k + 1
      BY <1>1, <1>2, <1>3, <2>2
    <3> QED BY <1>0, <3>1 DEF Got
  <2> QED BY <2>1, <2>2
<1>6. Head(t) \in ToSet(p)
  BY <1>1 DEF ToSet
<1>7. /\ Got(d)' = Got(d) \cup {Head(t)}
      /\ dpc'[d] = "probe" => dtodo'[d] # <<>> /\ Remains(dtodo'[d], p)
      /\ dpc'[d] \in {"probe", "count"}
  BY <1>1, <1>2, <1>3, <1>4, <1>5
<1> QED BY <1>0, <1>k, <1>1, <1>6, <1>7

\* What a step of another device or of the module leaves of d.
LEMMA DeviceStays ==
    ASSUME NEW d \in Devs, DeviceOK(d), drv' = drv,
           dpc'[d] = dpc[d], dtodo'[d] = dtodo[d], has'[d] = has[d],
           dpc[d] # "unbound" => "driver" \in held'
    PROVE  Got(d)' = Got(d) /\ DeviceOK(d)'
<1>1. ProbeOrder' = ProbeOrder
  BY DEF ProbeOrder
<1>2. Got(d)' = Got(d)
  BY <1>1 DEF Got
<1> QED BY <1>1, <1>2 DEF DeviceOK

LEMMA BindDevice ==
    ASSUME AllWell, ModuleInv, DeviceInv, NEW d \in Devs, Bind(d)
    PROVE  DeviceTypeOK' /\ DeviceOK(d)' /\ Got(d)' = {}
<1>1. /\ drv \in Drivers /\ "driver" \in ToSet(InitOrder) /\ UNCHANGED <<drv, held>>
      /\ ProbeOrder' = ProbeOrder
  BY DEF Bind, ModuleInv, modVars, ProbeOrder
<1>2. ProbeOrder \in Seq(Resource) /\ Len(ProbeOrder) > 0
  BY <1>1, DriverFacts DEF ProbeScripted, DriverScripted
<1>3. /\ dpc' = [dpc EXCEPT ![d] = "probe"] /\ dtodo' = [dtodo EXCEPT ![d] = ProbeOrder]
      /\ UNCHANGED <<has, dev_num, name, count, dev_count>>
  BY DEF Bind
<1>4. DeviceTypeOK' /\ dpc'[d] = "probe" /\ dtodo'[d] = ProbeOrder
  BY <1>1, <1>2, <1>3 DEF DeviceInv, DeviceTypeOK
<1>5. Got(d)' = {} /\ Remains(ProbeOrder, ProbeOrder)
  <2>1. Len(ProbeOrder) - Len(ProbeOrder) + 1 = 1
    BY <1>2
  <2> QED BY <1>1, <1>2, <1>4, <2>1, BeforeEnds DEF Got
<1>6. has[d] \subseteq Leftover[drv] /\ "driver" \in held
  BY DEF Bind, DeviceInv, DeviceOK, Got
<1>7. dtodo'[d] # <<>>
  BY <1>2, <1>4
<1> QED BY <1>1, <1>3, <1>4, <1>5, <1>6, <1>7 DEF DeviceOK

\* An acquisition that succeeds: a cdev is not in has.
LEMMA ProbeDevice ==
    ASSUME AllWell, ModuleInv, DeviceInv, NEW d \in Devs, dpc[d] = "probe", ProbeNext(d),
           UNCHANGED <<drv, held, dev_count, count>>,
           dev_num' \in [Devs -> Nat], name' \in [Devs -> Nat],
           \/ Head(dtodo[d]) = "cdev" /\ UNCHANGED has
           \/ Head(dtodo[d]) # "cdev" /\ has' = [has EXCEPT ![d] = @ \cup {Head(dtodo[d])}]
    PROVE  /\ DeviceTypeOK' /\ DeviceOK(d)' /\ Got(d)' = Got(d) \cup {Head(dtodo[d])}
           /\ Head(dtodo[d]) \notin Got(d)
<1>1. /\ drv \in Drivers /\ ProbeOrder' = ProbeOrder /\ DeviceTypeOK /\ DeviceOK(d)
  BY DEF ModuleInv, ProbeOrder, DeviceInv
<1>2. ProbeOrder \in Seq(Resource) /\ NoDuplicates(ProbeOrder)
  BY <1>1, DriverFacts DEF ProbeScripted
<1>3. dtodo[d] # <<>> /\ Remains(dtodo[d], ProbeOrder) /\ "driver" \in held
  BY <1>1 DEF DeviceOK
<1>4. PICK r \in ToSet(ProbeOrder) :
        /\ r = Head(dtodo[d])
        /\ Got(d)' = Got(d) \cup {r}
        /\ dpc'[d] = "probe" => dtodo'[d] # <<>> /\ Remains(dtodo'[d], ProbeOrder)
        /\ dpc'[d] \in {"probe", "count"}
        /\ Len(ProbeOrder) - Len(dtodo[d]) + 1 \in 1 .. Len(ProbeOrder)
        /\ r = ProbeOrder[Len(ProbeOrder) - Len(dtodo[d]) + 1]
  BY <1>1, <1>2, <1>3, ProbeGot
<1>5. r \notin Got(d)
  <2>1. PICK k : k = Len(ProbeOrder) - Len(dtodo[d]) + 1
    OBVIOUS
  <2>2. Got(d) = Before(ProbeOrder, k)
    BY <2>1 DEF Got
  <2>3. k \in 1 .. Len(ProbeOrder) /\ r = ProbeOrder[k]
    BY <1>4, <2>1
  <2> QED BY <1>2, <2>2, <2>3 DEF Before, NoDuplicates
<1>6. \/ r = "cdev" /\ UNCHANGED has
      \/ r # "cdev" /\ has' = [has EXCEPT ![d] = @ \cup {r}]
  BY <1>4
<1>7. has' \in [Devs -> SUBSET ToSet(ProbeOrder)]
  <2>1. has \in [Devs -> SUBSET ToSet(ProbeOrder)]
    BY <1>1 DEF DeviceTypeOK
  <2>2. has[d] \cup {r} \in SUBSET ToSet(ProbeOrder)
    BY <2>1
  <2> QED BY <1>6, <2>1, <2>2
<1>8. /\ dpc' \in [Devs -> {"unbound", "probe", "count", "store", "bound", "undo"}]
      /\ dtodo' \in [Devs -> Seq(Resource)]
  <2>1. PICK t \in Seq(Resource) : t = dtodo[d] /\ t # <<>>
    BY <1>1, <1>3 DEF DeviceTypeOK
  <2>2. PICK u \in Seq(Resource) : u = Tail(t)
    BY <2>1, TailElements
  <2>3. DeviceGoto(d, "probe", "count", u)
    BY <2>1, <2>2 DEF ProbeNext
  <2> QED BY <1>1, <2>3, DeviceMoves
<1>9. DeviceTypeOK'
  BY <1>1, <1>7, <1>8 DEF DeviceTypeOK
<1>10. /\ Got(d)' \subseteq ToSet(ProbeOrder)
       /\ Got(d)' \ {"cdev"} \subseteq has'[d]
       /\ has'[d] \subseteq Got(d)' \cup Leftover[drv]
  BY <1>1, <1>4, <1>6 DEF DeviceOK, DeviceTypeOK
<1>11. DeviceOK(d)'
  BY <1>1, <1>3, <1>4, <1>10 DEF DeviceOK
<1> QED BY <1>4, <1>5, <1>9, <1>11

\* The handler turns to releasing: at an error label, or in choen_remove.
LEMMA TurnDevice ==
    ASSUME AllWell, ModuleInv, DeviceInv, NEW d \in Devs, NEW todo, Releases(todo),
           ToSet(todo) \subseteq Got(d), Got(d) \subseteq ToSet(todo) \cup Leftover[drv],
           dpc[d] # "unbound", DeviceGoto(d, "undo", "unbound", todo),
           UNCHANGED <<drv, held, dev_count, has, dev_num, name, count>>
    PROVE  DeviceTypeOK' /\ DeviceOK(d)' /\ Got(d)' = ToSet(todo)
<1>1. /\ ProbeOrder' = ProbeOrder /\ DeviceTypeOK /\ DeviceOK(d) /\ todo \in Seq(Resource)
  BY DEF ProbeOrder, DeviceInv, Releases
<1>2. DeviceTypeOK'
  BY <1>1, DeviceMoves DEF DeviceTypeOK
<1>3. /\ Got(d)' = ToSet(todo)
      /\ \/ dpc'[d] = "undo" /\ dtodo'[d] = todo /\ todo # <<>>
         \/ dpc'[d] = "unbound" /\ todo = <<>>
  BY <1>1, UndoGot
<1>4. DeviceOK(d)'
  BY <1>1, <1>3 DEF DeviceOK, Releases
<1> QED BY <1>2, <1>3, <1>4

LEMMA UndoDevice ==
    ASSUME AllWell, ModuleInv, DeviceInv, NEW d \in Devs, dpc[d] = "undo",
           DeviceGoto(d, "undo", "unbound", Tail(dtodo[d])),
           has' = [has EXCEPT ![d] = @ \ {Head(dtodo[d])}],
           UNCHANGED <<drv, held, dev_count, dev_num, name, count>>
    PROVE  /\ DeviceTypeOK' /\ DeviceOK(d)'
           /\ Got(d) = Got(d)' \cup {Head(dtodo[d])} /\ Head(dtodo[d]) \notin Got(d)'
<1>1. ProbeOrder' = ProbeOrder /\ DeviceTypeOK /\ DeviceOK(d)
  BY DEF ProbeOrder, DeviceInv
<1>2. PICK t \in Seq(Resource) :
        t = dtodo[d] /\ t # <<>> /\ NoDuplicates(t) /\ CdevBeforeBox(t)
  BY <1>1 DEF DeviceTypeOK, DeviceOK
<1>3. PICK u \in Seq(Resource), r \in ToSet(t) :
        /\ u = Tail(t) /\ r = Head(t) /\ ToSet(t) = {r} \cup ToSet(u)
  BY <1>2, TailElements
<1>4. NoDuplicates(u) /\ CdevBeforeBox(u) /\ r \notin ToSet(u)
  BY <1>2, <1>3, TailReleases
<1>5. DeviceGoto(d, "undo", "unbound", u) /\ Releases(u)
  BY <1>2, <1>3, <1>4 DEF Releases
<1>6. /\ Got(d)' = ToSet(u)
      /\ \/ dpc'[d] = "undo" /\ dtodo'[d] = u /\ u # <<>>
         \/ dpc'[d] = "unbound" /\ u = <<>>
  BY <1>1, <1>5, UndoGot
<1>7. Got(d) = ToSet(t)
  BY <1>2 DEF Got
<1>8. has' = [has EXCEPT ![d] = @ \ {r}]
  BY <1>2, <1>3
<1>9. DeviceTypeOK'
  BY <1>1, <1>5, <1>8, DeviceMoves DEF DeviceTypeOK
<1>10. /\ Got(d)' \subseteq ToSet(ProbeOrder)
       /\ Got(d)' \ {"cdev"} \subseteq has'[d]
       /\ has'[d] \subseteq Got(d)' \cup Leftover[drv]
  BY <1>1, <1>3, <1>4, <1>6, <1>7, <1>8 DEF DeviceOK, DeviceTypeOK
<1>11. DeviceOK(d)'
  BY <1>1, <1>4, <1>6, <1>10 DEF DeviceOK
<1> QED BY <1>2, <1>3, <1>4, <1>6, <1>7, <1>9, <1>11

LEMMA CountDevice ==
    ASSUME AllWell, ModuleInv, DeviceInv, NEW d \in Devs, ProbeCount(d)
    PROVE  DeviceTypeOK' /\ DeviceOK(d)' /\ Got(d)' = Got(d)
<1>1. ProbeOrder' = ProbeOrder /\ DeviceTypeOK /\ DeviceOK(d) /\ UNCHANGED <<drv, held>>
  BY DEF ProbeOrder, DeviceInv, ProbeCount, modVars
<1>2. DeviceTypeOK' /\ dpc[d] \in {"count", "store"} /\ dpc'[d] \in {"store", "bound"}
  <2>1. CASE /\ dpc[d] = "count" /\ count' = [count EXCEPT ![d] = dev_count]
             /\ dpc' = [dpc EXCEPT ![d] = "store"]
             /\ UNCHANGED <<dev_count, dtodo, has, dev_num, name>>
    BY <1>1, <2>1 DEF DeviceTypeOK
  <2>2. CASE /\ dpc[d] = "store" /\ dev_count' = count[d] + 1
             /\ dpc' = [dpc EXCEPT ![d] = "bound"]
             /\ UNCHANGED <<dtodo, has, dev_num, name, count>>
    <3>1. dev_count' \in Nat
      BY <1>1, <2>2 DEF DeviceTypeOK
    <3> QED BY <1>1, <2>2, <3>1 DEF DeviceTypeOK
  <2> QED BY <2>1, <2>2 DEF ProbeCount
<1>3. Got(d)' = Got(d) /\ has'[d] = has[d]
  BY <1>1, <1>2 DEF Got, ProbeCount
<1> QED BY <1>1, <1>2, <1>3 DEF DeviceOK

\* Every step of a device is one of these five.
DeviceStep(d) == Bind(d) \/ ProbeStep(d) \/ ProbeCount(d) \/ Unbind(d) \/ DeviceUndo(d)

ModuleStep == Load \/ InitStep \/ Unload \/ UndoStep

Acquires(d) ==
    /\ dpc[d] = "probe" /\ ProbeNext(d) /\ UNCHANGED <<dev_count, count>>
    /\ dev_num' \in [Devs -> Nat] /\ name' \in [Devs -> Nat]
    /\ \/ Head(dtodo[d]) = "cdev" /\ UNCHANGED has
       \/ Head(dtodo[d]) # "cdev" /\ has' = [has EXCEPT ![d] = @ \cup {Head(dtodo[d])}]

LEMMA ProbeSteps ==
    ASSUME DeviceInv, NEW d \in Devs, ProbeStep(d)
    PROVE  Acquires(d) \/ ProbeFails(d)
<1>1. dev_count \in Nat /\ dev_num \in [Devs -> Nat] /\ name \in [Devs -> Nat] /\ dpc[d] = "probe"
  BY DEF DeviceInv, DeviceTypeOK, ProbeStep
<1>2. CASE Head(dtodo[d]) = "cdev" /\ ProbeCdev(d)
  BY <1>1, <1>2 DEF ProbeCdev, Acquires, ProbeStep
<1>3. CASE Head(dtodo[d]) = "node" /\ ProbeNode(d)
  <2>1. dev_num' \in [Devs -> Nat] /\ name' \in [Devs -> Nat]
    BY <1>1, <1>3 DEF ProbeNode
  <2>2. has' = [has EXCEPT ![d] = @ \cup {Head(dtodo[d])}]
    BY <1>3 DEF ProbeNode
  <2> QED BY <1>1, <1>3, <2>1, <2>2 DEF ProbeNode, Acquires, ProbeStep
<1>4. CASE Head(dtodo[d]) = "box" /\ ProbeBox(d)
  <2>1. dev_num' \in [Devs -> Nat] /\ name' \in [Devs -> Nat]
    BY <1>1, <1>4 DEF ProbeBox
  <2>2. has' = [has EXCEPT ![d] = @ \cup {Head(dtodo[d])}]
    BY <1>4 DEF ProbeBox
  <2> QED BY <1>1, <1>4, <2>1, <2>2 DEF ProbeBox, Acquires, ProbeStep
<1>5. CASE Head(dtodo[d]) \notin {"box", "cdev", "node"} /\ ProbeAttr(d)
  BY <1>1, <1>5 DEF ProbeAttr, Acquires, ProbeStep
<1> QED BY <1>2, <1>3, <1>4, <1>5 DEF ProbeStep

\* Where the label of a failed acquisition leads to.
LEMMA ProbeLabel ==
    ASSUME AllWell, ModuleInv, DeviceInv, NEW d \in Devs, dpc[d] = "probe", ProbeFails(d)
    PROVE  \E todo \in Seq(Resource) :
              /\ Releases(todo) /\ ToSet(todo) = Got(d)
              /\ DeviceGoto(d, "undo", "unbound", todo)
<1>1. PICK k : k = Len(ProbeOrder) - Len(dtodo[d]) + 1
  OBVIOUS
<1>2. ProbeScripted(ProbeOrder, ProbeError, RemoveOrder, Leftover[drv])
  BY DriverFacts DEF ModuleInv
<1>3. dtodo[d] \in Seq(Resource) /\ dtodo[d] # <<>> /\ Remains(dtodo[d], ProbeOrder)
  BY DEF DeviceInv, DeviceTypeOK, DeviceOK
<1>4. k \in 1 .. Len(ProbeOrder)
  BY <1>1, <1>2, <1>3, TailAdvances DEF ProbeScripted
<1>5. Releases(ProbeError[k]) /\ ToSet(ProbeError[k]) = Before(ProbeOrder, k)
  BY <1>2, <1>4 DEF ProbeScripted
<1>6. Got(d) = Before(ProbeOrder, k)
  BY <1>1 DEF Got
<1>7. DeviceGoto(d, "undo", "unbound", ProbeError[k])
  BY <1>1 DEF ProbeFails
<1> QED BY <1>5, <1>6, <1>7 DEF Releases

\* What a step of d does to Got(d), and that it keeps DeviceOK(d).
LEMMA DeviceKeeps ==
    ASSUME AllWell, ModuleInv, DeviceInv, NEW d \in Devs, DeviceStep(d)
    PROVE  DeviceTypeOK' /\ DeviceOK(d)'
<1>1. CASE ProbeStep(d)
  <2>1. CASE Acquires(d)
    BY <1>1, <2>1, ProbeDevice DEF Acquires, ProbeStep, modVars
  <2>2. CASE ProbeFails(d)
    <3>1. PICK todo \in Seq(Resource) :
             /\ Releases(todo) /\ ToSet(todo) = Got(d)
             /\ DeviceGoto(d, "undo", "unbound", todo)
      BY <1>1, <2>2, ProbeLabel DEF ProbeStep
    <3> QED BY <1>1, <2>2, <3>1, TurnDevice DEF ProbeStep, ProbeFails, modVars
  <2> QED BY <1>1, <2>1, <2>2, ProbeSteps
<1>2. CASE Unbind(d)
  <2>1. ProbeScripted(ProbeOrder, ProbeError, RemoveOrder, Leftover[drv])
    BY DriverFacts DEF ModuleInv
  <2>2. Got(d) = ToSet(ProbeOrder) /\ dpc[d] = "bound"
    BY <1>2 DEF Got, Unbind
  <2>3. /\ Releases(RemoveOrder) /\ ToSet(RemoveOrder) \subseteq Got(d)
        /\ Got(d) \subseteq ToSet(RemoveOrder) \cup Leftover[drv]
    BY <2>1, <2>2 DEF ProbeScripted
  <2> QED BY <1>2, <2>2, <2>3, TurnDevice DEF Unbind, modVars
<1>3. CASE DeviceUndo(d)
  BY <1>3, UndoDevice DEF DeviceUndo, modVars
<1> QED BY <1>1, <1>2, <1>3, BindDevice, CountDevice DEF DeviceStep

LEMMA OthersStay ==
    ASSUME DeviceInv, NEW d \in Devs, DeviceStep(d), NEW e \in Devs, e # d
    PROVE  /\ dpc'[e] = dpc[e] /\ dtodo'[e] = dtodo[e] /\ has'[e] = has[e]
           /\ dev_num'[e] = dev_num[e] /\ count'[e] = count[e]
           /\ UNCHANGED modVars
<1>1. DeviceTypeOK
  BY DEF DeviceInv
<1>2. CASE ProbeStep(d)
  <2>1. dev_num'[e] = dev_num[e] /\ has'[e] = has[e]
    BY <1>1, <1>2 DEF ProbeStep, ProbeBox, ProbeCdev, ProbeNode, ProbeAttr, ProbeFails, DeviceTypeOK
  <2>2. dpc'[e] = dpc[e] /\ dtodo'[e] = dtodo[e]
    BY <1>1, <1>2 DEF ProbeStep, ProbeBox, ProbeCdev, ProbeNode, ProbeAttr, ProbeFails, ProbeNext,
       DeviceGoto, DeviceTypeOK
  <2> QED BY <1>2, <2>1, <2>2 DEF ProbeStep
<1>3. CASE ProbeCount(d)
  BY <1>1, <1>3 DEF ProbeCount, DeviceTypeOK
<1>4. CASE Bind(d)
  BY <1>1, <1>4 DEF Bind, DeviceTypeOK
<1>5. CASE Unbind(d)
  BY <1>1, <1>5 DEF Unbind, DeviceGoto, DeviceTypeOK
<1>6. CASE DeviceUndo(d)
  BY <1>1, <1>6 DEF DeviceUndo, DeviceGoto, DeviceTypeOK
<1> QED BY <1>2, <1>3, <1>4, <1>5, <1>6 DEF DeviceStep

\* The module takes the driver away only when it has no device left.
LEMMA ModuleLeavesDevices ==
    ASSUME AllWell, ModuleInv, DeviceInv, ModuleStep
    PROVE  /\ UNCHANGED <<drv, dpc, dtodo, has, dev_num, name, cdevs, count>>
           /\ dev_count' = dev_count \/ (dev_count' = 0 /\ cdevs = <<>> /\ "driver" \notin held)
           /\ \A d \in Devs : dpc[d] # "unbound" => "driver" \in held'
<1>1. \A d \in Devs : dpc[d] # "unbound" => "driver" \in held
  BY DEF DeviceInv, DeviceOK
<1>2. CASE Load
  <2>1. mod \in {"out", "failed"}
    BY <1>2 DEF Load
  <2>2. "driver" \notin held
    BY <2>1 DEF ModuleInv
  <2> QED BY <1>1, <1>2, <2>2 DEF Load, devVars
<1>3. CASE InitStep
  BY <1>1, <1>3 DEF InitStep, devVars
<1>4. CASE Unload
  BY <1>1, <1>4 DEF Unload, devVars
<1>5. CASE UndoStep
  BY <1>1, <1>5 DEF UndoStep, devVars
<1> QED BY <1>2, <1>3, <1>4, <1>5 DEF ModuleStep

LEMMA DeviceInit == Init => DeviceInv
<1> SUFFICES ASSUME Init PROVE DeviceInv
  OBVIOUS
<1>1. DeviceTypeOK
  BY ShortSeqs, Names DEF Init, DeviceTypeOK
<1>2. \A d \in Devs : DeviceOK(d)
  BY DEF Init, DeviceOK, Got
<1> QED BY <1>1, <1>2 DEF DeviceInv

LEMMA NextCases ==
    ASSUME [Next]_vars
    PROVE  ModuleStep \/ (\E d \in Devs : DeviceStep(d)) \/ UNCHANGED vars
  BY DEF Next, ModuleStep, DeviceStep

LEMMA DeviceNext == AllWell /\ ModuleInv /\ DeviceInv /\ [Next]_vars => DeviceInv'
<1> SUFFICES ASSUME AllWell, ModuleInv, DeviceInv, [Next]_vars
             PROVE  DeviceInv'
  OBVIOUS
<1>1. CASE ModuleStep
  <2>1. /\ UNCHANGED <<drv, dpc, dtodo, has, dev_num, name, count>>
        /\ \A d \in Devs : dpc[d] # "unbound" => "driver" \in held'
        /\ dev_count' \in Nat
    BY <1>1, ModuleLeavesDevices DEF DeviceInv, DeviceTypeOK
  <2>2. DeviceTypeOK'
    BY <2>1 DEF DeviceInv, DeviceTypeOK, ProbeOrder
  <2>3. \A d \in Devs : DeviceOK(d)'
    BY <2>1, DeviceStays DEF DeviceInv
  <2> QED BY <2>2, <2>3 DEF DeviceInv
<1>2. ASSUME NEW d \in Devs, DeviceStep(d)
      PROVE  DeviceInv'
  <2>1. DeviceTypeOK' /\ DeviceOK(d)'
    BY <1>2, DeviceKeeps
  <2>2. ASSUME NEW e \in Devs, e # d
        PROVE  DeviceOK(e)'
    <3>1. DeviceOK(e) /\ (dpc[e] # "unbound" => "driver" \in held)
      BY DEF DeviceInv, DeviceOK
    <3> QED BY <1>2, <2>2, <3>1, OthersStay, DeviceStays DEF modVars
  <2> QED BY <2>1, <2>2 DEF DeviceInv
<1>3. CASE UNCHANGED vars
  <2>1. UNCHANGED <<drv, held, dpc, dtodo, has, dev_num, name, count, dev_count>>
    BY <1>3 DEF vars, modVars, devVars
  <2>2. \A d \in Devs : DeviceOK(d)'
    BY <2>1, DeviceStays DEF DeviceInv, DeviceOK
  <2> QED BY <2>1, <2>2 DEF DeviceInv, DeviceTypeOK, ProbeOrder
<1> QED BY <1>1, <1>2, <1>3, NextCases

-----------------------------------------------------------------------------
(* What holds however the handlers overlap *)

LifecycleInv == ModuleInv /\ DeviceInv

LEMMA LifecycleInvariant == TheDrivers => (Spec => []LifecycleInv)
<1> SUFFICES ASSUME TheDrivers PROVE Spec => []LifecycleInv
  OBVIOUS
<1>1. Init => LifecycleInv
  BY ModuleInit, DeviceInit DEF LifecycleInv
<1>2. LifecycleInv /\ [Next]_vars => LifecycleInv'
  BY TheDriversAreWell, ModuleNext, DeviceNext DEF LifecycleInv
<1> QED BY <1>1, <1>2, PTL DEF Spec

\* For every driver of DriverScripts, any number of devices and any overlap
\* of their handlers, at every step of every load, unload, probe and remove:
\* the class outlives its nodes and the numbers the devices that use them.
THEOREM OrderedTeardownHolds == TheDrivers => (Spec => []OrderedTeardown)
<1> SUFFICES ASSUME TheDrivers PROVE Spec => []OrderedTeardown
  OBVIOUS
<1>1. LifecycleInv => OrderedTeardown
  <2> SUFFICES ASSUME ModuleInv, DeviceInv
               PROVE  OrderedTeardown
    BY DEF LifecycleInv
  <2>1. held \cap InitNodes # {} => "class" \in held
    BY DEF ModuleInv
  <2>2. "driver" \in ToSet(InitOrder) =>
          {"region", "class"} \subseteq ToSet(InitOrder) /\ "node" \notin Leftover[drv]
    BY DriverFacts, TheDriversAreWell DEF ModuleInv, DriverScripted
  <2>3. \A d \in Devs : dpc[d] # "unbound" => {"region", "class"} \subseteq held
    BY <2>2 DEF DeviceInv, DeviceOK, ModuleInv
  <2>4. ASSUME NEW d \in Devs, "node" \in has[d]
        PROVE  "class" \in held
    <3>1. "node" \in ToSet(ProbeOrder)
      BY <2>4 DEF DeviceInv, DeviceTypeOK
    <3>2. "driver" \in ToSet(InitOrder)
      BY <3>1, DriverFacts, TheDriversAreWell DEF ModuleInv
    <3>3. "node" \in Got(d)
      BY <2>2, <2>4, <3>2 DEF DeviceInv, DeviceOK
    <3>4. dpc[d] # "unbound"
      BY <3>3 DEF Got
    <3> QED BY <2>3, <3>4
  <2>5. \A d \in Devs : dpc[d] = "bound" => "region" \in held
    BY <2>3
  <2> QED BY <2>1, <2>4, <2>5 DEF OrderedTeardown
<1> QED BY <1>1, LifecycleInvariant, PTL

-----------------------------------------------------------------------------
(* The table of character devices *)

Entry == [num : Nat, dev : Devs]

LEMMA RemoveAtElements ==
    ASSUME NEW S, NEW s \in Seq(S), NEW i \in 1 .. Len(s)
    PROVE  /\ RemoveAt(s, i) \in Seq(S)
           /\ Len(RemoveAt(s, i)) = Len(s) - 1
           /\ \A j \in 1 .. Len(s) - 1 : RemoveAt(s, i)[j] = s[IF j < i THEN j ELSE j + 1]
<1> DEFINE a == SubSeq(s, 1, i - 1)
           b == SubSeq(s, i + 1, Len(s))
<1>1. a \in Seq(S) /\ Len(a) = i - 1 /\ \A k \in 1 .. i - 1 : a[k] = s[k]
  BY SMT
<1>2. b \in Seq(S) /\ Len(b) = Len(s) - i /\ \A k \in 1 .. Len(s) - i : b[k] = s[i + k]
  BY SMT
<1>3. RemoveAt(s, i) = a \o b
  BY DEF RemoveAt
<1> HIDE DEF a, b
<1>4. /\ a \o b \in Seq(S)
      /\ Len(a \o b) = Len(a) + Len(b)
      /\ \A k \in 1 .. Len(a) + Len(b) :
            (a \o b)[k] = IF k <= Len(a) THEN a[k] ELSE b[k - Len(a)]
  BY <1>1, <1>2, ConcatProperties
<1>5. ASSUME NEW j \in 1 .. Len(s) - 1
      PROVE  (a \o b)[j] = s[IF j < i THEN j ELSE j + 1]
  <2>1. CASE j < i
    BY <2>1, <1>1, <1>2, <1>4, SMT
  <2>2. CASE ~(j < i)
    <3>1. j - (i - 1) \in 1 .. Len(s) - i /\ i + (j - (i - 1)) = j + 1
      BY <2>2, SMT
    <3>2. b[j - (i - 1)] = s[j + 1]
      BY <3>1, <1>2
    <3>3. (a \o b)[j] = b[j - (i - 1)]
      BY <2>2, <1>1, <1>2, <1>4, SMT
    <3> QED BY <2>2, <3>2, <3>3
  <2> QED BY <2>1, <2>2
<1> QED BY <1>1, <1>2, <1>3, <1>4, <1>5, SMT

\* s with c in front, as cdev_add leaves the table.
LEMMA AddEntry ==
    ASSUME NEW S, NEW s \in Seq(S), NEW c \in S
    PROVE  /\ <<c>> \o s \in Seq(S) /\ Len(<<c>> \o s) = Len(s) + 1
           /\ (<<c>> \o s)[1] = c
           /\ \A i \in 1 .. Len(s) : (<<c>> \o s)[i + 1] = s[i]
<1>1. <<c>> \in Seq(S) /\ Len(<<c>>) = 1 /\ <<c>>[1] = c
  OBVIOUS
<1>2. PICK u \in Seq(S) : u = <<c>> /\ Len(u) = 1 /\ u[1] = c
  BY <1>1
<1>3. /\ u \o s \in Seq(S) /\ Len(u \o s) = Len(u) + Len(s)
      /\ \A k \in 1 .. Len(u) + Len(s) :
            (u \o s)[k] = IF k <= Len(u) THEN u[k] ELSE s[k - Len(u)]
  BY ConcatProperties
<1>4. \A i \in 1 .. Len(s) : i + 1 \in 1 .. 1 + Len(s) /\ (i + 1) - 1 = i /\ ~(i + 1 <= 1)
  OBVIOUS
<1>5. (u \o s)[1] = c /\ \A i \in 1 .. Len(s) : (u \o s)[i + 1] = s[i]
  BY <1>2, <1>3, <1>4
<1>6. Len(u \o s) = Len(s) + 1
  BY <1>2, <1>3
<1> QED BY <1>2, <1>3, <1>5, <1>6

\* Where numbers are unique, cdev_del removes the one entry of its number.
LEMMA CdevDelRemoves ==
    ASSUME cdevs \in Seq(Entry), NEW k \in 1 .. Len(cdevs),
           \A i, j \in 1 .. Len(cdevs) : cdevs[i].num = cdevs[j].num => i = j
    PROVE  CdevDel(cdevs[k].num) = RemoveAt(cdevs, k)
<1> DEFINE hits == {i \in 1 .. Len(cdevs) : cdevs[i].num = cdevs[k].num}
<1>1. hits = {k}
  OBVIOUS
<1>2. (CHOOSE i \in hits : \A j \in hits : i <= j) = k
  BY <1>1
<1> QED BY <1>1, <1>2 DEF CdevDel

\* The handler comes before its cdev and goes after it.
LEMMA BoxFirst ==
    ASSUME AllWell, ModuleInv, DeviceInv, NEW d \in Devs,
           "cdev" \in Got(d) \/ (dpc[d] = "probe" /\ Head(dtodo[d]) = "cdev")
    PROVE  "box" \in Got(d)
<1>1. ProbeOrder \in Seq(Resource) /\ Precedes("box", "cdev", ProbeOrder)
  BY DriverFacts DEF ModuleInv, ProbeScripted
<1>2. DeviceOK(d) /\ dtodo[d] \in Seq(Resource)
  BY DEF DeviceInv, DeviceTypeOK
<1>3. CASE dpc[d] = "probe"
  <2>1. PICK k : k = Len(ProbeOrder) - Len(dtodo[d]) + 1
    OBVIOUS
  <2>2. Got(d) = Before(ProbeOrder, k)
    BY <1>3, <2>1 DEF Got
  <2>3. dtodo[d] # <<>> /\ Remains(dtodo[d], ProbeOrder)
    BY <1>2, <1>3 DEF DeviceOK
  <2>4. k \in 1 .. Len(ProbeOrder) /\ Head(dtodo[d]) = ProbeOrder[k]
    <3>1. PICK t \in Seq(Resource), p \in Seq(Resource) :
            t = dtodo[d] /\ p = ProbeOrder /\ t # <<>> /\ Remains(t, p)
      BY <1>1, <1>2, <2>3
    <3>2. k = Len(p) - Len(t) + 1
      BY <2>1, <3>1
    <3>3. k \in 1 .. Len(p) /\ Head(t) = p[k]
      BY <3>1, <3>2, TailAdvances
    <3> QED BY <3>1, <3>3
  <2>5. PICK i \in 1 .. k : ProbeOrder[i] = "cdev"
    BY <2>2, <2>4 DEF Before
  <2>6. "box" \in Before(ProbeOrder, i)
    BY <1>1, <2>4, <2>5 DEF Precedes
  <2> QED BY <2>2, <2>4, <2>5, <2>6 DEF Before
<1>4. CASE dpc[d] \in {"count", "store", "bound"}
  <2>1. Got(d) = ToSet(ProbeOrder)
    BY <1>4 DEF Got
  <2>2. PICK i \in 1 .. Len(ProbeOrder) : ProbeOrder[i] = "cdev"
    BY <1>1, <1>4, <2>1 DEF ToSet
  <2> QED BY <1>1, <2>1, <2>2, BeforeEnds DEF Precedes
<1>5. CASE dpc[d] = "undo"
  <2>1. PICK t \in Seq(Resource) : t = dtodo[d] /\ t # <<>> /\ CdevBeforeBox(t)
    BY <1>2, <1>5 DEF DeviceOK
  <2>2. Got(d) = ToSet(t)
    BY <1>5, <2>1 DEF Got
  <2> QED BY <1>5, <2>1, <2>2, TailReleases
<1> QED BY <1>3, <1>4, <1>5 DEF Got, DeviceInv, DeviceTypeOK

\* A handler that the table leads to has been allocated.
LEMMA HandlerHeld ==
    ASSUME AllWell, ModuleInv, DeviceInv, NEW d \in Devs, "cdev" \in Got(d)
    PROVE  "box" \in has[d]
  BY BoxFirst DEF DeviceInv, DeviceOK

-----------------------------------------------------------------------------
(* TableInv *)

\* Its two halves: whose turn it is, and the entries.
TurnInv == OneActive /\ dev_count <= MAX_BINDS /\ \A d \in Devs : CountOK(d)

EntriesInv ==
    /\ cdevs \in Seq(Entry)
    /\ \A i, j \in 1 .. Len(cdevs) : cdevs[i].num = cdevs[j].num => i = j
    /\ \A d \in Devs : "cdev" \in Got(d) =>
          \E i \in 1 .. Len(cdevs) : cdevs[i] = [num |-> dev_num[d], dev |-> d]
    /\ \A i \in 1 .. Len(cdevs) : EntryOK(cdevs[i])

LEMMA TableHalves == TableInv <=> TurnInv /\ EntriesInv
  BY DEF TableInv, TurnInv, EntriesInv, Entry

LEMMA TableInit == Init => TableInv
  BY LifecycleAssumption
     DEF Init, TableInv, OneActive, Active, CountOK, Got

\* While d's handler runs, and when it starts, no other does.
LEMMA OthersRest ==
    ASSUME OVERLAP = FALSE, DeviceInv, TurnInv, NEW d \in Devs, DeviceStep(d),
           NEW e \in Devs, e # d
    PROVE  ~Active(e) /\ ~Active(e)'
<1>1. ~Active(e)
  <2>1. CASE Alone(d)
    BY <2>1 DEF Alone, Active
  <2>2. CASE Active(d)
    BY <2>2 DEF TurnInv, OneActive
  <2>3. Alone(d) \/ Active(d)
    BY DEF DeviceStep, Bind, Unbind, ProbeStep, ProbeCount, DeviceUndo, Active
  <2> QED BY <2>1, <2>2, <2>3
<1> QED BY <1>1, OthersStay DEF Active

\* The number is dev_count once the handler is allocated.
LEMMA NumberTaken ==
    ASSUME AllWell, ModuleInv, DeviceInv, NEW d \in Devs, CountOK(d), ProbeStep(d),
           dpc'[d] = "probe", "box" \in Got(d)'
    PROVE  dev_num'[d] = dev_count
<1>1. dpc[d] = "probe" /\ DeviceTypeOK /\ UNCHANGED <<drv, held, dev_count, count>>
  BY DEF ProbeStep, DeviceInv, modVars
<1>2. ~ProbeFails(d)
  BY <1>1 DEF ProbeFails, DeviceGoto, DeviceTypeOK
<1>3. Acquires(d)
  BY <1>2, ProbeSteps
<1>4. Got(d)' = Got(d) \cup {Head(dtodo[d])}
  BY <1>1, <1>3, ProbeDevice DEF Acquires
<1>5. CASE Head(dtodo[d]) = "box"
  BY <1>1, <1>2, <1>5 DEF ProbeStep, ProbeBox, DeviceTypeOK
<1>6. CASE Head(dtodo[d]) # "box"
  <2>1. dev_num' = dev_num
    BY <1>2, <1>6 DEF ProbeStep, ProbeCdev, ProbeNode, ProbeAttr
  <2> QED BY <1>1, <1>4, <1>6, <2>1 DEF CountOK
<1> QED BY <1>5, <1>6

LEMMA TurnKeeps ==
    ASSUME OVERLAP = FALSE, AllWell, ModuleInv, DeviceInv, TurnInv, NEW d \in Devs, DeviceStep(d)
    PROVE  TurnInv'
<1>1. OneActive'
  BY OthersRest DEF OneActive
<1>2. \A e \in Devs : e # d => CountOK(e)'
  BY OthersRest DEF CountOK, Active
<1>3. /\ dev_count \in Nat /\ MAX_BINDS \in Nat /\ DeviceTypeOK /\ CountOK(d)
      /\ dev_count <= MAX_BINDS
  BY LifecycleAssumption DEF DeviceInv, DeviceTypeOK, TurnInv
<1>4. CASE Bind(d)
  <2>1. dpc'[d] = "probe" /\ dev_count < MAX_BINDS /\ dev_count' = dev_count /\ Got(d)' = {}
    BY <1>3, <1>4, BindDevice DEF Bind, DeviceTypeOK
  <2> QED BY <1>1, <1>2, <1>3, <2>1 DEF TurnInv, CountOK
<1>5. CASE ProbeStep(d)
  <2>1. dpc[d] = "probe" /\ dev_count' = dev_count
    BY <1>5 DEF ProbeStep
  <2>2. dpc'[d] # "store"
    <3>1. \E from \in {"probe", "undo"}, to \in {"count", "unbound"} : \E todo :
             DeviceGoto(d, from, to, todo)
      BY <1>5 DEF ProbeStep, ProbeBox, ProbeCdev, ProbeNode, ProbeAttr, ProbeFails, ProbeNext
    <3> QED BY <1>3, <3>1 DEF DeviceGoto, DeviceTypeOK
  <2>3. dpc'[d] = "probe" /\ "box" \in Got(d)' => dev_num'[d] = dev_count
    BY <1>3, <1>5, NumberTaken
  <2> QED BY <1>1, <1>2, <1>3, <2>1, <2>2, <2>3 DEF TurnInv, CountOK
<1>6. CASE ProbeCount(d)
  <2>1. CASE /\ dpc[d] = "count" /\ count' = [count EXCEPT ![d] = dev_count]
             /\ dpc' = [dpc EXCEPT ![d] = "store"] /\ dev_count' = dev_count
    <3>1. count'[d] = dev_count /\ dev_count < MAX_BINDS
      BY <1>3, <2>1 DEF DeviceTypeOK, CountOK
    <3> QED BY <1>1, <1>2, <1>3, <2>1, <3>1 DEF TurnInv, CountOK
  <2>2. CASE /\ dpc[d] = "store" /\ dev_count' = count[d] + 1
             /\ dpc' = [dpc EXCEPT ![d] = "bound"]
    <3>1. dev_count' = dev_count + 1 /\ dev_count < MAX_BINDS
      BY <1>3, <2>2 DEF CountOK
    <3>2. dpc'[d] = "bound" /\ dev_count' <= MAX_BINDS
      BY <1>3, <2>2, <3>1 DEF DeviceTypeOK
    <3> QED BY <1>1, <1>2, <3>2 DEF TurnInv, CountOK
  <2> QED BY <1>6, <2>1, <2>2 DEF ProbeCount
<1>7. CASE Unbind(d) \/ DeviceUndo(d)
  <2>1. dpc'[d] \in {"undo", "unbound"} /\ dev_count' = dev_count
    <3>1. \E todo : DeviceGoto(d, "undo", "unbound", todo)
      BY <1>7 DEF Unbind, DeviceUndo
    <3> QED BY <1>3, <1>7, <3>1 DEF DeviceGoto, DeviceTypeOK, Unbind, DeviceUndo
  <2> QED BY <1>1, <1>2, <1>3, <2>1 DEF TurnInv, CountOK
<1> QED BY <1>4, <1>5, <1>6, <1>7 DEF DeviceStep

\* The entries as they are, of devices of which some have forgotten theirs.
LEMMA EntriesStay ==
    ASSUME EntriesInv, UNCHANGED <<drv, dev_count, cdevs>>,
           \A d \in Devs : "cdev" \in Got(d)' =>
              "cdev" \in Got(d) /\ dev_num'[d] = dev_num[d],
           \A d \in Devs : "cdev" \in Got(d) /\ "cdev" \notin Got(d)' =>
              ~Active(d) /\ "cdev" \in Leftover[drv],
           \A d \in Devs : "cdev" \in Got(d)' /\ Active(d) => Active(d)'
    PROVE  EntriesInv'
<1>1. /\ cdevs \in Seq(Entry) /\ cdevs' = cdevs
      /\ \A i, j \in 1 .. Len(cdevs) : cdevs[i].num = cdevs[j].num => i = j
  BY DEF EntriesInv
<1>2. \A d \in Devs : "cdev" \in Got(d)' =>
          \E i \in 1 .. Len(cdevs) : cdevs[i] = [num |-> dev_num'[d], dev |-> d]
  BY DEF EntriesInv
<1>3. ASSUME NEW i \in 1 .. Len(cdevs)
      PROVE  EntryOK(cdevs[i])'
  <2>1. PICK c \in Entry : c = cdevs[i] /\ c = cdevs'[i] /\ c.dev \in Devs
    <3>1. cdevs[i] \in Entry /\ cdevs'[i] = cdevs[i]
      BY <1>1
    <3> QED BY <3>1 DEF Entry
  <2>2. EntryOK(c)
    BY <2>1 DEF EntriesInv
  <2>3. c.num <= dev_count' /\ dev_count' = dev_count /\ drv' = drv
    BY <2>2 DEF EntryOK
  <2>4. c.num = dev_count =>
          Active(c.dev)' /\ "cdev" \in Got(c.dev)' /\ dev_num'[c.dev] = dev_count
    BY <2>1, <2>2 DEF EntryOK
  <2>5. "cdev" \notin Leftover[drv] => "cdev" \in Got(c.dev)' /\ dev_num'[c.dev] = c.num
    BY <2>1, <2>2 DEF EntryOK
  <2> QED BY <2>1, <2>3, <2>4, <2>5 DEF EntryOK
<1> QED BY <1>1, <1>2, <1>3 DEF EntriesInv

\* The number of a new entry is free: an entry with it would be d's own.
LEMMA EntriesGrow ==
    ASSUME EntriesInv, DeviceTypeOK, NEW d \in Devs, "cdev" \notin Got(d), "cdev" \in Got(d)',
           \A e \in Devs : e # d => ~Active(e) /\ Got(e)' = Got(e) /\ dev_num'[e] = dev_num[e],
           UNCHANGED <<drv, dev_count>>,
           dev_num'[d] = dev_count, Active(d)',
           cdevs' = <<[num |-> dev_count, dev |-> d]>> \o cdevs
    PROVE  EntriesInv'
<1>1. PICK c \in Entry : c = [num |-> dev_count, dev |-> d] /\ c.num = dev_count /\ c.dev = d
  <2>1. [num |-> dev_count, dev |-> d] \in Entry
    BY DEF Entry, DeviceTypeOK
  <2> QED BY <2>1
<1>2. PICK s \in Seq(Entry) : s = cdevs /\ \A i \in 1 .. Len(s) : EntryOK(s[i])
  BY DEF EntriesInv
<1>3. PICK t \in Seq(Entry) :
        /\ t = cdevs' /\ Len(t) = Len(s) + 1 /\ t[1] = c
        /\ \A i \in 1 .. Len(s) : t[i + 1] = s[i]
  <2>1. cdevs' = <<c>> \o s
    BY <1>1, <1>2
  <2>2. /\ <<c>> \o s \in Seq(Entry) /\ Len(<<c>> \o s) = Len(s) + 1
        /\ (<<c>> \o s)[1] = c
        /\ \A i \in 1 .. Len(s) : (<<c>> \o s)[i + 1] = s[i]
    BY AddEntry
  <2> QED BY <2>1, <2>2
<1>4. \A i \in 1 .. Len(t) : i = 1 \/ (i - 1 \in 1 .. Len(s) /\ t[i] = s[i - 1])
  <2>1. \A i \in 1 .. Len(t) : i = 1 \/ (i - 1 \in 1 .. Len(s) /\ (i - 1) + 1 = i)
    BY <1>3
  <2> QED BY <1>3, <2>1
<1>5. ASSUME NEW i \in 1 .. Len(s)
      PROVE  s[i].num # dev_count /\ EntryOK(s[i])'
  <2>1. PICK b \in Entry : b = s[i] /\ b.dev \in Devs /\ EntryOK(b)
    <3>1. s[i] \in Entry /\ EntryOK(s[i])
      BY <1>2
    <3> QED BY <3>1 DEF Entry
  <2>2. b.num # dev_count
    BY <2>1 DEF EntryOK
  <2>3. "cdev" \notin Leftover[drv] => b.dev # d
    BY <2>1 DEF EntryOK
  <2> QED BY <2>1, <2>2, <2>3 DEF EntryOK
<1>6. \A i, j \in 1 .. Len(t) : t[i].num = t[j].num => i = j
  <2>1. \A i, j \in 1 .. Len(s) : s[i].num = s[j].num => i = j
    BY <1>2 DEF EntriesInv
  <2> SUFFICES ASSUME NEW i \in 1 .. Len(t), NEW j \in 1 .. Len(t), t[i].num = t[j].num
               PROVE  i = j
    OBVIOUS
  <2>2. CASE i = 1 \/ j = 1
    BY <1>1, <1>3, <1>4, <1>5, <2>2
  <2>3. CASE i # 1 /\ j # 1
    <3>1. i - 1 = j - 1
      BY <1>4, <2>1, <2>3
    <3> QED BY <3>1
  <2> QED BY <2>2, <2>3
<1>7. ASSUME NEW e \in Devs, "cdev" \in Got(e)'
      PROVE  \E i \in 1 .. Len(t) : t[i] = [num |-> dev_num'[e], dev |-> e]
  <2>1. CASE e = d
    BY <1>1, <1>3, <2>1
  <2>2. CASE e # d
    <3>1. PICK i \in 1 .. Len(s) : s[i] = [num |-> dev_num[e], dev |-> e]
      BY <1>2, <1>7, <2>2 DEF EntriesInv
    <3>2. i + 1 \in 1 .. Len(t) /\ t[i + 1] = s[i]
      BY <1>3
    <3> QED BY <2>2, <3>1, <3>2
  <2> QED BY <2>1, <2>2
<1>8. EntryOK(c)'
  BY <1>1 DEF EntryOK, DeviceTypeOK
<1>9. \A i \in 1 .. Len(t) : EntryOK(t[i])'
  BY <1>3, <1>4, <1>5, <1>8
<1> QED BY <1>3, <1>6, <1>7, <1>9 DEF EntriesInv

\* cdev_del takes d's entry, no other.
LEMMA EntriesShrink ==
    ASSUME EntriesInv, DeviceTypeOK, NEW d \in Devs, "cdev" \in Got(d), "cdev" \notin Got(d)',
           \A e \in Devs : e # d =>
              ~Active(e) /\ Got(e)' = Got(e) /\ dev_num'[e] = dev_num[e],
           UNCHANGED <<drv, dev_count>>, cdevs' = CdevDel(dev_num[d])
    PROVE  EntriesInv'
<1>1. PICK s \in Seq(Entry) : s = cdevs /\ \A i \in 1 .. Len(s) : EntryOK(s[i])
  BY DEF EntriesInv
<1>2. \A i, j \in 1 .. Len(s) : s[i].num = s[j].num => i = j
  BY <1>1 DEF EntriesInv
<1>3. PICK k \in 1 .. Len(s) : s[k] = [num |-> dev_num[d], dev |-> d]
  BY <1>1 DEF EntriesInv
<1>4. s[k].num = dev_num[d] /\ s[k].dev = d
  BY <1>3
<1>5. cdevs' = RemoveAt(s, k)
  BY <1>1, <1>2, <1>4, CdevDelRemoves
<1>6. PICK t \in Seq(Entry) :
        /\ t = cdevs' /\ Len(t) = Len(s) - 1
        /\ \A j \in 1 .. Len(s) - 1 : t[j] = s[IF j < k THEN j ELSE j + 1]
  BY <1>5, RemoveAtElements
<1> DEFINE At(j) == IF j < k THEN j ELSE j + 1
<1>7. /\ \A j \in 1 .. Len(t) : At(j) \in 1 .. Len(s) /\ At(j) # k /\ t[j] = s[At(j)]
      /\ \A i, j \in 1 .. Len(t) : At(i) = At(j) => i = j
      /\ \A i \in 1 .. Len(s) : i # k => \E j \in 1 .. Len(t) : At(j) = i
  <2>1. \A j \in 1 .. Len(t) : At(j) \in 1 .. Len(s) /\ At(j) # k
    BY <1>6
  <2>2. \A j \in 1 .. Len(t) : t[j] = s[At(j)]
    BY <1>6
  <2>3. \A i, j \in 1 .. Len(t) : At(i) = At(j) => i = j
    OBVIOUS
  <2>4. ASSUME NEW i \in 1 .. Len(s), i # k
        PROVE  \E j \in 1 .. Len(t) : At(j) = i
    <3>1. CASE i < k
      BY <1>6, <3>1
    <3>2. CASE i > k
      <4>1. i - 1 \in 1 .. Len(t) /\ ~(i - 1 < k) /\ (i - 1) + 1 = i
        BY <1>6, <3>2
      <4> QED BY <4>1
    <3> QED BY <2>4, <3>1, <3>2
  <2> QED BY <2>1, <2>2, <2>3, <2>4
<1> HIDE DEF At
<1>8. \A i, j \in 1 .. Len(t) : t[i].num = t[j].num => i = j
  <2> SUFFICES ASSUME NEW i \in 1 .. Len(t), NEW j \in 1 .. Len(t), t[i].num = t[j].num
               PROVE  i = j
    OBVIOUS
  <2>1. /\ At(i) \in 1 .. Len(s) /\ t[i] = s[At(i)] /\ At(j) \in 1 .. Len(s) /\ t[j] = s[At(j)]
        /\ At(i) = At(j) => i = j
    BY <1>7
  <2>2. At(i) = At(j)
    BY <1>2, <2>1
  <2> QED BY <2>1, <2>2
<1>9. ASSUME NEW e \in Devs, "cdev" \in Got(e)'
      PROVE  \E j \in 1 .. Len(t) : t[j] = [num |-> dev_num'[e], dev |-> e]
  <2>1. e # d
    BY <1>9
  <2>2. PICK i \in 1 .. Len(s) : s[i] = [num |-> dev_num[e], dev |-> e]
    BY <1>1, <1>9, <2>1 DEF EntriesInv
  <2>3. i # k
    BY <1>4, <2>1, <2>2
  <2> QED BY <1>7, <2>1, <2>2, <2>3
<1>10. ASSUME NEW j \in 1 .. Len(t)
       PROVE  EntryOK(t[j])'
  <2>1. PICK i \in 1 .. Len(s) : i # k /\ t[j] = s[i]
    BY <1>7
  <2>2. PICK b \in Entry : b = s[i] /\ b.dev \in Devs /\ EntryOK(b)
    <3>1. s[i] \in Entry /\ EntryOK(s[i])
      BY <1>1
    <3> QED BY <3>1 DEF Entry
  <2>3. b.num # dev_num[d]
    BY <1>2, <1>4, <2>1, <2>2
  <2>4. b.num # dev_count
    BY <2>2, <2>3 DEF EntryOK
  <2>5. "cdev" \notin Leftover[drv] => b.dev # d
    BY <2>2, <2>3 DEF EntryOK
  <2> QED BY <2>1, <2>2, <2>4, <2>5 DEF EntryOK
<1> QED BY <1>6, <1>8, <1>9, <1>10 DEF EntriesInv

\* The cases in which the table stays as it is.
LEMMA BindEntries ==
    ASSUME OVERLAP = FALSE, AllWell, ModuleInv, DeviceInv, TurnInv, EntriesInv,
           NEW d \in Devs, Bind(d)
    PROVE  EntriesInv'
<1>1. /\ UNCHANGED <<drv, dev_count, cdevs, dev_num>> /\ Got(d)' = {} /\ Got(d) = {}
      /\ DeviceStep(d)
  BY BindDevice DEF Bind, modVars, Got, DeviceStep
<1>2. \A e \in Devs : e # d => Got(e)' = Got(e) /\ (Active(e) => Active(e)')
  BY <1>1, OthersStay DEF Got, ProbeOrder, Active
<1> QED BY <1>1, <1>2, EntriesStay

\* What the others keep, while d takes a step.
LEMMA OthersKeep ==
    ASSUME OVERLAP = FALSE, DeviceInv, TurnInv, NEW d \in Devs, DeviceStep(d),
           NEW e \in Devs, e # d
    PROVE  ~Active(e) /\ ~Active(e)' /\ Got(e)' = Got(e) /\ dev_num'[e] = dev_num[e]
<1>1. /\ dpc'[e] = dpc[e] /\ dtodo'[e] = dtodo[e] /\ dev_num'[e] = dev_num[e] /\ drv' = drv
  BY OthersStay DEF modVars
<1> QED BY <1>1, OthersRest DEF Got, ProbeOrder

\* Where what is left to do is what d still has, an idle d has none of it.
LEMMA BusyWithCdev ==
    ASSUME NEW d \in Devs, "cdev" \in Got(d)', dpc'[d] # "bound"
    PROVE  Active(d)'
  BY DEF Got, Active

LEMMA ProbeEntries ==
    ASSUME OVERLAP = FALSE, AllWell, ModuleInv, DeviceInv, TurnInv, EntriesInv,
           NEW d \in Devs, ProbeStep(d)
    PROVE  EntriesInv'
<1>1. /\ dpc[d] = "probe" /\ UNCHANGED <<drv, held, dev_count, count>> /\ DeviceStep(d)
      /\ DeviceTypeOK
  BY DEF ProbeStep, modVars, DeviceStep, DeviceInv
<1>2. \A e \in Devs : e # d =>
        ~Active(e) /\ ~Active(e)' /\ Got(e)' = Got(e) /\ dev_num'[e] = dev_num[e]
  BY <1>1, OthersKeep
<1>3. dpc'[d] # "bound"
  <2>1. \E from \in {"probe", "undo"}, to \in {"count", "unbound"} : \E todo :
             DeviceGoto(d, from, to, todo)
    BY DEF ProbeStep, ProbeBox, ProbeCdev, ProbeNode, ProbeAttr, ProbeFails, ProbeNext
  <2> QED BY <1>1, <2>1 DEF DeviceGoto, DeviceTypeOK
<1>4. "cdev" \in Got(d)' => Active(d)'
  BY <1>3, BusyWithCdev
<1>5. CASE ProbeFails(d)
  <2>1. PICK todo \in Seq(Resource) :
           /\ Releases(todo) /\ ToSet(todo) = Got(d)
           /\ DeviceGoto(d, "undo", "unbound", todo)
    BY <1>1, <1>5, ProbeLabel
  <2>2. Got(d)' = Got(d)
    BY <1>1, <2>1, UndoGot
  <2> QED BY <1>1, <1>2, <1>4, <1>5, <2>2, EntriesStay DEF ProbeFails
<1>6. ASSUME Acquires(d)
      PROVE  Got(d)' = Got(d) \cup {Head(dtodo[d])} /\ Head(dtodo[d]) \notin Got(d)
  BY <1>1, <1>6, ProbeDevice DEF Acquires
<1>7. CASE Head(dtodo[d]) = "cdev" /\ ProbeCdev(d)
  <2>1. Acquires(d)
    BY <1>1, <1>7 DEF Acquires, ProbeCdev, DeviceTypeOK
  <2>2. "cdev" \in Got(d)' /\ "cdev" \notin Got(d)
    BY <1>6, <1>7, <2>1
  <2>3. dev_num[d] = dev_count
    BY <1>1, <1>7, BoxFirst DEF TurnInv, CountOK
  <2>4. /\ cdevs' = <<[num |-> dev_count, dev |-> d]>> \o cdevs
        /\ dev_num'[d] = dev_count
    BY <1>7, <2>3 DEF ProbeCdev
  <2> QED BY <1>1, <1>2, <1>4, <2>2, <2>4, EntriesGrow
<1>8. ASSUME Head(dtodo[d]) # "cdev", Acquires(d), cdevs' = cdevs,
             "cdev" \in Got(d) => dev_num'[d] = dev_num[d]
      PROVE  EntriesInv'
  <2>1. "cdev" \in Got(d)' <=> "cdev" \in Got(d)
    BY <1>6, <1>8
  <2> QED BY <1>1, <1>2, <1>4, <1>8, <2>1, EntriesStay
<1>9. CASE Head(dtodo[d]) = "node" /\ ProbeNode(d)
  <2>1. Acquires(d)
    <3>1. name' \in [Devs -> Nat] /\ dev_num' \in [Devs -> Nat]
      BY <1>1, <1>9 DEF ProbeNode, DeviceTypeOK
    <3>2. has' = [has EXCEPT ![d] = @ \cup {Head(dtodo[d])}]
      BY <1>9 DEF ProbeNode
    <3> QED BY <1>1, <1>9, <3>1, <3>2 DEF ProbeNode, Acquires
  <2>2. cdevs' = cdevs /\ dev_num' = dev_num
    BY <1>9 DEF ProbeNode
  <2> QED BY <1>8, <1>9, <2>1, <2>2
<1>10. CASE Head(dtodo[d]) = "box" /\ ProbeBox(d)
  <2>1. Acquires(d)
    <3>1. name' \in [Devs -> Nat] /\ dev_num' \in [Devs -> Nat]
      BY <1>1, <1>10 DEF ProbeBox, DeviceTypeOK
    <3>2. has' = [has EXCEPT ![d] = @ \cup {Head(dtodo[d])}]
      BY <1>10 DEF ProbeBox
    <3> QED BY <1>1, <1>10, <3>1, <3>2 DEF ProbeBox, Acquires
  <2>2. "cdev" \notin Got(d)
    BY <1>6, <1>10, <2>1, BoxFirst
  <2> QED BY <1>8, <1>10, <2>1, <2>2 DEF ProbeBox
<1>11. CASE Head(dtodo[d]) \notin {"box", "cdev", "node"} /\ ProbeAttr(d)
  <2>1. Acquires(d) /\ cdevs' = cdevs /\ dev_num' = dev_num
    BY <1>1, <1>11 DEF ProbeAttr, Acquires, DeviceTypeOK
  <2> QED BY <1>8, <1>11, <2>1
<1> QED BY <1>5, <1>7, <1>9, <1>10, <1>11 DEF ProbeStep

LEMMA CountEntries ==
    ASSUME OVERLAP = FALSE, AllWell, ModuleInv, DeviceInv, TurnInv, EntriesInv,
           NEW d \in Devs, ProbeCount(d)
    PROVE  EntriesInv'
<1>1. UNCHANGED <<drv, cdevs, dev_num>> /\ Got(d)' = Got(d) /\ DeviceStep(d) /\ DeviceTypeOK
  BY CountDevice DEF ProbeCount, modVars, DeviceStep, DeviceInv
<1>2. \A e \in Devs : Got(e)' = Got(e)
  BY <1>1, OthersKeep
<1>3. CASE dev_count' = dev_count /\ dpc'[d] = "store"
  <2>1. \A e \in Devs : Active(e) => Active(e)'
    BY <1>1, <1>3, OthersKeep DEF Active
  <2> QED BY <1>1, <1>2, <1>3, <2>1, EntriesStay
<1>4. CASE dev_count' = dev_count + 1
  <2>1. ASSUME NEW i \in 1 .. Len(cdevs)
        PROVE  EntryOK(cdevs[i])'
    <3>1. PICK b \in Entry : b = cdevs[i] /\ b = cdevs'[i] /\ EntryOK(b) /\ b.num \in Nat
      <4>1. cdevs[i] \in Entry /\ cdevs'[i] = cdevs[i] /\ EntryOK(cdevs[i])
        BY <1>1 DEF EntriesInv
      <4> QED BY <4>1 DEF Entry
    <3>2. b.num <= dev_count' /\ b.num # dev_count'
      BY <1>1, <1>4, <3>1 DEF EntryOK, DeviceTypeOK
    <3>3. "cdev" \notin Leftover[drv] => "cdev" \in Got(b.dev)' /\ dev_num'[b.dev] = b.num
      <4>1. b.dev \in Devs
        BY DEF Entry
      <4> QED BY <1>1, <1>2, <3>1, <4>1 DEF EntryOK
    <3> QED BY <1>1, <3>1, <3>2, <3>3 DEF EntryOK
  <2> QED BY <1>1, <1>2, <2>1 DEF EntriesInv
<1>5. \/ dev_count' = dev_count /\ dpc'[d] = "store"
      \/ dev_count' = dev_count + 1
  <2>1. dpc[d] = "store" => count[d] = dev_count
    BY DEF TurnInv, CountOK
  <2> QED BY <1>1, <2>1 DEF ProbeCount, DeviceTypeOK
<1> QED BY <1>3, <1>4, <1>5

LEMMA RemoveEntries ==
    ASSUME OVERLAP = FALSE, AllWell, ModuleInv, DeviceInv, TurnInv, EntriesInv,
           NEW d \in Devs, Unbind(d) \/ DeviceUndo(d)
    PROVE  EntriesInv'
<1>1. UNCHANGED <<drv, held, dev_count, dev_num, name, count>> /\ DeviceStep(d) /\ DeviceTypeOK
  BY DEF Unbind, DeviceUndo, modVars, DeviceStep, DeviceInv
<1>2. \A e \in Devs : e # d =>
        ~Active(e) /\ ~Active(e)' /\ Got(e)' = Got(e) /\ dev_num'[e] = dev_num[e]
  BY <1>1, OthersKeep
<1>3. "cdev" \in Got(d)' => Active(d)'
  <2>1. \E todo : DeviceGoto(d, "undo", "unbound", todo)
    BY DEF Unbind, DeviceUndo
  <2>2. dpc'[d] # "bound"
    BY <1>1, <2>1 DEF DeviceGoto, DeviceTypeOK
  <2> QED BY <2>2, BusyWithCdev
<1>4. CASE Unbind(d)
  <2>1. ProbeScripted(ProbeOrder, ProbeError, RemoveOrder, Leftover[drv])
    BY DriverFacts DEF ModuleInv
  <2>2. Got(d) = ToSet(ProbeOrder) /\ dpc[d] = "bound" /\ ~Active(d) /\ cdevs' = cdevs
    BY <1>4 DEF Got, Unbind, Active
  <2>3. Got(d)' = ToSet(RemoveOrder)
    BY <1>1, <1>4, <2>1, UndoGot DEF ProbeScripted, Unbind
  <2>4. /\ "cdev" \in Got(d)' => "cdev" \in Got(d)
        /\ "cdev" \in Got(d) /\ "cdev" \notin Got(d)' => "cdev" \in Leftover[drv]
    BY <2>1, <2>2, <2>3 DEF ProbeScripted
  <2> QED BY <1>1, <1>2, <1>3, <2>2, <2>4, EntriesStay
<1>5. CASE DeviceUndo(d)
  <2>1. Got(d) = Got(d)' \cup {Head(dtodo[d])} /\ Head(dtodo[d]) \notin Got(d)'
    BY <1>1, <1>5, UndoDevice DEF DeviceUndo
  <2>2. CASE Head(dtodo[d]) = "cdev"
    <3>1. cdevs' = CdevDel(dev_num[d]) /\ "cdev" \in Got(d) /\ "cdev" \notin Got(d)'
      BY <1>5, <2>1, <2>2 DEF DeviceUndo
    <3> QED BY <1>1, <1>2, <3>1, EntriesShrink
  <2>3. CASE Head(dtodo[d]) # "cdev"
    <3>1. cdevs' = cdevs /\ ("cdev" \in Got(d)' <=> "cdev" \in Got(d))
      BY <1>5, <2>1, <2>3 DEF DeviceUndo
    <3> QED BY <1>1, <1>2, <1>3, <3>1, EntriesStay
  <2> QED BY <2>2, <2>3
<1> QED BY <1>4, <1>5

LEMMA TableNext ==
    OVERLAP = FALSE /\ AllWell /\ ModuleInv /\ DeviceInv /\ TableInv /\ [Next]_vars => TableInv'
<1> SUFFICES ASSUME OVERLAP = FALSE, AllWell, ModuleInv, DeviceInv, TurnInv, EntriesInv,
                    [Next]_vars
             PROVE  TurnInv' /\ EntriesInv'
  BY TableHalves DEF TableInv, TurnInv, EntriesInv, Entry
<1>1. CASE ModuleStep
  <2>1. /\ UNCHANGED <<drv, dpc, dtodo, has, dev_num, name, cdevs, count>>
        /\ dev_count' = dev_count \/ (dev_count' = 0 /\ cdevs = <<>> /\ "driver" \notin held)
    BY <1>1, ModuleLeavesDevices
  <2>2. \A d \in Devs : Got(d)' = Got(d) /\ (Active(d) <=> Active(d)')
    BY <2>1 DEF Got, ProbeOrder, Active
  <2>3. CASE dev_count' = dev_count
    <3>1. TurnInv'
      BY <2>1, <2>2, <2>3 DEF TurnInv, OneActive, CountOK
    <3> QED BY <2>1, <2>2, <2>3, <3>1, EntriesStay
  <2>4. CASE dev_count' = 0 /\ cdevs = <<>> /\ "driver" \notin held
    <3>1. \A d \in Devs : dpc[d] = "unbound"
      BY <2>4 DEF DeviceInv, DeviceOK
    <3>2. TurnInv'
      BY <2>1, <2>4, <3>1, LifecycleAssumption DEF TurnInv, OneActive, CountOK, Active
    <3>3. EntriesInv'
      <4>1. cdevs' \in Seq(Entry) /\ 1 .. Len(cdevs') = {}
        BY <2>1, <2>4
      <4>2. \A d \in Devs : Got(d)' = {}
        BY <2>2, <3>1 DEF Got
      <4> QED BY <4>1, <4>2 DEF EntriesInv
    <3> QED BY <3>2, <3>3
  <2> QED BY <2>1, <2>3, <2>4
<1>2. ASSUME NEW d \in Devs, DeviceStep(d)
      PROVE  TurnInv' /\ EntriesInv'
  BY <1>2, TurnKeeps, BindEntries, ProbeEntries, CountEntries, RemoveEntries DEF DeviceStep
<1>3. CASE UNCHANGED vars
  <2>1. /\ UNCHANGED <<drv, dpc, dtodo, dev_num, cdevs, count, dev_count>>
    BY <1>3 DEF vars, modVars, devVars
  <2>2. \A d \in Devs : Got(d)' = Got(d) /\ (Active(d) <=> Active(d)')
    BY <2>1 DEF Got, ProbeOrder, Active
  <2>3. TurnInv'
    BY <2>1, <2>2 DEF TurnInv, OneActive, CountOK
  <2> QED BY <2>1, <2>2, <2>3, EntriesStay
<1> QED BY <1>1, <1>2, <1>3, NextCases

LEMMA TableInvariant ==
    TheDrivers /\ OVERLAP = FALSE => (Spec => [](LifecycleInv /\ TableInv))
<1> SUFFICES ASSUME TheDrivers, OVERLAP = FALSE
             PROVE  Spec => [](LifecycleInv /\ TableInv)
  OBVIOUS
<1>1. Init => TableInv
  BY TableInit
<1>2. LifecycleInv /\ TableInv /\ [Next]_vars => TableInv'
  BY TheDriversAreWell, TableNext DEF LifecycleInv
<1> QED BY <1>1, <1>2, LifecycleInvariant, PTL DEF Spec

\* The types, with dev_count in bounds as long as handlers do not overlap.
THEOREM TypeOKHolds == TheDrivers => (Spec => []TypeOK)
<1> SUFFICES ASSUME TheDrivers PROVE Spec => []TypeOK
  OBVIOUS
<1>1. LifecycleInv /\ (OVERLAP = FALSE => TableInv) => TypeOK
  <2> SUFFICES ASSUME ModuleInv, DeviceTypeOK, OVERLAP = FALSE => TableInv
               PROVE  TypeOK
    BY DEF LifecycleInv, DeviceInv
  <2>1. dev_count \in IF OVERLAP THEN Nat ELSE 0 .. MAX_BINDS
    <3>1. OVERLAP = TRUE \/ OVERLAP = FALSE
      BY LifecycleAssumption
    <3>2. dev_count \in Nat /\ MAX_BINDS \in Nat
      BY LifecycleAssumption DEF DeviceTypeOK
    <3>3. OVERLAP = FALSE => dev_count <= MAX_BINDS
      BY DEF TableInv
    <3> QED BY <3>1, <3>2, <3>3
  <2>2. \A d \in Devs : dev_num[d] \in Nat /\ name[d] \in Nat /\ count[d] \in Nat
    BY DEF DeviceTypeOK
  <2> QED BY <2>1, <2>2 DEF TypeOK, ModuleInv, DeviceTypeOK
<1>2. CASE OVERLAP = FALSE
  <2>1. LifecycleInv /\ TableInv => TypeOK
    BY <1>1
  <2> QED BY <1>2, <2>1, TableInvariant, PTL
<1>3. CASE OVERLAP # FALSE
  <2>1. LifecycleInv => TypeOK
    BY <1>1, <1>3
  <2> QED BY <2>1, LifecycleInvariant, PTL
<1> QED BY <1>2, <1>3

\* A failed load, an unload, a failed probe and a remove leave nothing but
\* what Leftover lists, in the module, the device and the kernel's table, for
\* every driver, every step at which one can fail and any number of devices.
THEOREM NothingElseLeftHolds ==
    TheDrivers /\ OVERLAP = FALSE => (Spec => []NothingElseLeft)
<1> SUFFICES ASSUME TheDrivers, OVERLAP = FALSE PROVE Spec => []NothingElseLeft
  OBVIOUS
<1>1. LifecycleInv /\ TableInv => NothingElseLeft
  <2> SUFFICES ASSUME ModuleInv, DeviceInv, TableInv
               PROVE  NothingElseLeft
    BY DEF LifecycleInv
  <2>1. /\ mod = "out" => held \subseteq Leftover[drv]
        /\ mod = "failed" => held \subseteq Leftover[drv] \cup FailLeftover[drv]
    BY DEF ModuleInv, InitGot, MayBeLeft
  <2>2. ASSUME NEW d \in Devs, dpc[d] = "unbound"
        PROVE  /\ has[d] \subseteq Leftover[drv]
               /\ \A i \in 1 .. Len(cdevs) : cdevs[i].dev = d => "cdev" \in Leftover[drv]
    <3>1. Got(d) = {}
      BY <2>2 DEF Got
    <3> QED BY <3>1 DEF DeviceInv, DeviceOK, TableInv, EntryOK
  <2> QED BY <2>1, <2>2 DEF NothingElseLeft
<1> QED BY <1>1, TableInvariant, PTL

\* Whatever open finds in the table leads to a handler that is allocated.
THEOREM EntriesLiveHolds == TheDrivers /\ OVERLAP = FALSE => (Spec => []EntriesLive)
<1> SUFFICES ASSUME TheDrivers, OVERLAP = FALSE PROVE Spec => []EntriesLive
  OBVIOUS
<1>1. LifecycleInv /\ TableInv => EntriesLive
  <2> SUFFICES ASSUME ModuleInv, DeviceInv, TableInv, "cdev" \notin Leftover[drv],
                      NEW i \in 1 .. Len(cdevs)
               PROVE  "box" \in has[cdevs[i].dev]
    BY DEF LifecycleInv, EntriesLive
  <2>1. PICK c \in Entry : c = cdevs[i] /\ c.dev \in Devs /\ "cdev" \in Got(c.dev)
    <3>1. cdevs[i] \in Entry /\ EntryOK(cdevs[i])
      BY TableHalves DEF EntriesInv
    <3> QED BY <3>1 DEF Entry, EntryOK
  <2>2. "box" \in has[c.dev]
    BY <2>1, HandlerHeld, TheDriversAreWell
  <2> QED BY <2>1, <2>2
<1> QED BY <1>1, TableInvariant, PTL

\* Numbers being unique, a device's number finds its entry.
LEMMA ReachesItself ==
    ASSUME TableInv, NEW d \in Devs, "cdev" \in Got(d)
    PROVE  Reaches(d)
<1>1. PICK i \in 1 .. Len(cdevs) : cdevs[i] = [num |-> dev_num[d], dev |-> d]
  BY DEF TableInv
<1>2. ASSUME NEW j \in 1 .. i - 1
      PROVE  cdevs[j].num # dev_num[d]
  <2>1. j \in 1 .. Len(cdevs) /\ j # i /\ cdevs[i].num = dev_num[d]
    BY <1>1
  <2> QED BY <2>1 DEF TableInv
<1> QED BY <1>1, <1>2 DEF Reaches

\* No error label of choen_probe and no choen_remove releases anything twice,
\* or anything the device does not have, or another device's table entry.
THEOREM ReleasesOwnHolds == TheDrivers /\ OVERLAP = FALSE => (Spec => []ReleasesOwn)
<1> SUFFICES ASSUME TheDrivers, OVERLAP = FALSE PROVE Spec => []ReleasesOwn
  OBVIOUS
<1>1. LifecycleInv /\ TableInv => ReleasesOwn
  <2> SUFFICES ASSUME DeviceInv, TableInv, NEW d \in Devs, dpc[d] = "undo"
               PROVE  IF Head(dtodo[d]) = "cdev" THEN Reaches(d) ELSE Head(dtodo[d]) \in has[d]
    BY DEF LifecycleInv, ReleasesOwn
  <2>1. dtodo[d] \in Seq(Resource) /\ dtodo[d] # <<>>
    BY DEF DeviceInv, DeviceTypeOK, DeviceOK
  <2>2. Head(dtodo[d]) \in Got(d)
    BY <2>1, TailElements DEF Got
  <2> QED BY <2>2, ReachesItself DEF DeviceInv, DeviceOK
<1> QED BY <1>1, TableInvariant, PTL

\* The number of a bound device leads to that device, whatever other devices
\* have come, failed and gone.
THEOREM BoundReachableHolds == TheDrivers /\ OVERLAP = FALSE => (Spec => []BoundReachable)
<1> SUFFICES ASSUME TheDrivers, OVERLAP = FALSE PROVE Spec => []BoundReachable
  OBVIOUS
<1>1. LifecycleInv /\ TableInv => BoundReachable
  <2> SUFFICES ASSUME TableInv, NEW d \in Devs, dpc[d] = "bound", Contains(ProbeOrder, "cdev")
               PROVE  Reaches(d)
    BY DEF LifecycleInv, BoundReachable
  <2>1. PICK k \in 1 .. Len(ProbeOrder) : ProbeOrder[k] = "cdev"
    BY DEF Contains
  <2>2. "cdev" \in Got(d)
    BY <2>1 DEF Got, ToSet
  <2> QED BY <2>2, ReachesItself
<1> QED BY <1>1, TableInvariant, PTL

=============================================================================
