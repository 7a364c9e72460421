# Verification of the choen drivers

The repository holds small Linux kernel modules and two user programs that
exercise them. This directory holds TLA+ models of the parts where something
can go wrong between two processes, two messages or two failures, the TLC
configurations that check them, and proofs for instances of every size.

## 1. Inventory

| component | state | operations | interacts with |
|---|---|---|---|
| ring buffer (`choen_rwnonblocking/ring_buffer.c`, same file in `choen_rwblocking`) | slots, `wptr`, `rptr`, `load_cnt`, a semaphore | `rb_init`, `rb_lock`, `rb_unlock`, `rb_is_readable`, `rb_is_writable`, `rb_usr_read`, `rb_usr_write` | called by the handlers below; the two predicates also without the lock |
| non-blocking device (`choen_rwnonblocking/choen_main.c`) | a ring, two wait queues, the fasync list, `ioctl_test_buff`; per file `f_flags`, `f_pos` | open, release, read, write, poll, fasync, ioctl; module init/exit | wait queues and signals of the kernel; any number of processes per file |
| blocking device (`choen_rwblocking/choen_main.c`) | the same without the fasync list | open, release, read, write, ioctl; init/exit | as above |
| `test_app/long_run` | a flag set by a signal handler, one FASYNC file | open, `fcntl`, drain, loop on the flag | the non-blocking device: `read`, SIGIO |
| base device (`choen_base/choen_main.c`) | a byte buffer and its length, no lock; list of device nodes | open, release, read, write, ioctl; init/exit | processes that share a device |
| USB bulk driver (`stm32_usb_driver/stm32_bulk_driver_v2.c`; `..._txOK.c` is the same file) | a reference-counted object per plugged device, its two transfer buffers, the request being served | probe, disconnect, open, release, read, write, completion callbacks | USB core: hot unplug at any time, completions in interrupt context |
| USB interrupt driver (`stm32_int_driver.c`, not built by the Makefile) | as above, with interrupt endpoints | as above | as above, and with the bulk driver: both claim the same vendor and product, and both register as `stm32_int_device`, so that only one of them can be loaded |
| platform drivers (`platform0`, `platform1`, `platform2`, `bbb_gpio1`) | class, device numbers, `dev_count`; per device a handler with cdev, device node, attributes | probe, remove, init, exit, open, read, sysfs show | driver core: bind and unbind at any time |
| simulated devices (`choen_device_simulate.c`, three copies) | two static `platform_device`s | register, unregister | the platform drivers |
| `test_app/choen_base` | a command line, a file; nothing across runs | one read, write or ioctl per run; with `-nw` a loop of the call and poll | `/dev/choen0` of any of the char drivers |
| ioctl of the char drivers | one `int` per device | get, set | processes |
| scripts, Makefiles | none | build, insmod, rmmod | |

What is hard, and what makes each component correct:

* **Ring and handlers.** The loop of `choen_read` and `choen_write` unlocks,
  sleeps, and locks again, with an exit for a signal, a fault, end of file and
  `O_NONBLOCK`. `load_cnt` is tested without the semaphore in the wait
  condition. Correct means: the semaphore is released once on every path; a
  test made under it still holds at its use; the cursors, counter and slots
  agree whatever failed; no sleeper is forgotten by a wake-up; and, seen from
  outside, the device is a bounded queue of whole messages.
* **long_run.** A flag set by a signal handler and cleared by the main loop:
  data that were announced must be drained.
* **USB driver.** Unplug races open and close; the object must live as long as
  somebody can reach it and no longer. Two requests share one record of where
  the answer goes.
* **Platform drivers and module load.** A failure half-way must be undone in
  reverse; unload must give everything back; numbers handed out must have been
  reserved.
* **Base device.** Readers and writers share a buffer, its length and the
  position of a file without a lock; `pread` and `pwrite` bring positions of
  their own. Correct means: no copy leaves the buffer whatever is interleaved
  (which is not so for the farthest of those positions, section 3), and what was
  written without interference is what is read.
* **test_app/choen_base.** Between `EAGAIN`, `poll` and the next try another
  process may take what was announced; a retry must neither lose nor repeat.

PROJECT.json lists, under `hazards`, the line where each of these bites.

## 2. Modules

    ChoenRing        ring_buffer_t and its functions, on a record
      ChoenDev       one device of choen_rwnonblocking: handlers, semaphore,
                     wait queues, poll, fasync, signals
        ChoenBlocking   choen_rwblocking over the same steps
          ChoenBlockingProofs
        LongRun         the application of test_app/long_run on a ChoenDev
          LongRunProofs
        TestMenu        the application of test_app/choen_base on a ChoenDev
          TestMenuProofs
        ChoenDevProofs, ChoenFifoProofs
    FifoDevice       what a device promises: a bounded queue (abstract)
    ChoenBase        one device of choen_base; the ioctl of all char drivers
      ChoenBaseProofs
    Stm32Bulk        the USB bulk driver under plug, unplug, unbind, open, close
      Stm32Int       either USB driver, loaded and unloaded, under the same core
      Stm32Proofs
    DriverLifecycle  load and unload of a module, probe and remove of its devices
    DriverScripts    what each driver acquires and releases, in which order
      DriverLifecycleProofs    about the two of them together
    MC*              instances for TLC

### ChoenRing

A ring is a record with the C structure's fields. A byte is abstracted to the
write it comes from: message `m` of length `n` is `n` bytes equal to `m`, and
`memset` writes `Zero`. A slot that mixes two writes then shows as a slot with
two different bytes. `rb_usr_read` and `rb_usr_write` are cut at the copy from
or to user memory, the place where they may fault: `WriteAccepted`,
`CopyFromUser`, `PutItem`; `ReadAccepted`, `ReadLen`, `CopyToUser`, `TakeItem`.
A fault leaves in the slot the bytes copied so far and zeros for the rest of
the request, as `copy_from_user` does.

### ChoenDev

Each process is in at most one system call; `pc[p]` is the next statement of
its handler, `call[p]` the arguments, `ret[p]` the result once decided. A step
ends wherever another process can see or influence what follows.

| pc | statement |
|---|---|
| `down`, `sem_wait` | `down_interruptible`, not yet and already on the wait list |
| `check` | the top of the loop: `rb_is_readable` / `rb_is_writable` under the semaphore |
| `prepare`, `cond`, `asleep` | `wait_event_interruptible`: enter the queue, test the condition, sleep |
| `copy`, `commit` | the two halves of `rb_usr_read` / `rb_usr_write` |
| `unlock`, `wake`, `sigio`, `ret` | `rb_unlock`, `wake_up_interruptible`, `kill_fasync`, return |
| `poll_rd`, `poll_wr`, `mask`, `poll_sleep` | `choen_poll` and the poll system call around it |

The semaphore is the kernel's: `up` hands it to the process that waits longest.
A signal may end a wait in any state in which the code sleeps interruptibly. A
poll ended by a signal inside `choen_poll` returns `-ERESTARTSYS` as its mask
(line 191); cast to the mask type that value has neither POLLIN nor POLLOUT
set, and the model counts it as an interrupted poll.

`f_pos` is one bit (`advanced`): the handlers only ask whether it is 0. So a
`pread` or `pwrite` at 0 is a call on a fresh file of its own, one at any other
position a call on one that has had its transfer, and neither has an action.

### FifoDevice

The abstract specification: `q` is the sequence of messages, `used` the open
files that have had their transfer, `out[p]` the outcome of the call `p` is in.
A write that succeeds appends a whole message; a read takes the oldest, gets as
much as it asked for and loses the rest; every failure leaves `q` alone;
`-EAGAIN` is only given when the queue really is empty or full at that moment;
a second write on a file reports success and stores nothing (the code returns
`len` when `f_pos` is not 0). The refinement mapping (`Fifo` in ChoenDev) takes
`q` from the ring's contents and `out` from `ret` once the outcome is settled.

### ChoenBlocking

choen_rwblocking's handlers go through the same statements, so the module
reuses ChoenDev's steps; a write ends with its wake-up instead of going on to
`kill_fasync`, and there is no poll and no async list.

### LongRun

The application has a program counter, its flag and a bit for "past the first
flush". Its reads are ChoenDev calls on its own non-blocking file; other
processes write. `open` and `fcntl` are taken to succeed. Whether a read that a
signal cut short is restarted depends on `sa_flags`, which `main` leaves
uninitialised: both happen. `AppAssumption` says who is beside it: the
application issues only its own read, and the others only write, to files of
their own.

### TestMenu

Each process runs the application once: it opens its file, issues its call and,
after `EAGAIN`, a poll for the direction it needs, and tries again. The command
lines come from `Commands`. The system calls are ChoenDev's steps; signals and
faults in the application's own buffers do not occur, so the only failing write
is one the ring refuses. `WrittenOnce` speaks of every moment, also while a call
is returning, and of messages that can be told apart: no two processes write the
same one (`DistinctMessages`, which only says how the messages are named, a byte
being the write it comes from), and a reader asks for at least a slot
(`AsksForASlot`: `MAX_BUFF` in main.cpp and `RW_ITEM_SIZE` are both 256), since
a shorter read throws the rest of its message away. `close` is assumed to be
reached: all paths of the two loops lead there.

### ChoenBase

A byte is the process that wrote it. The handlers are cut at every load and
store of `rw_test_len` and at every byte copied; the `memset` of the buffer is
one step, because a reader that could see it half done is a reader that a write
overlaps, about whose bytes nothing is promised. The position of a file is the
VFS's: the handler gets a copy, and the copy is stored back afterwards unless the
call failed; the VFS takes no lock for a character device. So two calls on one
file overwrite each other's position, and `f_pos` may be behind a length that has
since been reset.

The devices are opened as seekable files, so a call may also be a `pread` or
`pwrite` (`positioned`), which brings any position that a `loff_t` can hold
(`Offsets`) and leaves `f_pos` alone; there is no `llseek` handler that would
move it. The handlers compute in 64 bits and store the result in an `int`
(lines 122 and 166): `ToInt`. For a position up to 2^31 the distance to the end is
an `int` and what is past the end comes out negative. From a position above that
it may be positive again, and the copy then reads or writes memory that is not
the device's. The model lets it: such a read yields `Foreign` bytes, such a write
changes nothing of the device but the length; what it does to the memory it hits
is not modelled. The position itself is assumed to be added as it is (a 64-bit
kernel), and the sum of position and length not to overflow, which the VFS sees
to. `Far` names these calls; `CopiesInside` and `QuietReadExact` exclude them and
no others, and the type invariant and `TextKept` include them.

`text` and `mixed` are history: the bytes written since the last write at offset
0, and whether a write overlapped another or began elsewhere than at the end.
What a reader gets while a write is in progress is not constrained beyond
staying inside the buffer: `rw_test_len` is read twice (lines 120 and 122), so
such a read may even return more bytes than were asked for. Nor do readers of a
shared file necessarily reach the end: one that finds nothing stores its old
position back over another's, so there is no liveness property here.

The ioctl handler is the same, statement by statement, in all three char
drivers (`choen_base/choen_main.c:190-241`, `choen_rwnonblocking/choen_main.c:210-261`,
`choen_rwblocking/choen_main.c:170-221`); it narrows a `long` to an `int`, and a
pointer that faults stores 0.

### Stm32Bulk

One `usb_stm32` object per plugged device; the variables carry the names of its
fields. `core[d]` is where the USB core and the driver's probe or disconnect
of device `d` are:

| core | statement |
|---|---|
| `probe`, `endpoints`, `register` | `kmalloc`, the endpoint loop with its buffers, `usb_register_dev` |
| `bound` | the device can be opened |
| `flush` | the core stops the endpoints and waits for the transfers |
| `deregister`, `put` | `usb_deregister_dev`, `kref_put` of `stm32_disconnect` |
| `absent`, `unbound`, `gone` | not there yet; no driver; unplugged |
| `oops` | the interrupt driver's disconnect has followed its null pointer |

`pc[p]` is where process `p` is in `stm32_open` (`find`, `get`), `stm32_read`
(`size`, `submit_in`) or `stm32_write` (`submit_out`). `urb` holds the transfers
in flight, which the two calls leave behind when they return. A buffer is
abstracted to the process it belongs to, or whose bytes it holds.

What the driver relies on in the kernel, and the model takes from there: open
runs under `minor_rwsem` held for reading, `usb_register_dev` and
`usb_deregister_dev` hold it for writing, and a waiting writer keeps new readers
out; the core stops the endpoints before it calls disconnect, waits for what is
in flight, refuses new transfers, and when the device is still plugged in
enables its endpoints afterwards. `kref_put` at zero frees the block, which the
next probe may get.

### Stm32Int

An earlier state of the bulk driver, which claims the same devices. It differs in
its probe, which looks for interrupt endpoints and whose `retval` is still 0 at
`error`: the USB core takes a failed probe for success. And it always fails,
because the test for the OUT endpoint masks the address with `USB_DIR_OUT`,
which is 0 (line 328). So the driver is bound without an object, `stm32_disconnect`
finds none, and `kref_put` follows a null pointer (line 388): the thread of the
core ends there, and with it the device it had in its hands (`oops`). The model
lets the core go on with other devices, as it may when they hang on another hub
(the locks of the first stay held); where it does not, less happens. The driver's open, read
and write, with the assignments that replace comparisons in their null tests
(lines 109, 165, 203, 211), are not reached; `NothingToOpen` is that statement.

The module also has load and unload, for both drivers. They register under one
name (`stm32_bulk_driver_v2.c:413`, `stm32_int_driver.c:396`), so the second
`usb_register` is refused: `loaded` is one of them or none, and after one has been
removed the other may come. `stm32_exit` begins when no file is open and no open
is in progress (`.owner`), takes the driver off each device that is bound, in any
order and beside any unplugging, and ends when all disconnects have ended. The
`rmmod` of the interrupt driver waits for ever after an oops. Transfers of a
device that was unbound by hand may outlive the module as they outlive the object
(run `unbind`), and `UnloadedLeavesNothing` leaves those out.

### DriverLifecycle and DriverScripts

`choen_init` and `choen_probe` acquire in a fixed order and jump to a label when
a step fails; `choen_exit` and `choen_remove` release in a fixed order. The
state machine is the same for all drivers; which resources in which order, and
what each label releases, is read from each driver's statements and given to
DriverLifecycle as constants. `mtodo` and `dtodo[d]` are what the running
function has yet to do. A step is one call of the kernel, and each may fail.

A handler is `"box"`; it gets its number, `dev_count`, when it is allocated and
before `cdev_add` (`ProbeBox`, `ProbeCdev`), and `device_create` reads `dev_count`
once more for the name. The kernel's table of character devices is modelled as
`kobj_map` keeps it: `cdev_add` does not look whether a number is taken, the
newest entry of a number is found first and removed first. `device_create`
refuses a number or name in use. The step that registers the platform driver is
the last of `choen_init`, so devices are bound once the module is in. Releasing
what is not held (`device_destroy` of a node that could not be created,
`unregister_chrdev_region` of a range that was not reserved) does nothing, as in
the kernel; that probe and remove never count on it is the property `ReleasesOwn`.
It is not asked of `choen_init` and `choen_exit`: choen_base does release a range
that it does not hold.

`mod` tells a module that was unloaded (`out`) from one that failed to load
(`failed`): what stays behind after the second is known to be more.

## 3. Runs

| run | question | bounds |
|---|---|---|
| `any` | type, ring consistency, check-to-use; ChoenDev implements FifoDevice | 2 processes that issue the same 7 calls on 2 shared files, 2 slots of 2 bytes, faults, signals |
| `live` | pairing of lock and unlock, no lost wake-up; lock granted, sleeper served, non-blocking calls return | 3 processes, 1 slot, so that each side finds the ring full and empty; fasync; fairness |
| `blocking` | the two sides of the blocking driver never all sleep; ChoenBlocking implements FifoDevice | 3 processes, one that only reads and two that do both, one file non-blocking, 2 slots of 2 bytes |
| `startup` | nothing is overlooked while long_run starts | the application and 2 writers (one blocking), 2 slots |
| `overlooked` | the same for every round of its loop: **violated** | as above |
| `usb` | the reference count is exact, pointers and transfers live; the interrupt driver has nothing to open; an unloaded module leaves nothing; a disconnect ends | either driver, loaded and unloaded; 2 devices, one of which is also unbound and bound by hand and has all the endpoints that either driver looks for; 2 objects, 2 files, 1 process, 1 transfer; fairness |
| `unbind` | transfers find their object when the driver is unbound: **violated** | 1 device, 2 files, 2 processes |
| `overtaken` | an answer goes to its reader: **violated** | as above, no unbind |
| `base` | nothing leaves the buffer but from far behind; undisturbed writes read back exactly | 2 processes, 2 files, 2 bytes, lengths 0 to 2, an int of 6 values, given positions 3 (just behind the buffer) and 6 (where the int has come round) |
| `menu` | test_app/choen_base loses and repeats nothing, and all of as many readers as writers end | 2 readers, 2 writers, 1 slot, both modes; fairness |
| `drivers` | what fails or goes leaves nothing but the known leftovers and is released once; table entries are live; a bound device is reachable; teardown in order | every driver, 2 devices, 3 binds, one handler at a time |
| `overlap` | platform2 with overlapping probes: **violated** | 2 devices, 3 binds |

The runs of Stm32Bulk and Stm32Int say `CHECK_DEADLOCK FALSE`: when every device
has gone for good and every file is closed nothing is left to happen, and an
`rmmod` of the interrupt driver may hang. So does `drivers`: a
module that has left a class or a table entry behind is not loaded again in the
model, because what the code then does depends on an error value it never looks
at, or on memory that was freed.

Why these bounds: the hazards need at most a process on each side of the ring
and one that comes between; a ring of one or two slots is full and empty within
a few steps and wraps all the time; two byte values and a length of two tell a
cut, a mixed and a whole message apart; lengths 0 and `RW_ITEM_SIZE + 1` are
the refused ones. The safety properties are proved for every size (below), so
the runs mainly guard the model against vacuity there.

Fairness. `FairSpec` gives weak fairness to `Step(p)`, the steps the kernel
executes for a process once it is in a call: Linux runs runnable processes. The
semaphore's hand-over to the longest waiter is in the code (`up`), not assumed.
Nothing obliges a process to issue a call, to be signalled, or to open or close
a file: those are outside `Step`.

For the USB driver the fairness is of the same kind: disconnect's steps, the
steps of a process inside open, read or write, and the core's killing of the
transfers of a stopped endpoint. No transfer has to be answered, no user has to
close.

Only handlers of the bulk driver are treated fairly (`CoreEnds`), and `DisconnectEnds`
speaks of them: the interrupt driver's disconnect never ends. The two are never
loaded together, so that no thread that an oops has ended owes the bulk driver
anything.

In TestMenu the fairness is the same again, for each process in its application
(`AppStep`) and in the kernel (`Kernel`); nobody is obliged to start one. The
run says `CHECK_DEADLOCK FALSE` because applications end, and a reader without a
writer waits. `AllEnd` needs as many accepted writes as reads.

In the USB runs two objects let a block be freed and reused
while something of its former owner is left, or memory run out; two files share
an object, one of them open while a process is inside `open` on the other. A
second process adds nothing to the counting, which the proofs cover for any
number. In ChoenBase two bytes are the least with a write in two parts and a
text that a rewrite makes shorter; two writers fill the buffer in every order;
every length from nothing to the whole buffer is asked for at every position,
past the end included, and at two given positions behind the buffer, on either
side of where the narrowed distance turns positive. In TestMenu a one-slot ring sends each side through
`EAGAIN`, two of each side race for one slot, and one command is a message that
the ring refuses. In DriverLifecycle every acquisition may fail at every point,
and three binds make a device bind again beside another.

The violated runs show where the code does not do what its comments or
messages say; PROJECT.json quotes them under `findings`. In short:

* long_run clears `is_io_ready` after its drain has ended: a SIGIO between the
  last read and the reset is lost, and a message stays behind (`main.cpp:109`).
* stm32: after an unbind of a device that stays plugged in, a file that is
  still open can start a transfer that outlives the object; two reads share
  the record of where the answer goes.
* platform2: overlapping probes share a number, and one that fails may remove
  the other's entry.

TLC stops at a shortest trace, which may get there in another way than the
finding tells it: the drain of long_run may end with a signal instead of
`EAGAIN`, the transfer of an unbound device be a write instead of a read, the
failing probe fail at any of its steps. The last states are those described.

Seen while modelling and not a property of its own: `dev_count` is only ever
incremented (`platform2/choen_driver.c:188`), so the third bind, also of a
device that was unbound before, takes a number beyond the two that are reserved.
The trace is three binds long and needs no model. Nor does a call of `pread` or
`pwrite` on choen_base at a position above 2^31, say 2^32: `rw_test_len - l_offset`
and `RW_BUFF_SIZE - l_offset`, narrowed to an `int`, are then positive
(`choen_base/choen_main.c:122, 166`), and the copy in line 135 or 178 leaves the
buffer, with more bytes than were asked for. No comment or test says that it
should not, so it is no finding with a run; the properties of `base` name it as
their exception (`Far`).

The known leftovers that `drivers` allows for (`KnownLeftover` and, for a load
that failed, also `KnownFailLeftover` in DriverScripts; nothing else may stay
behind, and none of them does in platform2):

* platform1's remove forgets the handler and its cdev (`platform1/choen_driver.c:173`).
* bbb_gpio1's unload forgets its numbers (`bbb_gpio1/choen_driver.c:139-144`).
* choen_base reserves five numbers and releases two, which releases none
  (`choen_base/choen_main.c:294, 313, 336`). Its failed load, and only that,
  leaves the class and the first device.
* The failed load, and only that, of the two ring drivers leaves the first cdev
  (`choen_rwnonblocking/choen_main.c:333`).

For devices there is one set for a failed probe and a remove: in the run the
handler and cdev of platform1 may stay behind either. That its error labels are
complete is in the proof (`ProbeScripted`).

## 4. Proofs

For any number of processes, devices, files, slots, bytes and messages:

| theorem | module | from |
|---|---|---|
| `LockDisciplineHolds`, `CheckStillHoldsAlways`, `RingConsistentHolds`, `TypeOKHolds`, `NoLostWakeUpHolds` | ChoenDevProofs | `RingAssumption`, `DevAssumption` |
| `ImplementsFifoHolds` | ChoenFifoProofs | the same |
| `NoStandstillHolds`, `BlockingImplementsFifo` | ChoenBlockingProofs | the same |
| `LongRunTypeOKHolds`, `NothingOverlookedAtStartHolds` | LongRunProofs | the same, `AppAssumption` |
| `MenuTypeOKHolds` | TestMenuProofs | the same as ChoenDevProofs, `MenuAssumption` |
| `WrittenOnceHolds` | TestMenuProofs | also `DistinctMessages`, `AsksForASlot` |
| `BaseTypeOK`, `CopiesInsideHolds`, `TextKeptHolds`, `QuietReadExactHolds` | ChoenBaseProofs | `BaseAssumption` |
| `UsbTypeOK`, `ReferencesExactHolds`, `PointersLiveHolds`, `TransferFindsObjectHolds`, `NothingToOpenHolds`, `UnloadedLeavesNothingHolds` | Stm32Proofs | `BulkAssumption` |
| `TypeOKHolds`, `OrderedTeardownHolds` | DriverLifecycleProofs | `LifecycleAssumption`, `TheDrivers` |
| `NothingElseLeftHolds`, `ReleasesOwnHolds`, `EntriesLiveHolds`, `BoundReachableHolds` | DriverLifecycleProofs | also `OVERLAP = FALSE` |

Hardly any of these properties is inductive. Each proof strengthens it first.

**ChoenDev.** The inductive invariant is built in layers, each proved from the
ones below it:

1. **LockInv** - types of the semaphore and `pc`; holders, `sem_count` and the
   wait list agree. Needed first: all else rests on one process at a time
   being in the ring.
2. **CallInv** - the call a process is in fits its `pc` (who is in `commit` is a
   read or a write, and so on).
3. **Ring layer** - `RingInv(ring)`, and what a process in `copy` or `commit`
   has already found out about it. A step of another process cannot touch the
   ring, by layer 1.
4. **RetInv** - a result is set exactly in the states that follow its decision.
5. **QueueInv** - who is in which wait queue, and for each sleeper that could
   go on, the process that owes it a wake-up.
6. **ExactInv** - between the copy and the commit of a read, the result it is
   going to return is the part asked for of the message that its commit takes
   from the ring; a write returns no data.

The first part of ChoenDevProofs holds the lemmas about the ring's operators (wrap-around, age of
a slot, what `PutItem` and `TakeItem` preserve).

`ImplementsFifoHolds` rests on all layers but QueueInv. On the contents of the
ring, read as a sequence from `rptr`, a copy has no effect (`CopyLeavesContents`,
`ContentsSame`), the commit of a write appends (`PutAppends`) and that of a read
drops the head (`TakeDropsOldest`). Then there is one lemma per kind of step: it
settles the outcome of its call as one action of the queue, or it leaves queue
and outcomes alone. The semaphore is what makes the copy and the commit one
operation: layer 3 gives the commit the ring its own test has seen.

**ChoenBlocking.** Every step is one of ChoenDev's except the end of a write, so
only that step is new: it keeps all six layers and changes nothing the queue
shows (`BlockingInvariant`, `BlockingImplementsFifo`). That a reader and a writer
do not both sleep unattended follows from QueueInv, because a ring with at least
one slot always has a message or a free slot.

**ChoenBase.** `LocalsInv` says what a process has loaded and not yet used: an
offset, a length and a count that fit in the buffer unless the call is `Far`, which
no other process can change; `CopiesInside` follows. That a distance to the end
which fits in an int is narrowed to itself, and the new length to itself even
after a far write, are the lemmas about `ToInt`. Positions may be any natural
numbers, and the buffer's size any that an int can hold. `TextInv` says what the buffer holds while no
write has been mixed with another: between writes exactly `text`, during one
`text` and after it the bytes that the only writer has copied. `QuietInv` relates
the bytes a read has so far to `text`, as long as no write has begun.

**Stm32.** The theorems are about `BothSpec`: either driver under one USB core,
loaded and unloaded at any time. `TransferFindsObject` and `UnloadedLeavesNothing`
say nothing of the transfers of devices in `UNBINDABLE`, for which they are false
(run `unbind`). `UsbInv` has four parts beside the type, and `BothInv` adds a fifth:

* `CoreInv` - what a device's place in probe and disconnect says of its object;
  an object that is still being set up is open in no file.
* `ObjInv` - the reference count is exactly the device's probe and the open
  files; an object knows the device that owns it, and a device that is never
  unbound by hand leaves its object only when it is gone.
* `CallInv` - a process inside open has a device that is still registered, which
  keeps the object alive until its reference is taken; one inside read or write
  has an open file on its object.
* `UrbInv` - a transfer in flight belongs to a device whose transfers have not
  been flushed, and so to the object that the device still holds.
* `LoadInv` - without a driver no device has one, and from the moment a module
  is being removed no file is open and no open in progress, so that the
  references that are left are those the disconnects will give up.

The type of `kref` cannot be proved alone: that it stays a natural number
when `kref_put` decrements it is the exact count again. The counts are
cardinalities, which is why `BulkAssumption` asks for finitely many devices and
files.

**LongRun.** A step of the application is a step of the device, its own read or
its own open and close, so the invariants of ChoenDev carry over (`DeviceSteps`,
`DeviceHolds`). `AppInv` adds what `NothingOverlookedAtStart` needs: from
`fcntl` on the file is on the async list, whose membership only its close ends,
and when the last read of the flush has failed, every message in the ring has
come since then and is announced or its writer is on the way to `kill_fasync`.
A read can only find the ring empty under the semaphore, and what is committed
afterwards is announced because FASYNC came before the flush: that order in
`main` is what the proof uses. The same statement about the later rounds is
false (run `overlooked`).

**TestMenu.** Here too every step is one of the device. `ChosenInv`: a process
that was started keeps one of its command lines. `AppInv`: where the process is
in its program fits where it is in the kernel, and until its transfer is over it
has printed nothing and its file is fresh, so that a retry really is a first
transfer. `Placed` is `WrittenOnce` without the counting: every message in the
ring or with a reader is the text of a writer that is done, no two are the same,
and no such writer's is missing. Only the commit of a write or of a read moves a
message (`OnlyCommitsServe`, `PlacesStay`); the first puts a new text in the
ring (`PlacePut`), the second hands the oldest over whole (`PlaceGet`), by the
lemmas `WriteCommits` and `ReadCommits` of ChoenFifoProofs.

**DriverLifecycle.** The state machine is proved for any script that satisfies
`WellScripted`: nothing is acquired twice, an error label releases exactly what
was acquired before the step that failed, choen_exit and choen_remove release
everything but the leftovers (of which there are more when choen_init has failed:
`MayBeLeft`), the handler comes before its cdev, the class comes before its nodes and goes after
them, a cdev goes before the handler it leads to, and the platform driver is
registered last and unregistered first. That the statements of the five drivers
have this form is `TheDriversAreWell`; `TheDrivers` says that the constants are
those statements. The invariant has three layers:

1. **ModuleInv** - what choen_init has acquired so far is held, and what is held
   is what choen_exit or the label has yet to release, or a leftover. While the
   driver is registered, all of it is held.
2. **DeviceInv** - the same for each device's probe and remove, and a device
   that is not unbound has the driver registered.
3. **TableInv** - one handler is active; no two table entries share a number;
   only the active device has an entry with the number `dev_count`, which is
   also the one its handler was given and which the next bind will take; every cdev that a device has acquired is in the table
   under its number.

`OrderedTeardown` and the types need only the first two, which hold for any
overlap of handlers. `OVERLAP = FALSE` is a real hypothesis of the other four:
the kernel serialises the handlers of one device, not those of two, and the run
`overlap` shows what two overlapping probes of platform2 do to each other's
entries. The simulated devices are registered one after the other by one
thread, which is the case the theorems are about.

**Only model-checked:** the liveness properties (`LockGranted`, `SleeperServed`,
`NonblockReturns`, `DisconnectEnds`, `AllEnd`), which are out of the
prover's reach.

**Not modelled:**

* the contents of USB transfers and their errors beyond success and failure;
  which process an interrupt interrupts, and so into whose memory the completion
  callback copies (`stm32_bulk_driver_v2.c:76`);
* the file operations and sysfs attributes of the platform drivers, and so files
  that stay open over a remove;
* what a `pread` or `pwrite` of choen_base from above 2^31 does to the memory that
  it hits, which is not the driver's;
* a failed `class_create` or `kzalloc` in choen_base, after which the code goes
  on with an error value;
* the interrupt driver's open, read, write and callbacks: `NothingToOpen` shows
  that they are not reached;
* platform0, which only logs, the simulated devices (registration of two static
  structures) and the scripts.

## 5. Plan

Done, in this order: ChoenRing, ChoenDev, FifoDevice, ChoenBlocking, LongRun;
Stm32Bulk; DriverLifecycle with the scripts of all drivers; ChoenBase with
ioctl; TestMenu; Stm32Int; the theorems of section 4, of each safety property
that a passing run checks.

Left: open files in DriverLifecycle (open, release and read against remove).
