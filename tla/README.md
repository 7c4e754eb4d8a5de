# Verification of the kernel-module lessons

The repository is a course of small Linux 5.15 kernel modules (`src/01` to
`src/22`), one topic each. This directory models the modules that keep state and
share it: between tasks, work items, threads, interrupt handlers, a DMA engine,
and the tasks that load and unload them. The models are TLA+, checked with TLC on
small instances; every safety property, of all lessons from 04 to 22, is also proved with TLAPS
for every instance.

* [Inventory](#1-inventory) – the parts of the system and what is hard about them
* [The modules](#2-the-modules) – what each models and how it corresponds to the code
* [The runs](#3-the-runs) – what TLC checks, with which bounds and fairness
* [The proofs](#4-the-proofs)
* [Findings](#5-findings)
* [What is not modelled, and what is left](#6-limits)

## 1. Inventory

| Lesson | State | Operations | Who interacts, and what is hard | What makes it correct |
|---|---|---|---|---|
| 01–03 | none that outlives a call | init, exit | nothing runs concurrently | – |
| 04 `si_char04.c` | `device_buffer`, `device_size`, position of each file | open, read, write, release | several tasks; no lock, by design | a read returns the document from its position; a bad address harms no more than the code says |
| 05 `si_mutex05.c` | the same, and a mutex | the same | the mutex is held while bytes go to and from user memory; a signal may end the wait for it | concurrent reads are never torn; every path gives the mutex back |
| 06 `si_spin06.c` | the same, and a raw spinlock | the same | copies through the stack, outside the lock; the offset moves before the copy to the user | as 05, and a bad address loses nothing |
| 07 `si_waitqueue07.c` | one message, `data_ready`, mutex, wait queue | read (blocks), write (wakes) | test and sleep are two steps, wake-up comes after the unlock, all readers wake for one message | no wake-up is lost; a message is read once and whole; the lock is owned exactly between lock and unlock |
| 08 `si_poll08.c` | as 07, and the poll tables | read (blocking or not), write, `.poll` | `.poll` tests the flag without the mutex | POLLIN implies that a read does not have to wait; pollers wake |
| 09 `si_workqueue09.c` | a queue, a work, a delayed work | init queues both, exit cancels | callbacks sleep; exit races with them | nothing runs in, or returns to, code that is gone |
| 10 `si_tasklet10.c` | two tasklets | init schedules, exit kills | the same in softirq context | the same |
| 11, 12 | an interrupt line, a handler in two halves, in 12 the data and the GPIO of a device | interrupt, thread, probe, unbinding, release | the interrupt and its thread against unbinding | the same, and both halves find data and GPIO |
| 13 `si_sysfs13.c` | `message`, `write_count`, mutex | show, store, show | callbacks against each other and against removal | a text is never torn, no store goes uncounted |
| 14, 15 | a mapping of GPIO registers | get, set of a parameter | parameter access against exit | only calls that run during exit are hurt by it; other pins are left alone; BSRR written only in output mode |
| 16 `si_ioctl16.c` | `value`, `message`, mutex | four commands | the two fields change together | a command sees a pair that belongs together |
| 17 `si_kthread17.c` | a thread, its wait queue, `period_ms` | the loop, setting the period, `kthread_stop()` | stop before the first run, or between test and sleep; a period that changes | one print per period; a stop that needs no time; the code outlives the thread |
| 18 `si_timer18.c` | an hrtimer, statistics in counters | expiry, setting the period, cancel | a callback that restarts itself, may be late or overrun; two clocks; counters that wrap | deadlines do not drift; the report is true; as 17 |
| 19 `si_rcu19.c` | an RCU pointer, a self-arming delayed work, a reader thread, callbacks | init, writer, reader, free callback, exit | everything at once, with failing allocations | no use after free, no leak, no double free, monotonic consistent reads, clean unload |
| 20 `si_dma20.c` | channel, two buffers, descriptor, completion on the stack | init with transfers, callback, timeout, cleanup | a callback that is late or never comes, every allocation may fail | no DMA to freed memory, no callback to a dead stack frame, insmod ends |
| 21 `si_temp21.c`, `si_temp21_cdev.c`, 22 `si_spi22.c` | a client, a mutex, an output buffer that all callers share | probe, read, remove | callers against each other, bus errors, open files against unbinding | an answer is of the caller's own reading; the mutex is given back; the code outlives the files |
| user programs | – | sequences of calls | they are the tasks of the models | – |

The lessons do not call one another. They interact with the kernel (VFS, kernfs,
workqueues, RCU, dmaengine, kthreads), which the models contain as far as the code
under `src/` uses it; those definitions are marked `external` in `PROJECT.json`. Loading
and unloading follows one scheme in all lessons: `init` acquires resources in order
and unwinds by falling through labels, `exit` releases them; `Lifecycle` has that
scheme once, with a table of what each lesson acquires and releases.

## 2. The modules

**`Mailbox`** is what lessons 07 and 08 promise: a mailbox for one message, in
which a call takes effect in one step between its start and its return.

**`WaitQueueDevice`** is what the devices of lessons 07 and 08 have in common, step by step.
An action is a step between two points at which another task may run. `WaitEvent`,
`Prepare`, `Recheck`, `RecheckSignalled`, `Schedule` are the halves of
`wait_event_interruptible()` (si_waitqueue07.c:187); `ReadLock` to `ReadUnlock` the rest of
`si_wait_read()`: the second test of `data_ready` and the retry, EMSGSIZE, the copy byte
by byte with a fault at any byte, the take. The actions that begin with `Write` are
`si_wait_write()`, with the wake-up after the unlock. The history variable `slot` is
the mailbox's state.

**`MessageDevice`** instantiates it for one lesson or the other (constant `Lesson`). In 07 a read waits
for a message before it takes the mutex (`ReadWaits`); in 08 it takes the mutex first (`ReadLocks`), may
be non-blocking, and there is `.poll`, with the poll() system call around it (queue
once, ask, sleep unless triggered, ask again; external) and the event loop of
`si_poll_test.c`. `KeepsPromise` says that the device of either lesson implements `Mailbox`.

**`Document`** and **`CharBuffer`** are the promise and the code of lessons 04 to 06: the
variable `lesson` chooses the lock (none, mutex, spinlock) and where the copying
happens. `f_pos` is the file's position, `offset` the copy that the VFS passes and
stores back only when the call succeeds. The callers of lesson 04 take turns (constant
`Overlapping`).

**`AtomicRecord`** and **`SharedRecord`** are the promise and the code of the callbacks
of lesson 13 and the commands of lesson 16. Inside the mutex every field and every
byte is a step of its own; copies to and from user memory are outside of it. The
32-bit `write_count` wraps at `COUNTS`. Of an array that `strscpy()` has filled only the
string counts: the bytes behind its Nul are not part of what a caller reads.

**`RcuModule`** is lesson 19: the phases of `si_rcu19_init()` and `_exit()` with each
failure, `si_rcu19_writer()` as a delayed work that arms itself again, the reader's
loop with its critical section opened and closed in separate steps, and
`call_rcu()`. A grace period (`waiting`) lasts as long as the critical section that was
open when it began. Freed addresses are used again by later allocations. `update_count` and the
fields of the object are unsigned ints, which wrap at `UINT_VALUES`.

**`DmaTransfer`** is lesson 20: `si_dma20_init()`, `si_dma20_run_transfer()`,
`si_dma20_cleanup()`, called from init and exit, and a DMA engine that moves byte by
byte, is slow, hangs or reports failures at each call. The bytes of the buffers and
of the pattern are kept, since the comparison is about them.

**`RegisterDevice`** is the reading and writing of one register: the parameters of
lessons 14 and 15 behind `ioremap()`, and `read()` of the sensors of 21 (misc device, and
cdev) and 22. A task locks, looks, formats and unlocks in separate steps; `Format`
writes `data->output` character by character, `Copy` is `simple_read_from_buffer()`. The
parameter's callbacks run before init, during exit and after it, for exit neither
unregisters the parameter nor takes `param_lock`: `Ioremap`, `ExitClears`,
`ExitUnmaps`, `ExitForgets` are the steps of init and exit between which they
happen, and `Oops` is what they meet then. `OtherDriver` uses other pins of the same port.

**`Periodic`** is lesson 17, each step of `wait_event_interruptible_timeout()` against
`kthread_stop()` (flag, wake-up, wait), and lesson 18, each part of the callback
against `hrtimer_cancel()`. Time goes by in `Tick`s, a callback reads a clock that may
lag by `CLOCK_SKEW`, `SetPeriod` writes the parameter at any time.

**`Lifecycle`** is loading and unloading of seventeen modules, lessons 04 to 13, 16 to 18
and the three drivers of 21 and 22. `Plan[lesson]` holds the order of acquisition, which steps may
fail and to which label they jump, what the labels and exit release, and what the code
behind each door (character or misc device, attribute, work, tasklet, interrupt and its
thread, kernel thread, timer) works with. `Acquire`, `AcquireFails`, `Release`, `Waited` walk
through it while tasks and callbacks come and go. Doors whose release closes first and
then waits (`cancel_work_sync()`, `free_irq()`, `kthread_stop()`, removal of attributes)
differ from those that wait for a moment at which nothing runs (`hrtimer_cancel()`,
`tasklet_kill()`). Open files are not waited for: they hold module references. Of the
drivers (12, 21, 22) probe and the release by devm are what init and exit are of the others, and
`Unbind` and `Bind` do both while the module stays; files that are open then are
`orphan`s.

The modules that end in `MC` give constants to TLC, those that end in `Proofs` hold
the theorems. Operators named in a comment `Mutant:` are small bugs that the
properties are tested against, each in place of the definition it precedes; no
specification uses them.

## 3. The runs

| Run | Instance | Distinct states | What it shows |
|---|---|---|---|
| `waitqueue` | two readers, a writer, messages that are empty, and truncated; buffer of 3; a signal; bad addresses | 53,880 | `NoLostWakeup`, the refinement `KeepsPromise`; sleepers wake, writers return, a reader that keeps finding a message is served |
| `poll` | a reader, a writer, an event loop with a timeout; buffer of 3, read() with room for 0, 1 or 2 bytes; bad addresses of all three | 73,122 | `KeepsPromise`: a message is read at most once, whole, and an EFAULT of a read, blocking or not, loses nothing; `PollinHolds`: after POLLIN no EAGAIN until someone reads; pollers wake, consumers are served if a message stays |
| `rcu` | three addresses, `updates` 0 or 2, an unsigned int of 3 values, four runs of the writer, failing `kmalloc()` | 235,498 | safety of the object's life, consistent and monotonic reads, clean unload, and that unloading and freeing come about |
| `dma` | up to two transfers of up to two bytes of 3 values, each parameter also 0 | 464 | safety of buffers and completion under every failure and timing; what has been compared has been moved; insmod ends and leaves nothing or all |
| `char_buffer` | two tasks, devices 04, 05, 06, buffer of 3, a signal, bad addresses | 104,270 | each device is the document; 06 survives bad addresses unharmed; calls return |
| `shared_record` | two tasks, lessons 13 and 16, array of 3, counter of 3 values, bad addresses | 67,840 | callers cannot tell the data from an atomic record; calls return |
| `register` | two tasks, lessons 14, 15, 21, 22; readings 7 and -128; one other pin | 126,798 | answers are the callers' own, exit hurts nobody who is not in a call then, other pins stay, calls return |
| `periodic` | lessons 17 and 18, periods 0, 1, 2 of two time units, set once; eight units of time; counter of 3 values | 53,876 | no print too early, no drift, a true report, stopping needs no time |
| `lifecycle` | two tasks, seventeen modules | 1,188 | nobody inside loses what he works with, what is still to be released is what is held, nothing dangles or is left, unloading and unbinding end |
| `rcu_forever`, `register_unload`, `periodic_zero` | | | the [findings](#5-findings) |

**Bounds.** `BUFFER_SIZE` and `MESSAGE_SIZE` are 3: a text of two bytes, so that torn, short,
full, truncated and empty texts all differ. Two bytes besides Nul tell texts apart. In lesson 07
two readers are needed for one to be faster than the other; one writer and two messages are enough
for the liveness, and the safety is proved for any number of either. Three addresses are the
published object, the replaced one that the reader still uses, and a new one; with four runs of
the writer addresses are used a second time, and one failing run fits in between. An unsigned int
has `UINT_VALUES` 3 there (2^32 in the code), so that `update_count` wraps within these runs, and
payloads, 100 times the version, before. `MAX_UPDATES` caps the number of runs: `update_count` is
bounded by its width, but how often it wraps is not; it is a guard of the writer's start. In
`poll` a message has two bytes, and a read has room for less, for all of it, or none. Signals come
in `waitqueue` alone, where they interrupt each wait that the two lessons share: with them the
liveness of `poll` takes too long to check. What an interrupted poll() or read() of lesson 08 may
answer is left to the theorem `DeviceIsMailbox`, which holds for signals to any task. In
`DmaTransfer` two transfers let a late callback of the first meet the second, and with
`BYTE_VALUES` 3 the pattern of the second ends in the byte 0, as that of transfer 255 does in the
code: that byte is equal before it has been moved. In `RegisterDevice` `OUTPUT_SIZE` 6 is the
least that holds "-128" with its newline and Nul (the code has 32); 7 and -128 have the shortest
and the longest text; the sizes 0, 2 and 32 passed to read() are none, a part and more than all.
In `Periodic` a unit of time is half a millisecond (`MS` 2), so that callbacks are late by less
than a period, by a period and by more; `MAX_NOW` is three periods and more, `COUNT_VALUES` 3 lets
`fired_count` wrap within them (the code has 2^32 values), after two samples whose average is
exact, `MAX_SETS` caps how often users set the period. The number of tasks and resources of
`Lifecycle` is what the code has, apart from two user tasks, one of which can hold a file while
the other opens it.

**Fairness.** Weak fairness of a task's steps: the scheduler runs it. Strong fairness of taking a
lock: a kernel mutex or a queued raw spinlock serves its waiters, so that a task which finds it
free again and again gets it. No fairness for what users do: calls, signals, faults, setting
parameters, rmmod. The timeouts of poll() have none either, so that `PollerWakes` is the work of
the wake-up alone. In `RcuModule` each of the five threads of control is weakly fair, and so is
each grace period: the reader's sections are finite. In `DmaTransfer` insmod and rmmod run, and a
callback that has begun ends; the engine gets no fairness at all, it may hang. In `Lifecycle` and
`Periodic` unloading is strongly fair since `hrtimer_cancel()` waits for a moment without a
callback, and the timer leaves at least a millisecond between two. The clock of `Periodic` has no
fairness: `StopIsPrompt` says that rmmod ends although no time goes by. Deadlock is checked for
the devices of 04 to 08, 13 and 16. In `rcu`, `dma`, `lifecycle`, `register` and `periodic` the
system ends in "unloaded", "failed", an oops or at the last moment of the modelled time, and the
check is off.

**Type invariants** are invariants of the runs `shared_record`, `lifecycle` and `periodic`; all of them
are proved, those of the other modules as well.

**Mutants.** For every property of every passing run `PROJECT.json` names a mutant: a
mapped definition and a plausible bug in it that makes TLC report that property.

## 4. The proofs

The theorems hold for every value of the constants that satisfies the `ASSUME`s
of the modules: any number of tasks or addresses, any buffer size, any texts.

**`RcuModuleProofs`** (`IInv`): `TypeOK`, `ReaderIsSafe`, `ReportsAreConsistent`,
`ReportsAreMonotonic`, `NoLeakNoDoubleFree`, `UnloadIsClean`. That the reader's object is
allocated is not inductive. It needs `Protected` – the object the reader follows is
published, or replaced and not yet given to `call_rcu()`, or its grace period waits for
the reader – which needs `Ownership` – every allocated object is in exactly one of the
five hands that may free it – which needs `Control` and `Pointers` – what exists in which
phase – and `Contents` orders the versions: report ≤ copy ≤ published ≤ `update_count`. The
versions are unsigned ints that wrap, and reports do go back to 0 in the code after 2^32 updates:
the order is that of pairs, how often `update_count` had wrapped when the version was counted
(the history `wraps`), and then the version.
`NextIInv` has a step per action and under it one per conjunct.

**`MessageDeviceProofs`** (`IInv`): `TypeCorrect`, `MutexIsOwned`, `BufferIsCoherent`,
`WakeupsAreNotLost` for readers and event loops, `PollinIsKept`, and `DeviceIsMailbox`, each for
lesson 07 and lesson 08. `Coherent` speaks of free moments only; `Buffer` says the same of the
moments under the lock at which nobody is copying, and `Copying` what the owner has done to which
bytes while he is. `Roles` ties a task's place to the call it is in and `Replies` to what it will
return, which is what the writer in `NoLostWakeup` is recognised by. `Polling` is for the event
loops: a poller has an entry on the queue exactly between `.poll`'s first call and the end of
poll(), and whoever has been told of a message (`seen`) has been told of the one that still waits.
`PollinHolds` follows: EAGAIN is only answered under the mutex and with the flag down. For the
refinement each step is shown to be a stutter of the mailbox (`SilentSteps`) or one of its actions
(`VisibleSteps`), under `IInv`.

**`CharBufferProofs`** (`IInv`): `TypeCorrect`, `BufferIsCoherent`, `DevicesAreDocuments` – the three
devices implement `Document` – and `SpinlockLosesNothing`. One invariant serves the
three: `Exclusion` is the lock, or the turns; `Buffer` relates bytes, length and document,
but for what a write in progress has replaced; `Reading` says that a read has a prefix of
the piece of the document at its position, taken when it found the length, and that its
position moves with the copy; `Writing` whose bytes the replaced ones are.

**`DmaTransferProofs`** (`IInv`): `TypeCorrect`, `EngineIsSafe`, `CallbackIsSafe`,
`BuffersAreHandedOver`, `InsmodIsAtomic`. Where insmod and rmmod are determines what exists
(`Holdings`) and in which state the one descriptor can be (`Channel`): the difficulty is that the
engine and its callback may be arbitrarily late, and that only `terminate` and then `synchronize`
put an end to both. `Bytes` adds what the fill and the engine have written.

**`RegisterDeviceProofs`** (`IInv`): `TypeCorrect`, `OwnAnswers`, `ExitHurtsFew`, `PinsUntouched`.
`Answers` says that between the transfer and the unlock `data->output` is a growing prefix of the
text of the owner's own reading; that the text fits is a lemma about decimal digits. `Mapping`
says at which steps of exit a task can hold a mapping that is gone; a task that dies keeps the
mutex.

**`SharedRecordProofs`** (`IInv`): `TypeCorrect`, and `DataIsRecord`: the data of lessons 13 and
16 implements `AtomicRecord`. The record changes when the mutex is taken. `Current` says that the
memory is the record, but for what the owner of the mutex is about to write; `Setting`, `Prepared`
and `Copied` say which bytes and fields he has done; `Seen` that a caller gets what was there when
he took the mutex, although it is copied to him after the unlock. The lemmas `StringOf`,
`FirstNul` and `ReachNul` are about the string in an array of bytes, which the code finds byte by
byte.

**`PeriodicProofs`** (`IInv`): `TypeCorrect`, `PrintsKeepPace`, `DeadlinesDoNotDrift`,
`ReportIsTrue`, for clocks that run arbitrarily long. `Pace` follows the timeout of the thread
from its evaluation through spurious wake-ups to the next print; `Grid` says that the callback
runs at the deadline or later, without which forwarding by whole periods would skip one;
`Extremes` and `Sums` relate the five statistics to the history, the set, the number and the sum
of the samples, between any two of the callback's steps. Four lemmas say what division with
remainder by a parameter is.

**`LifecycleProofs`** (`IInv`): `PlansAreSound`, `TypeCorrect`, `InsideIsSafe`, `NothingIsLeft`.
There are two halves. One is about the tables: `PlansAreSound` says that every init acquires what
a resource needs before it (`Completes`), that the label a failing step jumps to releases just
what is held by then, and that exit releases everything, each time nothing before what needs it
(`Undoes`). Ten of the eleven different plans are `Mirrored` – exit is init backwards, and the
labels are exit without its first step – and `MirroredPlan` shows once, for plans of any length,
that such labels are right; lesson 10, whose tasklets do not need each other, kills them in the
order in which it has scheduled them. The other half is about the steps, for any plan that is
sound: at every step what is held fits what is still to do (`Plans`: `ReleaseOne` and `AcquireOne`
say how one step changes both), in particular what is still to be released is exactly what is
held, so that what is held, and the door that is being waited for, stand on what is held
(`Standing`); a callback runs behind a door that is held or being waited for (`Callbacks`), and
files are open only where a rmmod would be refused or before one was asked for (`OpenFiles`, with
`Phases`).

**Model-checked only.** Liveness (and everything about ENABLED): twelve of the properties the runs
check, from `SleeperWakes` to `UnloadTerminates`. Facts about data that need induction, which the
available provers do not do, are not needed: what is computed step by step (copies, sums, strings)
is followed by the invariants. Every safety property of the runs that pass has its theorem.

## 5. Findings

* `rcu_forever`: the writer returns at si_rcu19.c:145–148 when `kmalloc()` fails, before it
  arms the work again, and nothing else does: the updates stop for good although
  `updates` is 0. The comment at line 117 says that 0 means to keep updating.
* `register_unload`: exit of lesson 15 writes BSRR at si_mmio15.c:202 whatever the mode of the
  pin is; the comment at lines 57–58 says that the driver refuses to write BSRR unless the pin is
  in output mode, and lines 133–139 do refuse.
* `periodic_zero`: `period_ms` of lesson 17 is checked when the module is loaded, but may be set
  to 0 later: the wait at si_kthread17.c:70 then ends at once and the thread prints in a loop.
  The parameter's description at line 49 says "minimum 1".

## 6. Limits

* The callers of lesson 04 take turns: the lesson leaves concurrent access out
  (si_char04.c:36), and what an unlocked copy then does depends on each load and store.
  Its component is "partly" modelled for that reason.
* A file opened between `cdev_add()` and a failure of a later step of init survives
  its module, as does one that is open while a driver is unbound its data. No lesson prevents it
  and none claims to: `NoUseAfterRelease` excludes exactly these files, the `orphan`s.
* `report_every` of lesson 18 decides only when a line is printed, and is left out. So is
  `event_count` of lesson 12, which the interrupt's thread alone counts (si_platform_irq12.c:80),
  and which the kernel never runs twice at a time; lesson 11 counts nothing.
* GET_DATA of lesson 16 fills its local `data.message` with `strscpy()` (si_ioctl16.c:195) and copies
  all of `data` to the caller (si_ioctl16.c:198): behind the Nul those are bytes of the stack that
  nobody has initialised. `SharedRecord` ends what a caller reads at the Nul and says nothing of them.
* `FromUser` of `CharBuffer` and of `SharedRecord` copies to memory of the call's own, and is one step.
* Of callbacks that only print, `Lifecycle` keeps that they run and end.
* Not modelled: 01 to 03, Makefiles, data and user programs. They run once, in order, and
  share nothing; the calls of the programs are among those of the models' tasks.

What would come next: a model of the loads and stores of lesson 04's unlocked copies, for callers
that do not take turns.
