------------------------------ MODULE Lifecycle ------------------------------
(***************************************************************************)
(* Loading and unloading the modules: what module_init() acquires and in   *)
(* which order, where it jumps when a step fails, what the labels there    *)
(* and module_exit() release, against everything that may be inside the    *)
(* module's code meanwhile: files of its character device, callbacks of    *)
(* its sysfs attributes, its works, tasklets, interrupt handlers, thread   *)
(* and timer.                                                              *)
(*                                                                         *)
(* A resource through which the code can be entered is a door.  Releasing  *)
(* a door closes it; whether that also waits for those inside depends on   *)
(* the kernel's function for it.  Nothing waits for open files, but they   *)
(* hold references to the module, and rmmod is refused while there are any. *)
(*                                                                         *)
(* Of a driver, init and exit only register it: probe() and remove() play   *)
(* their parts, with the devm release after them, and they also run while   *)
(* the module stays: the device can be unbound and bound at any time.       *)
(***************************************************************************)
EXTENDS Integers, Sequences, FiniteSets, Functions

CONSTANTS
  Tasks,      \* the user tasks that open files and read attributes
  Lessons     \* the modules that are looked at: names in Names

VARIABLES
  lesson,     \* the module
  cpu,        \* where insmod or rmmod is
  todo,       \* the resources it has still to acquire or to release
  waiting,    \* the door it has closed and waits for, or "none"
  module,     \* mod->state; "gone" when the code has been freed
  held,       \* the resources acquired and not released
  user,       \* what each task does
  running,    \* the asynchronous doors whose callback runs
  spent       \* the works, tasklets and threads that have been started

loader == <<cpu, todo, waiting, module, held>>
inside == <<user, running, spent>>
vars   == <<lesson, loader, inside>>

-----------------------------------------------------------------------------
(* The modules.  acquire: what init acquires, in its order.  fails: the       *)
(* acquisitions that may fail, each with the label it jumps to.  labels: what  *)
(* the labels release, which fall through.  exit: what exit releases.  uses:   *)
(* for each door, what the code behind it works with.                          *)

\* Mutant: the class is destroyed before the device that belongs to it.
CharDeviceClassFirst ==
  [acquire |-> <<"region", "cdev", "class", "device">>,
   fails   |-> [region |-> "return", cdev |-> "region", class |-> "cdev",
                device |-> "class"],
   labels  |-> <<"class", "cdev", "region">>,
   exit    |-> <<"class", "device", "cdev", "region">>,
   uses    |-> [cdev |-> {}]]

\* Mutant: where the class cannot be created init jumps to the label above, which
\* destroys it.
CharDeviceLabelTooHigh ==
  [acquire |-> <<"region", "cdev", "class", "device">>,
   fails   |-> [region |-> "return", cdev |-> "region", class |-> "class",
                device |-> "class"],
   labels  |-> <<"class", "cdev", "region">>,
   exit    |-> <<"device", "class", "cdev", "region">>,
   uses    |-> [cdev |-> {}]]

CharDevice ==
  [acquire |-> <<"region", "cdev", "class", "device">>,
   fails   |-> [region |-> "return", cdev |-> "region", class |-> "cdev",
                device |-> "class"],
   labels  |-> <<"class", "cdev", "region">>,
   exit    |-> <<"device", "class", "cdev", "region">>,
   uses    |-> [cdev |-> {}]]

\* Lessons 05 to 08 repeat lesson 04's.
Mutex05     == CharDevice
Spin06      == CharDevice
Waitqueue07 == CharDevice
Poll08      == CharDevice

\* The works run on the queue, one at a time.
Workqueue09 ==
  [acquire |-> <<"queue", "immediate", "delayed">>,
   fails   |-> [queue |-> "return"], labels |-> <<>>,
   exit    |-> <<"delayed", "immediate", "queue">>,
   uses    |-> [immediate |-> {"queue"}, delayed |-> {"queue"}]]

\* Mutant: the same tasklet is killed twice, the other one never.
Tasklet10KillsOne ==
  [acquire |-> <<"normal", "high">>, fails |-> <<>>, labels |-> <<>>,
   exit    |-> <<"normal", "normal">>,
   uses    |-> [normal |-> {}, high |-> {}]]

Tasklet10 ==
  [acquire |-> <<"normal", "high">>, fails |-> <<>>, labels |-> <<>>,
   exit    |-> <<"normal", "high">>,
   uses    |-> [normal |-> {}, high |-> {}]]

\* An irq_number below 0 fails like an IRQ that is refused: nothing is held yet.
Irq11 ==
  [acquire |-> <<"irq">>, fails |-> [irq |-> "return"], labels |-> <<>>,
   exit    |-> <<"irq">>,
   uses    |-> [irq |-> {}, irq_thread |-> {}]]

Irq11Plain == [Irq11 EXCEPT !.uses = [irq |-> {}]]

\* probe() for init, unbinding for exit; devm releases what probe() has got in
\* the reverse order, when it fails and when the device is unbound.
PlatformIrq12 ==
  [acquire |-> <<"data", "button", "irq">>,
   fails   |-> [data |-> "return", button |-> "data", irq |-> "button"],
   labels  |-> <<"button", "data">>,
   exit    |-> <<"irq", "button", "data">>,
   uses    |-> [irq |-> {"data"}, irq_thread |-> {"data", "button"}]]

Sysfs13 ==
  [acquire |-> <<"data", "class", "device", "attributes">>,
   fails   |-> [data |-> "return", class |-> "data", device |-> "class",
                attributes |-> "device"],
   labels  |-> <<"device", "class", "data">>,
   exit    |-> <<"attributes", "device", "class", "data">>,
   uses    |-> [attributes |-> {"device", "data"}]]

\* An open file's private_data points to the data.
Ioctl16 ==
  [acquire |-> <<"data", "region", "cdev", "class", "device">>,
   fails   |-> [data |-> "return", region |-> "data", cdev |-> "region",
                class |-> "cdev", device |-> "class"],
   labels  |-> <<"class", "cdev", "region", "data">>,
   exit    |-> <<"device", "class", "cdev", "region", "data">>,
   uses    |-> [cdev |-> {"data"}]]

Kthread17 ==
  [acquire |-> <<"thread">>, fails |-> [thread |-> "return"], labels |-> <<>>,
   exit    |-> <<"thread">>,
   uses    |-> [thread |-> {}]]

Timer18 ==
  [acquire |-> <<"timer">>, fails |-> <<>>, labels |-> <<>>,
   exit    |-> <<"timer">>,
   uses    |-> [timer |-> {}]]

\* The miscdevice that an open file's private_data points to is in the data.
Temp21 ==
  [acquire |-> <<"data", "misc">>, fails |-> [data |-> "return", misc |-> "data"],
   labels  |-> <<"data">>,
   exit    |-> <<"misc", "data">>,
   uses    |-> [misc |-> {"data"}]]

\* Where spi_setup() fails nothing is held yet, as where there is no memory.
Spi22 == Temp21

\* devm's release of the data comes last, as the kfree() of lesson 16.
Temp21Cdev == Ioctl16

Names == {"04", "05", "06", "07", "08", "09", "10", "11", "11_plain", "12", "13", "16",
          "17", "18", "21", "21_cdev", "22"}

Plan ==
  [l \in Names |->
     CASE l = "04" -> CharDevice  [] l = "05" -> Mutex05
       [] l = "06" -> Spin06      [] l = "07" -> Waitqueue07
       [] l = "08" -> Poll08      [] l = "09" -> Workqueue09
       [] l = "10" -> Tasklet10   [] l = "11" -> Irq11
       [] l = "11_plain" -> Irq11Plain
       [] l = "12" -> PlatformIrq12
       [] l = "13" -> Sysfs13     [] l = "16" -> Ioctl16
       [] l = "17" -> Kthread17   [] l = "18" -> Timer18
       [] l = "21" -> Temp21      [] l = "21_cdev" -> Temp21Cdev
       [] l = "22" -> Spi22]

Drivers == {"12", "21", "21_cdev", "22"}

ASSUME LessonAssumption == Lessons \subseteq Names

-----------------------------------------------------------------------------
Works    == {"immediate", "delayed"}
Tasklets == {"normal", "high"}
Async    == Works \cup Tasklets \cup {"irq", "irq_thread", "thread", "timer"}
Files    == {"cdev", "misc"}
OnceOnly == Works \cup Tasklets \cup {"thread"}

\* cancel_work_sync(), free_irq(), kthread_stop() and the removal of attributes
\* close the door first and then wait; hrtimer_cancel() and tasklet_kill() wait
\* for a moment when the callback does not run, tasklet_kill() also until a
\* tasklet that was scheduled has run.
ClosedFirst == Works \cup {"irq", "thread", "attributes"}

Init ==
  /\ lesson \in Lessons
  /\ cpu = "init" /\ todo = Plan[lesson].acquire /\ waiting = "none"
  /\ module = "coming" /\ held = {}
  /\ user = [t \in Tasks |-> "outside"]
  /\ running = {} /\ spent = {}

-----------------------------------------------------------------------------
(* insmod and rmmod *)

Acquire ==
  /\ cpu = "init" /\ todo # <<>>
  /\ held' = held \cup {Head(todo)} /\ todo' = Tail(todo)
  /\ UNCHANGED <<lesson, cpu, waiting, module, inside>>

\* What the code behind door d works with.
UsedBehind(d) == IF d \in DOMAIN Plan[lesson].uses THEN Plan[lesson].uses[d] ELSE {}

\* What is left to release from a label on.
From(label) ==
  LET labels == Plan[lesson].labels
  IN  IF label = "return" THEN <<>>
      ELSE SubSeq(labels, CHOOSE i \in DOMAIN labels : labels[i] = label, Len(labels))

AcquireFails ==
  /\ cpu = "init" /\ todo # <<>> /\ Head(todo) \in DOMAIN Plan[lesson].fails
  /\ cpu' = "undo" /\ todo' = From(Plan[lesson].fails[Head(todo)])
  /\ UNCHANGED <<lesson, waiting, module, held, inside>>

Loaded ==
  /\ cpu = "init" /\ todo = <<>>
  /\ cpu' = "loaded" /\ module' = "live"
  /\ UNCHANGED <<lesson, todo, waiting, held, inside>>

HasFile(t) == user[t] \in {"opening", "open", "orphan"}

\* try_stop_module(): an open file, or one that is being opened, refuses.
Rmmod ==
  /\ cpu \in {"loaded", "unbound"}
  /\ \A t \in Tasks : ~HasFile(t)
  /\ cpu' = "exit" /\ module' = "going"
  /\ todo' = IF cpu = "loaded" THEN Plan[lesson].exit ELSE <<>>
  /\ UNCHANGED <<lesson, waiting, held, inside>>

\* Through sysfs, or since the device goes away: nobody asks for open files.
Unbind ==
  /\ cpu = "loaded" /\ lesson \in Drivers
  /\ cpu' = "unbind" /\ todo' = Plan[lesson].exit
  /\ UNCHANGED <<lesson, waiting, module, held, inside>>

Bind ==
  /\ cpu = "unbound"
  /\ cpu' = "init" /\ todo' = Plan[lesson].acquire
  /\ UNCHANGED <<lesson, waiting, module, held, inside>>

Releasing == cpu \in {"undo", "exit", "unbind"} /\ waiting = "none"

\* The files that are open when what they need goes without a rmmod.
Orphaned(gone) ==
  [t \in Tasks |-> IF gone /\ cpu # "exit" /\ HasFile(t) THEN "orphan" ELSE user[t]]

\* Mutant: cancel_work(), disable_irq_nosync() and the like, which do not wait.
ReleaseAtOnce ==
  /\ Releasing /\ todo # <<>>
  /\ held' = held \ {Head(todo)} /\ todo' = Tail(todo)
  /\ UNCHANGED <<lesson, cpu, waiting, module, inside>>

Release ==
  LET r == Head(todo)
  IN  /\ Releasing /\ todo # <<>>
      /\ r \in ClosedFirst \/ r \notin running
      /\ r \in Tasklets => r \in spent
      /\ held' = held \ {r} /\ todo' = Tail(todo)
      /\ waiting' = IF r \in ClosedFirst THEN r ELSE "none"
      /\ user' = Orphaned(\E d \in Files : r \in UsedBehind(d))
      /\ UNCHANGED <<lesson, cpu, module, running, spent>>

\* free_irq() waits for the thread of the interrupt as well.
Waited ==
  /\ waiting # "none" /\ waiting \notin running
  /\ waiting = "irq" => "irq_thread" \notin running
  /\ waiting = "attributes" => \A t \in Tasks : user[t] # "callback"
  /\ waiting' = "none"
  /\ UNCHANGED <<lesson, cpu, todo, module, held, inside>>

\* A driver stays when its device is unbound, or probe() has failed.  Otherwise
\* the code is freed; when init has failed nobody asks for open files.
Released ==
  /\ Releasing /\ todo = <<>>
  /\ IF cpu # "exit" /\ lesson \in Drivers THEN
        cpu' = "unbound" /\ module' = "live"
     ELSE
        cpu' = (IF cpu = "undo" THEN "failed" ELSE "unloaded") /\ module' = "gone"
  /\ user' = Orphaned(module' = "gone")
  /\ UNCHANGED <<lesson, todo, waiting, held, running, spent>>

-----------------------------------------------------------------------------
(* Those inside *)

UserGoes(t, from, to) ==
  /\ user[t] = from
  /\ user' = [user EXCEPT ![t] = to]
  /\ UNCHANGED <<lesson, loader, running, spent>>

\* chrdev_open() and misc_open() find the device and take a reference to the
\* module, which they get while the module is still loading as well.  misc_open()
\* holds the mutex that misc_deregister() takes.
FindDevice(t) ==
  /\ Files \cap held # {} /\ module \in {"coming", "live"}
  /\ UserGoes(t, "outside", IF "misc" \in held THEN "open" ELSE "opening")

Open(t) == UserGoes(t, "opening", "open")

CloseFile(t) ==
  /\ module # "gone"
  /\ UserGoes(t, "open", "outside") \/ UserGoes(t, "orphan", "outside")

\* show() or store()
Callback(t)     == "attributes" \in held /\ UserGoes(t, "outside", "callback")
CallbackEnds(t) == UserGoes(t, "callback", "outside")

\* max_active is 1: the works take turns.  IRQF_ONESHOT: the interrupt is masked
\* until its thread has returned.
Run(d) ==
  /\ d \in held \ running
  /\ d \in OnceOnly => d \notin spent
  /\ d \in Works => running \cap Works = {}
  /\ d = "irq" => "irq_thread" \notin running
  /\ running' = running \cup {d} /\ spent' = spent \cup ({d} \cap OnceOnly)
  /\ UNCHANGED <<lesson, loader, user>>

\* IRQ_WAKE_THREAD, of a handler that has a thread.
Woken(d) == IF d = "irq" THEN {"irq_thread"} \cap DOMAIN Plan[lesson].uses ELSE {}

\* Mutant: the thread does not look at kthread_should_stop().
FinishNotThread(d) ==
  /\ d \in running /\ d # "thread"
  /\ running' = (running \ {d}) \cup Woken(d)
  /\ UNCHANGED <<lesson, loader, user, spent>>

\* The thread's loop ends only when kthread_stop() has asked it to.
Finish(d) ==
  /\ d \in running
  /\ d = "thread" => waiting = "thread"
  /\ running' = (running \ {d}) \cup Woken(d)
  /\ UNCHANGED <<lesson, loader, user, spent>>

-----------------------------------------------------------------------------
Loading == Acquire \/ AcquireFails \/ Loaded

Unloading == Release \/ Waited \/ Released

Next ==
  \/ Loading \/ Rmmod \/ Unbind \/ Bind \/ Unloading
  \/ \E t \in Tasks :
       FindDevice(t) \/ Open(t) \/ CloseFile(t) \/ Callback(t) \/ CallbackEnds(t)
  \/ \E d \in Async : Run(d) \/ Finish(d)

Spec == Init /\ [][Next]_vars

\* insmod and rmmod go on, callbacks end, a scheduled tasklet is run.  The timer
\* of lesson 18 expires in the future only, at least 1 ms later (si_timer18.c:
\* 95-98), so that hrtimer_cancel() finds it between two callbacks: hence SF.
\* Nothing makes a task close its file, or anyone type rmmod.
Fairness ==
  /\ WF_vars(Loading) /\ SF_vars(Unloading)
  /\ \A t \in Tasks : WF_vars(CallbackEnds(t))
  /\ \A d \in Async : WF_vars(Finish(d))
  /\ \A d \in Tasklets : WF_vars(Run(d))

FairSpec == Spec /\ Fairness

-----------------------------------------------------------------------------
(* Properties *)

Resources == Range(Plan[lesson].acquire)

TypeOK ==
  /\ lesson \in Lessons
  /\ cpu \in {"init", "undo", "failed", "loaded", "unbind", "unbound", "exit", "unloaded"}
  /\ todo \in Seq(Resources) /\ IsInjective(todo)
  /\ waiting \in {"none"} \cup (Resources \cap ClosedFirst)
  /\ module \in {"coming", "live", "going", "gone"}
  /\ held \subseteq Resources
  /\ user \in [Tasks -> {"outside", "opening", "open", "orphan", "callback"}]
  /\ running \subseteq Async \cap (Resources \cup {"irq_thread"})
  /\ spent \subseteq OnceOnly \cap Resources

\* Whoever is inside finds the module's code and all it works with: exit closes
\* each door, and waits where that is what keeps the rest alive, before it
\* releases anything behind it.  The exceptions are the files that are open when
\* init fails or the device is unbound: nothing waits for them.  But the code of
\* a driver is there for these too.
NoUseAfterRelease ==
  /\ \A d \in running : UsedBehind(d) \subseteq held /\ module # "gone"
  /\ \A t \in Tasks :
       /\ user[t] = "callback" => UsedBehind("attributes") \subseteq held /\ module # "gone"
       /\ user[t] \in {"opening", "open"} =>
            /\ \A d \in Files : UsedBehind(d) \subseteq held
            /\ module \in {"coming", "live"}
       /\ user[t] = "orphan" /\ lesson \in Drivers => module \in {"coming", "live"}

\* What a resource stands on: a device (with its node in /dev) on its class and
\* on the cdev it leads to, a cdev on its number, attributes on the device.
Base(r) ==
  CASE r = "device"     -> {"class", "cdev"} \cap Resources
    [] r = "cdev"       -> {"region"}
    [] r = "attributes" -> {"device"}
    [] r \in Works      -> {"queue"}
    [] OTHER            -> {}

\* At every step of init, of its error path and of exit what is held stands on
\* something.  From where a failing init jumps to, and all through exit and an
\* unbinding, what is still to be released is what is held: nothing that was not
\* acquired, and nothing is forgotten.  At the end of each nothing is held.
NothingDangles ==
  /\ \A r \in held : Base(r) \subseteq held
  /\ cpu \in {"undo", "unbind", "exit"} => Range(todo) = held
  /\ cpu \in {"failed", "unbound", "unloaded"} => held = {} /\ running = {}

\* A failing init, an unbinding and a rmmod that was not refused end: neither
\* callbacks that sleep, nor the thread, nor tasklets hold them for ever.
UnloadTerminates ==
  cpu \in {"undo", "unbind", "exit"} ~> cpu \in {"failed", "unbound", "unloaded"}
=============================================================================
