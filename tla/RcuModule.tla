----------------------------- MODULE RcuModule -----------------------------
(***************************************************************************)
(* The module of 19-rcu/si_rcu19.c: a reader thread that copies the fields *)
(* of *current_value inside an RCU read-side critical section, a writer    *)
(* that runs as a self-arming delayed work and replaces the object, RCU    *)
(* callbacks that free the replaced objects, and the insmod and rmmod      *)
(* threads that start and stop all of it.                                  *)
(*                                                                         *)
(* Of the kernel the model keeps: a grace period lasts as long as the      *)
(* critical section that was open when it began; a work item runs on one   *)
(* worker at a time; cancel_delayed_work_sync() keeps the item marked      *)
(* pending while it waits, so that it cannot re-arm itself.                *)
(***************************************************************************)
EXTENDS Integers

CONSTANTS
  Addrs,          \* the addresses kmalloc() may return
  NULL,
  UpdateLimits,   \* the values user space gives the parameter "updates"
  UINT_VALUES,    \* 2^32: the number of values of an unsigned int
  MAX_UPDATES,    \* bound: the writer's work does not run more often than this
  OutOfMemory     \* whether kmalloc() may fail

ASSUME NullAssumption   == NULL \notin Addrs
ASSUME UIntAssumption   == UINT_VALUES \in Nat /\ UINT_VALUES > 1
ASSUME LimitAssumption  == UpdateLimits \subseteq 0..(UINT_VALUES - 1) /\ MAX_UPDATES \in Nat
ASSUME MemoryAssumption == OutOfMemory \in BOOLEAN

VARIABLES
  phase,          \* where insmod or rmmod is in si_rcu19_init() / _exit()
  initial,        \* init's or exit's pointer: initial, last_value
  heap,           \* heap[a]: is a allocated, and what its fields hold
  current_value,  \* the RCU-protected pointer
  updates,        \* the parameter, writable in sysfs
  update_count,
  work,           \* writer_work: "idle", "pending" or "canceling"
  writer,         \* where si_rcu19_writer() is, "idle" when it does not run
  new_value, old_value,
  reader,         \* where si_rcu19_reader() is, "none" before it is created
  value,          \* the reader's pointer
  copy,           \* the reader's copies of the fields
  report,         \* the fields the reader printed last
  should_stop,    \* kthread_stop() has been called
  callbacks,      \* the objects handed to call_rcu() and not freed yet
  waiting,        \* those whose grace period waits for the reader to unlock
  wraps           \* history: how often update_count has started again from 0

initVars   == <<phase, initial>>
writerVars == <<work, writer, new_value, old_value, update_count, wraps>>
readerVars == <<reader, value, copy, report>>
rcuVars    == <<callbacks, waiting>>
vars       == <<initVars, heap, current_value, updates, writerVars, readerVars,
                should_stop, rcuVars>>

-----------------------------------------------------------------------------
UInt == 0..(UINT_VALUES - 1)

PayloadOf(version) == (version * 100) % UINT_VALUES

\* wraps is history, here too: its value when the version was counted.
Object == [allocated : BOOLEAN, version : UInt, payload : UInt, wraps : Nat]
Fields == [version : UInt, payload : UInt, wraps : Nat]

NoFields == [version |-> 0, payload |-> 0, wraps |-> 0]

Init ==
  /\ phase = "init_alloc"
  /\ initial = NULL
  \* Memory that kmalloc() returns holds anything; here, no valid object.
  /\ heap = [a \in Addrs |->
                [allocated |-> FALSE, version |-> 0, payload |-> 1, wraps |-> 0]]
  /\ current_value = NULL
  /\ updates \in UpdateLimits
  /\ update_count = 0 /\ wraps = 0
  /\ work = "idle" /\ writer = "idle"
  /\ new_value = NULL /\ old_value = NULL
  /\ reader = "none" /\ value = NULL
  /\ copy = NoFields /\ report = NoFields
  /\ should_stop = FALSE
  /\ callbacks = {} /\ waiting = {}

\* kmalloc() returns some free address a.
Kmalloc(a) ==
  /\ ~heap[a].allocated
  /\ heap' = [heap EXCEPT ![a].allocated = TRUE]

Kfree(a) == heap' = [heap EXCEPT ![a].allocated = FALSE]

Fill(a, version, w) ==
  heap' = [heap EXCEPT ![a].version = version, ![a].payload = PayloadOf(version),
                       ![a].wraps = w]

\* schedule_delayed_work() does nothing when the work is already pending, or is
\* being cancelled.
ScheduleWork == work' = IF work = "idle" THEN "pending" ELSE work

InReadSection == reader \in {"locked", "version", "payload", "unlock"}

-----------------------------------------------------------------------------
(* si_rcu19_init() *)

InitAlloc ==
  /\ phase = "init_alloc"
  /\ \/ \E a \in Addrs : Kmalloc(a) /\ initial' = a /\ phase' = "init_fill"
     \/ OutOfMemory /\ phase' = "failed" /\ UNCHANGED <<heap, initial>>
  /\ UNCHANGED <<current_value, updates, writerVars, readerVars, should_stop, rcuVars>>

InitFill ==
  /\ phase = "init_fill"
  /\ Fill(initial, 0, 0)
  /\ current_value' = initial
  /\ phase' = "init_reader"
  /\ UNCHANGED <<initial, updates, writerVars, readerVars, should_stop, rcuVars>>

\* Mutant: the pointer is left in place when the reader cannot be created.
InitReaderDangling ==
  /\ phase = "init_reader"
  /\ \/ reader' = "loop" /\ phase' = "init_arm"
     \/ phase' = "init_undo" /\ UNCHANGED reader
  /\ UNCHANGED <<initial, heap, current_value, updates, writerVars, value, copy, report,
                 should_stop, rcuVars>>

\* kthread_run() creates the reader, which starts to run at once, or fails.
InitReader ==
  /\ phase = "init_reader"
  /\ \/ reader' = "loop" /\ phase' = "init_arm" /\ UNCHANGED current_value
     \/ phase' = "init_undo" /\ current_value' = NULL /\ UNCHANGED reader
  /\ UNCHANGED <<initial, heap, updates, writerVars, value, copy, report,
                 should_stop, rcuVars>>

InitUndo ==
  /\ phase = "init_undo"
  /\ Kfree(initial)
  /\ phase' = "failed"
  /\ UNCHANGED <<initial, current_value, updates, writerVars, readerVars,
                 should_stop, rcuVars>>

InitArm ==
  /\ phase = "init_arm"
  /\ ScheduleWork
  /\ phase' = "loaded"
  /\ UNCHANGED <<initial, heap, current_value, updates, writer, new_value, old_value,
                 update_count, wraps, readerVars, should_stop, rcuVars>>

\* A write to /sys/module/si_rcu19/parameters/updates.
SetUpdates ==
  /\ phase \notin {"unloaded", "failed"}
  /\ updates' \in UpdateLimits
  /\ UNCHANGED <<initVars, heap, current_value, writerVars, readerVars, should_stop,
                 rcuVars>>

-----------------------------------------------------------------------------
(* si_rcu19_writer() *)

\* How often the writer has replaced the object.
Updates == wraps * UINT_VALUES + update_count

\* The timer of the delayed work has expired and a worker runs it.
WriterStart ==
  /\ work = "pending" /\ writer = "idle" /\ Updates < MAX_UPDATES
  /\ work' = "idle"
  /\ writer' = "check"
  /\ UNCHANGED <<initVars, heap, current_value, updates, new_value, old_value,
                 update_count, wraps, readerVars, should_stop, rcuVars>>

WriterCheck ==
  /\ writer = "check"
  /\ writer' = IF updates # 0 /\ update_count >= updates THEN "idle" ELSE "alloc"
  /\ UNCHANGED <<initVars, heap, current_value, updates, work, new_value, old_value,
                 update_count, wraps, readerVars, should_stop, rcuVars>>

\* Mutant: the object is published before its fields are set.
WriterAllocPublishes ==
  /\ writer = "alloc"
  /\ \E a \in Addrs : Kmalloc(a) /\ new_value' = a /\ current_value' = a
  /\ writer' = "fill"
  /\ UNCHANGED <<initVars, updates, work, old_value, update_count, wraps, readerVars,
                 should_stop, rcuVars>>

WriterAlloc ==
  /\ writer = "alloc"
  /\ \E a \in Addrs : Kmalloc(a) /\ new_value' = a
  /\ writer' = "fill"
  /\ UNCHANGED <<initVars, current_value, updates, work, old_value, update_count,
                 wraps, readerVars, should_stop, rcuVars>>

\* When kmalloc() fails the writer returns before it re-arms itself.
WriterAllocFails ==
  /\ OutOfMemory /\ writer = "alloc"
  /\ writer' = "idle"
  /\ UNCHANGED <<initVars, heap, current_value, updates, work, new_value, old_value,
                 update_count, wraps, readerVars, should_stop, rcuVars>>

WriterFill ==
  /\ writer = "fill"
  /\ update_count' = (update_count + 1) % UINT_VALUES
  /\ wraps' = IF update_count' = 0 THEN wraps + 1 ELSE wraps
  /\ Fill(new_value, update_count', wraps')
  /\ writer' = "publish"
  /\ UNCHANGED <<initVars, current_value, updates, work, new_value, old_value,
                 readerVars, should_stop, rcuVars>>

\* rcu_assign_pointer(): readers that enter from now on see the new object.
WriterPublish ==
  /\ writer = "publish"
  /\ old_value' = current_value
  /\ current_value' = new_value
  /\ writer' = "call_rcu"
  /\ UNCHANGED <<initVars, heap, updates, work, new_value, update_count, wraps, readerVars,
                 should_stop, rcuVars>>

\* Mutant: kfree() instead of call_rcu().
WriterFreesAtOnce ==
  /\ writer = "call_rcu"
  /\ Kfree(old_value)
  /\ writer' = "rearm"
  /\ UNCHANGED <<initVars, current_value, updates, work, new_value, old_value,
                 update_count, wraps, readerVars, should_stop, rcuVars>>

\* call_rcu() starts a grace period, which a critical section that is open now
\* holds up.
WriterCallRcu ==
  /\ writer = "call_rcu"
  /\ IF old_value # NULL
     THEN /\ callbacks' = callbacks \cup {old_value}
          /\ waiting' = IF InReadSection THEN waiting \cup {old_value} ELSE waiting
     ELSE UNCHANGED rcuVars
  /\ writer' = "rearm"
  /\ UNCHANGED <<initVars, heap, current_value, updates, work, new_value, old_value,
                 update_count, wraps, readerVars, should_stop>>

WriterRearm ==
  /\ writer = "rearm"
  /\ IF updates = 0 \/ update_count < updates THEN ScheduleWork ELSE UNCHANGED work
  /\ writer' = "idle"
  /\ new_value' = NULL /\ old_value' = NULL
  /\ UNCHANGED <<initVars, heap, current_value, updates, update_count, wraps, readerVars,
                 should_stop, rcuVars>>

\* si_rcu19_free(): the grace period of object a is over.
Free(a) ==
  /\ a \in callbacks \ waiting
  /\ Kfree(a)
  /\ callbacks' = callbacks \ {a}
  /\ UNCHANGED <<initVars, current_value, updates, writerVars, readerVars, should_stop,
                 waiting>>

-----------------------------------------------------------------------------
(* si_rcu19_reader() *)

\* Mutant: the loop does not test kthread_should_stop().
ReaderLoopDeaf ==
  /\ reader = "loop"
  /\ reader' = "locked"
  /\ copy' = NoFields
  /\ UNCHANGED <<initVars, heap, current_value, updates, writerVars, value, report,
                 should_stop, rcuVars>>

\* Each turn of the loop starts with its copies cleared.
ReaderLoop ==
  /\ reader = "loop"
  /\ reader' = IF should_stop THEN "exited" ELSE "locked"
  /\ copy' = NoFields
  /\ UNCHANGED <<initVars, heap, current_value, updates, writerVars, value, report,
                 should_stop, rcuVars>>

ReaderDereference ==
  /\ reader = "locked"
  /\ value' = current_value
  /\ reader' = IF current_value = NULL THEN "unlock" ELSE "version"
  /\ UNCHANGED <<initVars, heap, current_value, updates, writerVars, copy, report,
                 should_stop, rcuVars>>

\* Mutant: rcu_read_unlock() comes before the second field is copied.
ReaderVersionUnlocks ==
  /\ reader = "version"
  /\ copy' = [copy EXCEPT !.version = heap[value].version, !.wraps = heap[value].wraps]
  /\ waiting' = {}
  /\ reader' = "payload"
  /\ UNCHANGED <<initVars, heap, current_value, updates, writerVars, value, report,
                 should_stop, callbacks>>

ReaderVersion ==
  /\ reader = "version"
  /\ copy' = [copy EXCEPT !.version = heap[value].version, !.wraps = heap[value].wraps]
  /\ reader' = "payload"
  /\ UNCHANGED <<initVars, heap, current_value, updates, writerVars, value, report,
                 should_stop, rcuVars>>

ReaderPayload ==
  /\ reader = "payload"
  /\ copy' = [copy EXCEPT !.payload = heap[value].payload]
  /\ reader' = "unlock"
  /\ UNCHANGED <<initVars, heap, current_value, updates, writerVars, value, report,
                 should_stop, rcuVars>>

\* Mutant: a path through the loop without rcu_read_unlock().
ReaderKeepsLock ==
  /\ reader = "unlock"
  /\ report' = IF value # NULL THEN copy ELSE report
  /\ value' = NULL
  /\ reader' = "loop"
  /\ UNCHANGED <<initVars, heap, current_value, updates, writerVars, copy, should_stop,
                 rcuVars>>

\* rcu_read_unlock() ends the grace periods that waited for this section; the
\* copies are printed if there was an object, and the reader sleeps.
ReaderUnlock ==
  /\ reader = "unlock"
  /\ waiting' = {}
  /\ report' = IF value # NULL THEN copy ELSE report
  /\ value' = NULL
  /\ reader' = "loop"
  /\ UNCHANGED <<initVars, heap, current_value, updates, writerVars, copy, should_stop,
                 callbacks>>

-----------------------------------------------------------------------------
(* si_rcu19_exit() *)

\* rmmod: cancel_delayed_work_sync() takes the work off its timer or queue ...
ExitCancel ==
  /\ phase = "loaded"
  /\ work' = "canceling"
  /\ phase' = "exit_flush"
  /\ UNCHANGED <<initial, heap, current_value, updates, writer, new_value, old_value,
                 update_count, wraps, readerVars, should_stop, rcuVars>>

\* Mutant: cancel_delayed_work(), which does not wait.
ExitFlushAtOnce ==
  /\ phase = "exit_flush"
  /\ work' = "idle"
  /\ phase' = "exit_stop"
  /\ UNCHANGED <<initial, heap, current_value, updates, writer, new_value, old_value,
                 update_count, wraps, readerVars, should_stop, rcuVars>>

\* ... and waits for the writer to return, if it is running.
ExitFlush ==
  /\ phase = "exit_flush" /\ writer = "idle"
  /\ work' = "idle"
  /\ phase' = "exit_stop"
  /\ UNCHANGED <<initial, heap, current_value, updates, writer, new_value, old_value,
                 update_count, wraps, readerVars, should_stop, rcuVars>>

\* kthread_stop() asks the reader to stop and waits until it has.
ExitStop ==
  /\ phase = "exit_stop"
  /\ should_stop' = TRUE
  /\ phase' = "exit_join"
  /\ UNCHANGED <<initial, heap, current_value, updates, writerVars, readerVars, rcuVars>>

ExitJoin ==
  /\ phase = "exit_join" /\ reader = "exited"
  /\ phase' = "exit_unpublish"
  /\ UNCHANGED <<initial, heap, current_value, updates, writerVars, readerVars,
                 should_stop, rcuVars>>

ExitUnpublish ==
  /\ phase = "exit_unpublish"
  /\ initial' = current_value
  /\ current_value' = NULL
  /\ phase' = "exit_free"
  /\ UNCHANGED <<heap, updates, writerVars, readerVars, should_stop, rcuVars>>

\* synchronize_rcu() returns when no reader is in a section that it may have
\* entered before; then the last object is freed.
ExitFree ==
  /\ phase = "exit_free" /\ ~InReadSection
  /\ IF initial # NULL THEN Kfree(initial) ELSE UNCHANGED heap
  /\ phase' = "exit_barrier"
  /\ UNCHANGED <<initial, current_value, updates, writerVars, readerVars, should_stop,
                 rcuVars>>

\* rcu_barrier() returns when every callback has run.
ExitBarrier ==
  /\ phase = "exit_barrier" /\ callbacks = {}
  /\ phase' = "unloaded"
  /\ UNCHANGED <<initial, heap, current_value, updates, writerVars, readerVars,
                 should_stop, rcuVars>>

-----------------------------------------------------------------------------
InitStep   == InitAlloc \/ InitFill \/ InitReader \/ InitUndo \/ InitArm
WriterStep == \/ WriterCheck \/ WriterAlloc \/ WriterAllocFails \/ WriterFill
              \/ WriterPublish \/ WriterCallRcu \/ WriterRearm
ReaderStep == \/ ReaderLoop \/ ReaderDereference \/ ReaderVersion \/ ReaderPayload
              \/ ReaderUnlock
ExitStep   == \/ ExitFlush \/ ExitStop \/ ExitJoin \/ ExitUnpublish \/ ExitFree
              \/ ExitBarrier

Next ==
  \/ InitStep \/ ExitCancel \/ ExitStep
  \/ WriterStart \/ WriterStep
  \/ ReaderStep
  \/ SetUpdates
  \/ \E a \in Addrs : Free(a)

Spec == Init /\ [][Next]_vars

\* Every thread of the module runs, and so does RCU's own callback thread.
\* Nobody has to unload the module or to write its parameter.
Fairness ==
  /\ WF_vars(InitStep) /\ WF_vars(ExitStep)
  /\ WF_vars(WriterStart) /\ WF_vars(WriterStep)
  /\ WF_vars(ReaderStep)
  /\ \A a \in Addrs : WF_vars(Free(a))

FairSpec == Spec /\ Fairness

-----------------------------------------------------------------------------
(* Properties *)

TypeOK ==
  /\ phase \in {"init_alloc", "init_fill", "init_reader", "init_undo", "init_arm",
                "loaded", "exit_flush", "exit_stop", "exit_join", "exit_unpublish",
                "exit_free", "exit_barrier", "unloaded", "failed"}
  /\ initial \in Addrs \cup {NULL}
  /\ heap \in [Addrs -> Object]
  /\ current_value \in Addrs \cup {NULL}
  /\ updates \in UpdateLimits
  /\ update_count \in UInt /\ wraps \in Nat
  /\ work \in {"idle", "pending", "canceling"}
  /\ writer \in {"idle", "check", "alloc", "fill", "publish", "call_rcu", "rearm"}
  /\ new_value \in Addrs \cup {NULL} /\ old_value \in Addrs \cup {NULL}
  /\ reader \in {"none", "loop", "locked", "version", "payload", "unlock", "exited"}
  /\ value \in Addrs \cup {NULL}
  /\ copy \in Fields /\ report \in Fields
  /\ should_stop \in BOOLEAN
  /\ waiting \subseteq callbacks /\ callbacks \subseteq Addrs

\* While the reader may follow its pointer the object is not freed
\* (si_rcu19.c:163), and neither is the one that is published.
NoUseAfterFree ==
  /\ reader \in {"version", "payload"} => heap[value].allocated
  /\ current_value # NULL => heap[current_value].allocated

\* What the reader prints is one version of the object, never a mixture of two
\* or a half-filled one (si_rcu19.c:184).
ConsistentReport == report.payload = PayloadOf(report.version)

\* What the reader prints never goes back to an older object: a lower version
\* than the last one can only mean that the unsigned update_count has wrapped in
\* between (si_rcu19.c:150, 182-187).
NoLater(x, y) ==
  x.wraps < y.wraps \/ (x.wraps = y.wraps /\ x.version <= y.version)

MonotonicReads == [][NoLater(report, report')]_vars

\* Who has to free object a: init or exit, the published pointer, the writer
\* before it publishes a and after it has replaced it, or the callback.
Owners(a) ==
  {o \in {"thread", "pointer", "new", "old", "callback"} :
     \/ /\ o = "thread"  /\ initial = a
        /\ phase \in {"init_fill", "init_undo", "exit_free"}
     \/ o = "pointer"  /\ current_value = a
     \/ o = "new"      /\ new_value = a /\ writer \in {"fill", "publish"}
     \/ o = "old"      /\ old_value = a /\ writer = "call_rcu"
     \/ o = "callback" /\ a \in callbacks}

\* Every object in memory is somebody's to free, and only one's: on no path of
\* init, writer, callback and exit is an object lost or freed twice.
OneOwner ==
  \A a \in Addrs :
    /\ heap[a].allocated <=> Owners(a) # {}
    /\ \A o, p \in Owners(a) : o = p

\* After rmmod, or after insmod has failed, none of the module's code can run
\* any more (si_rcu19.c:242-256) and nothing it allocated is left.
CleanUnload ==
  phase \in {"unloaded", "failed"} =>
    /\ work = "idle" /\ writer = "idle"
    /\ reader \in {"none", "exited"}
    /\ callbacks = {}
    /\ \A a \in Addrs : ~heap[a].allocated

\* rmmod comes to an end: the writer's self-arming work can be cancelled and the
\* grace periods end.
UnloadTerminates == (phase = "exit_flush") ~> (phase = "unloaded")

\* A replaced object is freed, whatever the reader and the writer do.
OldObjectsAreFreed ==
  \A a \in Addrs : (a \in callbacks) ~> (a \notin callbacks)

\* "0 means to keep updating" (si_rcu19.c:117): while the module is loaded and
\* updates is 0, the writer is running or is going to.
ZeroMeansForever ==
  phase = "loaded" /\ updates = 0 => work = "pending" \/ writer # "idle"
=============================================================================
