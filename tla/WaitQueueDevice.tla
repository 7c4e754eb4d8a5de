-------------------------- MODULE WaitQueueDevice --------------------------
(***************************************************************************)
(* The steps of read() and write() of 07-waitqueue/si_waitqueue07.c, many  *)
(* of which 08-poll/si_poll08.c has as well: a buffer for one message, a   *)
(* mutex, and a wait queue on which read() sleeps until write() has stored *)
(* a message.  MessageDevice makes the two devices of them.                *)
(*                                                                         *)
(* One action is one step between two points where another task may run:   *)
(* taking or dropping buffer_lock, each half of wait_event_interruptible() *)
(* (test, queue, test again, sleep), each byte copied to or from user      *)
(* memory, each store to data_ready, and the wake-up.                      *)
(***************************************************************************)
EXTENDS Integers, Sequences

CONSTANTS
  Readers, Writers,  \* the tasks that call read() and write()
  None,              \* nobody: the owner of a free mutex
  Bytes, Nul,        \* the byte values a message is made of, and the byte 0
  BUFFER_SIZE,       \* sizeof(device_buffer)
  Payloads,          \* what the writers offer to write()
  Signals,           \* the tasks that may get a signal while in a call
  Faults             \* the tasks that may pass a bad user address

VARIABLES
  device_buffer,  \* the static buffer, every byte of it
  device_size,    \* the length of the message in it
  data_ready,     \* the condition of the wait queue
  buffer_lock,    \* the owner of the mutex
  read_queue,     \* the tasks queued and marked TASK_INTERRUPTIBLE
  pc,             \* where each task is in read() or write()
  call,           \* the arguments of the call each task is in
  moved,          \* the bytes its copy_to_user() / copy_from_user() has moved
  ret,            \* what its call is going to return
  signalled,      \* the tasks with a signal pending
  slot            \* history: the message stored last, until a read takes it

shared == <<device_buffer, device_size, data_ready>>
vars   == <<shared, buffer_lock, read_queue, pc, call, moved, ret, signalled, slot>>

Tasks == Readers \cup Writers

WriteCalls == {[op |-> "write", count |-> Len(d), data |-> d] : d \in Payloads}

\* The calls and replies of what the device promises.
Promise == INSTANCE Mailbox WITH Calls <- WriteCalls, ZeroReads <- FALSE, reply <- ret

Pending == Promise!Pending
NoCall  == Promise!NoCall

Clip(data) == Promise!Clip(data)

-----------------------------------------------------------------------------
Init ==
  /\ device_buffer = [i \in 1..BUFFER_SIZE |-> Nul]
  /\ device_size   = 0
  /\ data_ready    = FALSE
  /\ buffer_lock   = None
  /\ read_queue    = {}
  /\ pc            = [t \in Tasks |-> "idle"]
  /\ call          = [t \in Tasks |-> NoCall]
  /\ moved         = [t \in Tasks |-> <<>>]
  /\ ret           = [t \in Tasks |-> Pending]
  /\ signalled     = {}
  /\ slot          = <<>>

GoTo(t, label) == pc' = [pc EXCEPT ![t] = label]

\* The value a call returns is fixed; label is what is left to do before it
\* does return.
Answer(t, r, label) == ret' = [ret EXCEPT ![t] = r] /\ GoTo(t, label)

\* buffer_lock is a PREEMPT_RT mutex: mutex_lock_interruptible() takes it when
\* it is free.
Lock(t, from, to) ==
  /\ pc[t] = from /\ buffer_lock = None
  /\ buffer_lock' = t
  /\ GoTo(t, to)
  /\ UNCHANGED <<shared, read_queue, call, moved, ret, signalled, slot>>

Unlock == buffer_lock' = None

\* A pending signal ends mutex_lock_interruptible() only on its slow path:
\* another task owns the mutex, or is being given it.
LockInterrupted(t) ==
  /\ pc[t] \in {"read_lock", "write_lock"} /\ t \in signalled
  /\ \/ buffer_lock # None
     \/ \E u \in Tasks \ {t} : pc[u] \in {"read_lock", "write_lock"}
  /\ Answer(t, Promise!Failed("ERESTARTSYS"), "return")
  /\ UNCHANGED <<shared, buffer_lock, read_queue, call, moved, signalled, slot>>

-----------------------------------------------------------------------------
(* read() *)

\* wait_event_interruptible() tests the condition once before it queues.
WaitEvent(t) ==
  /\ pc[t] = "wait_event"
  /\ GoTo(t, IF data_ready THEN "read_lock" ELSE "prepare")
  /\ UNCHANGED <<shared, buffer_lock, read_queue, call, moved, ret, signalled, slot>>

\* prepare_to_wait_event(): queue and mark the task sleeping, or, when a signal
\* is pending, take it off the queue.
Prepare(t) ==
  /\ pc[t] = "prepare"
  /\ IF t \in signalled
     THEN read_queue' = read_queue \ {t} /\ GoTo(t, "recheck_signalled")
     ELSE read_queue' = read_queue \cup {t} /\ GoTo(t, "recheck")
  /\ UNCHANGED <<shared, buffer_lock, call, moved, ret, signalled, slot>>

\* Mutant: the task goes to sleep without testing the condition again.
RecheckSkipped(t) ==
  /\ pc[t] = "recheck"
  /\ GoTo(t, "schedule")
  /\ UNCHANGED <<shared, buffer_lock, read_queue, call, moved, ret, signalled, slot>>

\* The condition is tested again once the task is on the queue.
Recheck(t) ==
  /\ pc[t] = "recheck"
  /\ IF data_ready
     THEN read_queue' = read_queue \ {t} /\ GoTo(t, "read_lock")
     ELSE UNCHANGED read_queue /\ GoTo(t, "schedule")
  /\ UNCHANGED <<shared, buffer_lock, call, moved, ret, signalled, slot>>

RecheckSignalled(t) ==
  /\ pc[t] = "recheck_signalled"
  /\ IF data_ready
     THEN GoTo(t, "read_lock") /\ UNCHANGED ret
     ELSE Answer(t, Promise!Failed("ERESTARTSYS"), "return")
  /\ UNCHANGED <<shared, buffer_lock, read_queue, call, moved, signalled, slot>>

\* schedule() returns once a wake-up has taken the task off the queue, or a
\* signal has made it runnable; the loop then queues it again.
Schedule(t) ==
  /\ pc[t] = "schedule" /\ (t \notin read_queue \/ t \in signalled)
  /\ GoTo(t, "prepare")
  /\ UNCHANGED <<shared, buffer_lock, read_queue, call, moved, ret, signalled, slot>>

ReadLock(t) == Lock(t, "read_lock", "check")

\* Mutant: being woken up is taken for having a message.
ReadTrustsWakeup(t) ==
  /\ pc[t] = "check" /\ ~data_ready
  /\ GoTo(t, "copy_out")
  /\ UNCHANGED <<shared, buffer_lock, read_queue, call, moved, ret, signalled, slot>>

\* Another reader took the message first: unlock and wait again.
ReadRetry(t) ==
  /\ pc[t] = "check" /\ ~data_ready
  /\ Unlock
  /\ GoTo(t, "wait_event")
  /\ UNCHANGED <<shared, read_queue, call, moved, ret, signalled, slot>>

ReadTooSmall(t) ==
  /\ pc[t] = "check" /\ data_ready /\ call[t].count < device_size
  /\ Answer(t, Promise!Failed("EMSGSIZE"), "unlock")
  /\ UNCHANGED <<shared, buffer_lock, read_queue, call, moved, signalled, slot>>

ReadFits(t) ==
  /\ pc[t] = "check" /\ data_ready /\ call[t].count >= device_size
  /\ GoTo(t, "copy_out")
  /\ UNCHANGED <<shared, buffer_lock, read_queue, call, moved, ret, signalled, slot>>

\* copy_to_user() moves the message one byte after the other ...
ReadCopyByte(t) ==
  /\ pc[t] = "copy_out" /\ Len(moved[t]) < device_size
  /\ moved' = [moved EXCEPT ![t] = Append(@, device_buffer[Len(@) + 1])]
  /\ UNCHANGED <<shared, buffer_lock, read_queue, pc, call, ret, signalled, slot>>

\* Mutant: EFAULT returns without unlocking.
ReadFaultLocked(t) ==
  /\ t \in Faults /\ pc[t] = "copy_out" /\ Len(moved[t]) < device_size
  /\ Answer(t, Promise!Failed("EFAULT"), "return")
  /\ UNCHANGED <<shared, buffer_lock, read_queue, call, moved, signalled, slot>>

\* ... until it meets an address it cannot write to ...
ReadFault(t) ==
  /\ t \in Faults /\ pc[t] = "copy_out" /\ Len(moved[t]) < device_size
  /\ Answer(t, Promise!Failed("EFAULT"), "unlock")
  /\ UNCHANGED <<shared, buffer_lock, read_queue, call, moved, signalled, slot>>

\* ... or has moved it all: the message is taken.
ReadTake(t) ==
  /\ pc[t] = "copy_out" /\ Len(moved[t]) = device_size
  /\ Answer(t, Promise!Reply("ok", device_size, moved[t]), "unlock")
  /\ device_size' = 0
  /\ data_ready' = FALSE
  /\ slot' = <<>>
  /\ UNCHANGED <<device_buffer, buffer_lock, read_queue, call, moved, signalled>>

ReadUnlock(t) ==
  /\ pc[t] = "unlock" /\ call[t].op \in Promise!Reads
  /\ Unlock
  /\ GoTo(t, "return")
  /\ UNCHANGED <<shared, read_queue, call, moved, ret, signalled, slot>>

-----------------------------------------------------------------------------
(* write() *)

WriteCall(t) ==
  /\ t \in Writers /\ pc[t] = "idle"
  /\ \E c \in WriteCalls :
       /\ call' = [call EXCEPT ![t] = c]
       /\ GoTo(t, IF c.count = 0 THEN "write_zero" ELSE "write_lock")
  /\ UNCHANGED <<shared, buffer_lock, read_queue, moved, ret, signalled, slot>>

WriteZero(t) ==
  /\ pc[t] = "write_zero"
  /\ Answer(t, Promise!Reply("ok", 0, <<>>), "return")
  /\ UNCHANGED <<shared, buffer_lock, read_queue, call, moved, signalled, slot>>

WriteLock(t) == Lock(t, "write_lock", "copy_in")

\* copy_from_user() writes device_buffer in place, over any message still there.
WriteCopyByte(t) ==
  LET msg == Clip(call[t].data)
      i   == Len(moved[t]) + 1
  IN  /\ pc[t] = "copy_in" /\ Len(moved[t]) < Len(msg)
      /\ moved' = [moved EXCEPT ![t] = Append(@, msg[i])]
      /\ device_buffer' = [device_buffer EXCEPT ![i] = msg[i]]
      /\ UNCHANGED <<device_size, data_ready, buffer_lock, read_queue, pc, call,
                     ret, signalled, slot>>

\* When it meets an address it cannot read it clears the bytes it did not copy,
\* and write() fails; data_ready and device_size keep their values.
WriteFault(t) ==
  LET msg == Clip(call[t].data)
      k   == Len(moved[t])
  IN  /\ t \in Faults /\ pc[t] = "copy_in" /\ k < Len(msg)
      /\ device_buffer' = [i \in 1..BUFFER_SIZE |->
                             IF i \in (k + 1)..Len(msg) THEN Nul ELSE device_buffer[i]]
      /\ slot' = Promise!Overlay(slot, msg, k)
      /\ Answer(t, Promise!Failed("EFAULT"), "unlock")
      /\ UNCHANGED <<device_size, data_ready, buffer_lock, read_queue, call, moved,
                     signalled>>

WriteStore(t) ==
  LET msg == Clip(call[t].data)
  IN  /\ pc[t] = "copy_in" /\ Len(moved[t]) = Len(msg)
      /\ device_size' = Len(msg)
      /\ data_ready' = TRUE
      /\ slot' = msg
      /\ Answer(t, Promise!Reply("ok", Len(msg), <<>>), "unlock")
      /\ UNCHANGED <<device_buffer, buffer_lock, read_queue, call, moved, signalled>>

\* Mutant: the writer does not wake anybody.
WriteUnlockOnly(t) ==
  /\ pc[t] = "unlock" /\ call[t].op = "write"
  /\ Unlock
  /\ GoTo(t, "return")
  /\ UNCHANGED <<shared, read_queue, call, moved, ret, signalled, slot>>

WriteUnlock(t) ==
  /\ pc[t] = "unlock" /\ call[t].op = "write"
  /\ Unlock
  /\ GoTo(t, IF ret[t].status = "ok" THEN "wake" ELSE "return")
  /\ UNCHANGED <<shared, read_queue, call, moved, ret, signalled, slot>>

\* Mutant: wake_up() of an exclusive waiter, which wakes one task only.
WriteWakeOne(t) ==
  /\ pc[t] = "wake"
  /\ \/ read_queue = {} /\ UNCHANGED read_queue
     \/ \E r \in read_queue : read_queue' = read_queue \ {r}
  /\ GoTo(t, "return")
  /\ UNCHANGED <<shared, buffer_lock, call, moved, ret, signalled, slot>>

\* wake_up_interruptible(): read() queues non-exclusively, so every sleeper is
\* taken off the queue and made runnable.
WriteWake(t) ==
  /\ pc[t] = "wake"
  /\ read_queue' = {}
  /\ GoTo(t, "return")
  /\ UNCHANGED <<shared, buffer_lock, call, moved, ret, signalled, slot>>

-----------------------------------------------------------------------------
\* The system call hands ret back to user space; pending signals are delivered
\* there.
Return(t) ==
  /\ pc[t] = "return"
  /\ GoTo(t, "idle")
  /\ call' = [call EXCEPT ![t] = NoCall]
  /\ moved' = [moved EXCEPT ![t] = <<>>]
  /\ ret' = [ret EXCEPT ![t] = Pending]
  /\ signalled' = signalled \ {t}
  /\ UNCHANGED <<shared, buffer_lock, read_queue, slot>>

Signal(t) ==
  /\ t \in Signals /\ pc[t] \notin {"idle", "return"}
  /\ signalled' = signalled \cup {t}
  /\ UNCHANGED <<shared, buffer_lock, read_queue, pc, call, moved, ret, slot>>

AcquireLock(t) == ReadLock(t) \/ WriteLock(t)

-----------------------------------------------------------------------------
\* Where a task is in read() and write(), and what these may answer.
ReadLabels  == {"wait_event", "prepare", "recheck", "recheck_signalled", "schedule",
                "read_lock", "check", "copy_out"}
WriteLabels == {"write_zero", "write_lock", "copy_in", "wake"}
Labels      == ReadLabels \cup WriteLabels \cup {"idle", "unlock", "return"}

Statuses == {"pending", "ok", "EMSGSIZE", "EFAULT", "ERESTARTSYS"}
=============================================================================
