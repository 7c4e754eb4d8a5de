---------------------------- MODULE MessageDevice ----------------------------
(***************************************************************************)
(* The character devices of 07-waitqueue/si_waitqueue07.c and of           *)
(* 08-poll/si_poll08.c, with the tasks of user/si_poll_test.c that use it. *)
(* Lesson 08's is that of lesson 07 with three changes: read() takes the   *)
(* mutex before it waits, a non-blocking read() gives up with EAGAIN, and  *)
(* poll() can wait on the same queue.  What the two files share is in      *)
(* WaitQueueDevice.                                                        *)
(*                                                                         *)
(* The poll() system call around the driver's .poll callback (fs/select.c) *)
(* is not part of this repository: it queues once, asks the driver, sleeps *)
(* unless it has been triggered since, and asks again.                     *)
(***************************************************************************)
EXTENDS Integers, Sequences

CONSTANTS
  Lesson,            \* whose device it is: "07" or "08"
  Readers, Writers,  \* the tasks that call read(), of either kind, and write()
  Pollers,           \* the event loops: poll(), then read() if it said POLLIN
  ReadCounts,        \* the sizes of the readers' buffers
  None, Bytes, Nul, BUFFER_SIZE, Payloads, Signals, Faults,
  Timeouts           \* the pollers whose poll() has a timeout

ASSUME LessonAssumption  == Lesson \in {"07", "08"} /\ (Lesson = "07" => Pollers = {})
ASSUME BufferAssumption  == BUFFER_SIZE \in Nat /\ BUFFER_SIZE >= 2
ASSUME NoneAssumption    == None \notin Readers \cup Writers \cup Pollers
ASSUME CallAssumption    == Payloads \subseteq Seq(Bytes) /\ ReadCounts \subseteq Nat
ASSUME PollersAssumption == /\ Pollers \cap (Readers \cup Writers) = {}
                            /\ Timeouts \subseteq Pollers

VARIABLES
  device_buffer, device_size, data_ready, buffer_lock, read_queue,
  pc, call, moved, ret, signalled, slot,
  poll_queue,   \* the pollers with an entry on read_queue
  triggered,    \* the pollers whose entry a wake-up has called since they slept
  timed_out,    \* the pollers whose timeout has expired
  revents,      \* the pollers that were told POLLIN and have not read since
  seen          \* history: the pollers that .poll has told of a message that
                \* no read has taken since

devVars  == <<device_buffer, device_size, data_ready, buffer_lock, read_queue,
              pc, call, moved, ret, signalled, slot>>
pollVars == <<poll_queue, triggered, timed_out, revents, seen>>
vars     == <<devVars, pollVars>>

Consumers == Readers \cup Pollers
Tasks     == Consumers \cup Writers

\* The steps, with every task that reads as a reader.
Dev == INSTANCE WaitQueueDevice WITH Readers <- Consumers

Call(op, n) == [op |-> op, count |-> n, data |-> <<>>]
ReadCalls   == {Call(op, n) : op \in {"read", "read_nonblock"}, n \in ReadCounts}
PollCalls   == {Call("poll", 0)}
\* si_poll_test.c reads into a buffer that any message fits.
LoopReads   == {Call("read_nonblock", BUFFER_SIZE - 1)}

Calls == ReadCalls \cup LoopReads \cup PollCalls \cup Dev!WriteCalls

\* What the device promises: one message at a time, calls that take effect at
\* once.
Promise == INSTANCE Mailbox
             WITH Calls <- Calls, ZeroReads <- Lesson = "08", reply <- ret

-----------------------------------------------------------------------------
Init ==
  /\ Dev!Init
  /\ poll_queue = {} /\ triggered = {} /\ timed_out = {} /\ revents = {} /\ seen = {}

\* A system call of task t enters the driver at label.
Enter(t, c, label) ==
  /\ pc[t] = "idle"
  /\ call' = [call EXCEPT ![t] = c]
  /\ Dev!GoTo(t, label)
  /\ UNCHANGED <<device_buffer, device_size, data_ready, buffer_lock, read_queue,
                 moved, ret, signalled, slot, pollVars>>

\* The call t is in is answered; label is what is left to do.
Answer(t, r, label) ==
  /\ Dev!Answer(t, r, label)
  /\ UNCHANGED <<device_buffer, device_size, data_ready, buffer_lock, read_queue,
                 call, moved, signalled, slot>>

-----------------------------------------------------------------------------
(* read() *)

\* Lesson 07 waits for a message before it takes the mutex, ...
ReadWaits(t) ==
  /\ Lesson = "07" /\ t \in Readers
  /\ \E n \in ReadCounts : Enter(t, Call("read", n), "wait_event")

\* ... lesson 08 takes it at once, unless there is nothing to read.
ReadEntry(c) == IF c.count = 0 THEN "read_zero" ELSE "read_lock"

ReadLocks(t) ==
  \E c \in IF t \in Readers THEN ReadCalls ELSE LoopReads :
    /\ Lesson = "08" /\ t \in Readers \cup revents
    /\ Enter(t, c, ReadEntry(c))

ReadZero(t) ==
  /\ pc[t] = "read_zero"
  /\ Answer(t, Promise!Reply("ok", 0, <<>>), "return")
  /\ UNCHANGED pollVars

\* Mutant: O_NONBLOCK is tested before data_ready.
ReadAgainUnchecked(t) ==
  /\ pc[t] = "check" /\ call[t].op = "read_nonblock"
  /\ Dev!Unlock
  /\ Dev!Answer(t, Promise!Failed("EAGAIN"), "return")
  /\ UNCHANGED <<device_buffer, device_size, data_ready, read_queue, call, moved,
                 signalled, slot, pollVars>>

\* No message: a non-blocking read unlocks and gives up ...
ReadAgain(t) ==
  /\ pc[t] = "check" /\ ~data_ready /\ call[t].op = "read_nonblock"
  /\ Dev!Unlock
  /\ Dev!Answer(t, Promise!Failed("EAGAIN"), "return")
  /\ UNCHANGED <<device_buffer, device_size, data_ready, read_queue, call, moved,
                 signalled, slot, pollVars>>

\* ... and a blocking one unlocks, waits for the condition and locks again.
ReadWait(t) ==
  /\ \/ call[t].op = "read" /\ Dev!ReadRetry(t)
     \/ Dev!WaitEvent(t) \/ Dev!Prepare(t) \/ Dev!Recheck(t)
     \/ Dev!RecheckSignalled(t) \/ Dev!Schedule(t)
  /\ UNCHANGED pollVars

\* The message is copied out, or it does not fit, or the user address is bad.
ReadCopy(t) ==
  /\ \/ Dev!ReadTooSmall(t) \/ Dev!ReadFits(t)
     \/ Dev!ReadCopyByte(t) \/ Dev!ReadFault(t) \/ Dev!ReadUnlock(t)
  /\ UNCHANGED pollVars

ReadTake(t) ==
  /\ Dev!ReadTake(t)
  /\ seen' = {}
  /\ UNCHANGED <<poll_queue, triggered, timed_out, revents>>

-----------------------------------------------------------------------------
(* write() *)

WriteCall(t) == Dev!WriteCall(t) /\ UNCHANGED pollVars

Write(t) ==
  /\ \/ Dev!WriteZero(t) \/ Dev!WriteCopyByte(t) \/ Dev!WriteFault(t)
     \/ Dev!WriteStore(t) \/ Dev!WriteUnlock(t)
  /\ UNCHANGED pollVars

\* Mutant: the pollers are not woken up.
WriteWakeReaders(t) == Dev!WriteWake(t) /\ UNCHANGED pollVars

\* wake_up_interruptible() takes the sleeping readers off the queue and calls
\* pollwake() for the entries of the pollers, which stay.
WriteWake(t) ==
  /\ Dev!WriteWake(t)
  /\ triggered' = triggered \cup poll_queue
  /\ UNCHANGED <<poll_queue, timed_out, revents, seen>>

-----------------------------------------------------------------------------
(* poll() *)

PollCall(t) ==
  /\ t \in Pollers \ revents
  /\ Enter(t, Call("poll", 0), "poll_wait")

\* The first call of .poll queues the task before it looks at data_ready.
PollWait(t) ==
  /\ pc[t] = "poll_wait"
  /\ poll_queue' = poll_queue \cup {t}
  /\ Dev!GoTo(t, "poll_mask")
  /\ UNCHANGED <<device_buffer, device_size, data_ready, buffer_lock, read_queue,
                 call, moved, ret, signalled, slot, triggered, timed_out, revents, seen>>

\* Mutant: .poll reports POLLIN whatever data_ready is.
PollInAlways(t) ==
  /\ pc[t] = "poll_mask"
  /\ Answer(t, Promise!Reply("ok", 1, <<>>), "poll_freewait")
  /\ seen' = seen \cup {t}
  /\ UNCHANGED <<poll_queue, triggered, timed_out, revents>>

\* Mutant: .poll reports a message only to a task that was woken up for it.
PollInEdge(t) ==
  /\ pc[t] = "poll_mask" /\ data_ready /\ t \in triggered
  /\ Answer(t, Promise!Reply("ok", 1, <<>>), "poll_freewait")
  /\ seen' = seen \cup {t}
  /\ UNCHANGED <<poll_queue, triggered, timed_out, revents>>

\* .poll reports POLLIN, without the mutex, if there is a message.  The tasks
\* here do not ask for POLLOUT, which it always reports.
PollIn(t) ==
  /\ pc[t] = "poll_mask" /\ data_ready
  /\ Answer(t, Promise!Reply("ok", 1, <<>>), "poll_freewait")
  /\ seen' = seen \cup {t}
  /\ UNCHANGED <<poll_queue, triggered, timed_out, revents>>

\* Otherwise poll() ends with EINTR or with 0 if there is a reason to ...
PollEnds(t) ==
  /\ pc[t] = "poll_mask" /\ ~data_ready
  /\ IF t \in signalled
     THEN Answer(t, Promise!Failed("ERESTARTSYS"), "poll_freewait")
     ELSE t \in timed_out /\ Answer(t, Promise!Reply("ok", 0, <<>>), "poll_freewait")
  /\ UNCHANGED pollVars

\* ... or goes to sleep, ...
PollBlocks(t) ==
  /\ pc[t] = "poll_mask" /\ ~data_ready /\ t \notin signalled \cup timed_out
  /\ Dev!GoTo(t, "poll_schedule")
  /\ UNCHANGED <<device_buffer, device_size, data_ready, buffer_lock, read_queue,
                 call, moved, ret, signalled, slot, pollVars>>

\* ... and asks the driver again once it is triggered or signalled ...
PollSchedule(t) ==
  /\ pc[t] = "poll_schedule" /\ t \in triggered \cup signalled
  /\ triggered' = triggered \ {t}
  /\ Dev!GoTo(t, "poll_mask")
  /\ UNCHANGED <<device_buffer, device_size, data_ready, buffer_lock, read_queue,
                 call, moved, ret, signalled, slot, poll_queue, timed_out, revents, seen>>

\* ... or out of time.
PollTimeout(t) ==
  /\ pc[t] = "poll_schedule" /\ t \in Timeouts
  /\ timed_out' = timed_out \cup {t}
  /\ triggered' = triggered \ {t}
  /\ Dev!GoTo(t, "poll_mask")
  /\ UNCHANGED <<device_buffer, device_size, data_ready, buffer_lock, read_queue,
                 call, moved, ret, signalled, slot, poll_queue, revents, seen>>

PollFreewait(t) ==
  /\ pc[t] = "poll_freewait"
  /\ poll_queue' = poll_queue \ {t}
  /\ triggered' = triggered \ {t}
  /\ timed_out' = timed_out \ {t}
  /\ Dev!GoTo(t, "return")
  /\ UNCHANGED <<device_buffer, device_size, data_ready, buffer_lock, read_queue,
                 call, moved, ret, signalled, slot, revents, seen>>

-----------------------------------------------------------------------------
\* An event loop reads after a poll() that said POLLIN, and only then.
Return(t) ==
  /\ Dev!Return(t)
  /\ revents' = IF call[t].op = "poll" /\ ret[t].count = 1
                THEN revents \cup {t} ELSE revents \ {t}
  /\ UNCHANGED <<poll_queue, triggered, timed_out, seen>>

Signal(t) == Dev!Signal(t) /\ UNCHANGED pollVars

Interrupted(t) == Dev!LockInterrupted(t) /\ UNCHANGED pollVars
AcquireLock(t) == Dev!AcquireLock(t) /\ UNCHANGED pollVars

PollStep(t) ==
  \/ PollWait(t) \/ PollIn(t) \/ PollEnds(t) \/ PollBlocks(t)
  \/ PollSchedule(t) \/ PollFreewait(t)

Progress(t) ==
  \/ ReadZero(t) \/ ReadAgain(t) \/ ReadWait(t) \/ ReadCopy(t) \/ ReadTake(t)
  \/ Write(t) \/ WriteWake(t) \/ PollStep(t) \/ Interrupted(t) \/ Return(t)

Next ==
  \E t \in Tasks : \/ ReadWaits(t) \/ ReadLocks(t) \/ WriteCall(t) \/ PollCall(t)
                   \/ Signal(t) \/ PollTimeout(t) \/ AcquireLock(t) \/ Progress(t)

Spec == Init /\ [][Next]_vars

\* The scheduler runs every runnable task, and the mutex queues its waiters, so
\* a task that finds it free again and again gets it.  Nobody has to make a call,
\* no signal has to come and no timeout need ever expire.
Fairness == \A t \in Tasks : WF_vars(Progress(t)) /\ SF_vars(AcquireLock(t))

FairSpec == Spec /\ Fairness

-----------------------------------------------------------------------------
(* Properties *)

Labels    == Dev!Labels \cup {"read_zero", "poll_wait", "poll_mask", "poll_schedule",
                               "poll_freewait"}
Statuses  == Dev!Statuses \cup {"EAGAIN"}
Message   == Seq(Bytes \cup {Nul})
Arguments == [op : {"none", "read", "read_nonblock", "write", "poll"}, count : Nat,
              data : Seq(Bytes)]
Outcome   == [status : Statuses, count : Nat, data : Message]

\* The type of the state: si_waitqueue07.c:19-27, si_poll08.c:14-28, the locals
\* of read() and write(), and the poll table of each poller.
TypeOK ==
  /\ device_buffer \in [1..BUFFER_SIZE -> Bytes \cup {Nul}]
  /\ device_size \in 0..(BUFFER_SIZE - 1)
  /\ data_ready \in BOOLEAN
  /\ buffer_lock \in Tasks \cup {None}
  /\ read_queue \subseteq Readers
  /\ pc \in [Tasks -> Labels]
  /\ call \in [Tasks -> Arguments]
  /\ moved \in [Tasks -> Message]
  /\ ret \in [Tasks -> Outcome]
  /\ signalled \subseteq Signals
  /\ slot \in Message
  /\ triggered \subseteq poll_queue
  /\ timed_out \subseteq poll_queue \cap Timeouts
  /\ poll_queue \cup revents \cup seen \subseteq Pollers

\* A task owns buffer_lock exactly while it is between a lock and an unlock of
\* read() or write(): no early return (EMSGSIZE, EFAULT, EAGAIN, a retry, a
\* signal) leaves it locked or unlocks it for somebody else.
Locked    == {"check", "copy_out", "copy_in", "unlock"}
LockOwned == \A t \in Tasks : (pc[t] \in Locked) <=> (buffer_lock = t)

\* Whenever the mutex is free the shared variables describe one message, the one
\* that is waiting to be read: the length, the flag and the bytes agree, and no
\* half-made copy of a second writer shows.
Coherent ==
  buffer_lock = None =>
    /\ data_ready <=> slot # <<>>
    /\ device_size = Len(slot)
    /\ slot = SubSeq(device_buffer, 1, device_size)

\* Nobody sleeps, in read() or in poll(), while a message waits, unless the
\* writer that stored it has yet to wake the queue (si_waitqueue07.c:133-152,
\* si_poll08.c:246-249).
NoLostWakeup ==
  data_ready =>
    \A t \in Consumers :
      \/ pc[t] = "schedule" /\ t \in read_queue
      \/ pc[t] = "poll_schedule" /\ t \notin triggered
      => \E w \in Writers : /\ call[w].op = "write" /\ ret[w].status = "ok"
                            /\ pc[w] \in {"unlock", "wake"}

\* POLLIN means that a read does not have to wait (si_poll08.c:100): until some
\* read takes the message the poller was told of, EAGAIN is not an answer, not
\* even after a write that failed or that replaced the message.
PollinHolds ==
  [][\A t \in Pollers :
       t \in seen /\ ret'[t] # ret[t] => ret'[t].status # "EAGAIN"]_vars

\* The device keeps the promise of a one-message mailbox: every call takes effect
\* at once, a message is read at most once and whole, EMSGSIZE and EFAULT of a
\* read lose nothing, only a faulting write harms a waiting message.  In lesson 08
\* that goes for non-blocking reads and for poll() as well: POLLIN is reported only
\* for a message that is there.
KeepsPromise == Promise!Spec

\* A poller that sleeps while a message waits does wake up.
PollerWakes ==
  \A t \in Pollers : (pc[t] = "poll_schedule" /\ data_ready) ~> (pc[t] # "poll_schedule")

\* A reader that sleeps while a message waits does wake up (it may then find
\* that another reader was faster).
SleeperWakes ==
  \A t \in Readers : (pc[t] = "schedule" /\ data_ready) ~> (pc[t] # "schedule")

\* write() never waits for a reader: it returns.
WriteReturns == \A t \in Writers : (call[t].op = "write") ~> (pc[t] = "idle")

\* Both kinds of waiting end if a message stays: poll() and read() return.  With
\* several readers one may be overtaken for ever.
ConsumerServed ==
  \A t \in Consumers :
    (call[t] # Promise!NoCall /\ [](data_ready \/ ret[t] # Promise!Pending))
      ~> (pc[t] = "idle")
=============================================================================
