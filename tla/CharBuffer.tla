----------------------------- MODULE CharBuffer -----------------------------
(***************************************************************************)
(* read() and write() of the three devices with a shared buffer:           *)
(* 04-char-device without a lock, 05-mutex with a mutex that is held while *)
(* the bytes go to and from user memory, 06-spinlock with a raw spinlock   *)
(* that is held only while they go to and from an array on the stack.      *)
(*                                                                         *)
(* Lesson 04 leaves concurrent access out (si_char04.c:36), and what its   *)
(* callers then get depends on every load and store of the unlocked copy;  *)
(* Overlapping names the lessons whose calls may overlap.                  *)
(***************************************************************************)
EXTENDS Integers, Sequences

CONSTANTS
  Tasks,         \* the tasks, each with a file descriptor of its own
  None,          \* the owner of a free lock
  Bytes, Nul,    \* the byte values a text is made of, and the byte 0
  BUFFER_SIZE,   \* sizeof(device_buffer)
  Initial,       \* the text in it at the start
  Payloads,      \* what is offered to write()
  ReadCounts,    \* the sizes offered to read()
  Lessons,       \* which of the devices: a subset of {"04", "05", "06"}
  Overlapping,   \* those of them whose callers need not take turns
  Signals,       \* the tasks that may get a signal while they wait for a mutex
  Faults         \* the tasks that may pass a bad user address

ASSUME BufferAssumption ==
  BUFFER_SIZE \in Nat /\ Initial \in Seq(Bytes) /\ Len(Initial) < BUFFER_SIZE
ASSUME NoneAssumption   == None \notin Tasks
ASSUME CallAssumption   == Payloads \subseteq Seq(Bytes) /\ ReadCounts \subseteq Nat
ASSUME LessonAssumption == Lessons \subseteq {"04", "05", "06"}
ASSUME TurnsAssumption  == Overlapping \subseteq {"05", "06"}

VARIABLES
  lesson,         \* which of the devices this is
  device_buffer, device_size,
  buffer_lock,    \* the owner of the mutex or the spinlock
  pc, call, ret,  \* where each task is, its arguments, what it will return
  f_pos,          \* the position of each task's file
  offset,         \* *offset: the VFS's copy of it during a call
  want,           \* count, once read() has reduced it to what is available
  moved,          \* the bytes moved to the user (04, 05) or to temp (06), or
                  \* from the user or from temp into device_buffer
  content, seen   \* history: the document, and what a read has seen of it

shared == <<device_buffer, device_size>>
locals == <<offset, want, moved>>
vars   == <<lesson, shared, buffer_lock, pc, call, ret, f_pos, locals, content, seen>>

ReadCalls  == {[op |-> "read", count |-> n, data |-> <<>>] : n \in ReadCounts}
WriteCalls == {[op |-> "write", count |-> Len(d), data |-> d] : d \in Payloads}

\* A task's position, as its next call will find it.
Position == [t \in Tasks |-> IF ret[t].status = "ok" THEN offset[t] ELSE f_pos[t]]

Promise == INSTANCE Document WITH Calls <- ReadCalls \cup WriteCalls,
                                  pos <- Position, reply <- ret

Pending == Promise!Pending
NoCall  == Promise!NoCall

\* write() keeps BUFFER_SIZE - 1 bytes at most.
Text(t) == Promise!Clip(call[t].data)

Init ==
  /\ lesson \in Lessons
  /\ device_buffer = [i \in 1..BUFFER_SIZE |-> IF i <= Len(Initial) THEN Initial[i]
                                                                    ELSE Nul]
  /\ device_size = Len(Initial)
  /\ buffer_lock = None
  /\ pc = [t \in Tasks |-> "idle"]
  /\ call = [t \in Tasks |-> NoCall] /\ ret = [t \in Tasks |-> Pending]
  /\ f_pos = [t \in Tasks |-> 0] /\ offset = [t \in Tasks |-> 0]
  /\ want = [t \in Tasks |-> 0] /\ moved = [t \in Tasks |-> <<>>]
  /\ content = Initial /\ seen = [t \in Tasks |-> Promise!Nothing]

GoTo(t, label) == pc' = [pc EXCEPT ![t] = label]

Answer(t, r, label) == ret' = [ret EXCEPT ![t] = r] /\ GoTo(t, label)

-----------------------------------------------------------------------------
(* Entry and locks *)

\* The VFS hands the device a copy of the file's position.
Call(t) ==
  /\ pc[t] = "idle"
  /\ lesson \in Overlapping \/ \A u \in Tasks : pc[u] = "idle"
  /\ \E c \in ReadCalls \cup WriteCalls :
       /\ call' = [call EXCEPT ![t] = c]
       /\ GoTo(t, IF lesson = "06" /\ c.op = "write" THEN "from_user" ELSE "lock")
  /\ offset' = [offset EXCEPT ![t] = f_pos[t]]
  /\ UNCHANGED <<lesson, shared, buffer_lock, ret, f_pos, want, moved, content, seen>>

\* Lesson 06 copies what is to be written before it takes the spinlock; here
\* nothing is shared yet, so that one step does for all bytes.
FromUser(t) ==
  /\ pc[t] = "from_user"
  /\ \/ GoTo(t, "lock") /\ UNCHANGED ret
     \/ /\ t \in Faults /\ Text(t) # <<>>
        /\ Answer(t, Promise!Failed("EFAULT"), "return")
  /\ UNCHANGED <<lesson, shared, buffer_lock, call, f_pos, locals, content, seen>>

Lock(t) ==
  /\ pc[t] = "lock"
  /\ IF lesson = "04" THEN UNCHANGED buffer_lock
                      ELSE buffer_lock = None /\ buffer_lock' = t
  /\ GoTo(t, IF call[t].op = "read" THEN "check" ELSE "copy_in")
  /\ UNCHANGED <<lesson, shared, call, ret, f_pos, locals, content, seen>>

\* Only a mutex that another task owns lets a signal in.
LockInterrupted(t) ==
  /\ pc[t] = "lock" /\ lesson = "05" /\ t \in Signals /\ buffer_lock # None
  /\ Answer(t, Promise!Failed("ERESTARTSYS"), "return")
  /\ UNCHANGED <<lesson, shared, buffer_lock, call, f_pos, locals, content, seen>>

\* Mutant: a failure leaves the mutex locked.
UnlockUnlessFailed(t) ==
  /\ pc[t] = "unlock"
  /\ buffer_lock' = IF ret[t].status = "EFAULT" THEN buffer_lock ELSE None
  /\ GoTo(t, IF ret[t] = Pending THEN "to_user" ELSE "return")
  /\ UNCHANGED <<lesson, shared, call, ret, f_pos, locals, content, seen>>

\* Lesson 06 has yet to hand the bytes of a read to the user.
Unlock(t) ==
  /\ pc[t] = "unlock"
  /\ buffer_lock' = None
  /\ GoTo(t, IF ret[t] = Pending THEN "to_user" ELSE "return")
  /\ UNCHANGED <<lesson, shared, call, ret, f_pos, locals, content, seen>>

-----------------------------------------------------------------------------
(* read() *)

ReadEof(t) ==
  /\ pc[t] = "check" /\ offset[t] >= device_size
  /\ Answer(t, Promise!Reply("ok", 0, <<>>), "unlock")
  /\ UNCHANGED <<lesson, shared, buffer_lock, call, f_pos, locals, content, seen>>

ReadBegin(t) ==
  /\ pc[t] = "check" /\ offset[t] < device_size
  /\ want' = [want EXCEPT ![t] =
                Promise!Min2(call[t].count, device_size - offset[t])]
  /\ seen' = [seen EXCEPT ![t] =
                Promise!Seen(Promise!Piece(content, offset[t], call[t].count))]
  /\ GoTo(t, "copy_out")
  /\ UNCHANGED <<lesson, shared, buffer_lock, call, ret, f_pos, offset, moved, content>>

ReadCopyByte(t) ==
  /\ pc[t] = "copy_out" /\ Len(moved[t]) < want[t]
  /\ moved' = [moved EXCEPT ![t] = Append(@, device_buffer[offset[t] + Len(@) + 1])]
  /\ UNCHANGED <<lesson, shared, buffer_lock, pc, call, ret, f_pos, offset, want,
                 content, seen>>

\* copy_to_user() of lessons 04 and 05 meets a bad address.
ReadFault(t) ==
  /\ pc[t] = "copy_out" /\ Len(moved[t]) < want[t]
  /\ lesson \in {"04", "05"} /\ t \in Faults
  /\ Answer(t, Promise!Failed("EFAULT"), "unlock")
  /\ UNCHANGED <<lesson, shared, buffer_lock, call, f_pos, locals, content, seen>>

\* All bytes have been moved: to the user, or to temp in lesson 06.
ReadDone(t) ==
  /\ pc[t] = "copy_out" /\ Len(moved[t]) = want[t]
  /\ offset' = [offset EXCEPT ![t] = @ + want[t]]
  /\ IF lesson = "06"
     THEN GoTo(t, "unlock") /\ UNCHANGED ret
     ELSE Answer(t, Promise!Reply("ok", want[t], moved[t]), "unlock")
  /\ UNCHANGED <<lesson, shared, buffer_lock, call, f_pos, want, moved, content, seen>>

\* Lesson 06 copies temp to the user without the lock; the offset has moved on
\* already, but the VFS drops it when the copy fails.
ToUser(t) ==
  /\ pc[t] = "to_user"
  /\ \/ Answer(t, Promise!Reply("ok", want[t], moved[t]), "return")
     \/ /\ t \in Faults /\ want[t] > 0
        /\ Answer(t, Promise!Failed("EFAULT"), "return")
  /\ UNCHANGED <<lesson, shared, buffer_lock, call, f_pos, locals, content, seen>>

-----------------------------------------------------------------------------
(* write() *)

WriteCopyByte(t) ==
  LET i == Len(moved[t]) + 1
  IN  /\ pc[t] = "copy_in" /\ i <= Len(Text(t))
      /\ moved' = [moved EXCEPT ![t] = Append(@, Text(t)[i])]
      /\ device_buffer' = [device_buffer EXCEPT ![i] = Text(t)[i]]
      /\ UNCHANGED <<lesson, device_size, buffer_lock, pc, call, ret, f_pos, offset,
                     want, content, seen>>

\* Mutant: lesson 06 copies from the user in place, like the others.
WriteFaultAnyLesson(t) ==
  LET k == Len(moved[t])
  IN  /\ pc[t] = "copy_in" /\ k < Len(Text(t))
      /\ t \in Faults
      /\ device_buffer' = [i \in 1..BUFFER_SIZE |->
                             IF i \in (k + 1)..Len(Text(t)) THEN Nul
                                                            ELSE device_buffer[i]]
      /\ content' = Promise!Overlay(content, Text(t), k)
      /\ Answer(t, Promise!Failed("EFAULT"), "unlock")
      /\ UNCHANGED <<lesson, device_size, buffer_lock, call, f_pos, locals, seen>>

\* copy_from_user() of lessons 04 and 05 meets a bad address: it clears the
\* bytes it did not copy, and device_size keeps its value.
WriteFault(t) ==
  LET k == Len(moved[t])
  IN  /\ pc[t] = "copy_in" /\ k < Len(Text(t))
      /\ lesson \in {"04", "05"} /\ t \in Faults
      /\ device_buffer' = [i \in 1..BUFFER_SIZE |->
                             IF i \in (k + 1)..Len(Text(t)) THEN Nul
                                                            ELSE device_buffer[i]]
      /\ content' = Promise!Overlay(content, Text(t), k)
      /\ Answer(t, Promise!Failed("EFAULT"), "unlock")
      /\ UNCHANGED <<lesson, device_size, buffer_lock, call, f_pos, locals, seen>>

WriteDone(t) ==
  LET n == Len(Text(t))
  IN  /\ pc[t] = "copy_in" /\ Len(moved[t]) = n
      /\ device_buffer' = [device_buffer EXCEPT ![n + 1] = Nul]
      /\ device_size' = n
      /\ content' = Text(t)
      /\ offset' = [offset EXCEPT ![t] = 0]
      /\ Answer(t, Promise!Reply("ok", n, <<>>), "unlock")
      /\ UNCHANGED <<lesson, buffer_lock, call, f_pos, want, moved, seen>>

-----------------------------------------------------------------------------
\* Mutant: the position is stored whatever the call returns.
ReturnStoresOffset(t) ==
  /\ pc[t] = "return"
  /\ f_pos' = [f_pos EXCEPT ![t] = offset[t]]
  /\ GoTo(t, "idle")
  /\ call' = [call EXCEPT ![t] = NoCall] /\ ret' = [ret EXCEPT ![t] = Pending]
  /\ offset' = [offset EXCEPT ![t] = 0] /\ want' = [want EXCEPT ![t] = 0]
  /\ moved' = [moved EXCEPT ![t] = <<>>]
  /\ seen' = [seen EXCEPT ![t] = Promise!Nothing]
  /\ UNCHANGED <<lesson, shared, buffer_lock, content>>

\* ksys_read() and ksys_write() store the position only when the call succeeds.
Return(t) ==
  /\ pc[t] = "return"
  /\ f_pos' = [f_pos EXCEPT ![t] = Position[t]]
  /\ GoTo(t, "idle")
  /\ call' = [call EXCEPT ![t] = NoCall] /\ ret' = [ret EXCEPT ![t] = Pending]
  /\ offset' = [offset EXCEPT ![t] = 0] /\ want' = [want EXCEPT ![t] = 0]
  /\ moved' = [moved EXCEPT ![t] = <<>>]
  /\ seen' = [seen EXCEPT ![t] = Promise!Nothing]
  /\ UNCHANGED <<lesson, shared, buffer_lock, content>>

ReadStep(t) ==
  \/ ReadEof(t) \/ ReadBegin(t) \/ ReadCopyByte(t) \/ ReadFault(t) \/ ReadDone(t)
  \/ ToUser(t)

WriteStep(t) == FromUser(t) \/ WriteCopyByte(t) \/ WriteFault(t) \/ WriteDone(t)

Progress(t) ==
  ReadStep(t) \/ WriteStep(t) \/ Unlock(t) \/ LockInterrupted(t) \/ Return(t)

Next == \E t \in Tasks : Call(t) \/ Lock(t) \/ Progress(t)

Spec == Init /\ [][Next]_vars

\* Tasks are scheduled; the mutex and the spinlock queue their waiters.
Fairness == \A t \in Tasks : WF_vars(Progress(t)) /\ SF_vars(Lock(t))

FairSpec == Spec /\ Fairness

-----------------------------------------------------------------------------
(* Properties *)

Labels == {"idle", "lock", "from_user", "check", "copy_out", "copy_in", "unlock",
           "to_user", "return"}

Statuses  == {"pending", "ok", "EFAULT", "ERESTARTSYS"}
Message   == Seq(Bytes \cup {Nul})
Arguments == [op : {"none", "read", "write"}, count : Nat, data : Seq(Bytes)]
Outcome   == [status : Statuses, count : 0..(BUFFER_SIZE - 1), data : Message]

TypeOK ==
  /\ lesson \in Lessons
  /\ device_buffer \in [1..BUFFER_SIZE -> Bytes \cup {Nul}]
  /\ device_size \in 0..(BUFFER_SIZE - 1)
  /\ buffer_lock \in Tasks \cup {None}
  /\ pc \in [Tasks -> Labels]
  /\ call \in [Tasks -> Arguments] /\ ret \in [Tasks -> Outcome]
  /\ f_pos \in [Tasks -> 0..(BUFFER_SIZE - 1)]
  /\ offset \in [Tasks -> 0..(BUFFER_SIZE - 1)]
  /\ want \in [Tasks -> 0..(BUFFER_SIZE - 1)]
  /\ moved \in [Tasks -> Message]
  /\ content \in Message /\ Len(content) < BUFFER_SIZE
  /\ seen \in [Tasks -> Seq(Message)]

\* While nobody is between check or copy and the unlock, the buffer holds exactly
\* the document: no length of one text with bytes of another is left behind.
Coherent ==
  (\A t \in Tasks : pc[t] \notin {"check", "copy_out", "copy_in"}) =>
    device_size = Len(content) /\ content = SubSeq(device_buffer, 1, device_size)

\* All three devices are a document: reads are never torn, a failed read can be
\* repeated, only a write that copies in place can harm what was there.
IsDocument == Promise!Spec

\* A device that copies to an array of its own first (lesson 06) loses nothing to
\* a bad address.
SpinlockIsRobust == [][lesson = "06" => Promise!RobustNext]_(Promise!documentVars)

\* Every call returns, failed copies and signals included.
CallsReturn == \A t \in Tasks : (pc[t] # "idle") ~> (pc[t] = "idle")
=============================================================================
