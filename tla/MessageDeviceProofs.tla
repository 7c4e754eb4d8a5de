------------------------- MODULE MessageDeviceProofs -------------------------
(***************************************************************************)
(* Proofs about MessageDevice, the device of lesson 07 or of lesson 08,    *)
(* for any readers, writers, event loops, messages and buffer size: the    *)
(* mutex is given back on every path, the buffer is coherent, nobody       *)
(* sleeps through a message, POLLIN holds until the message is read, and   *)
(* the device is a mailbox for read(), non-blocking read() and poll().     *)
(*                                                                         *)
(* LockOwned to Copying are about the buffer and its mutex; Polling ties   *)
(* the poll tables to the places of the pollers, and what they have been   *)
(* told to the flag, which .poll reads without the mutex.                  *)
(***************************************************************************)
EXTENDS MessageDevice, SequenceTheorems, TLAPS

WaitLabels == {"wait_event", "prepare", "recheck", "recheck_signalled", "schedule"}
Queued     == {"poll_mask", "poll_schedule", "poll_freewait"}
Reads      == {"read", "read_nonblock"}

Roles ==
  \A t \in Tasks :
    /\ pc[t] = "idle" => call[t] = Promise!NoCall
    /\ pc[t] # "idle" => call[t].op # "none"
    /\ pc[t] \in WaitLabels => call[t].op = "read"
    /\ pc[t] \in {"read_zero", "read_lock", "check", "copy_out"} => call[t].op \in Reads
    /\ pc[t] \in {"write_zero", "write_lock", "copy_in", "wake"} => call[t].op = "write"
    /\ pc[t] \in Queued \cup {"poll_wait"} => call[t].op = "poll"
    /\ call[t].op = "read" => t \in Readers
    /\ call[t].op = "poll" => t \in Pollers
    /\ call[t].op = "write" => t \in Writers /\ call[t].count = Len(call[t].data)
    /\ pc[t] \in {"read_zero", "write_zero"} => call[t].count = 0
    /\ pc[t] = "read_zero" => Lesson = "08"
    /\ pc[t] \in {"write_lock", "copy_in"} => call[t].count # 0

Answered == {"unlock", "wake", "poll_freewait", "return"}

Replies ==
  \A t \in Tasks :
    /\ pc[t] \notin Answered => ret[t] = Promise!Pending
    /\ pc[t] \in Answered => ret[t].status # "pending"
    /\ pc[t] = "wake" => ret[t].status = "ok"

\* The buffer holds the message in slot, but for the bytes that a write() in
\* progress has already overwritten; the flag is right at any time.
Buffer ==
  /\ data_ready <=> slot # <<>>
  /\ device_size = Len(slot)
  /\ \A i \in 1..device_size :
       \/ device_buffer[i] = slot[i]
       \/ \E w \in Tasks : pc[w] = "copy_in" /\ i <= Len(moved[w])

Copying ==
  \A t \in Tasks :
    /\ pc[t] = "copy_out" =>
         /\ data_ready /\ device_size <= call[t].count
         /\ Len(moved[t]) <= device_size
         /\ \A i \in 1..Len(moved[t]) : moved[t][i] = slot[i]
    /\ pc[t] = "copy_in" =>
         /\ Len(moved[t]) <= Len(Promise!Clip(call[t].data))
         /\ \A i \in 1..Len(moved[t]) : device_buffer[i] = Promise!Clip(call[t].data)[i]
    /\ pc[t] \notin Answered \cup {"copy_in", "copy_out"} => moved[t] = <<>>

Polling ==
  /\ \A t \in Pollers : t \in poll_queue <=> pc[t] \in Queued
  /\ seen # {} => data_ready

IInv ==
  /\ TypeOK /\ LockOwned /\ Roles /\ Replies /\ Buffer /\ Copying /\ Polling
  /\ NoLostWakeup

-----------------------------------------------------------------------------
(* Lemmas on tasks, messages, calls and outcomes *)

LEMMA TaskFacts ==
  /\ Readers \subseteq Tasks /\ Writers \subseteq Tasks /\ Pollers \subseteq Tasks
  /\ Consumers \subseteq Tasks /\ Dev!Tasks = Tasks /\ Consumers = Readers \cup Pollers
  /\ \A t \in Pollers : t \notin Readers /\ t \notin Writers
  /\ None \notin Tasks
  BY PollersAssumption, NoneAssumption DEF Tasks, Consumers, Dev!Tasks

\* Two tasks are never inside at the same time.
LEMMA OneInside ==
  ASSUME LockOwned, NEW t \in Tasks, NEW u \in Tasks, pc[t] \in Locked, pc[u] \in Locked
  PROVE  t = u
  BY DEF LockOwned

\* What this module and WaitQueueDevice say of outcomes and messages is the same.
LEMMA SamePromise ==
  /\ \A code : Dev!Promise!Failed(code) = Promise!Failed(code)
  /\ \A n, m : Dev!Promise!Reply("ok", n, m) = Promise!Reply("ok", n, m)
  /\ Dev!Pending = Promise!Pending /\ Dev!NoCall = Promise!NoCall
  /\ \A data : Dev!Clip(data) = Promise!Clip(data)
  /\ \A old, new, k : Dev!Promise!Overlay(old, new, k) = Promise!Overlay(old, new, k)
  /\ Dev!Promise!Reads = Reads /\ Promise!Reads = Reads
<1>1. /\ \A code : Dev!Promise!Failed(code) = Promise!Failed(code)
      /\ \A n, m : Dev!Promise!Reply("ok", n, m) = Promise!Reply("ok", n, m)
      /\ Dev!Pending = Promise!Pending /\ Dev!NoCall = Promise!NoCall
  BY DEF Dev!Promise!Failed, Promise!Failed, Dev!Promise!Reply, Promise!Reply,
     Dev!Pending, Dev!Promise!Pending, Promise!Pending, Dev!NoCall, Dev!Promise!NoCall,
     Promise!NoCall
<1>2. \A data : Dev!Clip(data) = Promise!Clip(data)
  BY DEF Dev!Clip, Dev!Promise!Clip, Promise!Clip, Dev!Promise!Min2, Promise!Min2
<1>3. \A old, new, k : Dev!Promise!Overlay(old, new, k) = Promise!Overlay(old, new, k)
  BY DEF Dev!Promise!Overlay, Promise!Overlay
<1> QED  BY <1>1, <1>2, <1>3 DEF Dev!Promise!Reads, Promise!Reads, Reads

\* What write() keeps of the bytes it is offered (si_poll08.c:220-222).
LEMMA ClipFacts ==
  ASSUME NEW data \in Seq(Bytes)
  PROVE  /\ Promise!Clip(data) \in Message
         /\ Len(Promise!Clip(data)) \in 0..(BUFFER_SIZE - 1)
         /\ Len(data) # 0 => Promise!Clip(data) # <<>>
         /\ \A i \in 1..Len(Promise!Clip(data)) :
              Promise!Clip(data)[i] \in Bytes \cup {Nul}
<1> DEFINE n == Promise!Min2(Len(data), BUFFER_SIZE - 1)
<1>1. n \in 0..Len(data) /\ n \in 0..(BUFFER_SIZE - 1) /\ (Len(data) # 0 => n # 0)
  BY BufferAssumption DEF Promise!Min2
<1> HIDE DEF n
<1>2. Promise!Clip(data) = SubSeq(data, 1, n)
  BY DEF Promise!Clip, n
<1>3. Promise!Clip(data) \in Seq(Bytes) /\ Len(Promise!Clip(data)) = n
  BY <1>1, <1>2
<1> QED  BY <1>1, <1>3 DEF Message

\* What a write that gives up after k bytes leaves of the message that waited.
LEMMA OverlayFacts ==
  ASSUME NEW old \in Message, NEW new \in Message, NEW k \in Nat, k <= Len(new)
  PROVE  /\ Promise!Overlay(old, new, k) \in Message
         /\ Len(Promise!Overlay(old, new, k)) = Len(old)
         /\ \A i \in 1..Len(old) :
              Promise!Overlay(old, new, k)[i] = IF i <= k THEN new[i]
                                                ELSE IF i <= Len(new) THEN Nul ELSE old[i]
<1>1. \A i \in 1..Len(old) :
        (IF i <= k THEN new[i] ELSE IF i <= Len(new) THEN Nul ELSE old[i])
          \in Bytes \cup {Nul}
  BY DEF Message
<1>2. Len(old) \in Nat
  BY DEF Message
<1> QED  BY <1>1, <1>2 DEF Promise!Overlay, Message

\* A message is determined by its length and its bytes.
LEMMA SameMessage ==
  ASSUME NEW m \in Message, NEW n \in Message, Len(m) = Len(n),
         \A i \in 1..Len(m) : m[i] = n[i]
  PROVE  m = n
  BY SeqEqual DEF Message

\* The message without bytes is the empty sequence.
LEMMA EmptyMessage ==
  ASSUME NEW m \in Message
  PROVE  Len(m) \in Nat /\ (m = <<>> <=> Len(m) = 0)
  BY EmptySeq DEF Message

\* A message one byte longer.
LEMMA LongerMessage ==
  ASSUME NEW m \in Message, NEW byte \in Bytes \cup {Nul}
  PROVE  /\ Append(m, byte) \in Message /\ Len(m) \in Nat
         /\ Len(Append(m, byte)) = Len(m) + 1
         /\ \A i \in 1..Len(m) : Append(m, byte)[i] = m[i]
         /\ Append(m, byte)[Len(m) + 1] = byte
  BY AppendProperties DEF Message

\* The types of the calls.
LEMMA CallTypes ==
  /\ Promise!NoCall \in Arguments /\ Promise!NoCall.op = "none"
  /\ \A c \in ReadCalls \cup LoopReads : c \in Arguments /\ c.op \in Reads
  /\ \A c \in LoopReads : c.op = "read_nonblock"
  /\ Call("poll", 0) \in Arguments /\ Call("poll", 0).op = "poll"
  /\ \A c \in Dev!WriteCalls : c \in Arguments /\ c.op = "write" /\ c.count = Len(c.data)
<1>0. <<>> \in Seq(Bytes)
  OBVIOUS
<1>1. /\ Promise!NoCall \in Arguments /\ Promise!NoCall.op = "none"
      /\ Call("poll", 0) \in Arguments /\ Call("poll", 0).op = "poll"
  BY <1>0 DEF Promise!NoCall, Arguments, Call
<1>2. ASSUME NEW op \in Reads, NEW n \in Nat
      PROVE  Call(op, n) \in Arguments /\ Call(op, n).op = op
  BY <1>0 DEF Call, Arguments, Reads
<1>3. ASSUME NEW c \in ReadCalls PROVE c \in Arguments /\ c.op \in Reads
  <2>1. PICK op \in Reads, n \in ReadCounts : c = Call(op, n)
    BY DEF ReadCalls, Reads
  <2> QED  BY <2>1, <1>2, CallAssumption
<1>4. ASSUME NEW c \in LoopReads PROVE c \in Arguments /\ c.op = "read_nonblock"
  <2>1. c = Call("read_nonblock", BUFFER_SIZE - 1) /\ BUFFER_SIZE - 1 \in Nat
    BY BufferAssumption DEF LoopReads
  <2> QED  BY <2>1, <1>2 DEF Reads
<1>5. ASSUME NEW c \in Dev!WriteCalls
      PROVE  c \in Arguments /\ c.op = "write" /\ c.count = Len(c.data)
  BY CallAssumption DEF Dev!WriteCalls, Arguments
<1> QED  BY <1>1, <1>3, <1>4, <1>5 DEF Reads

\* The types of the outcomes.
LEMMA OutcomeTypes ==
  /\ <<>> \in Message
  /\ Promise!Pending \in Outcome /\ Promise!Pending.status = "pending"
  /\ \A code \in {"EAGAIN", "EMSGSIZE", "EFAULT", "ERESTARTSYS"} :
       Promise!Failed(code) \in Outcome /\ Promise!Failed(code).status = code
  /\ \A n \in Nat, m \in Message :
       /\ Promise!Reply("ok", n, m) \in Outcome
       /\ Promise!Reply("ok", n, m).status = "ok"
  /\ \A n \in {0, 1} : /\ Promise!Reply("ok", n, <<>>) \in Outcome
                       /\ Promise!Reply("ok", n, <<>>).status = "ok"
<1>1. <<>> \in Message
  BY DEF Message
<1> QED
  BY <1>1 DEF Promise!Pending, Promise!Failed, Promise!Reply, Outcome, Statuses,
     Dev!Statuses

-----------------------------------------------------------------------------
(* The invariant is inductive *)

\* The module is loaded with an empty mailbox, and nobody is in it.
LEMMA InitIInv == Init => IInv
<1> SUFFICES ASSUME Init PROVE IInv
  OBVIOUS
<1>1. /\ device_buffer = [i \in 1..BUFFER_SIZE |-> Nul]
      /\ device_size = 0 /\ data_ready = FALSE /\ buffer_lock = None /\ read_queue = {}
      /\ pc = [t \in Tasks |-> "idle"] /\ call = [t \in Tasks |-> Promise!NoCall]
      /\ moved = [t \in Tasks |-> <<>>] /\ ret = [t \in Tasks |-> Promise!Pending]
      /\ signalled = {} /\ slot = <<>>
      /\ poll_queue = {} /\ triggered = {} /\ timed_out = {} /\ revents = {} /\ seen = {}
  BY TaskFacts, SamePromise DEF Init, Dev!Init
<1>2. TypeOK
  <2>1. device_size \in 0..(BUFFER_SIZE - 1)
    BY <1>1, BufferAssumption
  <2>2. device_buffer \in [1..BUFFER_SIZE -> Bytes \cup {Nul}]
    BY <1>1
  <2>3. "idle" \in Labels
    BY DEF Labels, Dev!Labels
  <2>4. /\ call \in [Tasks -> Arguments] /\ ret \in [Tasks -> Outcome]
        /\ moved \in [Tasks -> Message] /\ slot \in Message
    BY <1>1, CallTypes, OutcomeTypes
  <2> QED  BY <1>1, <2>1, <2>2, <2>3, <2>4 DEF TypeOK
<1>3. LockOwned /\ Roles /\ Replies
  BY <1>1, TaskFacts, CallTypes
  DEF LockOwned, Locked, Roles, WaitLabels, Queued, Reads, Replies, Answered
<1>4. Buffer /\ Copying
  BY <1>1 DEF Buffer, Copying, Answered
<1>5. Polling /\ NoLostWakeup
  BY <1>1, TaskFacts DEF Polling, Queued, NoLostWakeup
<1> QED  BY <1>2, <1>3, <1>4, <1>5 DEF IInv

\* Steps of others leave the device as it is.
LEMMA StutterIInv == IInv /\ UNCHANGED vars => IInv'
<1> SUFFICES ASSUME IInv, UNCHANGED vars PROVE IInv'
  OBVIOUS
<1> USE DEF IInv, vars, devVars, pollVars
<1>1. TypeOK' /\ LockOwned' /\ Roles' /\ Replies'
  BY DEF TypeOK, LockOwned, Roles, Replies
<1>2. Buffer' /\ Copying' /\ Polling' /\ NoLostWakeup'
  BY DEF Buffer, Copying, Polling, NoLostWakeup
<1> QED  BY <1>1, <1>2

\* One case per action, and in it first what it does, then one step per part of IInv.
LEMMA NextIInv == IInv /\ Next => IInv'
<1> SUFFICES ASSUME IInv, NEW t \in Tasks,
                    \/ ReadWaits(t) \/ ReadLocks(t) \/ WriteCall(t) \/ PollCall(t)
                    \/ Signal(t) \/ PollTimeout(t) \/ AcquireLock(t) \/ Progress(t)
             PROVE  IInv'
  BY DEF Next
<1> USE DEF IInv
<1>0. CASE ReadWaits(t)
  <2>a. /\ pc[t] = "idle" /\ t \in Readers
        /\ \E c \in Arguments : c.op = "read" /\ call' = [call EXCEPT ![t] = c]
        /\ pc' = [pc EXCEPT ![t] = "wait_event"]
        /\ UNCHANGED <<device_buffer, device_size, data_ready, buffer_lock, read_queue,
                       moved, ret, signalled, slot, poll_queue, triggered, timed_out,
                       revents, seen>>
    <3>1. \A n \in ReadCounts : Call("read", n) \in Arguments /\ Call("read", n).op = "read"
      BY CallTypes DEF ReadCalls, Call
    <3> QED  BY <1>0, <3>1 DEF ReadWaits, Enter, Dev!GoTo, pollVars, Dev!shared
  <2>1. TypeOK'
    BY <2>a DEF TypeOK, Labels, Dev!Labels, Dev!ReadLabels, Dev!WriteLabels
  <2>2. LockOwned'
    BY <2>a, TaskFacts DEF LockOwned, Locked, TypeOK
  <2>3. Roles'
    BY <2>a, CallTypes DEF Roles, WaitLabels, Queued, Reads, TypeOK
  <2>4. Replies'
    BY <2>a DEF Replies, Answered, TypeOK
  <2>5. Buffer'
    BY <2>a DEF Buffer, TypeOK
  <2>6. Copying'
    BY <2>a DEF Copying, Answered, TypeOK
  <2>7. Polling'
    BY <2>a, TaskFacts DEF Polling, Queued, TypeOK
  <2>8. NoLostWakeup'
    BY <2>a, TaskFacts DEF NoLostWakeup, TypeOK
  <2> QED  BY <2>1, <2>2, <2>3, <2>4, <2>5, <2>6, <2>7, <2>8 DEF IInv
<1>1. CASE ReadLocks(t)
  <2>a. /\ pc[t] = "idle" /\ Lesson = "08"
        /\ \E c \in Arguments :
             /\ c.op \in Reads /\ (c.op = "read" => t \in Readers)
             /\ call' = [call EXCEPT ![t] = c]
             /\ pc' = [pc EXCEPT ![t] = IF c.count = 0 THEN "read_zero" ELSE "read_lock"]
        /\ UNCHANGED <<device_buffer, device_size, data_ready, buffer_lock, read_queue,
                       moved, ret, signalled, slot, poll_queue, triggered, timed_out,
                       revents, seen>>
    BY <1>1, CallTypes DEF ReadLocks, ReadEntry, Enter, Dev!GoTo, pollVars, Dev!shared
  <2>1. TypeOK'
    BY <2>a DEF TypeOK, Labels, Dev!Labels, Dev!ReadLabels, Dev!WriteLabels
  <2>2. LockOwned'
    BY <2>a, TaskFacts DEF LockOwned, Locked, TypeOK
  <2>3. Roles'
    BY <2>a, CallTypes DEF Roles, WaitLabels, Queued, Reads, TypeOK
  <2>4. Replies'
    BY <2>a DEF Replies, Answered, TypeOK
  <2>5. Buffer'
    BY <2>a DEF Buffer, TypeOK
  <2>6. Copying'
    BY <2>a DEF Copying, Answered, TypeOK
  <2>7. Polling'
    BY <2>a, TaskFacts DEF Polling, Queued, TypeOK
  <2>8. NoLostWakeup'
    BY <2>a, TaskFacts DEF NoLostWakeup, TypeOK
  <2> QED  BY <2>1, <2>2, <2>3, <2>4, <2>5, <2>6, <2>7, <2>8 DEF IInv
<1>2. CASE ReadZero(t)
  <2>a. /\ pc[t] = "read_zero"
        /\ pc' = [pc EXCEPT ![t] = "return"]
        /\ ret' = [ret EXCEPT ![t] = Promise!Reply("ok", 0, <<>>)]
        /\ UNCHANGED <<device_buffer, device_size, data_ready, buffer_lock, read_queue,
                       call, moved, signalled, slot, poll_queue, triggered, timed_out,
                       revents, seen>>
    BY <1>2, SamePromise DEF ReadZero, Answer, Dev!Answer, Dev!GoTo, pollVars, Dev!shared
  <2>1. TypeOK'
    BY <2>a, OutcomeTypes DEF TypeOK, Labels, Dev!Labels, Dev!ReadLabels, Dev!WriteLabels
  <2>2. LockOwned'
    BY <2>a, TaskFacts DEF LockOwned, Locked, TypeOK
  <2>3. Roles'
    BY <2>a DEF Roles, WaitLabels, Queued, Reads, TypeOK
  <2>4. Replies'
    BY <2>a, OutcomeTypes DEF Replies, Answered, TypeOK
  <2>5. Buffer'
    BY <2>a DEF Buffer, TypeOK
  <2>6. Copying'
    BY <2>a DEF Copying, Answered, TypeOK
  <2>7. Polling'
    BY <2>a, TaskFacts DEF Polling, Queued, TypeOK
  <2>8. NoLostWakeup'
    BY <2>a, TaskFacts DEF NoLostWakeup, TypeOK
  <2> QED  BY <2>1, <2>2, <2>3, <2>4, <2>5, <2>6, <2>7, <2>8 DEF IInv
<1>3. CASE ReadAgain(t)
  <2>a. /\ pc[t] = "check" /\ buffer_lock' = None
        /\ pc' = [pc EXCEPT ![t] = "return"]
        /\ ret' = [ret EXCEPT ![t] = Promise!Failed("EAGAIN")]
        /\ UNCHANGED <<device_buffer, device_size, data_ready, read_queue, call, moved,
                       signalled, slot, poll_queue, triggered, timed_out, revents, seen>>
    BY <1>3, SamePromise
       DEF ReadAgain, Dev!Unlock, Answer, Dev!Answer, Dev!GoTo, pollVars, Dev!shared
  <2>1. TypeOK'
    BY <2>a, OutcomeTypes DEF TypeOK, Labels, Dev!Labels, Dev!ReadLabels, Dev!WriteLabels
  <2>2. LockOwned'
    BY <2>a, TaskFacts DEF LockOwned, Locked, TypeOK
  <2>3. Roles'
    BY <2>a DEF Roles, WaitLabels, Queued, Reads, TypeOK
  <2>4. Replies'
    BY <2>a, OutcomeTypes DEF Replies, Answered, TypeOK
  <2>5. Buffer'
    BY <2>a DEF Buffer, TypeOK
  <2>6. Copying'
    BY <2>a DEF Copying, Answered, TypeOK
  <2>7. Polling'
    BY <2>a, TaskFacts DEF Polling, Queued, TypeOK
  <2>8. NoLostWakeup'
    BY <2>a, TaskFacts DEF NoLostWakeup, TypeOK
  <2> QED  BY <2>1, <2>2, <2>3, <2>4, <2>5, <2>6, <2>7, <2>8 DEF IInv
<1>4. CASE call[t].op = "read" /\ Dev!ReadRetry(t) /\ UNCHANGED pollVars
  <2>a. /\ pc[t] = "check" /\ buffer_lock' = None /\ call[t].op = "read"
        /\ pc' = [pc EXCEPT ![t] = "wait_event"]
        /\ UNCHANGED <<device_buffer, device_size, data_ready, read_queue, call, moved,
                       ret, signalled, slot, poll_queue, triggered, timed_out, revents,
                       seen>>
    BY <1>4, SamePromise DEF Dev!ReadRetry, Dev!Unlock, Dev!GoTo, pollVars, Dev!shared
  <2>1. TypeOK'
    BY <2>a DEF TypeOK, Labels, Dev!Labels, Dev!ReadLabels, Dev!WriteLabels
  <2>2. LockOwned'
    BY <2>a, TaskFacts DEF LockOwned, Locked, TypeOK
  <2>3. Roles'
    BY <2>a DEF Roles, WaitLabels, Queued, Reads, TypeOK
  <2>4. Replies'
    BY <2>a DEF Replies, Answered, TypeOK
  <2>5. Buffer'
    BY <2>a DEF Buffer, TypeOK
  <2>6. Copying'
    BY <2>a DEF Copying, Answered, TypeOK
  <2>7. Polling'
    BY <2>a, TaskFacts DEF Polling, Queued, TypeOK
  <2>8. NoLostWakeup'
    BY <2>a, TaskFacts DEF NoLostWakeup, TypeOK
  <2> QED  BY <2>1, <2>2, <2>3, <2>4, <2>5, <2>6, <2>7, <2>8 DEF IInv
<1>5. CASE Dev!WaitEvent(t) /\ UNCHANGED pollVars
  <2>a. /\ pc[t] = "wait_event"
        /\ pc' = [pc EXCEPT ![t] = IF data_ready THEN "read_lock" ELSE "prepare"]
        /\ UNCHANGED <<device_buffer, device_size, data_ready, buffer_lock, read_queue,
                       call, moved, ret, signalled, slot, poll_queue, triggered,
                       timed_out, revents, seen>>
    BY <1>5, SamePromise DEF Dev!WaitEvent, Dev!GoTo, pollVars, Dev!shared
  <2>1. TypeOK'
    BY <2>a DEF TypeOK, Labels, Dev!Labels, Dev!ReadLabels, Dev!WriteLabels
  <2>2. LockOwned'
    BY <2>a, TaskFacts DEF LockOwned, Locked, TypeOK
  <2>3. Roles'
    BY <2>a DEF Roles, WaitLabels, Queued, Reads, TypeOK
  <2>4. Replies'
    BY <2>a DEF Replies, Answered, TypeOK
  <2>5. Buffer'
    BY <2>a DEF Buffer, TypeOK
  <2>6. Copying'
    BY <2>a DEF Copying, Answered, TypeOK
  <2>7. Polling'
    BY <2>a, TaskFacts DEF Polling, Queued, TypeOK
  <2>8. NoLostWakeup'
    BY <2>a, TaskFacts DEF NoLostWakeup, TypeOK
  <2> QED  BY <2>1, <2>2, <2>3, <2>4, <2>5, <2>6, <2>7, <2>8 DEF IInv
<1>6. CASE Dev!Prepare(t) /\ UNCHANGED pollVars
  <2>a. /\ pc[t] = "prepare"
        /\ \/ /\ read_queue' = read_queue \ {t}
              /\ pc' = [pc EXCEPT ![t] = "recheck_signalled"]
           \/ /\ read_queue' = read_queue \cup {t}
              /\ pc' = [pc EXCEPT ![t] = "recheck"]
        /\ UNCHANGED <<device_buffer, device_size, data_ready, buffer_lock, call, moved,
                       ret, signalled, slot, poll_queue, triggered, timed_out, revents,
                       seen>>
    BY <1>6, SamePromise DEF Dev!Prepare, Dev!GoTo, pollVars, Dev!shared
  <2>b. t \in Readers
    BY <2>a DEF Roles, WaitLabels
  <2>1. TypeOK'
    BY <2>a, <2>b DEF TypeOK, Labels, Dev!Labels, Dev!ReadLabels, Dev!WriteLabels
  <2>2. LockOwned'
    BY <2>a, TaskFacts DEF LockOwned, Locked, TypeOK
  <2>3. Roles'
    BY <2>a DEF Roles, WaitLabels, Queued, Reads, TypeOK
  <2>4. Replies'
    BY <2>a DEF Replies, Answered, TypeOK
  <2>5. Buffer'
    BY <2>a DEF Buffer, TypeOK
  <2>6. Copying'
    BY <2>a DEF Copying, Answered, TypeOK
  <2>7. Polling'
    BY <2>a, TaskFacts DEF Polling, Queued, TypeOK
  <2>8. NoLostWakeup'
    BY <2>a, TaskFacts DEF NoLostWakeup, TypeOK
  <2> QED  BY <2>1, <2>2, <2>3, <2>4, <2>5, <2>6, <2>7, <2>8 DEF IInv
<1>7. CASE Dev!Recheck(t) /\ UNCHANGED pollVars
  <2>a. /\ pc[t] = "recheck"
        /\ \/ /\ data_ready /\ read_queue' = read_queue \ {t}
              /\ pc' = [pc EXCEPT ![t] = "read_lock"]
           \/ /\ ~data_ready /\ UNCHANGED read_queue
              /\ pc' = [pc EXCEPT ![t] = "schedule"]
        /\ UNCHANGED <<device_buffer, device_size, data_ready, buffer_lock, call, moved,
                       ret, signalled, slot, poll_queue, triggered, timed_out, revents,
                       seen>>
    BY <1>7, SamePromise DEF Dev!Recheck, Dev!GoTo, pollVars, Dev!shared
  <2>1. TypeOK'
    BY <2>a DEF TypeOK, Labels, Dev!Labels, Dev!ReadLabels, Dev!WriteLabels
  <2>2. LockOwned'
    BY <2>a, TaskFacts DEF LockOwned, Locked, TypeOK
  <2>3. Roles'
    BY <2>a DEF Roles, WaitLabels, Queued, Reads, TypeOK
  <2>4. Replies'
    BY <2>a DEF Replies, Answered, TypeOK
  <2>5. Buffer'
    BY <2>a DEF Buffer, TypeOK
  <2>6. Copying'
    BY <2>a DEF Copying, Answered, TypeOK
  <2>7. Polling'
    BY <2>a, TaskFacts DEF Polling, Queued, TypeOK
  <2>8. NoLostWakeup'
    BY <2>a, TaskFacts DEF NoLostWakeup, TypeOK
  <2> QED  BY <2>1, <2>2, <2>3, <2>4, <2>5, <2>6, <2>7, <2>8 DEF IInv
<1>8. CASE Dev!RecheckSignalled(t) /\ UNCHANGED pollVars
  <2>a. /\ pc[t] = "recheck_signalled"
        /\ \/ pc' = [pc EXCEPT ![t] = "read_lock"] /\ UNCHANGED ret
           \/ /\ pc' = [pc EXCEPT ![t] = "return"]
              /\ ret' = [ret EXCEPT ![t] = Promise!Failed("ERESTARTSYS")]
        /\ UNCHANGED <<device_buffer, device_size, data_ready, buffer_lock, read_queue,
                       call, moved, signalled, slot, poll_queue, triggered, timed_out,
                       revents, seen>>
    BY <1>8, SamePromise
       DEF Dev!RecheckSignalled, Answer, Dev!Answer, Dev!GoTo, pollVars, Dev!shared
  <2>1. TypeOK'
    BY <2>a, OutcomeTypes DEF TypeOK, Labels, Dev!Labels, Dev!ReadLabels, Dev!WriteLabels
  <2>2. LockOwned'
    BY <2>a, TaskFacts DEF LockOwned, Locked, TypeOK
  <2>3. Roles'
    BY <2>a DEF Roles, WaitLabels, Queued, Reads, TypeOK
  <2>4. Replies'
    BY <2>a, OutcomeTypes DEF Replies, Answered, TypeOK
  <2>5. Buffer'
    BY <2>a DEF Buffer, TypeOK
  <2>6. Copying'
    BY <2>a DEF Copying, Answered, TypeOK
  <2>7. Polling'
    BY <2>a, TaskFacts DEF Polling, Queued, TypeOK
  <2>8. NoLostWakeup'
    BY <2>a, TaskFacts DEF NoLostWakeup, TypeOK
  <2> QED  BY <2>1, <2>2, <2>3, <2>4, <2>5, <2>6, <2>7, <2>8 DEF IInv
<1>9. CASE Dev!Schedule(t) /\ UNCHANGED pollVars
  <2>a. /\ pc[t] = "schedule"
        /\ pc' = [pc EXCEPT ![t] = "prepare"]
        /\ UNCHANGED <<device_buffer, device_size, data_ready, buffer_lock, read_queue,
                       call, moved, ret, signalled, slot, poll_queue, triggered,
                       timed_out, revents, seen>>
    BY <1>9, SamePromise DEF Dev!Schedule, Dev!GoTo, pollVars, Dev!shared
  <2>1. TypeOK'
    BY <2>a DEF TypeOK, Labels, Dev!Labels, Dev!ReadLabels, Dev!WriteLabels
  <2>2. LockOwned'
    BY <2>a, TaskFacts DEF LockOwned, Locked, TypeOK
  <2>3. Roles'
    BY <2>a DEF Roles, WaitLabels, Queued, Reads, TypeOK
  <2>4. Replies'
    BY <2>a DEF Replies, Answered, TypeOK
  <2>5. Buffer'
    BY <2>a DEF Buffer, TypeOK
  <2>6. Copying'
    BY <2>a DEF Copying, Answered, TypeOK
  <2>7. Polling'
    BY <2>a, TaskFacts DEF Polling, Queued, TypeOK
  <2>8. NoLostWakeup'
    BY <2>a, TaskFacts DEF NoLostWakeup, TypeOK
  <2> QED  BY <2>1, <2>2, <2>3, <2>4, <2>5, <2>6, <2>7, <2>8 DEF IInv
<1>10. CASE Dev!ReadTooSmall(t) /\ UNCHANGED pollVars
  <2>a. /\ pc[t] = "check"
        /\ pc' = [pc EXCEPT ![t] = "unlock"]
        /\ ret' = [ret EXCEPT ![t] = Promise!Failed("EMSGSIZE")]
        /\ UNCHANGED <<device_buffer, device_size, data_ready, buffer_lock, read_queue,
                       call, moved, signalled, slot, poll_queue, triggered, timed_out,
                       revents, seen>>
    BY <1>10, SamePromise
       DEF Dev!ReadTooSmall, Answer, Dev!Answer, Dev!GoTo, pollVars, Dev!shared
  <2>1. TypeOK'
    BY <2>a, OutcomeTypes DEF TypeOK, Labels, Dev!Labels, Dev!ReadLabels, Dev!WriteLabels
  <2>2. LockOwned'
    BY <2>a, TaskFacts DEF LockOwned, Locked, TypeOK
  <2>3. Roles'
    BY <2>a DEF Roles, WaitLabels, Queued, Reads, TypeOK
  <2>4. Replies'
    BY <2>a, OutcomeTypes DEF Replies, Answered, TypeOK
  <2>5. Buffer'
    BY <2>a DEF Buffer, TypeOK
  <2>6. Copying'
    BY <2>a DEF Copying, Answered, TypeOK
  <2>7. Polling'
    BY <2>a, TaskFacts DEF Polling, Queued, TypeOK
  <2>8. NoLostWakeup'
    BY <2>a, TaskFacts DEF NoLostWakeup, TypeOK
  <2> QED  BY <2>1, <2>2, <2>3, <2>4, <2>5, <2>6, <2>7, <2>8 DEF IInv
<1>11. CASE Dev!ReadFits(t) /\ UNCHANGED pollVars
  <2>a. /\ pc[t] = "check" /\ data_ready /\ call[t].count >= device_size
        /\ pc' = [pc EXCEPT ![t] = "copy_out"]
        /\ UNCHANGED <<device_buffer, device_size, data_ready, buffer_lock, read_queue,
                       call, moved, ret, signalled, slot, poll_queue, triggered,
                       timed_out, revents, seen>>
    BY <1>11, SamePromise DEF Dev!ReadFits, Dev!GoTo, pollVars, Dev!shared
  <2>c. moved[t] = <<>>
    BY <2>a DEF Copying, Answered
  <2>d. Len(<<>>) = 0
    OBVIOUS
  <2>e. device_size \in Nat /\ call[t].count \in Nat
    BY BufferAssumption DEF TypeOK, Arguments
  <2>f. device_size >= 0 /\ device_size <= call[t].count
    BY <2>a, <2>e
  <2>b. moved[t] = <<>> /\ Len(moved[t]) = 0 /\ device_size >= 0 /\ device_size <= call[t].count
    BY <2>c, <2>d, <2>f
  <2>1. TypeOK'
    BY <2>a DEF TypeOK, Labels, Dev!Labels, Dev!ReadLabels, Dev!WriteLabels
  <2>2. LockOwned'
    BY <2>a, TaskFacts DEF LockOwned, Locked, TypeOK
  <2>3. Roles'
    BY <2>a DEF Roles, WaitLabels, Queued, Reads, TypeOK
  <2>4. Replies'
    BY <2>a DEF Replies, Answered, TypeOK
  <2>5. Buffer'
    BY <2>a DEF Buffer, TypeOK
  <2>6. Copying'
    BY <2>a, <2>b DEF Copying, Answered, TypeOK
  <2>7. Polling'
    BY <2>a, TaskFacts DEF Polling, Queued, TypeOK
  <2>8. NoLostWakeup'
    BY <2>a, TaskFacts DEF NoLostWakeup, TypeOK
  <2> QED  BY <2>1, <2>2, <2>3, <2>4, <2>5, <2>6, <2>7, <2>8 DEF IInv
<1>12. CASE Dev!ReadCopyByte(t) /\ UNCHANGED pollVars
  <2>a. /\ pc[t] = "copy_out" /\ Len(moved[t]) < device_size
        /\ moved' = [moved EXCEPT ![t] = Append(@, device_buffer[Len(@) + 1])]
        /\ UNCHANGED <<device_buffer, device_size, data_ready, buffer_lock, read_queue,
                       pc, call, ret, signalled, slot, poll_queue, triggered, timed_out,
                       revents, seen>>
    BY <1>12, SamePromise DEF Dev!ReadCopyByte, Dev!GoTo, pollVars, Dev!shared
  <2> DEFINE i      == Len(moved[t]) + 1
             longer == Append(moved[t], device_buffer[i])
  <2>b. moved' = [moved EXCEPT ![t] = longer]
    BY <2>a
  <2>c. Len(moved[t]) \in Nat /\ i \in 1..device_size /\ i \in 1..BUFFER_SIZE
    BY <2>a, EmptyMessage, BufferAssumption DEF TypeOK
  <2>d. \A u \in Tasks \ {t} : pc[u] \notin {"copy_in", "copy_out"}
    BY <2>a, OneInside DEF Locked
  <2>e. device_buffer[i] = slot[i]
    BY <2>a, <2>c, <2>d DEF Buffer
  <2>f. /\ longer \in Message /\ Len(longer) = i
        /\ \A j \in 1..Len(moved[t]) : longer[j] = moved[t][j]
        /\ longer[i] = device_buffer[i]
    BY <2>c, LongerMessage DEF TypeOK
  <2> HIDE DEF longer
  <2>g. moved'[t] = longer /\ \A u \in Tasks \ {t} : moved'[u] = moved[u]
    BY <2>b DEF TypeOK
  <2>1. TypeOK'
    BY <2>a, <2>b, <2>f DEF TypeOK
  <2>2. LockOwned'
    BY <2>a DEF LockOwned
  <2>3. Roles'
    BY <2>a DEF Roles
  <2>4. Replies'
    BY <2>a DEF Replies
  <2>5. Buffer'
    BY <2>a, <2>d DEF Buffer
  <2>6. Copying'
    <3>1. ASSUME NEW j \in 1..i PROVE longer[j] = slot[j]
      <4>1. \A k \in 1..Len(moved[t]) : moved[t][k] = slot[k]
        BY <2>a DEF Copying
      <4>2. j = i \/ j \in 1..Len(moved[t])
        BY <2>c
      <4> HIDE DEF i
      <4> QED  BY <2>e, <2>f, <4>1, <4>2
    <3>2. Len(longer) <= device_size
      BY <2>c, <2>f
    <3>3. \A j \in 1..Len(moved'[t]) : moved'[t][j] = slot[j]
      BY <2>f, <2>g, <3>1
    <3> HIDE DEF i
    <3> QED  BY <2>a, <2>d, <2>g, <3>2, <3>3 DEF Copying
  <2>7. Polling'
    BY <2>a DEF Polling
  <2>8. NoLostWakeup'
    BY <2>a DEF NoLostWakeup
  <2> QED  BY <2>1, <2>2, <2>3, <2>4, <2>5, <2>6, <2>7, <2>8 DEF IInv
<1>13. CASE Dev!ReadFault(t) /\ UNCHANGED pollVars
  <2>a. /\ pc[t] = "copy_out"
        /\ pc' = [pc EXCEPT ![t] = "unlock"]
        /\ ret' = [ret EXCEPT ![t] = Promise!Failed("EFAULT")]
        /\ UNCHANGED <<device_buffer, device_size, data_ready, buffer_lock, read_queue,
                       call, moved, signalled, slot, poll_queue, triggered, timed_out,
                       revents, seen>>
    BY <1>13, SamePromise
       DEF Dev!ReadFault, Answer, Dev!Answer, Dev!GoTo, pollVars, Dev!shared
  <2>1. TypeOK'
    BY <2>a, OutcomeTypes DEF TypeOK, Labels, Dev!Labels, Dev!ReadLabels, Dev!WriteLabels
  <2>2. LockOwned'
    BY <2>a, TaskFacts DEF LockOwned, Locked, TypeOK
  <2>3. Roles'
    BY <2>a DEF Roles, WaitLabels, Queued, Reads, TypeOK
  <2>4. Replies'
    BY <2>a, OutcomeTypes DEF Replies, Answered, TypeOK
  <2>5. Buffer'
    BY <2>a DEF Buffer, TypeOK
  <2>6. Copying'
    BY <2>a DEF Copying, Answered, TypeOK
  <2>7. Polling'
    BY <2>a, TaskFacts DEF Polling, Queued, TypeOK
  <2>8. NoLostWakeup'
    BY <2>a, TaskFacts DEF NoLostWakeup, TypeOK
  <2> QED  BY <2>1, <2>2, <2>3, <2>4, <2>5, <2>6, <2>7, <2>8 DEF IInv
<1>14. CASE Dev!ReadUnlock(t) /\ UNCHANGED pollVars
  <2>a. /\ pc[t] = "unlock" /\ buffer_lock' = None /\ call[t].op \in Reads
        /\ pc' = [pc EXCEPT ![t] = "return"]
        /\ UNCHANGED <<device_buffer, device_size, data_ready, read_queue, call, moved,
                       ret, signalled, slot, poll_queue, triggered, timed_out, revents,
                       seen>>
    BY <1>14, SamePromise DEF Dev!ReadUnlock, Dev!Unlock, Dev!GoTo, pollVars, Dev!shared
  <2>b. call[t].op # "write"
    BY <2>a DEF Reads
  <2>1. TypeOK'
    BY <2>a DEF TypeOK, Labels, Dev!Labels, Dev!ReadLabels, Dev!WriteLabels
  <2>2. LockOwned'
    BY <2>a, TaskFacts DEF LockOwned, Locked, TypeOK
  <2>3. Roles'
    BY <2>a DEF Roles, WaitLabels, Queued, Reads, TypeOK
  <2>4. Replies'
    BY <2>a DEF Replies, Answered, TypeOK
  <2>5. Buffer'
    BY <2>a DEF Buffer, TypeOK
  <2>6. Copying'
    BY <2>a DEF Copying, Answered, TypeOK
  <2>7. Polling'
    BY <2>a, TaskFacts DEF Polling, Queued, TypeOK
  <2>8. NoLostWakeup'
    BY <2>a, TaskFacts, <2>b DEF NoLostWakeup, TypeOK
  <2> QED  BY <2>1, <2>2, <2>3, <2>4, <2>5, <2>6, <2>7, <2>8 DEF IInv
<1>15. CASE ReadTake(t)
  <2>a. /\ pc[t] = "copy_out"
        /\ pc' = [pc EXCEPT ![t] = "unlock"]
        /\ ret' = [ret EXCEPT ![t] = Promise!Reply("ok", device_size, moved[t])]
        /\ device_size' = 0 /\ data_ready' = FALSE /\ slot' = <<>> /\ seen' = {}
        /\ UNCHANGED <<device_buffer, buffer_lock, read_queue, call, moved, signalled,
                       poll_queue, triggered, timed_out, revents>>
    BY <1>15, SamePromise
       DEF ReadTake, Dev!ReadTake, Answer, Dev!Answer, Dev!GoTo, pollVars, Dev!shared
  <2>b. /\ Promise!Reply("ok", device_size, moved[t]) \in Outcome
        /\ Promise!Reply("ok", device_size, moved[t]).status = "ok"
    BY OutcomeTypes, BufferAssumption DEF TypeOK
  <2>c. \A u \in Tasks \ {t} : pc[u] \notin {"copy_in", "copy_out"}
    BY <2>a, OneInside DEF Locked
  <2>d. 0 \in 0..(BUFFER_SIZE - 1) /\ <<>> \in Message
    BY BufferAssumption, OutcomeTypes
  <2>1. TypeOK'
    BY <2>a, <2>b, <2>d DEF TypeOK, Labels, Dev!Labels, Dev!ReadLabels, Dev!WriteLabels
  <2>2. LockOwned'
    BY <2>a, TaskFacts DEF LockOwned, Locked, TypeOK
  <2>3. Roles'
    BY <2>a DEF Roles, WaitLabels, Queued, Reads, TypeOK
  <2>4. Replies'
    BY <2>a, <2>b DEF Replies, Answered, TypeOK
  <2>5. Buffer'
    BY <2>a DEF Buffer, TypeOK
  <2>6. Copying'
    BY <2>a, <2>c DEF Copying, Answered, TypeOK
  <2>7. Polling'
    BY <2>a, TaskFacts DEF Polling, Queued, TypeOK
  <2>8. NoLostWakeup'
    BY <2>a, TaskFacts DEF NoLostWakeup, TypeOK
  <2> QED  BY <2>1, <2>2, <2>3, <2>4, <2>5, <2>6, <2>7, <2>8 DEF IInv
<1>16. CASE WriteCall(t)
  <2>a. /\ pc[t] = "idle" /\ t \in Writers
        /\ \E c \in Arguments :
             /\ c.op = "write" /\ c.count = Len(c.data)
             /\ call' = [call EXCEPT ![t] = c]
             /\ pc' = [pc EXCEPT ![t] = IF c.count = 0 THEN "write_zero" ELSE "write_lock"]
        /\ UNCHANGED <<device_buffer, device_size, data_ready, buffer_lock, read_queue,
                       moved, ret, signalled, slot, poll_queue, triggered, timed_out,
                       revents, seen>>
    BY <1>16, CallTypes DEF WriteCall, Dev!WriteCall, Dev!GoTo, pollVars, Dev!shared
  <2>1. TypeOK'
    BY <2>a DEF TypeOK, Labels, Dev!Labels, Dev!ReadLabels, Dev!WriteLabels
  <2>2. LockOwned'
    BY <2>a, TaskFacts DEF LockOwned, Locked, TypeOK
  <2>3. Roles'
    BY <2>a, CallTypes DEF Roles, WaitLabels, Queued, Reads, TypeOK
  <2>4. Replies'
    BY <2>a DEF Replies, Answered, TypeOK
  <2>5. Buffer'
    BY <2>a DEF Buffer, TypeOK
  <2>6. Copying'
    BY <2>a DEF Copying, Answered, TypeOK
  <2>7. Polling'
    BY <2>a, TaskFacts DEF Polling, Queued, TypeOK
  <2>8. NoLostWakeup'
    BY <2>a, TaskFacts DEF NoLostWakeup, TypeOK
  <2> QED  BY <2>1, <2>2, <2>3, <2>4, <2>5, <2>6, <2>7, <2>8 DEF IInv
<1>17. CASE Dev!WriteZero(t) /\ UNCHANGED pollVars
  <2>a. /\ pc[t] = "write_zero"
        /\ pc' = [pc EXCEPT ![t] = "return"]
        /\ ret' = [ret EXCEPT ![t] = Promise!Reply("ok", 0, <<>>)]
        /\ UNCHANGED <<device_buffer, device_size, data_ready, buffer_lock, read_queue,
                       call, moved, signalled, slot, poll_queue, triggered, timed_out,
                       revents, seen>>
    BY <1>17, SamePromise
       DEF Dev!WriteZero, Answer, Dev!Answer, Dev!GoTo, pollVars, Dev!shared
  <2>1. TypeOK'
    BY <2>a, OutcomeTypes DEF TypeOK, Labels, Dev!Labels, Dev!ReadLabels, Dev!WriteLabels
  <2>2. LockOwned'
    BY <2>a, TaskFacts DEF LockOwned, Locked, TypeOK
  <2>3. Roles'
    BY <2>a DEF Roles, WaitLabels, Queued, Reads, TypeOK
  <2>4. Replies'
    BY <2>a, OutcomeTypes DEF Replies, Answered, TypeOK
  <2>5. Buffer'
    BY <2>a DEF Buffer, TypeOK
  <2>6. Copying'
    BY <2>a DEF Copying, Answered, TypeOK
  <2>7. Polling'
    BY <2>a, TaskFacts DEF Polling, Queued, TypeOK
  <2>8. NoLostWakeup'
    BY <2>a, TaskFacts DEF NoLostWakeup, TypeOK
  <2> QED  BY <2>1, <2>2, <2>3, <2>4, <2>5, <2>6, <2>7, <2>8 DEF IInv
<1>18. CASE Dev!WriteCopyByte(t) /\ UNCHANGED pollVars
  <2>a. /\ pc[t] = "copy_in" /\ Len(moved[t]) < Len(Promise!Clip(call[t].data))
        /\ moved' = [moved EXCEPT ![t] =
                       Append(@, Promise!Clip(call[t].data)[Len(moved[t]) + 1])]
        /\ device_buffer' = [device_buffer EXCEPT ![Len(moved[t]) + 1] =
                               Promise!Clip(call[t].data)[Len(moved[t]) + 1]]
        /\ UNCHANGED <<device_size, data_ready, buffer_lock, read_queue, pc, call, ret,
                       signalled, slot, poll_queue, triggered, timed_out, revents, seen>>
    BY <1>18, SamePromise DEF Dev!WriteCopyByte, Dev!GoTo, pollVars, Dev!shared
  <2> DEFINE msg == Promise!Clip(call[t].data)
  <2>b. /\ msg \in Message /\ Len(msg) \in 0..(BUFFER_SIZE - 1)
        /\ \A i \in 1..Len(msg) : msg[i] \in Bytes \cup {Nul}
    BY ClipFacts DEF TypeOK, Arguments
  <2>c. moved[t] \in Message /\ Len(moved[t]) \in Nat
    BY EmptyMessage DEF TypeOK
  <2>d. \A u \in Tasks \ {t} : pc[u] \notin {"copy_in", "copy_out"}
    BY <2>a, OneInside DEF Locked
  <2> DEFINE i == Len(moved[t]) + 1
  <2>e. i \in 1..Len(msg) /\ i \in 1..BUFFER_SIZE
    BY <2>a, <2>b, <2>c, BufferAssumption
  <2>f. /\ moved' = [moved EXCEPT ![t] = Append(moved[t], msg[i])]
        /\ device_buffer' = [device_buffer EXCEPT ![i] = msg[i]]
    BY <2>a
  <2> HIDE DEF msg, i
  <2>g. /\ Len(moved'[t]) = i /\ moved'[t] \in Message
        /\ \A u \in Tasks \ {t} : moved'[u] = moved[u]
    BY <2>b, <2>c, <2>e, <2>f, LongerMessage DEF TypeOK, i
  <2>1. TypeOK'
    <3>1. moved' \in [Tasks -> Message]
      BY <2>b, <2>c, <2>e, <2>f, LongerMessage DEF TypeOK
    <3>2. device_buffer' \in [1..BUFFER_SIZE -> Bytes \cup {Nul}]
      BY <2>b, <2>e, <2>f DEF TypeOK
    <3> QED  BY <2>a, <3>1, <3>2 DEF TypeOK
  <2>2. LockOwned'
    BY <2>a DEF LockOwned
  <2>3. Roles'
    BY <2>a DEF Roles
  <2>4. Replies'
    BY <2>a DEF Replies
  <2>5. Buffer'
    <3>1. ASSUME NEW j \in 1..device_size
          PROVE  device_buffer'[j] = slot[j] \/ j <= i
      <4>1. device_buffer[j] = slot[j] \/ j <= Len(moved[t])
        BY <2>d DEF Buffer
      <4>2. j \in 1..BUFFER_SIZE
        BY BufferAssumption DEF TypeOK
      <4> QED  BY <4>1, <4>2, <2>c, <2>e, <2>f DEF TypeOK, i
    <3> QED  BY <2>a, <2>g, <3>1 DEF Buffer
  <2>6. Copying'
    <3>1. \A j \in 1..Len(moved[t]) : device_buffer[j] = msg[j]
      BY <2>a DEF Copying, msg
    <3>2. ASSUME NEW j \in 1..i PROVE device_buffer'[j] = msg[j]
      <4>1. j = i \/ j \in 1..Len(moved[t])
        BY <2>c, <3>2 DEF i
      <4>2. j \in 1..BUFFER_SIZE
        <5>1. \A m, k \in Nat : \A l \in 1..m : m \in 1..k => l \in 1..k
          OBVIOUS
        <5>2. i \in Nat
          BY <2>c DEF i
        <5> QED  BY <2>e, <3>2, <5>1, <5>2, BufferAssumption
      <4>3. j # i => device_buffer'[j] = device_buffer[j]
        BY <2>f, <4>2 DEF TypeOK
      <4>4. device_buffer'[i] = msg[i]
        BY <2>e, <2>f DEF TypeOK
      <4> QED  BY <3>1, <4>1, <4>3, <4>4
    <3>3. i <= Len(msg)
      BY <2>b, <2>e
    <3> QED  BY <2>a, <2>d, <2>g, <3>2, <3>3 DEF Copying, msg
  <2>7. Polling'
    BY <2>a DEF Polling
  <2>8. NoLostWakeup'
    BY <2>a DEF NoLostWakeup
  <2> QED  BY <2>1, <2>2, <2>3, <2>4, <2>5, <2>6, <2>7, <2>8 DEF IInv
<1>19. CASE Dev!WriteFault(t) /\ UNCHANGED pollVars
  <2>a. /\ pc[t] = "copy_in" /\ Len(moved[t]) < Len(Promise!Clip(call[t].data))
        /\ device_buffer' =
             [j \in 1..BUFFER_SIZE |->
                IF j \in (Len(moved[t]) + 1)..Len(Promise!Clip(call[t].data))
                THEN Nul ELSE device_buffer[j]]
        /\ slot' = Promise!Overlay(slot, Promise!Clip(call[t].data), Len(moved[t]))
        /\ pc' = [pc EXCEPT ![t] = "unlock"]
        /\ ret' = [ret EXCEPT ![t] = Promise!Failed("EFAULT")]
        /\ UNCHANGED <<device_size, data_ready, buffer_lock, read_queue, call, moved,
                       signalled, poll_queue, triggered, timed_out, revents, seen>>
    BY <1>19, SamePromise
       DEF Dev!WriteFault, Answer, Dev!Answer, Dev!GoTo, pollVars, Dev!shared
  <2> DEFINE msg == Promise!Clip(call[t].data)
  <2>b. /\ msg \in Message /\ Len(msg) \in 0..(BUFFER_SIZE - 1)
        /\ \A i \in 1..Len(msg) : msg[i] \in Bytes \cup {Nul}
    BY ClipFacts DEF TypeOK, Arguments
  <2>c. moved[t] \in Message /\ Len(moved[t]) \in Nat
    BY EmptyMessage DEF TypeOK
  <2>d. \A u \in Tasks \ {t} : pc[u] \notin {"copy_in", "copy_out"}
    BY <2>a, OneInside DEF Locked
  <2> DEFINE k == Len(moved[t])
  <2>e. Promise!Failed("EFAULT") \in Outcome /\ Promise!Failed("EFAULT").status = "EFAULT"
    BY OutcomeTypes
  <2>f. /\ slot \in Message /\ slot' \in Message /\ Len(slot') = Len(slot)
        /\ \A j \in 1..Len(slot) : slot'[j] = IF j <= k THEN msg[j]
                                              ELSE IF j <= Len(msg) THEN Nul ELSE slot[j]
    BY <2>a, <2>b, <2>c, OverlayFacts DEF TypeOK
  <2>g. slot' # <<>> <=> slot # <<>>
    BY <2>f, EmptyMessage
  <2>1. TypeOK'
    <3>1. device_buffer' \in [1..BUFFER_SIZE -> Bytes \cup {Nul}]
      BY <2>a DEF TypeOK
    <3> QED  BY <2>a, <2>e, <2>f, <3>1 DEF TypeOK, Labels, Dev!Labels
  <2>2. LockOwned'
    BY <2>a, TaskFacts DEF LockOwned, Locked, TypeOK
  <2>3. Roles'
    BY <2>a DEF Roles, WaitLabels, Queued, Reads, TypeOK
  <2>4. Replies'
    BY <2>a, <2>e DEF Replies, Answered, TypeOK
  <2>5. Buffer'
    <3>1. \A j \in 1..device_size : device_buffer[j] = slot[j] \/ j <= k
      BY <2>d DEF Buffer
    <3>2. \A j \in 1..k : device_buffer[j] = msg[j]
      BY <2>a DEF Copying
    <3>3. device_buffer' = [j \in 1..BUFFER_SIZE |->
                             IF j \in (k + 1)..Len(msg) THEN Nul ELSE device_buffer[j]]
      BY <2>a
    <3> HIDE DEF msg, k
    <3>4. ASSUME NEW j \in 1..device_size PROVE device_buffer'[j] = slot'[j]
      <4>1. j \in 1..BUFFER_SIZE /\ j \in 1..Len(slot) /\ k \in Nat /\ Len(msg) \in Nat
        BY <2>b, <2>c, BufferAssumption DEF TypeOK, Buffer, k
      <4> QED  BY <4>1, <3>1, <3>2, <3>3, <2>f
    <3> QED  BY <2>a, <2>f, <2>g, <3>4 DEF Buffer
  <2>6. Copying'
    BY <2>a, <2>d DEF Copying, Answered, TypeOK
  <2>7. Polling'
    BY <2>a, TaskFacts DEF Polling, Queued, TypeOK
  <2>8. NoLostWakeup'
    BY <2>a, TaskFacts DEF NoLostWakeup, TypeOK
  <2> QED  BY <2>1, <2>2, <2>3, <2>4, <2>5, <2>6, <2>7, <2>8 DEF IInv
<1>20. CASE Dev!WriteStore(t) /\ UNCHANGED pollVars
  <2>a. /\ pc[t] = "copy_in" /\ Len(moved[t]) = Len(Promise!Clip(call[t].data))
        /\ device_size' = Len(Promise!Clip(call[t].data)) /\ data_ready' = TRUE
        /\ slot' = Promise!Clip(call[t].data)
        /\ pc' = [pc EXCEPT ![t] = "unlock"]
        /\ ret' = [ret EXCEPT ![t] = Promise!Reply("ok", Len(Promise!Clip(call[t].data)), <<>>)]
        /\ UNCHANGED <<device_buffer, buffer_lock, read_queue, call, moved, signalled,
                       poll_queue, triggered, timed_out, revents, seen>>
    BY <1>20, SamePromise
       DEF Dev!WriteStore, Answer, Dev!Answer, Dev!GoTo, pollVars, Dev!shared
  <2> DEFINE msg == Promise!Clip(call[t].data)
  <2>b. /\ msg \in Message /\ Len(msg) \in 0..(BUFFER_SIZE - 1)
        /\ \A i \in 1..Len(msg) : msg[i] \in Bytes \cup {Nul}
    BY ClipFacts DEF TypeOK, Arguments
  <2>c. moved[t] \in Message /\ Len(moved[t]) \in Nat
    BY EmptyMessage DEF TypeOK
  <2>d. \A u \in Tasks \ {t} : pc[u] \notin {"copy_in", "copy_out"}
    BY <2>a, OneInside DEF Locked
  <2>e. /\ Promise!Reply("ok", Len(msg), <<>>) \in Outcome
        /\ Promise!Reply("ok", Len(msg), <<>>).status = "ok"
    BY <2>b, OutcomeTypes
  <2>f. msg # <<>>
    BY <2>a, ClipFacts DEF Roles, TypeOK, Arguments
  <2>1. TypeOK'
    BY <2>a, <2>b, <2>e DEF TypeOK, Labels, Dev!Labels
  <2>2. LockOwned'
    BY <2>a, TaskFacts DEF LockOwned, Locked, TypeOK
  <2>3. Roles'
    BY <2>a DEF Roles, WaitLabels, Queued, Reads, TypeOK
  <2>4. Replies'
    BY <2>a, <2>e DEF Replies, Answered, TypeOK
  <2>5. Buffer'
    <3>1. \A j \in 1..Len(msg) : device_buffer[j] = msg[j]
      BY <2>a DEF Copying
    <3> QED  BY <2>a, <2>f, <3>1 DEF Buffer
  <2>6. Copying'
    BY <2>a, <2>d DEF Copying, Answered, TypeOK
  <2>7. Polling'
    BY <2>a, TaskFacts DEF Polling, Queued, TypeOK
  <2>8. NoLostWakeup'
    <3>1. t \in Writers /\ call[t].op = "write"
      BY <2>a DEF Roles
    <3>2. pc'[t] = "unlock" /\ ret'[t].status = "ok" /\ UNCHANGED call
      BY <2>a, <2>e DEF TypeOK
    <3> QED  BY <3>1, <3>2 DEF NoLostWakeup
  <2> QED  BY <2>1, <2>2, <2>3, <2>4, <2>5, <2>6, <2>7, <2>8 DEF IInv
<1>21. CASE Dev!WriteUnlock(t) /\ UNCHANGED pollVars
  <2>a. /\ pc[t] = "unlock" /\ buffer_lock' = None /\ call[t].op = "write"
        /\ pc' = [pc EXCEPT ![t] = IF ret[t].status = "ok" THEN "wake" ELSE "return"]
        /\ UNCHANGED <<device_buffer, device_size, data_ready, read_queue, call, moved,
                       ret, signalled, slot, poll_queue, triggered, timed_out, revents,
                       seen>>
    BY <1>21, SamePromise DEF Dev!WriteUnlock, Dev!Unlock, Dev!GoTo, pollVars, Dev!shared
  <2>1. TypeOK'
    BY <2>a DEF TypeOK, Labels, Dev!Labels, Dev!ReadLabels, Dev!WriteLabels
  <2>2. LockOwned'
    BY <2>a, TaskFacts DEF LockOwned, Locked, TypeOK
  <2>3. Roles'
    BY <2>a DEF Roles, WaitLabels, Queued, Reads, TypeOK
  <2>4. Replies'
    BY <2>a DEF Replies, Answered, TypeOK
  <2>5. Buffer'
    BY <2>a DEF Buffer, TypeOK
  <2>6. Copying'
    BY <2>a DEF Copying, Answered, TypeOK
  <2>7. Polling'
    BY <2>a, TaskFacts DEF Polling, Queued, TypeOK
  <2>8. NoLostWakeup'
    BY <2>a, TaskFacts DEF NoLostWakeup, TypeOK
  <2> QED  BY <2>1, <2>2, <2>3, <2>4, <2>5, <2>6, <2>7, <2>8 DEF IInv
<1>22. CASE WriteWake(t)
  <2>a. /\ pc[t] = "wake" /\ read_queue' = {} /\ triggered' = triggered \cup poll_queue
        /\ pc' = [pc EXCEPT ![t] = "return"]
        /\ UNCHANGED <<device_buffer, device_size, data_ready, buffer_lock, call, moved,
                       ret, signalled, slot, poll_queue, timed_out, revents, seen>>
    BY <1>22, SamePromise DEF WriteWake, Dev!WriteWake, Dev!GoTo, pollVars, Dev!shared
  <2>1. TypeOK'
    BY <2>a DEF TypeOK, Labels, Dev!Labels, Dev!ReadLabels, Dev!WriteLabels
  <2>2. LockOwned'
    BY <2>a, TaskFacts DEF LockOwned, Locked, TypeOK
  <2>3. Roles'
    BY <2>a DEF Roles, WaitLabels, Queued, Reads, TypeOK
  <2>4. Replies'
    BY <2>a DEF Replies, Answered, TypeOK
  <2>5. Buffer'
    BY <2>a DEF Buffer, TypeOK
  <2>6. Copying'
    BY <2>a DEF Copying, Answered, TypeOK
  <2>7. Polling'
    BY <2>a, TaskFacts DEF Polling, Queued, TypeOK
  <2>8. NoLostWakeup'
    <3>1. \A u \in Pollers : pc[u] = "poll_schedule" => u \in poll_queue
      BY DEF Polling, Queued
    <3>2. \A u \in Consumers : pc'[u] = "poll_schedule" => u \in Pollers
      BY <2>a, TaskFacts DEF Roles, Queued, TypeOK
    <3>3. \A u \in Consumers : pc'[u] = "poll_schedule" => u \in triggered'
      BY <2>a, <3>1, <3>2, TaskFacts DEF TypeOK
    <3> QED  BY <2>a, <3>3 DEF NoLostWakeup
  <2> QED  BY <2>1, <2>2, <2>3, <2>4, <2>5, <2>6, <2>7, <2>8 DEF IInv
<1>23. CASE PollCall(t)
  <2>a. /\ pc[t] = "idle" /\ t \in Pollers
        /\ call' = [call EXCEPT ![t] = Call("poll", 0)]
        /\ pc' = [pc EXCEPT ![t] = "poll_wait"]
        /\ UNCHANGED <<device_buffer, device_size, data_ready, buffer_lock, read_queue,
                       moved, ret, signalled, slot, poll_queue, triggered, timed_out,
                       revents, seen>>
    BY <1>23 DEF PollCall, Enter, Dev!GoTo, pollVars, Dev!shared
  <2>1. TypeOK'
    BY <2>a, CallTypes DEF TypeOK, Labels, Dev!Labels, Dev!ReadLabels, Dev!WriteLabels
  <2>2. LockOwned'
    BY <2>a, TaskFacts DEF LockOwned, Locked, TypeOK
  <2>3. Roles'
    BY <2>a, CallTypes DEF Roles, WaitLabels, Queued, Reads, TypeOK
  <2>4. Replies'
    BY <2>a DEF Replies, Answered, TypeOK
  <2>5. Buffer'
    BY <2>a DEF Buffer, TypeOK
  <2>6. Copying'
    BY <2>a DEF Copying, Answered, TypeOK
  <2>7. Polling'
    BY <2>a, TaskFacts DEF Polling, Queued, TypeOK
  <2>8. NoLostWakeup'
    BY <2>a, TaskFacts DEF NoLostWakeup, TypeOK
  <2> QED  BY <2>1, <2>2, <2>3, <2>4, <2>5, <2>6, <2>7, <2>8 DEF IInv
<1>24. CASE PollWait(t)
  <2>a. /\ pc[t] = "poll_wait"
        /\ poll_queue' = poll_queue \cup {t}
        /\ pc' = [pc EXCEPT ![t] = "poll_mask"]
        /\ UNCHANGED <<device_buffer, device_size, data_ready, buffer_lock, read_queue,
                       call, moved, ret, signalled, slot, triggered, timed_out, revents,
                       seen>>
    BY <1>24 DEF PollWait, Dev!GoTo, pollVars, Dev!shared
  <2>b. t \in Pollers
    BY <2>a DEF Roles
  <2>1. TypeOK'
    BY <2>a, <2>b DEF TypeOK, Labels, Dev!Labels, Dev!ReadLabels, Dev!WriteLabels
  <2>2. LockOwned'
    BY <2>a, TaskFacts DEF LockOwned, Locked, TypeOK
  <2>3. Roles'
    BY <2>a DEF Roles, WaitLabels, Queued, Reads, TypeOK
  <2>4. Replies'
    BY <2>a DEF Replies, Answered, TypeOK
  <2>5. Buffer'
    BY <2>a DEF Buffer, TypeOK
  <2>6. Copying'
    BY <2>a DEF Copying, Answered, TypeOK
  <2>7. Polling'
    BY <2>a, TaskFacts, <2>b DEF Polling, Queued, TypeOK
  <2>8. NoLostWakeup'
    BY <2>a, TaskFacts DEF NoLostWakeup, TypeOK
  <2> QED  BY <2>1, <2>2, <2>3, <2>4, <2>5, <2>6, <2>7, <2>8 DEF IInv
<1>25. CASE PollIn(t)
  <2>a. /\ pc[t] = "poll_mask" /\ data_ready
        /\ seen' = seen \cup {t}
        /\ pc' = [pc EXCEPT ![t] = "poll_freewait"]
        /\ ret' = [ret EXCEPT ![t] = Promise!Reply("ok", 1, <<>>)]
        /\ UNCHANGED <<device_buffer, device_size, data_ready, buffer_lock, read_queue,
                       call, moved, signalled, slot, poll_queue, triggered, timed_out,
                       revents>>
    BY <1>25 DEF PollIn, Answer, Dev!Answer, Dev!GoTo, pollVars, Dev!shared
  <2>b. t \in Pollers
    BY <2>a DEF Roles, Queued
  <2>1. TypeOK'
    BY <2>a, <2>b, OutcomeTypes
       DEF TypeOK, Labels, Dev!Labels, Dev!ReadLabels, Dev!WriteLabels
  <2>2. LockOwned'
    BY <2>a, TaskFacts DEF LockOwned, Locked, TypeOK
  <2>3. Roles'
    BY <2>a DEF Roles, WaitLabels, Queued, Reads, TypeOK
  <2>4. Replies'
    BY <2>a, OutcomeTypes DEF Replies, Answered, TypeOK
  <2>5. Buffer'
    BY <2>a DEF Buffer, TypeOK
  <2>6. Copying'
    BY <2>a DEF Copying, Answered, TypeOK
  <2>7. Polling'
    BY <2>a, TaskFacts DEF Polling, Queued, TypeOK
  <2>8. NoLostWakeup'
    BY <2>a, TaskFacts DEF NoLostWakeup, TypeOK
  <2> QED  BY <2>1, <2>2, <2>3, <2>4, <2>5, <2>6, <2>7, <2>8 DEF IInv
<1>26. CASE PollEnds(t)
  <2>a. /\ pc[t] = "poll_mask"
        /\ pc' = [pc EXCEPT ![t] = "poll_freewait"]
        /\ \/ ret' = [ret EXCEPT ![t] = Promise!Failed("ERESTARTSYS")]
           \/ ret' = [ret EXCEPT ![t] = Promise!Reply("ok", 0, <<>>)]
        /\ UNCHANGED <<device_buffer, device_size, data_ready, buffer_lock, read_queue,
                       call, moved, signalled, slot, poll_queue, triggered, timed_out,
                       revents, seen>>
    BY <1>26 DEF PollEnds, Answer, Dev!Answer, Dev!GoTo, pollVars, Dev!shared
  <2>1. TypeOK'
    BY <2>a, OutcomeTypes DEF TypeOK, Labels, Dev!Labels, Dev!ReadLabels, Dev!WriteLabels
  <2>2. LockOwned'
    BY <2>a, TaskFacts DEF LockOwned, Locked, TypeOK
  <2>3. Roles'
    BY <2>a DEF Roles, WaitLabels, Queued, Reads, TypeOK
  <2>4. Replies'
    BY <2>a, OutcomeTypes DEF Replies, Answered, TypeOK
  <2>5. Buffer'
    BY <2>a DEF Buffer, TypeOK
  <2>6. Copying'
    BY <2>a DEF Copying, Answered, TypeOK
  <2>7. Polling'
    BY <2>a, TaskFacts DEF Polling, Queued, TypeOK
  <2>8. NoLostWakeup'
    BY <2>a, TaskFacts DEF NoLostWakeup, TypeOK
  <2> QED  BY <2>1, <2>2, <2>3, <2>4, <2>5, <2>6, <2>7, <2>8 DEF IInv
<1>27. CASE PollBlocks(t)
  <2>a. /\ pc[t] = "poll_mask" /\ ~data_ready
        /\ pc' = [pc EXCEPT ![t] = "poll_schedule"]
        /\ UNCHANGED <<device_buffer, device_size, data_ready, buffer_lock, read_queue,
                       call, moved, ret, signalled, slot, poll_queue, triggered,
                       timed_out, revents, seen>>
    BY <1>27 DEF PollBlocks, Dev!GoTo, pollVars, Dev!shared
  <2>1. TypeOK'
    BY <2>a DEF TypeOK, Labels, Dev!Labels, Dev!ReadLabels, Dev!WriteLabels
  <2>2. LockOwned'
    BY <2>a, TaskFacts DEF LockOwned, Locked, TypeOK
  <2>3. Roles'
    BY <2>a DEF Roles, WaitLabels, Queued, Reads, TypeOK
  <2>4. Replies'
    BY <2>a DEF Replies, Answered, TypeOK
  <2>5. Buffer'
    BY <2>a DEF Buffer, TypeOK
  <2>6. Copying'
    BY <2>a DEF Copying, Answered, TypeOK
  <2>7. Polling'
    BY <2>a, TaskFacts DEF Polling, Queued, TypeOK
  <2>8. NoLostWakeup'
    BY <2>a, TaskFacts DEF NoLostWakeup, TypeOK
  <2> QED  BY <2>1, <2>2, <2>3, <2>4, <2>5, <2>6, <2>7, <2>8 DEF IInv
<1>28. CASE PollSchedule(t)
  <2>a. /\ pc[t] = "poll_schedule"
        /\ triggered' = triggered \ {t}
        /\ pc' = [pc EXCEPT ![t] = "poll_mask"]
        /\ UNCHANGED <<device_buffer, device_size, data_ready, buffer_lock, read_queue,
                       call, moved, ret, signalled, slot, poll_queue, timed_out, revents,
                       seen>>
    BY <1>28 DEF PollSchedule, Dev!GoTo, pollVars, Dev!shared
  <2>1. TypeOK'
    BY <2>a DEF TypeOK, Labels, Dev!Labels, Dev!ReadLabels, Dev!WriteLabels
  <2>2. LockOwned'
    BY <2>a, TaskFacts DEF LockOwned, Locked, TypeOK
  <2>3. Roles'
    BY <2>a DEF Roles, WaitLabels, Queued, Reads, TypeOK
  <2>4. Replies'
    BY <2>a DEF Replies, Answered, TypeOK
  <2>5. Buffer'
    BY <2>a DEF Buffer, TypeOK
  <2>6. Copying'
    BY <2>a DEF Copying, Answered, TypeOK
  <2>7. Polling'
    BY <2>a, TaskFacts DEF Polling, Queued, TypeOK
  <2>8. NoLostWakeup'
    BY <2>a, TaskFacts DEF NoLostWakeup, TypeOK
  <2> QED  BY <2>1, <2>2, <2>3, <2>4, <2>5, <2>6, <2>7, <2>8 DEF IInv
<1>29. CASE PollTimeout(t)
  <2>a. /\ pc[t] = "poll_schedule" /\ t \in Timeouts
        /\ triggered' = triggered \ {t} /\ timed_out' = timed_out \cup {t}
        /\ pc' = [pc EXCEPT ![t] = "poll_mask"]
        /\ UNCHANGED <<device_buffer, device_size, data_ready, buffer_lock, read_queue,
                       call, moved, ret, signalled, slot, poll_queue, revents, seen>>
    BY <1>29 DEF PollTimeout, Dev!GoTo, pollVars, Dev!shared
  <2>b. t \in poll_queue
    BY <2>a, PollersAssumption DEF Polling, Queued
  <2>1. TypeOK'
    BY <2>a, <2>b DEF TypeOK, Labels, Dev!Labels, Dev!ReadLabels, Dev!WriteLabels
  <2>2. LockOwned'
    BY <2>a, TaskFacts DEF LockOwned, Locked, TypeOK
  <2>3. Roles'
    BY <2>a DEF Roles, WaitLabels, Queued, Reads, TypeOK
  <2>4. Replies'
    BY <2>a DEF Replies, Answered, TypeOK
  <2>5. Buffer'
    BY <2>a DEF Buffer, TypeOK
  <2>6. Copying'
    BY <2>a DEF Copying, Answered, TypeOK
  <2>7. Polling'
    BY <2>a, TaskFacts DEF Polling, Queued, TypeOK
  <2>8. NoLostWakeup'
    BY <2>a, TaskFacts DEF NoLostWakeup, TypeOK
  <2> QED  BY <2>1, <2>2, <2>3, <2>4, <2>5, <2>6, <2>7, <2>8 DEF IInv
<1>30. CASE PollFreewait(t)
  <2>a. /\ pc[t] = "poll_freewait"
        /\ poll_queue' = poll_queue \ {t} /\ triggered' = triggered \ {t}
        /\ timed_out' = timed_out \ {t}
        /\ pc' = [pc EXCEPT ![t] = "return"]
        /\ UNCHANGED <<device_buffer, device_size, data_ready, buffer_lock, read_queue,
                       call, moved, ret, signalled, slot, revents, seen>>
    BY <1>30 DEF PollFreewait, Dev!GoTo, pollVars, Dev!shared
  <2>1. TypeOK'
    BY <2>a DEF TypeOK, Labels, Dev!Labels, Dev!ReadLabels, Dev!WriteLabels
  <2>2. LockOwned'
    BY <2>a, TaskFacts DEF LockOwned, Locked, TypeOK
  <2>3. Roles'
    BY <2>a DEF Roles, WaitLabels, Queued, Reads, TypeOK
  <2>4. Replies'
    BY <2>a DEF Replies, Answered, TypeOK
  <2>5. Buffer'
    BY <2>a DEF Buffer, TypeOK
  <2>6. Copying'
    BY <2>a DEF Copying, Answered, TypeOK
  <2>7. Polling'
    BY <2>a, TaskFacts DEF Polling, Queued, TypeOK
  <2>8. NoLostWakeup'
    BY <2>a, TaskFacts DEF NoLostWakeup, TypeOK
  <2> QED  BY <2>1, <2>2, <2>3, <2>4, <2>5, <2>6, <2>7, <2>8 DEF IInv
<1>31. CASE Return(t)
  <2>a. /\ pc[t] = "return"
        /\ pc' = [pc EXCEPT ![t] = "idle"]
        /\ call' = [call EXCEPT ![t] = Promise!NoCall]
        /\ moved' = [moved EXCEPT ![t] = <<>>]
        /\ ret' = [ret EXCEPT ![t] = Promise!Pending]
        /\ signalled' = signalled \ {t} /\ revents' \subseteq revents \cup {t}
        /\ t \in revents' \ revents => call[t].op = "poll"
        /\ UNCHANGED <<device_buffer, device_size, data_ready, buffer_lock, read_queue,
                       slot, poll_queue, triggered, timed_out, seen>>
    BY <1>31, SamePromise DEF Return, Dev!Return, Dev!GoTo, pollVars, Dev!shared
  <2>b. revents' \subseteq Pollers
    BY <2>a DEF Roles, TypeOK
  <2>1. TypeOK'
    BY <2>a, CallTypes, OutcomeTypes, <2>b
       DEF TypeOK, Labels, Dev!Labels, Dev!ReadLabels, Dev!WriteLabels
  <2>2. LockOwned'
    BY <2>a, TaskFacts DEF LockOwned, Locked, TypeOK
  <2>3. Roles'
    BY <2>a, CallTypes DEF Roles, WaitLabels, Queued, Reads, TypeOK
  <2>4. Replies'
    BY <2>a, OutcomeTypes DEF Replies, Answered, TypeOK
  <2>5. Buffer'
    BY <2>a DEF Buffer, TypeOK
  <2>6. Copying'
    BY <2>a DEF Copying, Answered, TypeOK
  <2>7. Polling'
    BY <2>a, TaskFacts DEF Polling, Queued, TypeOK
  <2>8. NoLostWakeup'
    BY <2>a, TaskFacts DEF NoLostWakeup, TypeOK
  <2> QED  BY <2>1, <2>2, <2>3, <2>4, <2>5, <2>6, <2>7, <2>8 DEF IInv
<1>32. CASE Signal(t)
  <2>a. /\ t \in Signals /\ signalled' = signalled \cup {t}
        /\ UNCHANGED <<device_buffer, device_size, data_ready, buffer_lock, read_queue,
                       pc, call, moved, ret, slot, poll_queue, triggered, timed_out,
                       revents, seen>>
    BY <1>32 DEF Signal, Dev!Signal, Dev!GoTo, pollVars, Dev!shared
  <2>1. TypeOK'
    BY <2>a DEF TypeOK, Labels, Dev!Labels, Dev!ReadLabels, Dev!WriteLabels
  <2>2. LockOwned'
    BY <2>a, TaskFacts DEF LockOwned, Locked, TypeOK
  <2>3. Roles'
    BY <2>a DEF Roles, WaitLabels, Queued, Reads, TypeOK
  <2>4. Replies'
    BY <2>a DEF Replies, Answered, TypeOK
  <2>5. Buffer'
    BY <2>a DEF Buffer, TypeOK
  <2>6. Copying'
    BY <2>a DEF Copying, Answered, TypeOK
  <2>7. Polling'
    BY <2>a, TaskFacts DEF Polling, Queued, TypeOK
  <2>8. NoLostWakeup'
    BY <2>a, TaskFacts DEF NoLostWakeup, TypeOK
  <2> QED  BY <2>1, <2>2, <2>3, <2>4, <2>5, <2>6, <2>7, <2>8 DEF IInv
<1>33. CASE Interrupted(t)
  <2>a. /\ pc[t] \in {"read_lock", "write_lock"}
        /\ pc' = [pc EXCEPT ![t] = "return"]
        /\ ret' = [ret EXCEPT ![t] = Promise!Failed("ERESTARTSYS")]
        /\ UNCHANGED <<device_buffer, device_size, data_ready, buffer_lock, read_queue,
                       call, moved, signalled, slot, poll_queue, triggered, timed_out,
                       revents, seen>>
    BY <1>33, SamePromise DEF Interrupted, Dev!LockInterrupted, Answer, Dev!Answer,
       Dev!GoTo, pollVars, Dev!shared
  <2>1. TypeOK'
    BY <2>a, OutcomeTypes DEF TypeOK, Labels, Dev!Labels, Dev!ReadLabels, Dev!WriteLabels
  <2>2. LockOwned'
    BY <2>a, TaskFacts DEF LockOwned, Locked, TypeOK
  <2>3. Roles'
    BY <2>a DEF Roles, WaitLabels, Queued, Reads, TypeOK
  <2>4. Replies'
    BY <2>a, OutcomeTypes DEF Replies, Answered, TypeOK
  <2>5. Buffer'
    BY <2>a DEF Buffer, TypeOK
  <2>6. Copying'
    BY <2>a DEF Copying, Answered, TypeOK
  <2>7. Polling'
    BY <2>a, TaskFacts DEF Polling, Queued, TypeOK
  <2>8. NoLostWakeup'
    BY <2>a, TaskFacts DEF NoLostWakeup, TypeOK
  <2> QED  BY <2>1, <2>2, <2>3, <2>4, <2>5, <2>6, <2>7, <2>8 DEF IInv
<1>34. CASE Dev!ReadLock(t) /\ UNCHANGED pollVars
  <2>a. /\ pc[t] = "read_lock" /\ buffer_lock = None /\ buffer_lock' = t
        /\ pc' = [pc EXCEPT ![t] = "check"]
        /\ UNCHANGED <<device_buffer, device_size, data_ready, read_queue, call, moved,
                       ret, signalled, slot, poll_queue, triggered, timed_out, revents,
                       seen>>
    BY <1>34 DEF Dev!ReadLock, Dev!Lock, Dev!GoTo, pollVars, Dev!shared
  <2>1. TypeOK'
    BY <2>a DEF TypeOK, Labels, Dev!Labels, Dev!ReadLabels, Dev!WriteLabels
  <2>2. LockOwned'
    BY <2>a, TaskFacts DEF LockOwned, Locked, TypeOK
  <2>3. Roles'
    BY <2>a DEF Roles, WaitLabels, Queued, Reads, TypeOK
  <2>4. Replies'
    BY <2>a DEF Replies, Answered, TypeOK
  <2>5. Buffer'
    BY <2>a DEF Buffer, TypeOK
  <2>6. Copying'
    BY <2>a DEF Copying, Answered, TypeOK
  <2>7. Polling'
    BY <2>a, TaskFacts DEF Polling, Queued, TypeOK
  <2>8. NoLostWakeup'
    BY <2>a, TaskFacts DEF NoLostWakeup, TypeOK
  <2> QED  BY <2>1, <2>2, <2>3, <2>4, <2>5, <2>6, <2>7, <2>8 DEF IInv
<1>35. CASE Dev!WriteLock(t) /\ UNCHANGED pollVars
  <2>a. /\ pc[t] = "write_lock" /\ buffer_lock = None /\ buffer_lock' = t
        /\ pc' = [pc EXCEPT ![t] = "copy_in"]
        /\ UNCHANGED <<device_buffer, device_size, data_ready, read_queue, call, moved,
                       ret, signalled, slot, poll_queue, triggered, timed_out, revents,
                       seen>>
    BY <1>35 DEF Dev!WriteLock, Dev!Lock, Dev!GoTo, pollVars, Dev!shared
  <2>c. moved[t] = <<>>
    BY <2>a DEF Copying, Answered
  <2>d. Len(<<>>) = 0
    OBVIOUS
  <2>e. call[t].data \in Seq(Bytes)
    BY DEF TypeOK, Arguments
  <2>f. Len(Promise!Clip(call[t].data)) >= 0
    BY <2>e, ClipFacts, BufferAssumption
  <2>b. moved[t] = <<>> /\ Len(moved[t]) = 0 /\ Len(Promise!Clip(call[t].data)) >= 0
    BY <2>c, <2>d, <2>f
  <2>1. TypeOK'
    BY <2>a DEF TypeOK, Labels, Dev!Labels, Dev!ReadLabels, Dev!WriteLabels
  <2>2. LockOwned'
    BY <2>a, TaskFacts DEF LockOwned, Locked, TypeOK
  <2>3. Roles'
    BY <2>a DEF Roles, WaitLabels, Queued, Reads, TypeOK
  <2>4. Replies'
    BY <2>a DEF Replies, Answered, TypeOK
  <2>5. Buffer'
    BY <2>a DEF Buffer, TypeOK
  <2>6. Copying'
    BY <2>a, <2>b DEF Copying, Answered, TypeOK
  <2>7. Polling'
    BY <2>a, TaskFacts DEF Polling, Queued, TypeOK
  <2>8. NoLostWakeup'
    BY <2>a, TaskFacts DEF NoLostWakeup, TypeOK
  <2> QED  BY <2>1, <2>2, <2>3, <2>4, <2>5, <2>6, <2>7, <2>8 DEF IInv
<1> QED
  BY <1>0, <1>1, <1>2, <1>3, <1>4, <1>5, <1>6, <1>7, <1>8, <1>9, <1>10, <1>11, <1>12,
     <1>13, <1>14, <1>15, <1>16, <1>17, <1>18, <1>19, <1>20, <1>21, <1>22, <1>23, <1>24,
     <1>25, <1>26, <1>27, <1>28, <1>29, <1>30, <1>31, <1>32, <1>33, <1>34, <1>35
  DEF Progress, ReadWait, ReadCopy, Write, PollStep, AcquireLock, Dev!AcquireLock

-----------------------------------------------------------------------------
(* Theorems *)

\* In every reachable state: the types, the mutex, the calls and their outcomes,
\* the buffer, and which pollers are queued.
THEOREM Invariance == Spec => []IInv
<1>1. IInv /\ [Next]_vars => IInv'
  BY StutterIInv, NextIInv
<1> QED  BY InitIInv, <1>1, PTL DEF Spec

\* Every variable of the device and every poll table keeps its type.
THEOREM TypeCorrect == Spec => []TypeOK
<1>1. IInv => TypeOK
  BY DEF IInv
<1> QED  BY Invariance, <1>1, PTL

\* Every path of read() and write(), the failing ones included, gives the mutex
\* back, and only its owner does.
THEOREM MutexIsOwned == Spec => []LockOwned
<1>1. IInv => LockOwned
  BY DEF IInv
<1> QED  BY Invariance, <1>1, PTL

\* The flag, the length and the bytes agree whenever the mutex is free, whatever
\* copies have failed half-way (si_waitqueue07.c:213-216, 238-245; si_poll08.c).
THEOREM BufferIsCoherent == Spec => []Coherent
<1>1. IInv => Coherent
  <2> SUFFICES ASSUME IInv, buffer_lock = None
               PROVE  slot = SubSeq(device_buffer, 1, device_size)
    BY DEF Coherent, IInv, Buffer
  <2> DEFINE held == SubSeq(device_buffer, 1, device_size)
  <2>1. \A w \in Tasks : pc[w] # "copy_in"
    BY TaskFacts DEF IInv, LockOwned, Locked
  <2>2. /\ device_size = Len(slot) /\ slot \in Message
        /\ \A i \in 1..device_size : device_buffer[i] = slot[i]
    BY <2>1 DEF IInv, Buffer, TypeOK
  <2>3. device_size \in 0..(BUFFER_SIZE - 1)
    BY DEF IInv, TypeOK
  <2>4. device_buffer \in Message /\ Len(device_buffer) = BUFFER_SIZE
    BY BufferAssumption DEF IInv, TypeOK, Message
  <2>5. /\ held \in Message /\ Len(held) = device_size
        /\ \A i \in 1..device_size : held[i] = device_buffer[i]
    BY <2>3, <2>4, BufferAssumption, SubSeqProperties DEF Message
  <2> HIDE DEF held
  <2>6. slot = held
    BY <2>2, <2>5, SameMessage
  <2> QED  BY <2>6 DEF held
<1> QED  BY Invariance, <1>1, PTL

\* However many readers and event loops wait, none of them sleeps through a message:
\* .poll queues before it looks (si_poll08.c:96-104).
THEOREM WakeupsAreNotLost == Spec => []NoLostWakeup
<1>1. IInv => NoLostWakeup
  BY DEF IInv
<1> QED  BY Invariance, <1>1, PTL

\* POLLIN, though it is found without the mutex, holds until somebody reads.
THEOREM PollinIsKept == Spec => PollinHolds
<1>1. IInv /\ [Next]_vars
        => [\A t \in Pollers :
              t \in seen /\ ret'[t] # ret[t] => ret'[t].status # "EAGAIN"]_vars
  <2> SUFFICES ASSUME IInv, Next, NEW p \in Pollers, p \in seen, ret'[p] # ret[p]
               PROVE  ret'[p].status # "EAGAIN"
    OBVIOUS
  <2> PICK t \in Tasks : \/ ReadWaits(t) \/ ReadLocks(t) \/ WriteCall(t) \/ PollCall(t)
                         \/ Signal(t) \/ PollTimeout(t) \/ AcquireLock(t) \/ Progress(t)
    BY DEF Next
  <2>1. data_ready
    BY DEF IInv, Polling
  <2>2. ~ReadAgain(t)
    BY <2>1 DEF ReadAgain
  <2>3. /\ Promise!Pending.status # "EAGAIN"
        /\ \A code \in {"EMSGSIZE", "EFAULT", "ERESTARTSYS"} :
             Promise!Failed(code).status # "EAGAIN"
        /\ \A n, m : Promise!Reply("ok", n, m).status # "EAGAIN"
    BY DEF Promise!Pending, Promise!Failed, Promise!Reply
  <2> DEFINE Says(r) == ret' = [ret EXCEPT ![t] = r]
  <2>4. UNCHANGED ret \/ \E r : Says(r) /\ r.status # "EAGAIN"
    <3>1. CASE \/ ReadWaits(t) \/ ReadLocks(t) \/ WriteCall(t) \/ PollCall(t)
               \/ Signal(t) \/ PollTimeout(t) \/ AcquireLock(t)
      BY <3>1 DEF ReadWaits, ReadLocks, Enter, WriteCall, Dev!WriteCall, PollCall,
         Signal, Dev!Signal, PollTimeout, AcquireLock, Dev!AcquireLock, Dev!ReadLock, Dev!WriteLock, Dev!Lock
    <3>2. CASE ReadZero(t) \/ Dev!WriteZero(t)
      <4>1. Says(Promise!Reply("ok", 0, <<>>))
        BY <3>2, SamePromise DEF ReadZero, Answer, Dev!WriteZero, Dev!Answer
      <4> QED  BY <2>3, <4>1
    <3>3. CASE ReadTake(t)
      <4>1. Says(Promise!Reply("ok", device_size, moved[t]))
        BY <3>3, SamePromise DEF ReadTake, Dev!ReadTake, Dev!Answer
      <4> QED  BY <2>3, <4>1
    <3>4. CASE Interrupted(t)
      <4>1. Says(Promise!Failed("ERESTARTSYS"))
        BY <3>4, SamePromise DEF Interrupted, Dev!LockInterrupted, Dev!Answer
      <4> QED  BY <2>3, <4>1
    <3>5. CASE Return(t)
      <4>1. Says(Promise!Pending)
        BY <3>5, SamePromise DEF Return, Dev!Return
      <4> QED  BY <2>3, <4>1
    <3>6. CASE ReadWait(t)
      <4>1. UNCHANGED ret \/ Says(Promise!Failed("ERESTARTSYS"))
        BY <3>6, SamePromise DEF ReadWait, Dev!ReadRetry, Dev!WaitEvent, Dev!Prepare,
           Dev!Recheck, Dev!RecheckSignalled, Dev!Schedule, Dev!Answer
      <4> QED  BY <2>3, <4>1
    <3>7. CASE ReadCopy(t)
      <4>1. \/ UNCHANGED ret \/ Says(Promise!Failed("EMSGSIZE"))
            \/ Says(Promise!Failed("EFAULT"))
        BY <3>7, SamePromise DEF ReadCopy, Dev!ReadTooSmall, Dev!ReadFits,
           Dev!ReadCopyByte, Dev!ReadFault, Dev!ReadUnlock, Dev!Answer
      <4> QED  BY <2>3, <4>1
    <3>8. CASE Dev!WriteFault(t)
      <4>1. Says(Promise!Failed("EFAULT"))
        BY <3>8, SamePromise DEF Dev!WriteFault, Dev!Answer
      <4> QED  BY <2>3, <4>1
    <3>9. CASE Dev!WriteStore(t)
      <4>1. Says(Promise!Reply("ok", Len(Promise!Clip(call[t].data)), <<>>))
        BY <3>9, SamePromise DEF Dev!WriteStore, Dev!Answer
      <4> QED  BY <2>3, <4>1
    <3>10. CASE Dev!WriteCopyByte(t) \/ Dev!WriteUnlock(t) \/ WriteWake(t)
      BY <3>10 DEF Dev!WriteCopyByte, Dev!WriteUnlock, WriteWake, Dev!WriteWake
    <3>11. CASE PollIn(t)
      <4>1. Says(Promise!Reply("ok", 1, <<>>))
        BY <3>11 DEF PollIn, Answer, Dev!Answer
      <4> QED  BY <2>3, <4>1
    <3>12. CASE PollEnds(t)
      <4>1. Says(Promise!Failed("ERESTARTSYS")) \/ Says(Promise!Reply("ok", 0, <<>>))
        BY <3>12 DEF PollEnds, Answer, Dev!Answer
      <4> QED  BY <2>3, <4>1
    <3>13. CASE PollWait(t) \/ PollBlocks(t) \/ PollSchedule(t) \/ PollFreewait(t)
      BY <3>13 DEF PollWait, PollBlocks, PollSchedule, PollFreewait
    <3> QED
      BY <2>2, <3>1, <3>2, <3>3, <3>4, <3>5, <3>6, <3>7, <3>8, <3>9, <3>10, <3>11, <3>12,
         <3>13
      DEF Progress, Write, PollStep
  <2>5. p \in Tasks /\ DOMAIN ret = Tasks
    BY TaskFacts DEF IInv, TypeOK
  <2> QED  BY <2>3, <2>4, <2>5
<1> QED  BY Invariance, <1>1, PTL DEF Spec, PollinHolds

-----------------------------------------------------------------------------
(* The device implements the mailbox *)

\* The device starts as an empty mailbox.
LEMMA InitMailbox == Init => Promise!Init
  BY TaskFacts, SamePromise DEF Init, Dev!Init, Promise!Init

\* What does not change the device does not change the mailbox.
LEMMA StutterMailbox == UNCHANGED vars => UNCHANGED Promise!mailboxVars
  BY DEF vars, devVars, Promise!mailboxVars

\* The steps that leave the mailbox alone.
LEMMA SilentSteps ==
  ASSUME NEW t \in Tasks,
         \/ Signal(t) \/ AcquireLock(t)
         \/ Dev!ReadRetry(t) \/ Dev!WaitEvent(t) \/ Dev!Prepare(t) \/ Dev!Recheck(t)
         \/ Dev!Schedule(t) \/ Dev!ReadFits(t) \/ Dev!ReadCopyByte(t) \/ Dev!ReadUnlock(t)
         \/ Dev!WriteCopyByte(t) \/ Dev!WriteUnlock(t) \/ WriteWake(t)
         \/ PollWait(t) \/ PollBlocks(t) \/ PollSchedule(t) \/ PollTimeout(t)
         \/ PollFreewait(t)
  PROVE  UNCHANGED Promise!mailboxVars
  BY DEF Promise!mailboxVars, Signal, Dev!Signal, AcquireLock, Dev!AcquireLock,
     Dev!ReadLock,
     Dev!WriteLock, Dev!Lock, Dev!ReadRetry, Dev!WaitEvent, Dev!Prepare, Dev!Recheck,
     Dev!Schedule, Dev!ReadFits, Dev!ReadCopyByte, Dev!ReadUnlock, Dev!WriteCopyByte,
     Dev!WriteUnlock, WriteWake, Dev!WriteWake, PollWait, PollBlocks, PollSchedule,
     PollTimeout, PollFreewait

\* The other steps each are one step of the mailbox.
LEMMA VisibleSteps ==
  ASSUME IInv, NEW t \in Tasks,
         \/ ReadWaits(t) \/ ReadLocks(t) \/ WriteCall(t) \/ PollCall(t)
         \/ ReadZero(t) \/ ReadAgain(t)
         \/ Dev!RecheckSignalled(t) \/ Dev!ReadTooSmall(t) \/ Dev!ReadFault(t) \/ ReadTake(t)
         \/ Dev!WriteZero(t) \/ Dev!WriteFault(t) \/ Dev!WriteStore(t)
         \/ PollIn(t) \/ PollEnds(t) \/ Interrupted(t) \/ Return(t)
  PROVE  [Promise!Next]_(Promise!mailboxVars)
<1> USE DEF IInv
<1> DEFINE msg == Promise!Clip(call[t].data)
\* The beginning of a call.
<1>a. ASSUME NEW c \in Calls, pc[t] = "idle", call' = [call EXCEPT ![t] = c],
             UNCHANGED <<slot, ret>>
      PROVE  Promise!Next
  <2>1. Promise!Begin(t, c)
    BY <1>a DEF Promise!Begin, Roles
  <2> QED  BY <2>1 DEF Promise!Next
\* A failure that leaves the message alone.
<1>b. ASSUME ret[t] = Promise!Pending, UNCHANGED <<slot, call>>,
             \/ /\ call[t].op \in Reads \cup {"write", "poll"}
                /\ ret' = [ret EXCEPT ![t] = Promise!Failed("ERESTARTSYS")]
             \/ /\ call[t].op \in Reads
                /\ ret' = [ret EXCEPT ![t] = Promise!Failed("EFAULT")]
      PROVE  Promise!Next
  <2>1. Promise!Abandon(t)
    BY <1>b, SamePromise DEF Promise!Abandon, Promise!InCall, Promise!Answer
  <2> QED  BY <2>1 DEF Promise!Next
<1>0. CASE ReadWaits(t)
  <2>1. PICK c \in Calls : call' = [call EXCEPT ![t] = c]
    <3>1. \A n \in ReadCounts : Call("read", n) \in Calls
      BY DEF Calls, ReadCalls
    <3> QED  BY <1>0, <3>1 DEF ReadWaits, Enter
  <2> QED  BY <1>0, <1>a, <2>1 DEF ReadWaits, Enter
<1>1. CASE ReadLocks(t)
  <2>1. PICK c \in Calls : call' = [call EXCEPT ![t] = c]
    BY <1>1 DEF ReadLocks, Enter, Calls
  <2> QED  BY <1>1, <1>a, <2>1 DEF ReadLocks, Enter
<1>2. CASE WriteCall(t)
  <2>1. PICK c \in Calls : call' = [call EXCEPT ![t] = c]
    BY <1>2 DEF WriteCall, Dev!WriteCall, Calls
  <2> QED  BY <1>2, <1>a, <2>1 DEF WriteCall, Dev!WriteCall
<1>3. CASE PollCall(t)
  <2>1. Call("poll", 0) \in Calls
    BY DEF PollCalls, Calls
  <2> QED  BY <1>3, <1>a, <2>1 DEF PollCall, Enter
<1>4. CASE ReadZero(t)
  <2>1. Promise!Nothing(t)
    BY <1>4, SamePromise DEF ReadZero, Answer, Dev!Answer, Promise!Nothing,
       Promise!InCall, Promise!Answer, Roles, Replies, Answered
  <2> QED  BY <2>1 DEF Promise!Next
<1>5. CASE ReadAgain(t)
  <2>1. Promise!NotReady(t)
    BY <1>5, SamePromise DEF ReadAgain, Dev!Answer, Promise!NotReady, Promise!InCall,
       Promise!Answer, Replies, Answered, Buffer
  <2> QED  BY <2>1 DEF Promise!Next
<1>6. CASE Dev!RecheckSignalled(t)
  <2>1. CASE UNCHANGED ret
    BY <1>6, <2>1 DEF Dev!RecheckSignalled, Promise!mailboxVars
  <2>2. CASE ret' = [ret EXCEPT ![t] = Promise!Failed("ERESTARTSYS")]
    <3>1. pc[t] = "recheck_signalled" /\ UNCHANGED <<slot, call>>
      BY <1>6 DEF Dev!RecheckSignalled
    <3>2. ret[t] = Promise!Pending /\ call[t].op \in Reads
      BY <3>1 DEF Roles, Replies, Answered, WaitLabels, Reads
    <3> QED  BY <1>b, <2>2, <3>1, <3>2
  <2> QED  BY <1>6, <2>1, <2>2, SamePromise DEF Dev!RecheckSignalled, Dev!Answer
<1>7. CASE Dev!ReadTooSmall(t)
  <2>1. Promise!TooSmall(t)
    BY <1>7, SamePromise DEF Dev!ReadTooSmall, Dev!Answer, Promise!TooSmall,
       Promise!InCall, Promise!Answer, Roles, Replies, Answered, Buffer
  <2> QED  BY <2>1 DEF Promise!Next
<1>8. CASE Dev!ReadFault(t)
  <2>1. /\ pc[t] = "copy_out" /\ UNCHANGED <<slot, call>>
        /\ ret' = [ret EXCEPT ![t] = Promise!Failed("EFAULT")]
    BY <1>8, SamePromise DEF Dev!ReadFault, Dev!Answer
  <2>2. ret[t] = Promise!Pending /\ call[t].op \in Reads
    BY <2>1 DEF Roles, Replies, Answered
  <2> QED  BY <1>b, <2>1, <2>2
<1>9. CASE ReadTake(t)
  \* The bytes that were copied to the caller are the whole message.
  <2>1. /\ pc[t] = "copy_out" /\ slot' = <<>> /\ UNCHANGED call
        /\ Len(moved[t]) = device_size
        /\ ret' = [ret EXCEPT ![t] = Promise!Reply("ok", device_size, moved[t])]
    BY <1>9, SamePromise DEF ReadTake, Dev!ReadTake, Dev!Answer
  <2>2. moved[t] = slot /\ slot # <<>> /\ Len(slot) <= call[t].count
    <3>1. /\ moved[t] \in Message /\ slot \in Message /\ Len(moved[t]) = Len(slot)
          /\ \A i \in 1..Len(moved[t]) : moved[t][i] = slot[i]
          /\ slot # <<>> /\ Len(slot) <= call[t].count
      BY <2>1 DEF TypeOK, Copying, Buffer
    <3> QED  BY <3>1, SameMessage
  <2>3. Promise!Take(t)
    BY <2>1, <2>2, SamePromise DEF Promise!Take, Promise!InCall, Promise!Answer, Roles,
       Replies, Answered, Buffer
  <2> QED  BY <2>3 DEF Promise!Next
<1>10. CASE Dev!WriteZero(t)
  <2>1. Promise!Nothing(t)
    BY <1>10, SamePromise DEF Dev!WriteZero, Dev!Answer, Promise!Nothing, Promise!InCall,
       Promise!Answer, Roles, Replies, Answered
  <2> QED  BY <2>1 DEF Promise!Next
<1>11. CASE Dev!WriteFault(t)
  <2>1. /\ pc[t] = "copy_in" /\ Len(moved[t]) < Len(msg) /\ UNCHANGED call
        /\ slot' = Promise!Overlay(slot, msg, Len(moved[t]))
        /\ ret' = [ret EXCEPT ![t] = Promise!Failed("EFAULT")]
    BY <1>11, SamePromise DEF Dev!WriteFault, Dev!Answer
  <2>2. Len(moved[t]) \in 0..(Len(msg) - 1)
    BY <2>1, EmptyMessage, ClipFacts DEF TypeOK, Arguments
  <2>3. call[t].op = "write" /\ ret[t] = Promise!Pending
    BY <2>1 DEF Roles, Replies, Answered
  <2>4. Promise!Spoil(t)
    BY <2>1, <2>2, <2>3 DEF Promise!Spoil, Promise!InCall, Promise!Answer
  <2> QED  BY <2>4 DEF Promise!Next
<1>12. CASE Dev!WriteStore(t)
  <2>1. /\ pc[t] = "copy_in" /\ slot' = msg /\ UNCHANGED call
        /\ ret' = [ret EXCEPT ![t] = Promise!Reply("ok", Len(msg), <<>>)]
    BY <1>12, SamePromise DEF Dev!WriteStore, Dev!Answer
  <2>2. call[t].op = "write" /\ ret[t] = Promise!Pending /\ msg # <<>>
    BY <2>1, ClipFacts DEF Roles, Replies, Answered, TypeOK, Arguments
  <2>3. Promise!Put(t)
    BY <2>1, <2>2 DEF Promise!Put, Promise!InCall, Promise!Answer
  <2> QED  BY <2>3 DEF Promise!Next
<1>13. CASE PollIn(t)
  <2>1. Promise!Observe(t)
    BY <1>13 DEF PollIn, Answer, Dev!Answer, Promise!Observe, Promise!InCall,
       Promise!Answer, Roles, Queued, Replies, Answered, Buffer
  <2> QED  BY <2>1 DEF Promise!Next
<1>14. CASE PollEnds(t)
  <2>1. /\ pc[t] = "poll_mask" /\ UNCHANGED <<slot, call>>
        /\ \/ ret' = [ret EXCEPT ![t] = Promise!Failed("ERESTARTSYS")]
           \/ ret' = [ret EXCEPT ![t] = Promise!Reply("ok", 0, <<>>)]
    BY <1>14 DEF PollEnds, Answer, Dev!Answer
  <2>2. ret[t] = Promise!Pending /\ call[t].op = "poll"
    BY <2>1 DEF Roles, Queued, Replies, Answered
  <2>3. CASE ret' = [ret EXCEPT ![t] = Promise!Reply("ok", 0, <<>>)]
    <3>1. Promise!Observe(t)
      BY <2>1, <2>2, <2>3 DEF Promise!Observe, Promise!InCall, Promise!Answer
    <3> QED  BY <3>1 DEF Promise!Next
  <2> QED  BY <1>b, <2>1, <2>2, <2>3
<1>15. CASE Interrupted(t)
  <2>1. /\ pc[t] \in {"read_lock", "write_lock"} /\ UNCHANGED <<slot, call>>
        /\ ret' = [ret EXCEPT ![t] = Promise!Failed("ERESTARTSYS")]
    BY <1>15, SamePromise DEF Interrupted, Dev!LockInterrupted, Dev!Answer
  <2>2. ret[t] = Promise!Pending /\ call[t].op \in Reads \cup {"write", "poll"}
    BY <2>1 DEF Roles, Replies, Answered
  <2> QED  BY <1>b, <2>1, <2>2
<1>16. CASE Return(t)
  <2>1. /\ pc[t] = "return" /\ UNCHANGED slot
        /\ call' = [call EXCEPT ![t] = Promise!NoCall]
        /\ ret' = [ret EXCEPT ![t] = Promise!Pending]
    BY <1>16, SamePromise DEF Return, Dev!Return
  <2>2. ret[t] # Promise!Pending
    BY <2>1, OutcomeTypes DEF Replies, Answered
  <2>3. Promise!Return(t)
    BY <2>1, <2>2 DEF Promise!Return
  <2> QED  BY <2>3 DEF Promise!Next
<1> QED
  BY <1>0, <1>1, <1>2, <1>3, <1>4, <1>5, <1>6, <1>7, <1>8, <1>9, <1>10, <1>11, <1>12,
     <1>13, <1>14, <1>15, <1>16

\* The device is a mailbox for one message: every read(), write() and poll(), and
\* every failure of them, takes effect in one step, whatever locks, sleeps and
\* byte-wise copies it is made of (si_waitqueue07.c:175-252, si_poll08.c:100-252).
THEOREM DeviceIsMailbox == Spec => KeepsPromise
<1>1. IInv /\ [Next]_vars => [Promise!Next]_(Promise!mailboxVars)
  <2>1. CASE UNCHANGED vars
    BY <2>1, StutterMailbox
  <2>2. ASSUME IInv, Next PROVE [Promise!Next]_(Promise!mailboxVars)
    <3> PICK t \in Tasks : \/ ReadWaits(t) \/ ReadLocks(t) \/ WriteCall(t) \/ PollCall(t)
                           \/ Signal(t) \/ PollTimeout(t) \/ AcquireLock(t) \/ Progress(t)
      BY <2>2 DEF Next
    <3> QED
      BY <2>2, SilentSteps, VisibleSteps
      DEF Progress, ReadWait, ReadCopy, Write, PollStep
  <2> QED  BY <2>1, <2>2
<1> QED  BY InitMailbox, Invariance, <1>1, PTL DEF Spec, KeepsPromise, Promise!Spec
=============================================================================
