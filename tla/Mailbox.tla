------------------------------ MODULE Mailbox ------------------------------
(***************************************************************************)
(* What the character devices of lessons 07 (wait queue) and 08 (poll)     *)
(* promise to the tasks that call them: a mailbox that holds at most one   *)
(* message.  A call takes effect in one step, somewhere between the step   *)
(* that begins it and the step that returns its reply.                     *)
(*                                                                         *)
(* There is no lock, no wait queue and no copying here: those belong to    *)
(* MessageDevice, which is shown to implement this module.                 *)
(***************************************************************************)
EXTENDS Integers, Sequences

CONSTANTS
  Tasks,        \* the user tasks that have the device open
  Calls,        \* the system calls they may issue
  Nul,          \* the byte 0
  BUFFER_SIZE,  \* the size of device_buffer
  ZeroReads     \* whether a read of zero bytes returns at once (08) or
                \* waits for a message like any other (07)

VARIABLES
  slot,         \* the message that waits to be read, <<>> when there is none
  call,         \* call[t]: the call t is in, NoCall between two calls
  reply         \* reply[t]: the outcome of that call, Pending until it is known

mailboxVars == <<slot, call, reply>>

-----------------------------------------------------------------------------
NoCall  == [op |-> "none", count |-> 0, data |-> <<>>]

\* A reply is a status, the returned byte count and the bytes handed to the
\* caller.
Reply(status, count, data) ==
  [status |-> status, count |-> count, data |-> data]

Pending      == Reply("pending", 0, <<>>)
Failed(code) == Reply(code, 0, <<>>)

Min2(m, n) == IF m < n THEN m ELSE n

\* write() keeps at most BUFFER_SIZE - 1 bytes of what the caller offers.
Clip(data) == SubSeq(data, 1, Min2(Len(data), BUFFER_SIZE - 1))

\* What remains of the message old when a write of new gives up after k bytes:
\* k new bytes, then bytes that copy_from_user() cleared, then old bytes.
Overlay(old, new, k) ==
  [i \in 1..Len(old) |-> IF i <= k THEN new[i]
                         ELSE IF i <= Len(new) THEN Nul ELSE old[i]]

-----------------------------------------------------------------------------
Init ==
  /\ slot  = <<>>
  /\ call  = [t \in Tasks |-> NoCall]
  /\ reply = [t \in Tasks |-> Pending]

Begin(t, c) ==
  /\ call[t] = NoCall
  /\ call' = [call EXCEPT ![t] = c]
  /\ UNCHANGED <<slot, reply>>

\* t is in a call of one of these kinds, which has not taken effect yet.
InCall(t, ops) == call[t].op \in ops /\ reply[t] = Pending

Reads == {"read", "read_nonblock"}

Answer(t, r) == reply' = [reply EXCEPT ![t] = r] /\ UNCHANGED call

\* A write replaces whatever message was there.
Put(t) ==
  LET msg == Clip(call[t].data)
  IN  /\ InCall(t, {"write"}) /\ msg # <<>>
      /\ slot' = msg
      /\ Answer(t, Reply("ok", Len(msg), <<>>))

\* A read takes the whole message and leaves the mailbox empty.
Take(t) ==
  /\ InCall(t, Reads) /\ slot # <<>> /\ Len(slot) <= call[t].count
  /\ slot' = <<>>
  /\ Answer(t, Reply("ok", Len(slot), slot))

\* A read whose buffer is too small leaves the message in place.
TooSmall(t) ==
  /\ InCall(t, Reads) /\ slot # <<>> /\ call[t].count < Len(slot)
  /\ Answer(t, Failed("EMSGSIZE"))
  /\ UNCHANGED slot

\* A call on zero bytes does nothing.
Nothing(t) ==
  /\ InCall(t, {"write"} \cup (IF ZeroReads THEN Reads ELSE {}))
  /\ call[t].count = 0
  /\ Answer(t, Reply("ok", 0, <<>>))
  /\ UNCHANGED slot

\* A non-blocking read finds the mailbox empty.
NotReady(t) ==
  /\ InCall(t, {"read_nonblock"}) /\ slot = <<>>
  /\ Answer(t, Failed("EAGAIN"))
  /\ UNCHANGED slot

\* A signal ends any call, and a bad user address ends a read: neither touches
\* the message.
Abandon(t) ==
  /\ \/ /\ InCall(t, Reads \cup {"write", "poll"})
        /\ Answer(t, Failed("ERESTARTSYS"))
     \/ /\ InCall(t, Reads)
        /\ Answer(t, Failed("EFAULT"))
  /\ UNCHANGED slot

\* A bad user address ends a write after k bytes, at the expense of the message
\* that was waiting: it keeps its length and loses a prefix.
Spoil(t) ==
  LET msg == Clip(call[t].data)
  IN  /\ InCall(t, {"write"})
      /\ \E k \in 0..(Len(msg) - 1) : slot' = Overlay(slot, msg, k)
      /\ Answer(t, Failed("EFAULT"))

\* poll() reports the mailbox readable only when there is a message; it may
\* report that it saw none at any time (a message may arrive just after).
Observe(t) ==
  /\ InCall(t, {"poll"})
  /\ \E n \in {0, 1} : /\ n = 1 => slot # <<>>
                       /\ Answer(t, Reply("ok", n, <<>>))
  /\ UNCHANGED slot

Return(t) ==
  /\ reply[t] # Pending
  /\ call'  = [call  EXCEPT ![t] = NoCall]
  /\ reply' = [reply EXCEPT ![t] = Pending]
  /\ UNCHANGED slot

Next ==
  \E t \in Tasks :
    \/ \E c \in Calls : Begin(t, c)
    \/ Put(t) \/ Take(t) \/ TooSmall(t) \/ Nothing(t) \/ NotReady(t)
    \/ Abandon(t) \/ Spoil(t) \/ Observe(t) \/ Return(t)

Spec == Init /\ [][Next]_mailboxVars
=============================================================================
