------------------------------ MODULE Document ------------------------------
(***************************************************************************)
(* What the character devices of lessons 04 to 06 promise: a document of   *)
(* less than BUFFER_SIZE bytes.  A write replaces it; a read returns the   *)
(* bytes that stood at the caller's position at one moment of the call.    *)
(***************************************************************************)
EXTENDS Integers, Sequences

CONSTANTS
  Tasks,        \* the user tasks, each with a file descriptor of its own
  Calls,        \* the system calls they may issue
  Initial,      \* the text the device is loaded with
  Nul,          \* the byte 0
  BUFFER_SIZE   \* the size of device_buffer

VARIABLES
  content,      \* the document
  pos,          \* the position of each task's descriptor
  call, reply,  \* the call each task is in, and its outcome once it is known
  seen          \* what a read has seen, until its outcome is known

documentVars == <<content, pos, call, reply, seen>>

-----------------------------------------------------------------------------
NoCall  == [op |-> "none", count |-> 0, data |-> <<>>]

Reply(status, count, data) ==
  [status |-> status, count |-> count, data |-> data]

Pending      == Reply("pending", 0, <<>>)
Failed(code) == Reply(code, 0, <<>>)

\* seen[t] is empty or holds the bytes.
Nothing     == <<>>
Seen(bytes) == <<bytes>>

Min2(m, n) == IF m < n THEN m ELSE n

Clip(data) == SubSeq(data, 1, Min2(Len(data), BUFFER_SIZE - 1))

\* What a read of n bytes finds at position p of text.
Piece(text, p, n) == SubSeq(text, p + 1, Min2(p + n, Len(text)))

\* What a write that gives up after k bytes of new leaves of old.
Overlay(old, new, k) ==
  [i \in 1..Len(old) |-> IF i <= k THEN new[i]
                         ELSE IF i <= Len(new) THEN Nul ELSE old[i]]

-----------------------------------------------------------------------------
Init ==
  /\ content = Initial
  /\ pos     = [t \in Tasks |-> 0]
  /\ call    = [t \in Tasks |-> NoCall]
  /\ reply   = [t \in Tasks |-> Pending]
  /\ seen    = [t \in Tasks |-> Nothing]

Begin(t, c) ==
  /\ call[t] = NoCall
  /\ call' = [call EXCEPT ![t] = c]
  /\ UNCHANGED <<content, pos, reply, seen>>

InCall(t, op) == call[t].op = op /\ reply[t] = Pending

Answer(t, r) == reply' = [reply EXCEPT ![t] = r] /\ UNCHANGED call

\* A read sees the document at one moment ...
Look(t) ==
  /\ InCall(t, "read") /\ seen[t] = Nothing
  /\ seen' = [seen EXCEPT ![t] = Seen(Piece(content, pos[t], call[t].count))]
  /\ UNCHANGED <<content, pos, call, reply>>

\* ... and returns what it saw, moving the caller's position behind it.
Deliver(t) ==
  /\ InCall(t, "read") /\ seen[t] # Nothing
  /\ Answer(t, Reply("ok", Len(seen[t][1]), seen[t][1]))
  /\ pos' = [pos EXCEPT ![t] = @ + Len(seen[t][1])]
  /\ UNCHANGED <<content, seen>>

EndOfFile(t) ==
  /\ InCall(t, "read") /\ pos[t] >= Len(content)
  /\ Answer(t, Reply("ok", 0, <<>>))
  /\ UNCHANGED <<content, pos, seen>>

\* A write replaces the document; its caller reads from the start again.
Replace(t) ==
  LET text == Clip(call[t].data)
  IN  /\ InCall(t, "write")
      /\ content' = text
      /\ Answer(t, Reply("ok", Len(text), <<>>))
      /\ pos' = [pos EXCEPT ![t] = 0]
      /\ UNCHANGED seen

\* A call that fails changes neither the document nor its caller's position ...
Fail(t) ==
  /\ InCall(t, "read") \/ InCall(t, "write")
  /\ \E code \in {"EFAULT", "ERESTARTSYS"} : Answer(t, Failed(code))
  /\ UNCHANGED <<content, pos, seen>>

\* ... unless it is a write that copies in place.
Spoil(t) ==
  LET text == Clip(call[t].data)
  IN  /\ InCall(t, "write")
      /\ \E k \in 0..(Len(text) - 1) : content' = Overlay(content, text, k)
      /\ Answer(t, Failed("EFAULT"))
      /\ UNCHANGED <<pos, seen>>

Return(t) ==
  /\ reply[t] # Pending
  /\ call'  = [call  EXCEPT ![t] = NoCall]
  /\ reply' = [reply EXCEPT ![t] = Pending]
  /\ seen'  = [seen  EXCEPT ![t] = Nothing]
  /\ UNCHANGED <<content, pos>>

Next ==
  \E t \in Tasks :
    \/ \E c \in Calls : Begin(t, c)
    \/ Look(t) \/ Deliver(t) \/ EndOfFile(t) \/ Replace(t) \/ Fail(t) \/ Spoil(t)
    \/ Return(t)

Spec == Init /\ [][Next]_documentVars

\* Where the write copies to memory of its own first, no failure harms the
\* document.
RobustNext ==
  \E t \in Tasks :
    \/ \E c \in Calls : Begin(t, c)
    \/ Look(t) \/ Deliver(t) \/ EndOfFile(t) \/ Replace(t) \/ Fail(t)
    \/ Return(t)

RobustSpec == Init /\ [][RobustNext]_documentVars
=============================================================================
