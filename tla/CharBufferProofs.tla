-------------------------- MODULE CharBufferProofs --------------------------
(***************************************************************************)
(* Proofs about CharBuffer: whatever the tasks, texts and sizes, the three *)
(* devices are the document of Document, and that of lesson 06 survives    *)
(* every bad address.                                                      *)
(*                                                                         *)
(* What has to be shown is that a copy is not disturbed (Exclusion), that  *)
(* the buffer is the document but for the bytes that a write in progress   *)
(* has replaced (Buffer), that a read has, at each moment, the bytes of    *)
(* one document and its position (Reading), and that a write knows which   *)
(* bytes are its own (Writing).                                            *)
(***************************************************************************)
EXTENDS CharBuffer, SequenceTheorems, TLAPS

\* Where a task is inside the lock of 05 and 06.
Held == {"check", "copy_out", "copy_in", "unlock"}

\* Lesson 04 has no lock, but its callers take turns.
Exclusion ==
  /\ lesson # "04" => \A t \in Tasks : pc[t] \in Held <=> buffer_lock = t
  /\ lesson = "04" =>
       /\ buffer_lock = None
       /\ \A t, u \in Tasks : pc[t] # "idle" /\ pc[u] # "idle" => t = u

Roles ==
  \A t \in Tasks :
    /\ pc[t] = "idle" => call[t] = NoCall
    /\ pc[t] # "idle" => call[t].op \in {"read", "write"}
    /\ pc[t] \in {"check", "copy_out", "to_user"} => call[t].op = "read"
    /\ pc[t] \in {"from_user", "copy_in"} => call[t].op = "write"

Replies ==
  \A t \in Tasks :
    /\ pc[t] \notin {"unlock", "return"} => ret[t] = Pending
    /\ pc[t] = "return" => ret[t].status # "pending"
    /\ pc[t] = "unlock" =>
         \/ ret[t].status # "pending"
         \/ ret[t] = Pending /\ call[t].op = "read" /\ lesson = "06"

\* The buffer holds the document, but for the bytes that a write() in progress has
\* already overwritten.
Buffer ==
  /\ device_size = Len(content)
  /\ \A i \in 1..device_size :
       \/ device_buffer[i] = content[i]
       \/ \E w \in Tasks : pc[w] = "copy_in" /\ i <= Len(moved[w])

\* A read has a part of the bytes it has seen, until it has all of them.
Reading ==
  \A t \in Tasks :
    /\ pc[t] \in {"lock", "from_user", "check", "copy_out", "copy_in"} =>
         offset[t] = f_pos[t]
    /\ pc[t] \in {"idle", "lock", "from_user", "check"} =>
         moved[t] = <<>> /\ seen[t] = Promise!Nothing
    /\ pc[t] = "copy_out" =>
         /\ offset[t] < device_size
         /\ want[t] = Promise!Min2(call[t].count, device_size - offset[t])
         /\ seen[t] = Promise!Seen(Promise!Piece(content, offset[t], call[t].count))
         /\ Len(moved[t]) <= want[t]
         /\ \A i \in 1..Len(moved[t]) : moved[t][i] = content[offset[t] + i]
    /\ pc[t] = "to_user" \/ (pc[t] = "unlock" /\ ret[t] = Pending) =>
         /\ offset[t] = f_pos[t] + want[t]
         /\ seen[t] = Promise!Seen(moved[t]) /\ Len(moved[t]) = want[t]

Writing ==
  \A t \in Tasks :
    pc[t] = "copy_in" =>
      /\ Len(moved[t]) <= Len(Text(t))
      /\ \A i \in 1..Len(moved[t]) : device_buffer[i] = Text(t)[i]

IInv ==
  /\ TypeOK /\ Exclusion /\ Roles /\ Replies /\ Buffer /\ Reading /\ Writing

-----------------------------------------------------------------------------
(* Lemmas about texts *)

\* Two tasks are never inside at the same time.
LEMMA OneInside ==
  ASSUME Exclusion, NEW t \in Tasks, NEW u \in Tasks, pc[t] \in Held, pc[u] \in Held
  PROVE  t = u
  BY DEF Exclusion, Held

\* What a write keeps of the bytes it is offered (si_char04.c:120-121).
LEMMA TextFacts ==
  ASSUME TypeOK, NEW t \in Tasks
  PROVE  /\ Text(t) \in Message /\ Len(Text(t)) \in 0..(BUFFER_SIZE - 1)
         /\ \A i \in 1..Len(Text(t)) : Text(t)[i] \in Bytes \cup {Nul}
<1> DEFINE data == call[t].data
           n    == Promise!Min2(Len(data), BUFFER_SIZE - 1)
<1>1. data \in Seq(Bytes)
  BY DEF TypeOK, Arguments
<1>2. n \in 0..Len(data) /\ n \in 0..(BUFFER_SIZE - 1)
  BY <1>1, BufferAssumption DEF Promise!Min2
<1>3. Text(t) = SubSeq(data, 1, n)
  BY DEF Text, Promise!Clip
<1> HIDE DEF n, data
<1>4. Text(t) \in Seq(Bytes) /\ Len(Text(t)) = n
  BY <1>1, <1>2, <1>3
<1> QED  BY <1>2, <1>4 DEF Message

\* What a read of n bytes finds at position p.
LEMMA PieceFacts ==
  ASSUME NEW text \in Message, NEW p \in Nat, NEW n \in Nat, p < Len(text)
  PROVE  /\ Promise!Piece(text, p, n) \in Message
         /\ Len(Promise!Piece(text, p, n)) = Promise!Min2(n, Len(text) - p)
         /\ \A i \in 1..Len(Promise!Piece(text, p, n)) :
              Promise!Piece(text, p, n)[i] = text[p + i]
<1> DEFINE m     == Promise!Min2(p + n, Len(text))
           piece == SubSeq(text, p + 1, m)
<1>1. Len(text) \in Nat
  BY DEF Message
<1>2. m \in Nat /\ m >= p /\ m <= Len(text) /\ m - p = Promise!Min2(n, Len(text) - p)
  BY <1>1 DEF Promise!Min2
<1> HIDE DEF m
<1>a. \A i \in (p + 1)..m : i \in 1..Len(text)
  BY <1>1, <1>2
<1>b. \A i \in 1..Len(text) : text[i] \in Bytes \cup {Nul}
  BY DEF Message
<1>3. \A i \in (p + 1)..m : text[i] \in Bytes \cup {Nul}
  BY <1>a, <1>b
<1>4. /\ piece \in Seq(Bytes \cup {Nul})
      /\ Len(piece) = IF p + 1 <= m THEN m - (p + 1) + 1 ELSE 0
      /\ \A i \in 1..(m - (p + 1) + 1) : piece[i] = text[p + 1 + i - 1]
  <2> DEFINE q == p + 1
  <2>1. q \in Nat /\ m \in Nat /\ \A i \in q..m : text[i] \in Bytes \cup {Nul}
    BY <1>2, <1>3
  <2> HIDE DEF q
  <2>2. /\ SubSeq(text, q, m) \in Seq(Bytes \cup {Nul})
        /\ Len(SubSeq(text, q, m)) = IF q <= m THEN m - q + 1 ELSE 0
        /\ \A i \in 1..(m - q + 1) : SubSeq(text, q, m)[i] = text[q + i - 1]
    BY <2>1, SubSeqProperties
  <2> QED  BY <2>2 DEF q
<1> HIDE DEF piece
<1>5. Len(piece) = m - p
  BY <1>2, <1>4
<1>6. \A i \in 1..Len(piece) : piece[i] = text[p + i]
  BY <1>2, <1>4, <1>5
<1> QED  BY <1>2, <1>4, <1>5, <1>6 DEF Message, m, piece, Promise!Piece

\* What a write that gives up after k bytes leaves of the document.
LEMMA OverlayFacts ==
  ASSUME NEW old \in Message, NEW new \in Message, NEW k \in Nat, k <= Len(new)
  PROVE  /\ Promise!Overlay(old, new, k) \in Message
         /\ Len(Promise!Overlay(old, new, k)) = Len(old)
         /\ \A i \in 1..Len(old) :
              Promise!Overlay(old, new, k)[i] = IF i <= k THEN new[i]
                                                ELSE IF i <= Len(new) THEN Nul ELSE old[i]
<1>1. \A i \in 1..Len(old) :
        (IF i <= k THEN new[i] ELSE IF i <= Len(new) THEN Nul ELSE old[i])
          \in Bytes \cup {Nul}
  BY DEF Message
<1>2. Len(old) \in Nat
  BY DEF Message
<1> QED  BY <1>1, <1>2 DEF Promise!Overlay, Message

\* A text is determined by its length and its bytes.
LEMMA SameText ==
  ASSUME NEW m \in Message, NEW n \in Message, Len(m) = Len(n),
         \A i \in 1..Len(m) : m[i] = n[i]
  PROVE  m = n
  BY SeqEqual DEF Message

\* A text one byte longer.
LEMMA LongerText ==
  ASSUME NEW m \in Message, NEW byte \in Bytes \cup {Nul}
  PROVE  /\ Append(m, byte) \in Message /\ Len(m) \in Nat
         /\ Len(Append(m, byte)) = Len(m) + 1
         /\ \A i \in 1..Len(m) : Append(m, byte)[i] = m[i]
         /\ Append(m, byte)[Len(m) + 1] = byte
  BY AppendProperties DEF Message

\* The types of the calls, their answers, and what a read has seen.
LEMMA Types ==
  /\ <<>> \in Message /\ NoCall \in Arguments /\ Promise!Nothing \in Seq(Message)
  /\ ReadCalls \subseteq Arguments /\ WriteCalls \subseteq Arguments
  /\ \A c \in ReadCalls : c.op = "read"
  /\ \A c \in WriteCalls : c.op = "write"
  /\ \A m \in Message : Promise!Seen(m) \in Seq(Message) /\ Len(m) \in Nat
<1>1. <<>> \in Message /\ NoCall \in Arguments /\ Promise!Nothing \in Seq(Message)
  BY DEF NoCall, Promise!NoCall, Arguments, Message, Promise!Nothing
<1>2. ASSUME NEW c \in ReadCalls PROVE c \in Arguments /\ c.op = "read"
  <2>1. PICK n \in ReadCounts : c = [op |-> "read", count |-> n, data |-> <<>>]
    BY <1>2 DEF ReadCalls
  <2>2. <<>> \in Seq(Bytes)
    OBVIOUS
  <2> QED  BY <2>1, <2>2, CallAssumption DEF Arguments
<1>3. ASSUME NEW c \in WriteCalls PROVE c \in Arguments /\ c.op = "write"
  BY <1>3, CallAssumption DEF WriteCalls, Arguments
<1>4. ASSUME NEW m \in Message PROVE Promise!Seen(m) \in Seq(Message) /\ Len(m) \in Nat
  BY DEF Promise!Seen, Message
<1> QED  BY <1>1, <1>2, <1>3, <1>4

LEMMA OutcomeTypes ==
  /\ Pending \in Outcome /\ Pending.status = "pending"
  /\ \A code \in Statuses :
       Promise!Failed(code) \in Outcome /\ Promise!Failed(code).status = code
  /\ \A n \in 0..(BUFFER_SIZE - 1), m \in Message :
       /\ Promise!Reply("ok", n, m) \in Outcome
       /\ Promise!Reply("ok", n, m).status = "ok"
<1>1. <<>> \in Message
  BY DEF Message
<1>2. 0 \in 0..(BUFFER_SIZE - 1)
  BY BufferAssumption
<1> QED
  BY <1>1, <1>2 DEF Pending, Promise!Pending, Promise!Failed, Promise!Reply, Outcome,
     Statuses

-----------------------------------------------------------------------------
(* The invariant is inductive *)

\* The module is loaded with a document, and nobody is in it.
LEMMA InitIInv == Init => IInv
<1> SUFFICES ASSUME Init PROVE IInv
  OBVIOUS
<1>1. Initial \in Message /\ Len(Initial) \in 0..(BUFFER_SIZE - 1)
  BY BufferAssumption DEF Message
<1>2. TypeOK
  <2>1. device_buffer \in [1..BUFFER_SIZE -> Bytes \cup {Nul}]
    BY BufferAssumption DEF Init
  <2>2. 0 \in 0..(BUFFER_SIZE - 1) /\ "idle" \in Labels
    BY BufferAssumption DEF Labels
  <2>3. Len(Initial) < BUFFER_SIZE
    BY BufferAssumption
  <2>4. /\ device_size \in 0..(BUFFER_SIZE - 1) /\ content \in Message
        /\ Len(content) < BUFFER_SIZE
    BY <1>1, <2>3 DEF Init
  <2>5. /\ call \in [Tasks -> Arguments] /\ ret \in [Tasks -> Outcome]
        /\ moved \in [Tasks -> Message] /\ seen \in [Tasks -> Seq(Message)]
    BY Types, OutcomeTypes DEF Init
  <2>6. /\ f_pos \in [Tasks -> 0..(BUFFER_SIZE - 1)]
        /\ offset \in [Tasks -> 0..(BUFFER_SIZE - 1)]
        /\ want \in [Tasks -> 0..(BUFFER_SIZE - 1)]
    BY <2>2 DEF Init
  <2> QED  BY <2>1, <2>2, <2>4, <2>5, <2>6 DEF Init, TypeOK
<1>3. Exclusion /\ Roles /\ Replies /\ Writing
  BY NoneAssumption DEF Init, Exclusion, Held, Roles, Replies, Writing
<1>4. Buffer
  BY <1>1, BufferAssumption DEF Init, Buffer
<1>5. Reading
  BY DEF Init, Reading
<1> QED  BY <1>2, <1>3, <1>4, <1>5 DEF IInv

\* Steps of others leave the device as it is.
LEMMA StutterIInv == IInv /\ UNCHANGED vars => IInv'
<1> SUFFICES ASSUME IInv, UNCHANGED vars PROVE IInv'
  OBVIOUS
<1> USE DEF IInv, vars, shared, locals
<1>1. TypeOK' /\ Exclusion' /\ Roles' /\ Replies' /\ Buffer'
  BY DEF TypeOK, Exclusion, Roles, Replies, Buffer
<1>2. Reading' /\ Writing'
  BY DEF Reading, Writing, Text
<1> QED  BY <1>1, <1>2

\* The next byte of a copy lies in the text and in the buffer.
LEMMA IndexFacts ==
  ASSUME NEW n \in Nat, NEW w \in Nat, NEW o \in Nat, NEW s \in Nat, NEW b \in Nat,
         n < w, w <= s - o, s <= b - 1
  PROVE  n + 1 \in 1..w /\ o + (n + 1) \in 1..s /\ o + (n + 1) \in 1..b
  OBVIOUS

\* The bytes that a read has when it has as many as it wants are those it has seen.
LEMMA ReadSeesAll ==
  ASSUME IInv, NEW t \in Tasks, pc[t] = "copy_out", Len(moved[t]) = want[t]
  PROVE  /\ seen[t] = Promise!Seen(moved[t])
         /\ moved[t] = Promise!Piece(content, offset[t], call[t].count)
<1> DEFINE piece == Promise!Piece(content, offset[t], call[t].count)
<1> USE DEF IInv
<1>1. /\ content \in Message /\ offset[t] \in Nat /\ call[t].count \in Nat
      /\ moved[t] \in Message
  BY BufferAssumption DEF TypeOK, Arguments
<1>2. /\ offset[t] < Len(content) /\ seen[t] = Promise!Seen(piece)
      /\ Len(moved[t]) = Promise!Min2(call[t].count, Len(content) - offset[t])
      /\ \A i \in 1..Len(moved[t]) : moved[t][i] = content[offset[t] + i]
  BY DEF Reading, Buffer
<1>3. piece \in Message /\ Len(piece) = Len(moved[t])
      /\ \A i \in 1..Len(piece) : piece[i] = content[offset[t] + i]
  <2> DEFINE p == offset[t]
             n == call[t].count
  <2>1. p \in Nat /\ n \in Nat /\ p < Len(content) /\ content \in Message
    BY <1>1, <1>2
  <2> HIDE DEF p, n
  <2>2. /\ Promise!Piece(content, p, n) \in Message
        /\ Len(Promise!Piece(content, p, n)) = Promise!Min2(n, Len(content) - p)
        /\ \A i \in 1..Len(Promise!Piece(content, p, n)) :
             Promise!Piece(content, p, n)[i] = content[p + i]
    BY <2>1, PieceFacts
  <2>3. piece = Promise!Piece(content, p, n)
        /\ Len(moved[t]) = Promise!Min2(n, Len(content) - p)
    BY <1>2 DEF p, n
  <2> HIDE DEF piece
  <2>4. piece \in Message /\ Len(piece) = Len(moved[t])
        /\ \A i \in 1..Len(piece) : piece[i] = content[p + i]
    BY <2>2, <2>3
  <2> QED  BY <2>4 DEF p
<1> HIDE DEF piece
<1>4. moved[t] = piece
  <2>1. \A i \in 1..Len(moved[t]) : moved[t][i] = piece[i]
    BY <1>2, <1>3
  <2> QED  BY <1>1, <1>3, <2>1, SameText
<1> QED  BY <1>2, <1>4 DEF piece

\* One case per action, and in it one step per part of IInv the action disturbs.
LEMMA NextIInv == IInv /\ Next => IInv'
<1> SUFFICES ASSUME IInv, NEW t \in Tasks, Call(t) \/ Lock(t) \/ Progress(t)
             PROVE  IInv'
  BY DEF Next
<1> USE DEF IInv, shared, locals
<1>1. CASE Call(t)
  <2>1. TypeOK'
    BY <1>1, Types DEF Call, GoTo, TypeOK, Labels
  <2>2. Exclusion'
    BY <1>1, TurnsAssumption, NoneAssumption DEF Call, GoTo, Exclusion, Held, TypeOK
  <2>3. Roles'
    BY <1>1, Types DEF Call, GoTo, Roles, TypeOK
  <2>4. Replies'
    BY <1>1 DEF Call, GoTo, Replies, TypeOK
  <2>5. Buffer'
    BY <1>1 DEF Call, GoTo, Buffer, TypeOK
  <2>6. Reading'
    BY <1>1 DEF Call, GoTo, Reading, TypeOK
  <2>7. Writing'
    BY <1>1 DEF Call, GoTo, Writing, Text, TypeOK
  <2> QED  BY <2>1, <2>2, <2>3, <2>4, <2>5, <2>6, <2>7 DEF IInv
<1>2. CASE FromUser(t)
  <2>a. /\ Promise!Failed("EFAULT").status = "EFAULT" /\ Promise!Failed("EFAULT") \in Outcome
        /\ Promise!Failed("ERESTARTSYS").status = "ERESTARTSYS"
        /\ Promise!Failed("ERESTARTSYS") \in Outcome
        /\ Pending.status = "pending"
    BY OutcomeTypes DEF Statuses
  <2>1. TypeOK'
    BY <1>2, <2>a DEF FromUser, GoTo, Answer, TypeOK, Labels, Statuses
  <2>2. Exclusion'
    BY <1>2 DEF FromUser, GoTo, Answer, Exclusion, Held, TypeOK
  <2>3. Roles'
    BY <1>2 DEF FromUser, GoTo, Answer, Roles, TypeOK
  <2>4. Replies'
    BY <1>2, <2>a DEF FromUser, GoTo, Answer, Replies, TypeOK
  <2>5. Buffer'
    BY <1>2 DEF FromUser, GoTo, Answer, Buffer, TypeOK
  <2>6. Reading'
    BY <1>2, <2>a DEF FromUser, GoTo, Answer, Reading, TypeOK
  <2>7. Writing'
    BY <1>2 DEF FromUser, GoTo, Answer, Writing, Text, TypeOK
  <2> QED  BY <2>1, <2>2, <2>3, <2>4, <2>5, <2>6, <2>7 DEF IInv
<1>3. CASE Lock(t)
  <2>1. TypeOK'
    BY <1>3 DEF Lock, GoTo, TypeOK, Labels
  <2>2. Exclusion'
    BY <1>3, NoneAssumption DEF Lock, GoTo, Exclusion, Held, TypeOK
  <2>3. Roles'
    BY <1>3 DEF Lock, GoTo, Roles, TypeOK
  <2>4. Replies'
    BY <1>3 DEF Lock, GoTo, Replies, TypeOK
  <2>5. Buffer'
    BY <1>3 DEF Lock, GoTo, Buffer, TypeOK
  <2>6. Reading'
    BY <1>3 DEF Lock, GoTo, Reading, TypeOK
  <2>7. Writing'
    <3>1. Len(moved[t]) = 0
      BY <1>3 DEF Lock, Reading
    <3>2. Len(Text(t)) \in Nat
      BY TextFacts
    <3> QED  BY <1>3, <3>1, <3>2 DEF Lock, GoTo, Writing, Text, TypeOK
  <2> QED  BY <2>1, <2>2, <2>3, <2>4, <2>5, <2>6, <2>7 DEF IInv
<1>4. CASE LockInterrupted(t)
  <2>a. /\ Promise!Failed("EFAULT").status = "EFAULT" /\ Promise!Failed("EFAULT") \in Outcome
        /\ Promise!Failed("ERESTARTSYS").status = "ERESTARTSYS"
        /\ Promise!Failed("ERESTARTSYS") \in Outcome
        /\ Pending.status = "pending"
    BY OutcomeTypes DEF Statuses
  <2>1. TypeOK'
    BY <1>4, <2>a DEF LockInterrupted, GoTo, Answer, TypeOK, Labels, Statuses
  <2>2. Exclusion'
    BY <1>4 DEF LockInterrupted, GoTo, Answer, Exclusion, Held, TypeOK
  <2>3. Roles'
    BY <1>4 DEF LockInterrupted, GoTo, Answer, Roles, TypeOK
  <2>4. Replies'
    BY <1>4, <2>a DEF LockInterrupted, GoTo, Answer, Replies, TypeOK
  <2>5. Buffer'
    BY <1>4 DEF LockInterrupted, GoTo, Answer, Buffer, TypeOK
  <2>6. Reading'
    BY <1>4, <2>a DEF LockInterrupted, GoTo, Answer, Reading, TypeOK
  <2>7. Writing'
    BY <1>4 DEF LockInterrupted, GoTo, Answer, Writing, Text, TypeOK
  <2> QED  BY <2>1, <2>2, <2>3, <2>4, <2>5, <2>6, <2>7 DEF IInv
<1>5. CASE Unlock(t)
  <2>1. TypeOK'
    BY <1>5 DEF Unlock, GoTo, TypeOK, Labels
  <2>2. Exclusion'
    BY <1>5, NoneAssumption DEF Unlock, GoTo, Exclusion, Held, TypeOK
  <2>3. Roles'
    <3>1. ret[t] = Pending => call[t].op = "read"
      BY <1>5, OutcomeTypes DEF Unlock, Replies
    <3> QED  BY <1>5, <3>1 DEF Unlock, GoTo, Roles, TypeOK
  <2>4. Replies'
    BY <1>5 DEF Unlock, GoTo, Replies, TypeOK
  <2>5. Buffer'
    BY <1>5 DEF Unlock, GoTo, Buffer, TypeOK
  <2>6. Reading'
    BY <1>5 DEF Unlock, GoTo, Reading, TypeOK
  <2>7. Writing'
    BY <1>5 DEF Unlock, GoTo, Writing, Text, TypeOK
  <2> QED  BY <2>1, <2>2, <2>3, <2>4, <2>5, <2>6, <2>7 DEF IInv
<1>6. CASE ReadEof(t)
  <2>a. /\ Promise!Reply("ok", 0, <<>>) \in Outcome
        /\ Promise!Reply("ok", 0, <<>>).status = "ok" /\ Pending.status = "pending"
    <3>1. 0 \in 0..(BUFFER_SIZE - 1)
      BY BufferAssumption
    <3> QED  BY <3>1, OutcomeTypes, Types
  <2>1. TypeOK'
    BY <1>6, <2>a DEF ReadEof, GoTo, Answer, TypeOK, Labels, Statuses
  <2>2. Exclusion'
    BY <1>6 DEF ReadEof, GoTo, Answer, Exclusion, Held, TypeOK
  <2>3. Roles'
    BY <1>6 DEF ReadEof, GoTo, Answer, Roles, TypeOK
  <2>4. Replies'
    BY <1>6, <2>a DEF ReadEof, GoTo, Answer, Replies, TypeOK
  <2>5. Buffer'
    BY <1>6 DEF ReadEof, GoTo, Answer, Buffer, TypeOK
  <2>6. Reading'
    BY <1>6, <2>a DEF ReadEof, GoTo, Answer, Reading, TypeOK
  <2>7. Writing'
    BY <1>6 DEF ReadEof, GoTo, Answer, Writing, Text, TypeOK
  <2> QED  BY <2>1, <2>2, <2>3, <2>4, <2>5, <2>6, <2>7 DEF IInv
<1>7. CASE ReadBegin(t)
  <2> DEFINE n     == Promise!Min2(call[t].count, device_size - offset[t])
             piece == Promise!Piece(content, offset[t], call[t].count)
  <2>a. call[t].count \in Nat /\ offset[t] < Len(content) /\ content \in Message
    BY <1>7 DEF ReadBegin, TypeOK, Arguments, Buffer
  <2>b. piece \in Message /\ n \in 0..(BUFFER_SIZE - 1)
    <3>1. piece \in Message
      BY <2>a, PieceFacts DEF TypeOK
    <3>2. /\ call[t].count \in Nat /\ device_size \in 0..(BUFFER_SIZE - 1)
          /\ offset[t] \in 0..(BUFFER_SIZE - 1) /\ offset[t] < device_size
      BY <2>a DEF TypeOK, Buffer
    <3>3. n \in 0..(BUFFER_SIZE - 1)
      BY <3>2, BufferAssumption DEF Promise!Min2
    <3> QED  BY <3>1, <3>3
  <2>c. /\ want' = [want EXCEPT ![t] = n] /\ seen' = [seen EXCEPT ![t] = Promise!Seen(piece)]
        /\ pc' = [pc EXCEPT ![t] = "copy_out"] /\ pc[t] = "check" /\ offset[t] < device_size
        /\ UNCHANGED <<lesson, shared, buffer_lock, call, ret, f_pos, offset, moved, content>>
    BY <1>7 DEF ReadBegin, GoTo
  <2>d. n >= 0
    BY <2>b, BufferAssumption
  <2> HIDE DEF n, piece
  <2>1. TypeOK'
    BY <2>b, <2>c, Types DEF TypeOK, Labels
  <2>2. Exclusion'
    BY <2>c DEF Exclusion, Held, TypeOK
  <2>3. Roles'
    BY <2>c DEF Roles, TypeOK
  <2>4. Replies'
    BY <2>c DEF Replies, TypeOK
  <2>5. Buffer'
    BY <2>c DEF Buffer, TypeOK
  <2>6. Reading'
    BY <2>c, <2>d DEF Reading, TypeOK, n, piece
  <2>7. Writing'
    BY <2>c DEF Writing, Text, TypeOK
  <2> QED  BY <2>1, <2>2, <2>3, <2>4, <2>5, <2>6, <2>7 DEF IInv
<1>8. CASE ReadCopyByte(t)
  <2> DEFINE i      == Len(moved[t]) + 1
             longer == Append(moved[t], device_buffer[offset[t] + i])
  <2>a. /\ pc[t] = "copy_out" /\ Len(moved[t]) < want[t]
        /\ UNCHANGED <<lesson, shared, buffer_lock, pc, call, ret, f_pos, offset, want,
                       content, seen>>
    BY <1>8 DEF ReadCopyByte
  <2>b. moved' = [moved EXCEPT ![t] = longer]
    <3>1. moved' = [moved EXCEPT ![t] =
                      Append(moved[t], device_buffer[offset[t] + Len(moved[t]) + 1])]
      BY <1>8 DEF ReadCopyByte
    <3>2. Len(moved[t]) \in Nat /\ offset[t] \in Nat
      BY Types DEF TypeOK
    <3>3. offset[t] + Len(moved[t]) + 1 = offset[t] + (Len(moved[t]) + 1)
      BY <3>2
    <3> QED  BY <3>1, <3>3
  <2>c. /\ Len(moved[t]) \in Nat /\ offset[t] \in Nat /\ i \in 1..want[t]
        /\ offset[t] + i \in 1..device_size /\ offset[t] + i \in 1..BUFFER_SIZE
    <3>1. /\ offset[t] < device_size
          /\ want[t] = Promise!Min2(call[t].count, device_size - offset[t])
      BY <2>a DEF Reading
    <3>2. /\ call[t].count \in Nat /\ device_size \in 0..(BUFFER_SIZE - 1)
          /\ offset[t] \in Nat /\ want[t] \in Nat /\ moved[t] \in Message
      BY DEF TypeOK, Arguments
    <3>3. Len(moved[t]) \in Nat
      BY <3>2, Types
    <3>4. want[t] <= device_size - offset[t]
      BY <3>1, <3>2 DEF Promise!Min2
    <3>5. Len(moved[t]) < want[t] /\ device_size <= BUFFER_SIZE - 1 /\ BUFFER_SIZE \in Nat
          /\ device_size \in Nat
      BY <2>a, <3>2, BufferAssumption
    <3> QED  BY <3>2, <3>3, <3>4, <3>5, IndexFacts
  <2>d. device_buffer[offset[t] + i] = content[offset[t] + i]
    BY <2>a, <2>c, OneInside DEF Buffer, Held
  <2>e. /\ longer \in Message /\ Len(longer) = i
        /\ \A j \in 1..Len(moved[t]) : longer[j] = moved[t][j]
        /\ longer[i] = device_buffer[offset[t] + i]
    BY <2>c, LongerText DEF TypeOK
  <2>f. \A u \in Tasks \ {t} : pc[u] # "copy_in"
    BY <2>a, OneInside DEF Held
  <2> HIDE DEF longer
  <2>g. moved'[t] = longer /\ \A u \in Tasks \ {t} : moved'[u] = moved[u]
    BY <2>b DEF TypeOK
  <2>1. TypeOK'
    BY <2>a, <2>b, <2>e DEF TypeOK
  <2>2. Exclusion'
    BY <2>a DEF Exclusion
  <2>3. Roles'
    BY <2>a DEF Roles
  <2>4. Replies'
    BY <2>a DEF Replies
  <2>5. Buffer'
    BY <2>a, <2>f DEF Buffer
  <2>6. Reading'
    <3>1. ASSUME NEW j \in 1..i PROVE longer[j] = content[offset[t] + j]
      <4>1. \A k \in 1..Len(moved[t]) : moved[t][k] = content[offset[t] + k]
        BY <2>a DEF Reading
      <4>2. j = i \/ j \in 1..Len(moved[t])
        BY <2>c
      <4> HIDE DEF i
      <4> QED  BY <2>d, <2>e, <4>1, <4>2
    <3>2. Len(longer) <= want[t]
      BY <2>c, <2>e
    <3>3. \A j \in 1..Len(moved'[t]) : moved'[t][j] = content[offset[t] + j]
      BY <2>e, <2>g, <3>1
    <3> HIDE DEF i
    <3>4. ASSUME NEW u \in Tasks, u # t
          PROVE  moved'[u] = moved[u] /\ (pc[u] = "unlock" => FALSE)
      BY <2>a, <2>g, <3>4, OneInside DEF Held
    <3> QED  BY <2>a, <2>g, <3>2, <3>3, <3>4 DEF Reading
  <2>7. Writing'
    BY <2>a, <2>f DEF Writing, Text
  <2> QED  BY <2>1, <2>2, <2>3, <2>4, <2>5, <2>6, <2>7 DEF IInv
<1>9. CASE ReadFault(t)
  <2>a. /\ Promise!Failed("EFAULT").status = "EFAULT" /\ Promise!Failed("EFAULT") \in Outcome
        /\ Promise!Failed("ERESTARTSYS").status = "ERESTARTSYS"
        /\ Promise!Failed("ERESTARTSYS") \in Outcome
        /\ Pending.status = "pending"
    BY OutcomeTypes DEF Statuses
  <2>1. TypeOK'
    BY <1>9, <2>a DEF ReadFault, GoTo, Answer, TypeOK, Labels, Statuses
  <2>2. Exclusion'
    BY <1>9 DEF ReadFault, GoTo, Answer, Exclusion, Held, TypeOK
  <2>3. Roles'
    BY <1>9 DEF ReadFault, GoTo, Answer, Roles, TypeOK
  <2>4. Replies'
    BY <1>9, <2>a DEF ReadFault, GoTo, Answer, Replies, TypeOK
  <2>5. Buffer'
    BY <1>9 DEF ReadFault, GoTo, Answer, Buffer, TypeOK
  <2>6. Reading'
    BY <1>9, <2>a DEF ReadFault, GoTo, Answer, Reading, TypeOK
  <2>7. Writing'
    BY <1>9 DEF ReadFault, GoTo, Answer, Writing, Text, TypeOK
  <2> QED  BY <2>1, <2>2, <2>3, <2>4, <2>5, <2>6, <2>7 DEF IInv
<1>10. CASE ReadDone(t)
  <2> DEFINE piece == Promise!Piece(content, offset[t], call[t].count)
  <2>a. /\ pc[t] = "copy_out" /\ Len(moved[t]) = want[t]
        /\ offset' = [offset EXCEPT ![t] = offset[t] + want[t]]
        /\ pc' = [pc EXCEPT ![t] = "unlock"]
        /\ IF lesson = "06" THEN UNCHANGED ret
           ELSE ret' = [ret EXCEPT ![t] = Promise!Reply("ok", want[t], moved[t])]
        /\ UNCHANGED <<lesson, shared, buffer_lock, call, f_pos, want, moved, content, seen>>
    BY <1>10 DEF ReadDone, GoTo, Answer
  <2>b. offset[t] + want[t] \in 0..(BUFFER_SIZE - 1)
    <3>1. /\ offset[t] < device_size
          /\ want[t] = Promise!Min2(call[t].count, device_size - offset[t])
      BY <2>a DEF Reading
    <3>2. /\ call[t].count \in Nat /\ device_size \in 0..(BUFFER_SIZE - 1)
          /\ offset[t] \in 0..(BUFFER_SIZE - 1) /\ want[t] \in 0..(BUFFER_SIZE - 1)
      BY DEF TypeOK, Arguments
    <3>3. offset[t] + want[t] <= device_size
      BY <3>1, <3>2 DEF Promise!Min2
    <3> QED  BY <3>2, <3>3, BufferAssumption
  <2>c. Promise!Reply("ok", want[t], moved[t]) \in Outcome
        /\ Promise!Reply("ok", want[t], moved[t]).status = "ok"
    BY OutcomeTypes DEF TypeOK
  <2>d. seen[t] = Promise!Seen(moved[t]) /\ offset[t] = f_pos[t]
    BY <2>a, ReadSeesAll DEF Reading
  <2>1. TypeOK'
    BY <2>a, <2>b, <2>c DEF TypeOK, Labels
  <2>2. Exclusion'
    BY <2>a DEF Exclusion, Held, TypeOK
  <2>3. Roles'
    BY <2>a DEF Roles, TypeOK
  <2>4. Replies'
    BY <2>a, <2>c DEF Replies, Roles, TypeOK
  <2>5. Buffer'
    BY <2>a DEF Buffer, TypeOK
  <2>6. Reading'
    BY <2>a, <2>d DEF Reading, TypeOK
  <2>7. Writing'
    BY <2>a DEF Writing, Text, TypeOK
  <2> QED  BY <2>1, <2>2, <2>3, <2>4, <2>5, <2>6, <2>7 DEF IInv
<1>11. CASE ToUser(t)
  <2>a. /\ pc[t] = "to_user" /\ pc' = [pc EXCEPT ![t] = "return"]
        /\ UNCHANGED <<lesson, shared, buffer_lock, call, f_pos, locals, content, seen>>
    BY <1>11 DEF ToUser, GoTo, Answer
  <2>b. PICK r \in Outcome : ret' = [ret EXCEPT ![t] = r] /\ r.status # "pending"
    <3>1. /\ Promise!Failed("EFAULT").status = "EFAULT" /\ Promise!Failed("EFAULT") \in Outcome
      BY OutcomeTypes DEF Statuses
    <3>2. want[t] \in 0..(BUFFER_SIZE - 1) /\ moved[t] \in Message
      BY DEF TypeOK
    <3>3. /\ Promise!Reply("ok", want[t], moved[t]) \in Outcome
          /\ Promise!Reply("ok", want[t], moved[t]).status = "ok"
      BY <3>2, OutcomeTypes
    <3>4. \/ ret' = [ret EXCEPT ![t] = Promise!Reply("ok", want[t], moved[t])]
          \/ ret' = [ret EXCEPT ![t] = Promise!Failed("EFAULT")]
      BY <1>11 DEF ToUser, Answer
    <3> QED  BY <3>1, <3>3, <3>4
  <2>1. TypeOK'
    <3>1. ret' \in [Tasks -> Outcome] /\ pc' \in [Tasks -> Labels]
      BY <2>a, <2>b DEF TypeOK, Labels
    <3> QED  BY <2>a, <3>1 DEF TypeOK
  <2>2. Exclusion'
    BY <2>a DEF Exclusion, Held, TypeOK
  <2>3. Roles'
    BY <2>a DEF Roles, TypeOK
  <2>4. Replies'
    BY <2>a, <2>b DEF Replies, TypeOK
  <2>5. Buffer'
    BY <2>a DEF Buffer, TypeOK
  <2>6. Reading'
    BY <2>a, <2>b DEF Reading, TypeOK
  <2>7. Writing'
    BY <2>a DEF Writing, Text, TypeOK
  <2> QED  BY <2>1, <2>2, <2>3, <2>4, <2>5, <2>6, <2>7 DEF IInv
<1>12. CASE WriteCopyByte(t)
  <2> DEFINE text == Text(t)
             i    == Len(moved[t]) + 1
  <2>a. /\ text \in Message /\ Len(text) \in 0..(BUFFER_SIZE - 1)
        /\ \A j \in 1..Len(text) : text[j] \in Bytes \cup {Nul}
    BY TextFacts
  <2>b. moved[t] \in Message /\ Len(moved[t]) \in Nat
    BY Types DEF TypeOK
  <2>c. i \in 1..Len(text) /\ i \in 1..BUFFER_SIZE
    BY <1>12, <2>a, <2>b, BufferAssumption DEF WriteCopyByte
  <2>d. /\ moved' = [moved EXCEPT ![t] = Append(moved[t], text[i])]
        /\ device_buffer' = [device_buffer EXCEPT ![i] = text[i]]
        /\ pc[t] = "copy_in"
        /\ UNCHANGED <<lesson, device_size, buffer_lock, pc, call, ret, f_pos, offset,
                       want, content, seen>>
    BY <1>12 DEF WriteCopyByte
  <2>e. \A u \in Tasks \ {t} : pc[u] \notin {"copy_in", "copy_out"}
    BY <2>d, OneInside DEF Held
  <2>f. text' = text
    BY <2>d DEF Text
  <2> HIDE DEF text, i
  <2>g. /\ Len(moved'[t]) = i /\ moved'[t] \in Message
        /\ \A u \in Tasks \ {t} : moved'[u] = moved[u]
    BY <2>a, <2>b, <2>c, <2>d, LongerText DEF TypeOK, i
  <2>1. TypeOK'
    <3>1. moved' \in [Tasks -> Message]
      BY <2>d, <2>g, <2>a, <2>b, <2>c, LongerText DEF TypeOK
    <3>2. device_buffer' \in [1..BUFFER_SIZE -> Bytes \cup {Nul}]
      BY <2>a, <2>c, <2>d DEF TypeOK
    <3> QED  BY <2>d, <3>1, <3>2 DEF TypeOK
  <2>2. Exclusion'
    BY <2>d DEF Exclusion
  <2>3. Roles'
    BY <2>d DEF Roles
  <2>4. Replies'
    BY <2>d DEF Replies
  <2>5. Buffer'
    <3>1. ASSUME NEW j \in 1..device_size
          PROVE  device_buffer'[j] = content[j] \/ j <= i
      <4>1. device_buffer[j] = content[j] \/ j <= Len(moved[t])
        BY <2>e DEF Buffer
      <4>2. j \in 1..BUFFER_SIZE
        BY BufferAssumption DEF TypeOK
      <4> QED  BY <4>1, <4>2, <2>b, <2>c, <2>d DEF TypeOK, i
    <3> QED  BY <2>d, <2>g, <3>1 DEF Buffer
  <2>6. Reading'
    BY <2>d, <2>e, <2>g DEF Reading
  <2>7. Writing'
    <3>1. \A j \in 1..Len(moved[t]) : device_buffer[j] = text[j]
      BY <2>d DEF Writing, text
    <3>2. ASSUME NEW j \in 1..i PROVE device_buffer'[j] = text[j]
      <4>1. j = i \/ j \in 1..Len(moved[t])
        BY <2>b, <3>2 DEF i
      <4>2. j \in 1..BUFFER_SIZE
        <5>1. \A m, n \in Nat : \A k \in 1..m : m \in 1..n => k \in 1..n
          OBVIOUS
        <5>2. i \in Nat
          BY <2>b DEF i
        <5> QED  BY <2>c, <3>2, <5>1, <5>2, BufferAssumption
      <4>3. j # i => device_buffer'[j] = device_buffer[j]
        BY <2>d, <4>2 DEF TypeOK
      <4>4. device_buffer'[i] = text[i]
        BY <2>c, <2>d DEF TypeOK
      <4> QED  BY <3>1, <4>1, <4>3, <4>4
    <3>3. i <= Len(text)
      BY <2>a, <2>c
    <3> QED  BY <2>d, <2>e, <2>f, <2>g, <3>2, <3>3 DEF Writing, text
  <2> QED  BY <2>1, <2>2, <2>3, <2>4, <2>5, <2>6, <2>7 DEF IInv
<1>13. CASE WriteFault(t)
  <2> DEFINE text == Text(t)
             k    == Len(moved[t])
  <2>a. /\ text \in Message /\ Len(text) \in 0..(BUFFER_SIZE - 1)
        /\ \A j \in 1..Len(text) : text[j] \in Bytes \cup {Nul}
    BY TextFacts
  <2>b. moved[t] \in Message /\ k \in Nat
    BY Types DEF TypeOK
  <2>c. /\ pc[t] = "copy_in" /\ k < Len(text)
        /\ device_buffer' = [j \in 1..BUFFER_SIZE |->
                              IF j \in (k + 1)..Len(text) THEN Nul ELSE device_buffer[j]]
        /\ content' = Promise!Overlay(content, text, k)
        /\ ret' = [ret EXCEPT ![t] = Promise!Failed("EFAULT")]
        /\ pc' = [pc EXCEPT ![t] = "unlock"]
        /\ UNCHANGED <<lesson, device_size, buffer_lock, call, f_pos, locals, seen>>
    BY <1>13 DEF WriteFault, GoTo, Answer
  <2>d. Promise!Failed("EFAULT") \in Outcome /\ Promise!Failed("EFAULT").status = "EFAULT"
    BY OutcomeTypes DEF Statuses
  <2>e. \A u \in Tasks \ {t} : pc[u] \notin {"copy_in", "copy_out"}
    BY <2>c, OneInside DEF Held
  <2>f. \A j \in 1..k : device_buffer[j] = text[j]
    BY <2>c DEF Writing
  <2> HIDE DEF text, k
  <2>g. /\ content \in Message /\ content' \in Message /\ Len(content') = Len(content)
        /\ \A j \in 1..Len(content) : content'[j] = IF j <= k THEN text[j]
                                       ELSE IF j <= Len(text) THEN Nul ELSE content[j]
    BY <2>a, <2>b, <2>c, OverlayFacts DEF TypeOK
  <2>1. TypeOK'
    <3>1. device_buffer' \in [1..BUFFER_SIZE -> Bytes \cup {Nul}]
      BY <2>c DEF TypeOK
    <3> QED  BY <2>c, <2>d, <2>g, <3>1 DEF TypeOK, Labels
  <2>2. Exclusion'
    BY <2>c DEF Exclusion, Held, TypeOK
  <2>3. Roles'
    BY <2>c DEF Roles, TypeOK
  <2>4. Replies'
    BY <2>c, <2>d DEF Replies, TypeOK
  <2>5. Buffer'
    <3>1. \A j \in 1..device_size : device_buffer[j] = content[j] \/ j <= k
      BY <2>e DEF Buffer, k
    <3>2. ASSUME NEW j \in 1..device_size PROVE device_buffer'[j] = content'[j]
      <4>1. j \in 1..BUFFER_SIZE /\ j \in 1..Len(content) /\ Len(text) \in Nat
        BY <2>a, BufferAssumption DEF TypeOK, Buffer
      <4> QED  BY <4>1, <2>b, <2>c, <2>f, <2>g, <3>1
    <3> QED  BY <2>c, <2>g, <3>2 DEF Buffer
  <2>6. Reading'
    BY <2>c, <2>d, <2>e, OutcomeTypes DEF Reading, TypeOK
  <2>7. Writing'
    BY <2>c, <2>e DEF Writing, TypeOK
  <2> QED  BY <2>1, <2>2, <2>3, <2>4, <2>5, <2>6, <2>7 DEF IInv
<1>14. CASE WriteDone(t)
  <2> DEFINE text == Text(t)
             n    == Len(text)
  <2>a. text \in Message /\ n \in 0..(BUFFER_SIZE - 1)
    BY TextFacts
  <2>c. /\ pc[t] = "copy_in" /\ Len(moved[t]) = n
        /\ device_buffer' = [device_buffer EXCEPT ![n + 1] = Nul]
        /\ device_size' = n /\ content' = text
        /\ offset' = [offset EXCEPT ![t] = 0]
        /\ ret' = [ret EXCEPT ![t] = Promise!Reply("ok", n, <<>>)]
        /\ pc' = [pc EXCEPT ![t] = "unlock"]
        /\ UNCHANGED <<lesson, buffer_lock, call, f_pos, want, moved, seen>>
    BY <1>14 DEF WriteDone, GoTo, Answer
  <2>d. /\ Promise!Reply("ok", n, <<>>) \in Outcome
        /\ Promise!Reply("ok", n, <<>>).status = "ok"
    BY <2>a, Types, OutcomeTypes
  <2>e. \A u \in Tasks \ {t} : pc[u] \notin {"copy_in", "copy_out"}
    BY <2>c, OneInside DEF Held
  <2>f. \A j \in 1..n : device_buffer[j] = text[j]
    BY <2>c DEF Writing
  <2> HIDE DEF text
  <2>1. TypeOK'
    <3>1. n + 1 \in 1..BUFFER_SIZE /\ 0 \in 0..(BUFFER_SIZE - 1)
      BY <2>a, BufferAssumption
    <3>2. device_buffer' \in [1..BUFFER_SIZE -> Bytes \cup {Nul}]
      BY <2>c, <3>1 DEF TypeOK
    <3>3. Len(text) < BUFFER_SIZE
      BY <2>a, BufferAssumption
    <3> QED  BY <2>a, <2>c, <2>d, <3>1, <3>2, <3>3 DEF TypeOK, Labels
  <2>2. Exclusion'
    BY <2>c DEF Exclusion, Held, TypeOK
  <2>3. Roles'
    BY <2>c DEF Roles, TypeOK
  <2>4. Replies'
    BY <2>c, <2>d DEF Replies, TypeOK
  <2>5. Buffer'
    <3>1. ASSUME NEW j \in 1..n PROVE device_buffer'[j] = text[j]
      BY <2>a, <2>c, <2>f, BufferAssumption DEF TypeOK
    <3> QED  BY <2>c, <3>1 DEF Buffer
  <2>6. Reading'
    BY <2>c, <2>d, <2>e, OutcomeTypes DEF Reading, TypeOK
  <2>7. Writing'
    BY <2>c, <2>e DEF Writing, TypeOK
  <2> QED  BY <2>1, <2>2, <2>3, <2>4, <2>5, <2>6, <2>7 DEF IInv
<1>15. CASE Return(t)
  <2>1. TypeOK'
    <3>1. Position[t] \in 0..(BUFFER_SIZE - 1) /\ 0 \in 0..(BUFFER_SIZE - 1)
      BY BufferAssumption DEF Position, TypeOK
    <3> QED  BY <1>15, <3>1, Types, OutcomeTypes DEF Return, GoTo, TypeOK, Labels
  <2>2. Exclusion'
    BY <1>15 DEF Return, GoTo, Exclusion, Held, TypeOK
  <2>3. Roles'
    BY <1>15 DEF Return, GoTo, Roles, TypeOK
  <2>4. Replies'
    BY <1>15 DEF Return, GoTo, Replies, TypeOK
  <2>5. Buffer'
    BY <1>15 DEF Return, GoTo, Buffer, TypeOK
  <2>6. Reading'
    BY <1>15 DEF Return, GoTo, Reading, TypeOK
  <2>7. Writing'
    BY <1>15 DEF Return, GoTo, Writing, Text, TypeOK
  <2> QED  BY <2>1, <2>2, <2>3, <2>4, <2>5, <2>6, <2>7 DEF IInv
<1> QED
  BY <1>1, <1>2, <1>3, <1>4, <1>5, <1>6, <1>7, <1>8, <1>9, <1>10, <1>11, <1>12, <1>13, <1>14, <1>15
  DEF Progress, ReadStep, WriteStep

-----------------------------------------------------------------------------
(* Theorems *)

\* In every reachable state of any of the three devices: the types, who is inside,
\* and what the buffer, the reads and the writes in progress have.
THEOREM Invariance == Spec => []IInv
<1>1. IInv /\ [Next]_vars => IInv'
  BY StutterIInv, NextIInv
<1> QED  BY InitIInv, <1>1, PTL DEF Spec

\* Every variable keeps its type; no text and no position leaves the buffer,
\* whatever is read and written (si_char04.c:96-98, 120-133).
THEOREM TypeCorrect == Spec => []TypeOK
<1>1. IInv => TypeOK
  BY DEF IInv
<1> QED  BY Invariance, <1>1, PTL

\* While nobody is inside, the length and the bytes are those of one document,
\* whatever copies have failed half-way.
THEOREM BufferIsCoherent == Spec => []Coherent
<1>1. IInv => Coherent
  <2> SUFFICES ASSUME IInv, \A t \in Tasks : pc[t] \notin {"check", "copy_out", "copy_in"}
               PROVE  device_size = Len(content)
                        /\ content = SubSeq(device_buffer, 1, device_size)
    BY DEF Coherent
  <2> DEFINE text == SubSeq(device_buffer, 1, device_size)
  <2>1. /\ device_size = Len(content) /\ content \in Message
        /\ \A i \in 1..device_size : device_buffer[i] = content[i]
    BY DEF IInv, Buffer, TypeOK
  <2>2. device_size \in 0..(BUFFER_SIZE - 1)
    BY DEF IInv, TypeOK
  <2>3. device_buffer \in Message /\ Len(device_buffer) = BUFFER_SIZE
    BY BufferAssumption DEF IInv, TypeOK, Message
  <2>4. /\ text \in Message /\ Len(text) = device_size
        /\ \A i \in 1..device_size : text[i] = device_buffer[i]
    BY <2>2, <2>3, BufferAssumption, SubSeqProperties DEF Message
  <2> HIDE DEF text
  <2>5. content = text
    BY <2>1, <2>4, SameText
  <2> QED  BY <2>1, <2>5 DEF text
<1> QED  BY Invariance, <1>1, PTL

-----------------------------------------------------------------------------
(* The devices implement the document *)

\* A device starts as its document.
LEMMA InitDocument == Init => Promise!Init
<1> SUFFICES ASSUME Init PROVE Promise!Init
  OBVIOUS
<1>1. Position = [t \in Tasks |-> 0]
  BY OutcomeTypes DEF Init, Position
<1> QED  BY <1>1 DEF Init, Promise!Init, NoCall, Pending

\* What does not change the device does not change the document.
LEMMA StutterDocument == UNCHANGED vars => UNCHANGED Promise!documentVars
  BY DEF vars, locals, Promise!documentVars, Position

\* The steps that leave the document alone: among them that of lesson 06 which
\* moves the offset before the bytes have reached the user.
LEMMA SilentSteps ==
  ASSUME IInv, NEW t \in Tasks,
         \/ Lock(t) \/ Unlock(t) \/ ReadCopyByte(t) \/ WriteCopyByte(t)
         \/ FromUser(t) /\ UNCHANGED ret
         \/ ReadDone(t) /\ lesson = "06"
  PROVE  UNCHANGED Promise!documentVars
<1>1. UNCHANGED <<call, ret, f_pos, content, seen>>
  BY DEF Lock, Unlock, ReadCopyByte, WriteCopyByte, FromUser, ReadDone, GoTo, shared, locals
<1>2. offset' = offset \/ (ret[t].status # "ok" /\ offset' = [offset EXCEPT ![t] = @ + want[t]])
  BY OutcomeTypes DEF Lock, Unlock, ReadCopyByte, WriteCopyByte, FromUser, ReadDone, GoTo,
     locals, IInv, Replies
<1>3. Position' = Position
  BY <1>1, <1>2 DEF Position, IInv, TypeOK
<1> QED  BY <1>1, <1>3 DEF Promise!documentVars

\* The other steps each are one step of a document that no failure harms; only
\* the write of lessons 04 and 05 that meets a bad address spoils it.
LEMMA VisibleSteps ==
  ASSUME IInv, NEW t \in Tasks,
         \/ Call(t) \/ FromUser(t) \/ LockInterrupted(t) \/ ReadEof(t) \/ ReadBegin(t)
         \/ ReadFault(t) \/ (ReadDone(t) /\ lesson # "06") \/ ToUser(t)
         \/ WriteFault(t) \/ WriteDone(t) \/ Return(t)
  PROVE  \/ Promise!RobustNext
         \/ UNCHANGED Promise!documentVars
         \/ (Promise!Spoil(t) /\ lesson # "06")
<1> USE DEF IInv, shared, locals
<1> DEFINE Calls == ReadCalls \cup WriteCalls
<1>a. /\ Pending.status = "pending"
      /\ \A code \in Statuses : Promise!Failed(code).status = code
      /\ \A m \in Message, n \in 0..(BUFFER_SIZE - 1) : Promise!Reply("ok", n, m).status = "ok"
  BY OutcomeTypes
<1>b. DOMAIN ret = Tasks /\ DOMAIN offset = Tasks /\ DOMAIN f_pos = Tasks
  BY DEF TypeOK
\* A failure of a call that has not been answered yet.
<1>c. ASSUME NEW code \in {"EFAULT", "ERESTARTSYS"}, ret[t] = Pending,
             call[t].op \in {"read", "write"},
             ret' = [ret EXCEPT ![t] = Promise!Failed(code)],
             UNCHANGED <<call, f_pos, offset, content, seen>>
      PROVE  Promise!RobustNext
  <2>1. Position' = Position
    BY <1>a, <1>b, <1>c DEF Position, Statuses
  <2>2. Promise!Fail(t)
    BY <1>c, <2>1 DEF Promise!Fail, Promise!Answer, Promise!InCall, Pending
  <2> QED  BY <2>2 DEF Promise!RobustNext
<1>1. CASE Call(t)
  <2>1. PICK c \in Calls : call' = [call EXCEPT ![t] = c]
    BY <1>1 DEF Call
  <2>2. pc[t] = "idle" /\ UNCHANGED <<ret, f_pos, content, seen>>
        /\ offset' = [offset EXCEPT ![t] = f_pos[t]]
    BY <1>1 DEF Call
  <2>3. ret[t].status # "ok"
    BY <1>a, <2>2 DEF Replies
  <2>4. Position' = Position
    BY <1>b, <2>2, <2>3 DEF Position
  <2>5. Promise!Begin(t, c)
    BY <2>1, <2>2, <2>4 DEF Promise!Begin, Roles, NoCall
  <2> QED  BY <2>5 DEF Promise!RobustNext
<1>2. CASE FromUser(t)
  <2>1. CASE UNCHANGED ret
    BY <1>2, <2>1, SilentSteps
  <2>2. CASE ret' = [ret EXCEPT ![t] = Promise!Failed("EFAULT")]
    <3>1. ret[t] = Pending /\ call[t].op \in {"read", "write"}
          /\ UNCHANGED <<call, f_pos, offset, content, seen>>
      BY <1>2 DEF FromUser, Replies, Roles
    <3> QED  BY <1>c, <2>2, <3>1
  <2> QED  BY <1>2, <2>1, <2>2 DEF FromUser, Answer
<1>3. CASE LockInterrupted(t)
  <2>1. /\ ret[t] = Pending /\ call[t].op \in {"read", "write"}
        /\ ret' = [ret EXCEPT ![t] = Promise!Failed("ERESTARTSYS")]
        /\ UNCHANGED <<call, f_pos, offset, content, seen>>
    BY <1>3 DEF LockInterrupted, Answer, Replies, Roles
  <2> QED  BY <1>c, <2>1
<1>4. CASE ReadFault(t)
  <2>1. /\ ret[t] = Pending /\ call[t].op \in {"read", "write"}
        /\ ret' = [ret EXCEPT ![t] = Promise!Failed("EFAULT")]
        /\ UNCHANGED <<call, f_pos, offset, content, seen>>
    BY <1>4 DEF ReadFault, Answer, Replies, Roles
  <2> QED  BY <1>c, <2>1
<1>5. CASE ReadEof(t)
  <2>1. /\ pc[t] = "check" /\ offset[t] >= device_size
        /\ ret' = [ret EXCEPT ![t] = Promise!Reply("ok", 0, <<>>)]
        /\ UNCHANGED <<call, f_pos, offset, content, seen>>
    BY <1>5 DEF ReadEof, Answer
  <2>2. /\ ret[t] = Pending /\ call[t].op = "read" /\ offset[t] = f_pos[t]
        /\ device_size = Len(content)
    BY <2>1 DEF Replies, Roles, Reading, Buffer
  <2>3. Position[t] = f_pos[t] /\ Position' = Position
    BY <1>a, <1>b, <2>1, <2>2 DEF Position
  <2>4. Promise!EndOfFile(t)
    BY <2>1, <2>2, <2>3 DEF Promise!EndOfFile, Promise!Answer, Promise!InCall, Pending
  <2> QED  BY <2>4 DEF Promise!RobustNext
<1>6. CASE ReadBegin(t)
  <2>1. /\ pc[t] = "check"
        /\ seen' = [seen EXCEPT ![t] =
                     Promise!Seen(Promise!Piece(content, offset[t], call[t].count))]
        /\ UNCHANGED <<call, ret, f_pos, offset, content>>
    BY <1>6 DEF ReadBegin
  <2>2. /\ ret[t] = Pending /\ call[t].op = "read" /\ offset[t] = f_pos[t]
        /\ seen[t] = Promise!Nothing
    BY <2>1 DEF Replies, Roles, Reading
  <2>3. Position[t] = offset[t] /\ Position' = Position
    BY <1>a, <2>1, <2>2 DEF Position
  <2>4. Promise!Look(t)
    BY <2>1, <2>2, <2>3 DEF Promise!Look, Promise!InCall, Pending
  <2> QED  BY <2>4 DEF Promise!RobustNext
\* A read that has all it has seen, and whose position moves behind it.
<1>d. ASSUME ret[t] = Pending, call[t].op = "read", seen[t] = Promise!Seen(moved[t]),
             Len(moved[t]) = want[t],
             ret' = [ret EXCEPT ![t] = Promise!Reply("ok", want[t], moved[t])],
             offset'[t] = f_pos[t] + want[t], offset' = [offset EXCEPT ![t] = offset'[t]],
             UNCHANGED <<call, f_pos, content, seen>>
      PROVE  Promise!RobustNext
  <2>1. seen[t] # Promise!Nothing /\ seen[t][1] = moved[t]
    BY <1>d DEF Promise!Seen, Promise!Nothing
  <2>2. ret'[t].status = "ok" /\ ret[t].status # "ok"
    BY <1>a, <1>b, <1>d DEF TypeOK
  <2>3. Position' = [Position EXCEPT ![t] = Position[t] + Len(moved[t])]
    BY <1>b, <1>d, <2>2 DEF Position
  <2>4. Promise!Deliver(t)
    BY <1>d, <2>1, <2>3 DEF Promise!Deliver, Promise!Answer, Promise!InCall, Pending
  <2> QED  BY <2>4 DEF Promise!RobustNext
<1>7. CASE ReadDone(t) /\ lesson # "06"
  <2>1. /\ pc[t] = "copy_out" /\ Len(moved[t]) = want[t]
        /\ offset' = [offset EXCEPT ![t] = offset[t] + want[t]]
        /\ ret' = [ret EXCEPT ![t] = Promise!Reply("ok", want[t], moved[t])]
        /\ UNCHANGED <<call, f_pos, content, seen>>
    BY <1>7 DEF ReadDone, Answer
  <2>2. /\ ret[t] = Pending /\ call[t].op = "read" /\ offset[t] = f_pos[t]
        /\ seen[t] = Promise!Seen(moved[t])
    BY <2>1, ReadSeesAll DEF Replies, Roles, Reading
  <2>3. offset'[t] = f_pos[t] + want[t] /\ offset' = [offset EXCEPT ![t] = offset'[t]]
    BY <1>b, <2>1, <2>2
  <2> QED  BY <1>d, <2>1, <2>2, <2>3
<1>8. CASE ToUser(t)
  <2>1. /\ pc[t] = "to_user" /\ UNCHANGED <<call, f_pos, offset, content, seen>>
        /\ \/ ret' = [ret EXCEPT ![t] = Promise!Reply("ok", want[t], moved[t])]
           \/ ret' = [ret EXCEPT ![t] = Promise!Failed("EFAULT")]
    BY <1>8 DEF ToUser, Answer
  <2>2. /\ ret[t] = Pending /\ call[t].op = "read" /\ offset[t] = f_pos[t] + want[t]
        /\ seen[t] = Promise!Seen(moved[t]) /\ Len(moved[t]) = want[t]
    BY <2>1 DEF Replies, Roles, Reading
  <2>3. offset' = [offset EXCEPT ![t] = offset'[t]]
    BY <1>b, <2>1 DEF TypeOK
  <2> QED  BY <1>c, <1>d, <2>1, <2>2, <2>3
<1>9. CASE WriteFault(t)
  <2> DEFINE k == Len(moved[t])
  <2>1. /\ pc[t] = "copy_in" /\ k < Len(Text(t)) /\ lesson # "06"
        /\ content' = Promise!Overlay(content, Text(t), k)
        /\ ret' = [ret EXCEPT ![t] = Promise!Failed("EFAULT")]
        /\ UNCHANGED <<call, f_pos, offset, seen>>
    BY <1>9 DEF WriteFault, Answer
  <2>2. ret[t] = Pending /\ call[t].op = "write"
    BY <2>1 DEF Replies, Roles
  <2>3. Position' = Position
    BY <1>a, <1>b, <2>1, <2>2 DEF Position, Statuses
  <2>4. k \in 0..(Len(Text(t)) - 1)
    BY <2>1, Types, TextFacts DEF TypeOK
  <2>5. Promise!Spoil(t)
    BY <2>1, <2>2, <2>3, <2>4 DEF Promise!Spoil, Promise!Answer, Promise!InCall, Pending, Text
  <2> QED  BY <2>1, <2>5
<1>10. CASE WriteDone(t)
  <2>1. /\ pc[t] = "copy_in" /\ content' = Text(t)
        /\ offset' = [offset EXCEPT ![t] = 0]
        /\ ret' = [ret EXCEPT ![t] = Promise!Reply("ok", Len(Text(t)), <<>>)]
        /\ UNCHANGED <<call, f_pos, seen>>
    BY <1>10 DEF WriteDone, Answer
  <2>2. ret[t] = Pending /\ call[t].op = "write"
    BY <2>1 DEF Replies, Roles
  <2>3. ret'[t].status = "ok"
    BY <1>a, <1>b, <2>1, TextFacts, Types
  <2>4. Position' = [Position EXCEPT ![t] = 0]
    BY <1>b, <2>1, <2>3 DEF Position
  <2>5. Promise!Replace(t)
    BY <2>1, <2>2, <2>4 DEF Promise!Replace, Promise!Answer, Promise!InCall, Pending, Text
  <2> QED  BY <2>5 DEF Promise!RobustNext
<1>11. CASE Return(t)
  <2>1. /\ pc[t] = "return" /\ f_pos' = [f_pos EXCEPT ![t] = Position[t]]
        /\ call' = [call EXCEPT ![t] = NoCall] /\ ret' = [ret EXCEPT ![t] = Pending]
        /\ offset' = [offset EXCEPT ![t] = 0] /\ seen' = [seen EXCEPT ![t] = Promise!Nothing]
        /\ UNCHANGED content
    BY <1>11 DEF Return
  <2>2. ret[t] # Pending
    BY <1>a, <2>1 DEF Replies
  <2>3. ret'[t].status # "ok"
    BY <1>a, <1>b, <2>1
  <2>4. Position' = Position
    BY <1>b, <2>1, <2>3 DEF Position
  <2>5. Promise!Return(t)
    BY <2>1, <2>2, <2>4 DEF Promise!Return, NoCall, Pending
  <2> QED  BY <2>5 DEF Promise!RobustNext
<1> QED  BY <1>1, <1>2, <1>3, <1>4, <1>5, <1>6, <1>7, <1>8, <1>9, <1>10, <1>11

\* Each step of a device is one of the document, or none.
LEMMA StepOfDocument ==
  ASSUME IInv, [Next]_vars
  PROVE  \/ Promise!RobustNext
         \/ UNCHANGED Promise!documentVars
         \/ lesson # "06" /\ \E t \in Tasks : Promise!Spoil(t)
<1>1. CASE UNCHANGED vars
  BY <1>1, StutterDocument
<1>2. CASE Next
  <2> PICK t \in Tasks : Call(t) \/ Lock(t) \/ Progress(t)
    BY <1>2 DEF Next
  <2> QED  BY SilentSteps, VisibleSteps DEF Progress, ReadStep, WriteStep
<1> QED  BY <1>1, <1>2

\* For any number of tasks that overlap in any way each of the devices of lessons
\* 05 and 06, and for callers that take turns that of lesson 04, is a document: no
\* read is torn, a failed one can be repeated.
THEOREM DevicesAreDocuments == Spec => IsDocument
<1>1. IInv /\ [Next]_vars => [Promise!Next]_(Promise!documentVars)
  <2>1. Promise!RobustNext => Promise!Next
    BY DEF Promise!RobustNext, Promise!Next
  <2>2. (\E t \in Tasks : Promise!Spoil(t)) => Promise!Next
    BY DEF Promise!Next
  <2> QED  BY <2>1, <2>2, StepOfDocument
<1> QED  BY InitDocument, Invariance, <1>1, PTL DEF Spec, IsDocument, Promise!Spec

\* Lesson 06 copies to the stack first (si_spin06.c:118-127, 158-166): no bad
\* address harms its document or loses bytes of it.
THEOREM SpinlockLosesNothing == Spec => SpinlockIsRobust
<1>1. IInv /\ [Next]_vars
        => [lesson = "06" => Promise!RobustNext]_(Promise!documentVars)
  BY StepOfDocument
<1> QED  BY Invariance, <1>1, PTL DEF Spec, SpinlockIsRobust
=============================================================================
