------------------------- MODULE SharedRecordProofs -------------------------
(***************************************************************************)
(* Proofs about SharedRecord: for any tasks, texts and sizes the callbacks *)
(* of 13-sysfs and the commands of 16-ioctl, which copy byte by byte, are  *)
(* the record of AtomicRecord, which changes in one step.                  *)
(*                                                                         *)
(* The record changes when the mutex is taken.  Current says how far the   *)
(* memory has followed, Setting and Copied what the owner of the mutex has *)
(* still to do, and Seen that each caller gets what was there when he took *)
(* the mutex.                                                              *)
(***************************************************************************)
EXTENDS SharedRecord, SequenceTheorems, TLAPS

Held    == {"value", "bytes", "count", "unlock"}
Getters == {"GET_VALUE", "GET_DATA"}
Setters == {"SET_VALUE", "SET_DATA"}
Ops     == Getters \cup Setters
             \cup {"message_store", "message_show", "write_count_show", "OTHER", "none"}

\* An array holds a text if that is the string in it.
Holds(array, text) ==
  /\ text \in Seq(Bytes) /\ Len(text) < MESSAGE_SIZE
  /\ array[Len(text) + 1] = Nul
  /\ \A i \in 1..Len(text) : array[i] = text[i]

Domains ==
  /\ DOMAIN request = Tasks /\ DOMAIN answer = Tasks /\ DOMAIN seen = Tasks
  /\ DOMAIN record = {"value", "message", "count"}

LockOwned == \A t \in Tasks : pc[t] \in Held <=> lock = t

Roles ==
  \A t \in Tasks :
    /\ pc[t] = "idle" => request[t] = Promise!NoRequest
    /\ pc[t] = "refuse" => request[t].op = "OTHER"
    /\ pc[t] = "from_user" => request[t].op \in Setters
    /\ pc[t] \in {"lock", "unlock"} => request[t].op \notin {"none", "OTHER"}
    /\ pc[t] = "value" => request[t].op \in Getters \cup Setters
    /\ pc[t] = "bytes" =>
         request[t].op \in {"SET_DATA", "GET_DATA", "message_store", "message_show"}
    /\ pc[t] = "count" => request[t].op = "write_count_show"
    /\ pc[t] = "to_user" => request[t].op \in Getters

\* What each call will return is what it has found in the record.
Seen ==
  \A t \in Tasks :
    /\ pc[t] \in {"idle", "refuse", "from_user", "lock"} => seen[t] = Promise!Pending
    /\ pc[t] \in Held => seen[t] = Promise!Result(request[t], record)
    /\ pc[t] \in {"unlock", "to_user"} => seen[t] = Found(t)
    /\ pc[t] = "return" => answer[t].status # "pending"

\* The memory is the record, but for what the owner of the mutex is about to write.
Current ==
  /\ value = record.value \/ \E t \in Tasks : pc[t] = "value" /\ request[t].op \in Setters
  /\ \/ write_count = record.count
     \/ \E t \in Tasks : pc[t] = "bytes" /\ request[t].op = "message_store"
  /\ \/ Holds(message, record.message)
     \/ \E t \in Tasks : /\ pc[t] \in {"value", "bytes"}
                         /\ request[t].op \in {"SET_DATA", "message_store"}

\* The owner has its own change of the record before it.
Setting ==
  \A t \in Tasks :
    pc[t] \in {"value", "bytes"} =>
      /\ request[t].op \in Setters => record.value = request[t].value
      /\ request[t].op = "SET_DATA" =>
           record.message = Promise!Shorten(Promise!String(request[t].message),
                                            MESSAGE_SIZE - 1)
      /\ request[t].op = "message_store" =>
           /\ record.message = Promise!Line(request[t].message)
           /\ record.count = (write_count + 1) % COUNTS

\* A setter has copied its arguments before it takes the mutex.
Prepared ==
  \A t \in Tasks :
    /\ pc[t] \in {"lock", "value", "bytes"} /\ request[t].op \in Setters =>
         copy[t].value = request[t].value
    /\ pc[t] \in {"lock", "value", "bytes"} /\ request[t].op = "SET_DATA" =>
         copy[t].message = [request[t].message EXCEPT ![MESSAGE_SIZE] = Nul]
    /\ pc[t] \in {"idle", "refuse", "from_user", "lock", "value"} => index[t] = 0

\* The loops over the text have copied the bytes up to index, and no Nul.
Copied ==
  \A t \in Tasks :
    pc[t] = "bytes" =>
      /\ request[t].op = "SET_DATA" =>
           \A i \in 1..index[t] : message[i] = copy[t].message[i] /\ message[i] # Nul
      /\ request[t].op = "message_store" =>
           index[t] <= Len(Kept(t)) /\ \A i \in 1..index[t] : message[i] = Kept(t)[i]
      /\ request[t].op \in {"GET_DATA", "message_show"} =>
           \A i \in 1..index[t] : copy[t].message[i] = message[i] /\ message[i] # Nul
      /\ request[t].op = "GET_DATA" => copy[t].value = record.value

IInv ==
  /\ TypeOK /\ Domains /\ LockOwned /\ Roles /\ Seen /\ Current /\ Setting /\ Prepared
  /\ Copied

-----------------------------------------------------------------------------
(* Lemmas about arrays and texts *)

\* An array of bytes is a sequence of MESSAGE_SIZE bytes.
LEMMA ArrayIsSequence ==
  ASSUME NEW array \in Arr
  PROVE  array \in Seq(Bytes \cup {Nul}) /\ Len(array) = MESSAGE_SIZE
  BY SizeAssumption DEF Arr

\* The string in an array is the text that it holds.
LEMMA StringOf ==
  ASSUME NEW array \in Arr, NEW text, Holds(array, text)
  PROVE  Promise!String(array) = text
<1> DEFINE ends == {i \in 1..Len(array) : array[i] = Nul}
           k    == Len(text) + 1
<1>1. /\ array \in Seq(Bytes \cup {Nul}) /\ Len(array) = MESSAGE_SIZE
      /\ text \in Seq(Bytes) /\ Len(text) \in Nat /\ k \in 1..MESSAGE_SIZE
  BY ArrayIsSequence, SizeAssumption DEF Holds
<1>2. \A i \in 1..Len(text) : array[i] = text[i] /\ array[i] # Nul
  BY <1>1, ByteAssumption DEF Holds
<1>3. k \in ends /\ \A j \in ends : k <= j
  BY <1>1, <1>2 DEF Holds
<1>4. k = CHOOSE i \in ends : \A j \in ends : i <= j
  <2>1. \A i \in ends : (\A j \in ends : i <= j) => i = k
    BY <1>1, <1>3
  <2> QED  BY <1>3, <2>1
<1>5. Promise!String(array) = SubSeq(array, 1, k - 1)
  BY <1>3, <1>4 DEF Promise!String
<1>6. SubSeq(array, 1, k - 1) = text
  <2>1. /\ SubSeq(array, 1, Len(text)) \in Seq(Bytes \cup {Nul})
        /\ Len(SubSeq(array, 1, Len(text))) = Len(text)
        /\ \A i \in 1..Len(text) : SubSeq(array, 1, Len(text))[i] = array[i]
    BY <1>1
  <2>2. text \in Seq(Bytes \cup {Nul})
    BY <1>1
  <2>3. k - 1 = Len(text)
    BY <1>1
  <2> QED  BY <1>2, <2>1, <2>2, <2>3, SeqEqual
<1> QED  BY <1>5, <1>6

\* What SET_DATA keeps of an array whose first Nul, given or forced, is at k.
LEMMA FirstNul ==
  ASSUME NEW array \in Arr, NEW k \in 1..MESSAGE_SIZE,
         \A i \in 1..(k - 1) : array[i] # Nul,
         k = MESSAGE_SIZE \/ array[k] = Nul
  PROVE  /\ Promise!Shorten(Promise!String(array), MESSAGE_SIZE - 1) = SubSeq(array, 1, k - 1)
         /\ SubSeq(array, 1, k - 1) \in Seq(Bytes) /\ Len(SubSeq(array, 1, k - 1)) = k - 1
         /\ \A i \in 1..(k - 1) : SubSeq(array, 1, k - 1)[i] = array[i]
<1> DEFINE text == SubSeq(array, 1, k - 1)
<1>1. array \in Seq(Bytes \cup {Nul}) /\ Len(array) = MESSAGE_SIZE
  BY ArrayIsSequence
<1>2. k \in Nat /\ k <= MESSAGE_SIZE /\ k >= 1 /\ MESSAGE_SIZE \in Nat
  BY SizeAssumption
<1>3. \A i \in 1..(k - 1) : array[i] \in Bytes
  BY <1>2 DEF Arr
<1>4. /\ text \in Seq(Bytes) /\ Len(text) = k - 1
      /\ \A i \in 1..(k - 1) : text[i] = array[i]
  BY <1>1, <1>2, <1>3
<1> HIDE DEF text
<1>5. CASE array[k] = Nul
  <2>1. Holds(array, text)
    BY <1>2, <1>4, <1>5 DEF Holds
  <2>2. Promise!String(array) = text
    BY <2>1, StringOf
  <2>3. Promise!Shorten(Promise!String(array), MESSAGE_SIZE - 1) = text
    BY <1>2, <1>4, <2>2 DEF Promise!Shorten
  <2> QED  BY <1>4, <2>3 DEF text
<1>6. CASE k = MESSAGE_SIZE /\ array[k] # Nul
  <2>1. {i \in 1..Len(array) : array[i] = Nul} = {}
    BY <1>1, <1>2, <1>6
  <2>2. Promise!String(array) = array
    BY <2>1 DEF Promise!String
  <2> QED  BY <1>1, <1>2, <1>4, <1>6, <2>2 DEF Promise!Shorten, text
<1> QED  BY <1>5, <1>6

\* What message_store() keeps of a text (si_sysfs13.c:146-154).
LEMMA LineFacts ==
  ASSUME NEW text \in Texts
  PROVE  LET kept == Promise!Shorten(text, MESSAGE_SIZE - 1)
             line == Promise!Line(text)
         IN  /\ kept \in Seq(Bytes) /\ Len(kept) \in 1..(MESSAGE_SIZE - 1)
             /\ line \in Seq(Bytes)
             /\ Len(line) = IF kept[Len(kept)] = Newline THEN Len(kept) - 1 ELSE Len(kept)
             /\ \A i \in 1..Len(line) : line[i] = kept[i]
<1> DEFINE kept == Promise!Shorten(text, MESSAGE_SIZE - 1)
<1>1. text \in Seq(Bytes) /\ Len(text) \in Nat /\ Len(text) # 0
  BY TextAssumption, EmptySeq
<1>2. kept \in Seq(Bytes) /\ Len(kept) \in 1..(MESSAGE_SIZE - 1)
  BY <1>1, SizeAssumption DEF Promise!Shorten
<1> HIDE DEF kept
<1>3. Promise!Line(text) = IF kept[Len(kept)] = Newline THEN SubSeq(kept, 1, Len(kept) - 1)
                                                       ELSE kept
  BY DEF Promise!Line, kept
<1>4. CASE kept[Len(kept)] = Newline
  <2> DEFINE n == Len(kept) - 1
  <2>0. n \in Nat /\ n <= Len(kept) /\ Len(kept) \in Nat
    BY <1>2, SizeAssumption
  <2> HIDE DEF n
  <2>1. /\ SubSeq(kept, 1, n) \in Seq(Bytes) /\ Len(SubSeq(kept, 1, n)) = n
        /\ \A i \in 1..n : SubSeq(kept, 1, n)[i] = kept[i]
    BY <1>2, <2>0
  <2> QED  BY <1>2, <1>3, <1>4, <2>1 DEF kept, n
<1>5. CASE kept[Len(kept)] # Newline
  BY <1>2, <1>3, <1>5 DEF kept
<1> QED  BY <1>4, <1>5

\* The text the modules are loaded with fits the array.
LEMMA HelloFacts == Pad(Hello) \in Arr /\ Pad(<<>>) \in Arr /\ Holds(Pad(Hello), Hello)
<1>1. Hello \in Seq(Bytes) /\ Len(Hello) \in Nat /\ Len(Hello) < MESSAGE_SIZE
  BY TextAssumption
<1>2. \A i \in 1..MESSAGE_SIZE : (IF i <= Len(Hello) THEN Hello[i] ELSE Nul) \in Bytes \cup {Nul}
  BY <1>1, SizeAssumption
<1>3. Pad(<<>>) \in Arr
  BY SizeAssumption DEF Pad, Arr
<1> QED  BY <1>1, <1>2, <1>3, SizeAssumption DEF Pad, Arr, Holds

\* A loop that has met no Nul before k is in the text, or at its end.
LEMMA ReachNul ==
  ASSUME NEW array \in Arr, NEW text, Holds(array, text), NEW k \in 1..MESSAGE_SIZE,
         \A i \in 1..(k - 1) : array[i] # Nul
  PROVE  /\ k <= Len(text) + 1 /\ Len(text) \in Nat
         /\ array[k] = Nul <=> k = Len(text) + 1
         /\ k = MESSAGE_SIZE => k = Len(text) + 1
<1>1. Len(text) \in Nat /\ Len(text) < MESSAGE_SIZE /\ MESSAGE_SIZE \in Nat
  BY SizeAssumption DEF Holds
<1>2. \A i \in 1..Len(text) : array[i] # Nul
  BY <1>1, ByteAssumption DEF Holds
<1>3. array[Len(text) + 1] = Nul
  BY DEF Holds
<1> QED  BY <1>1, <1>2, <1>3

\* A copy of a text, up to its Nul, holds that text.
LEMMA CopyHolds ==
  ASSUME NEW from, NEW to, NEW text, Holds(from, text),
         \A i \in 1..Len(text) : to[i] = from[i], to[Len(text) + 1] = Nul
  PROVE  Holds(to, text)
  BY DEF Holds

-----------------------------------------------------------------------------
(* Lemmas about calls and their results *)

LEMMA RequestTypes ==
  /\ Promise!NoRequest.op = "none"
  /\ \A r \in AttributeCalls \cup Commands :
       /\ r.op \in Ops \ {"none"}
       /\ r.op = "message_store" => r.message \in Texts
       /\ r.op \in Setters => r.value \in Values
       /\ r.op = "SET_DATA" => r.message \in Arr
  BY TextAssumption
  DEF Promise!NoRequest, AttributeCalls, Commands, Ops, Getters, Setters, Arr

LEMMA OwnRequest ==
  ASSUME TypeOK, NEW t \in Tasks
  PROVE  /\ request[t].op \in Ops
         /\ request[t].op = "message_store" => request[t].message \in Texts
         /\ request[t].op \in Setters => request[t].value \in Values
         /\ request[t].op = "SET_DATA" => request[t].message \in Arr
  BY RequestTypes DEF TypeOK, Ops, Getters, Setters

LEMMA Results ==
  ASSUME NEW r, NEW rec, r.op \in Ops
  PROVE  /\ Promise!Result(r, rec).status = "ok"
         /\ r.op \in Setters \cup {"message_store"} => Promise!Result(r, rec) = Promise!Ok
         /\ r.op = "message_show" =>
              Promise!Result(r, rec) = [status |-> "ok", message |-> rec.message]
         /\ r.op = "write_count_show" =>
              Promise!Result(r, rec) = [status |-> "ok", count |-> rec.count]
         /\ r.op = "GET_VALUE" =>
              Promise!Result(r, rec) = [status |-> "ok", value |-> rec.value]
         /\ r.op = "GET_DATA" =>
              Promise!Result(r, rec) = [status |-> "ok", value |-> rec.value,
                                        message |-> rec.message]
  BY DEF Promise!Result, Promise!Ok, Ops, Getters, Setters

\* What a call makes of its copy.
LEMMA FoundInCopy ==
  ASSUME NEW r, NEW rec, r.op \in Ops,
         NEW c \in [value : Values \cup {0}, message : Arr, count : 0..(COUNTS - 1)],
         r.op \in {"message_show", "GET_DATA"} => Holds(c.message, rec.message),
         r.op \in Getters => c.value = rec.value,
         r.op = "write_count_show" => c.count = rec.count
  PROVE  Promise!Result(r, [c EXCEPT !.message = Promise!String(@)])
           = Promise!Result(r, rec)
<1> DEFINE d == [c EXCEPT !.message = Promise!String(@)]
<1>1. d.value = c.value /\ d.count = c.count /\ d.message = Promise!String(c.message)
  OBVIOUS
<1>2. r.op \in {"message_show", "GET_DATA"} => d.message = rec.message
  BY <1>1, StringOf
<1> HIDE DEF d
<1>3. Promise!Result(r, d) = Promise!Result(r, rec)
  BY <1>1, <1>2 DEF Promise!Result, Getters
<1> QED  BY <1>3 DEF d

\* While the mutex is free, or with one who only reads, the memory is the record.
LEMMA MemoryIsRecord ==
  ASSUME IInv, NEW t \in Tasks,
         lock = None \/ (lock = t /\ request[t].op \notin Setters \cup {"message_store"})
  PROVE  value = record.value /\ write_count = record.count /\ Holds(message, record.message)
<1>1. \A u \in Tasks :
        pc[u] \in {"value", "bytes"} => request[u].op \notin Setters \cup {"message_store"}
  BY NoneAssumption DEF IInv, LockOwned, Held
<1> QED  BY <1>1 DEF IInv, Current, Setters

\* Two tasks are never inside at the same time.
LEMMA OneInside ==
  ASSUME LockOwned, NEW t \in Tasks, pc[t] \in Held
  PROVE  \A u \in Tasks : pc[u] \in Held => u = t
  BY DEF LockOwned

-----------------------------------------------------------------------------
(* The invariant is inductive *)

LEMMA InitIInv == Init => IInv
<1> SUFFICES ASSUME Init PROVE IInv
  OBVIOUS
<1> USE DEF Init
<1>1. TypeOK
  <2>1. 0 \in 0..(COUNTS - 1) /\ 0 \in 0..(MESSAGE_SIZE - 1)
    BY SizeAssumption
  <2>2. \A t \in Tasks : request[t] = Promise!NoRequest
    OBVIOUS
  <2>3. copy \in [Tasks -> [value : Values \cup {0}, message : Arr, count : 0..(COUNTS - 1)]]
    BY <2>1, HelloFacts
  <2> QED  BY <2>1, <2>2, <2>3, HelloFacts DEF TypeOK, Labels
<1>2. Domains /\ LockOwned /\ Roles
  BY NoneAssumption DEF Domains, LockOwned, Held, Roles
<1>3. Seen /\ Current /\ Setting /\ Prepared /\ Copied
  BY HelloFacts DEF Seen, Held, Current, Setting, Prepared, Copied
<1> QED  BY <1>1, <1>2, <1>3 DEF IInv

LEMMA StutterIInv == IInv /\ UNCHANGED vars => IInv'
<1> SUFFICES ASSUME IInv, UNCHANGED vars PROVE IInv'
  OBVIOUS
<1> USE DEF IInv, vars, memory, history
<1>1. TypeOK' /\ Domains' /\ LockOwned' /\ Roles' /\ Seen'
  BY DEF TypeOK, Domains, LockOwned, Roles, Seen, Found
<1>2. Current' /\ Setting' /\ Prepared' /\ Copied'
  BY DEF Current, Setting, Prepared, Copied, Kept
<1> QED  BY <1>1, <1>2

\* One case per action, and in it first what it does, then one step per part of IInv.
LEMMA NextIInv == IInv /\ Next => IInv'
<1> SUFFICES ASSUME IInv, NEW t \in Tasks, Enter(t) \/ Lock(t) \/ Progress(t)
             PROVE  IInv'
  BY DEF Next
<1> USE DEF IInv
<1>1. CASE Enter(t)
  <2>a. /\ pc[t] = "idle"
        /\ \E r \in AttributeCalls \cup Commands :
             /\ request' = [request EXCEPT ![t] = r]
             /\ pc' = [pc EXCEPT ![t] = IF r.op = "OTHER" THEN "refuse"
                                       ELSE IF r.op \in Setters THEN "from_user" ELSE "lock"]
        /\ UNCHANGED <<lesson, value, message, write_count, lock, answer, copy, index,
                       record, seen>>
    BY <1>1 DEF Enter, Setters, GoTo, memory, history
  <2>b. PICK r \in AttributeCalls \cup Commands :
          /\ request' = [request EXCEPT ![t] = r]
          /\ pc' = [pc EXCEPT ![t] = IF r.op = "OTHER" THEN "refuse"
                                    ELSE IF r.op \in Setters THEN "from_user" ELSE "lock"]
    BY <2>a
  <2>c. /\ \A u \in Tasks : u # t => pc'[u] = pc[u] /\ request'[u] = request[u]
        /\ pc'[t] \in {"refuse", "from_user", "lock"}
        /\ request'[t].op \in Setters => pc'[t] = "from_user"
    BY <2>b, RequestTypes DEF TypeOK, Domains, Setters
  <2>d. /\ UNCHANGED <<message, copy, index, record>> /\ index[t] = 0
        /\ \A u \in Tasks : pc'[u] \in {"value", "bytes"} => u # t
    BY <2>a, <2>c DEF Prepared
  <2>1. TypeOK'
    BY <2>a, <2>b, RequestTypes DEF TypeOK, Labels
  <2>2. Domains'
    BY <2>a, <2>b, RequestTypes DEF Domains
  <2>3. LockOwned'
    BY <2>a, NoneAssumption, <2>b, RequestTypes DEF LockOwned, Held, TypeOK
  <2>4. Roles'
    BY <2>a, <2>b, RequestTypes DEF Roles, Setters, Getters, TypeOK, Domains, Ops
  <2>5. Seen'
    BY <2>a, <2>b, RequestTypes DEF Seen, Held, Found, TypeOK, Domains
  <2>6. Current'
    BY <2>a, <2>b, RequestTypes DEF Current, Setters, TypeOK, Domains
  <2>7. Setting'
    BY <2>a, <2>b, RequestTypes DEF Setting, TypeOK, Domains
  <2>8. Prepared'
    BY <2>c, <2>d DEF Prepared, Setters
  <2>9. Copied'
    BY <2>c, <2>d DEF Copied, Kept
  <2> QED  BY <2>1, <2>2, <2>3, <2>4, <2>5, <2>6, <2>7, <2>8, <2>9 DEF IInv
<1>2. CASE Refuse(t)
  <2>a. /\ pc[t] = "refuse"
        /\ pc' = [pc EXCEPT ![t] = "return"]
        /\ answer' = [answer EXCEPT ![t] = [status |-> "ENOTTY"]]
        /\ UNCHANGED <<lesson, value, message, write_count, lock, request, copy, index,
                       record, seen>>
    BY <1>2 DEF Refuse, Promise!Failed, Answer, GoTo, memory, history
  <2>1. TypeOK'
    BY <2>a DEF TypeOK, Labels
  <2>2. Domains'
    BY <2>a DEF Domains
  <2>3. LockOwned'
    BY <2>a, NoneAssumption DEF LockOwned, Held, TypeOK
  <2>4. Roles'
    BY <2>a DEF Roles, Setters, Getters, TypeOK, Domains
  <2>5. Seen'
    BY <2>a DEF Seen, Held, Found, TypeOK, Domains
  <2>6. Current'
    BY <2>a DEF Current, Setters, TypeOK, Domains
  <2>7. Setting'
    BY <2>a DEF Setting, TypeOK, Domains
  <2>8. Prepared'
    BY <2>a DEF Prepared, TypeOK, Domains
  <2>9. Copied'
    BY <2>a DEF Copied, Kept, TypeOK, Domains
  <2> QED  BY <2>1, <2>2, <2>3, <2>4, <2>5, <2>6, <2>7, <2>8, <2>9 DEF IInv
<1>3. CASE FromUser(t) /\ pc'[t] = "lock"
  <2>a. /\ pc[t] = "from_user"
        /\ pc' = [pc EXCEPT ![t] = "lock"]
        /\ copy' = [copy EXCEPT ![t].value = request[t].value,
                              ![t].message = IF request[t].op = "SET_DATA"
                                THEN [request[t].message EXCEPT ![MESSAGE_SIZE] = Nul]
                                ELSE @]
        /\ UNCHANGED <<lesson, value, message, write_count, lock, request, answer, index,
                       record, seen>>
    BY <1>3 DEF FromUser, TypeOK, Answer, GoTo, memory, history
  <2>b. /\ request[t].op \in Setters /\ request[t].value \in Values
        /\ request[t].op = "SET_DATA" => request[t].message \in Arr
    BY <2>a, OwnRequest DEF Roles
  <2>c. /\ copy'[t].value = request[t].value /\ copy'[t].count = copy[t].count
        /\ request[t].op = "SET_DATA" =>
             copy'[t].message = [request[t].message EXCEPT ![MESSAGE_SIZE] = Nul]
        /\ request[t].op # "SET_DATA" => copy'[t].message = copy[t].message
        /\ \A u \in Tasks \ {t} : copy'[u] = copy[u]
    BY <2>a DEF TypeOK
  <2>d. copy' \in [Tasks -> [value : Values \cup {0}, message : Arr, count : 0..(COUNTS - 1)]]
    <3>1. request[t].op = "SET_DATA" =>
            [request[t].message EXCEPT ![MESSAGE_SIZE] = Nul] \in Arr
      BY <2>b DEF Arr
    <3> DEFINE v    == request[t].value
               text == IF request[t].op = "SET_DATA"
                       THEN [request[t].message EXCEPT ![MESSAGE_SIZE] = Nul]
                       ELSE copy[t].message
               Copy == [value : Values \cup {0}, message : Arr, count : 0..(COUNTS - 1)]
    <3>2. v \in Values \cup {0} /\ text \in Arr /\ copy \in [Tasks -> Copy]
      BY <2>b, <3>1 DEF TypeOK
    <3>3. copy' = [copy EXCEPT ![t].value = v, ![t].message = text]
      BY <2>a
    <3> HIDE DEF v, text
    <3>4. [copy[t] EXCEPT !.value = v, !.message = text] \in Copy
      BY <3>2
    <3>5. copy' = [copy EXCEPT ![t] = [copy[t] EXCEPT !.value = v, !.message = text]]
      BY <3>2, <3>3
    <3> QED  BY <3>2, <3>4, <3>5
  <2>1. TypeOK'
    BY <2>a, <2>d DEF TypeOK, Labels
  <2>2. Domains'
    BY <2>a DEF Domains
  <2>3. LockOwned'
    BY <2>a, NoneAssumption DEF LockOwned, Held, TypeOK
  <2>4. Roles'
    BY <2>a DEF Roles, Setters, Getters, TypeOK, Domains
  <2>5. Seen'
    BY <2>a DEF Seen, Held, Found, TypeOK, Domains
  <2>6. Current'
    BY <2>a DEF Current, Setters, TypeOK, Domains
  <2>7. Setting'
    BY <2>a DEF Setting, TypeOK, Domains
  <2>8. Prepared'
    BY <2>a, <2>c DEF Prepared, TypeOK, Domains
  <2>9. Copied'
    BY <2>a DEF Copied, Kept, TypeOK, Domains
  <2> QED  BY <2>1, <2>2, <2>3, <2>4, <2>5, <2>6, <2>7, <2>8, <2>9 DEF IInv
<1>4. CASE FromUser(t) /\ pc'[t] = "return"
  <2>a. /\ pc[t] = "from_user"
        /\ pc' = [pc EXCEPT ![t] = "return"]
        /\ answer' = [answer EXCEPT ![t] = [status |-> "EFAULT"]]
        /\ UNCHANGED <<lesson, value, message, write_count, lock, request, copy, index,
                       record, seen>>
    BY <1>4 DEF FromUser, Promise!Failed, TypeOK, Answer, GoTo, memory, history
  <2>1. TypeOK'
    BY <2>a DEF TypeOK, Labels
  <2>2. Domains'
    BY <2>a DEF Domains
  <2>3. LockOwned'
    BY <2>a, NoneAssumption DEF LockOwned, Held, TypeOK
  <2>4. Roles'
    BY <2>a DEF Roles, Setters, Getters, TypeOK, Domains
  <2>5. Seen'
    BY <2>a DEF Seen, Held, Found, TypeOK, Domains
  <2>6. Current'
    BY <2>a DEF Current, Setters, TypeOK, Domains
  <2>7. Setting'
    BY <2>a DEF Setting, TypeOK, Domains
  <2>8. Prepared'
    BY <2>a DEF Prepared, TypeOK, Domains
  <2>9. Copied'
    BY <2>a DEF Copied, Kept, TypeOK, Domains
  <2> QED  BY <2>1, <2>2, <2>3, <2>4, <2>5, <2>6, <2>7, <2>8, <2>9 DEF IInv
<1>5. CASE ToUser(t)
  <2>a. /\ pc[t] = "to_user"
        /\ pc' = [pc EXCEPT ![t] = "return"]
        /\ \/ answer' = [answer EXCEPT ![t] = Found(t)]
           \/ answer' = [answer EXCEPT ![t] = Promise!Failed("EFAULT")]
        /\ UNCHANGED <<lesson, value, message, write_count, lock, request, copy, index,
                       record, seen>>
    BY <1>5 DEF ToUser, Answer, GoTo, memory, history
  <2>b. Found(t).status = "ok"
    BY OwnRequest, Results DEF Found
  <2>c. Promise!Failed("EFAULT").status = "EFAULT"
    BY DEF Promise!Failed
  <2>1. TypeOK'
    BY <2>a DEF TypeOK, Labels
  <2>2. Domains'
    BY <2>a DEF Domains
  <2>3. LockOwned'
    BY <2>a, NoneAssumption DEF LockOwned, Held, TypeOK
  <2>4. Roles'
    BY <2>a DEF Roles, Setters, Getters, TypeOK, Domains
  <2>5. Seen'
    BY <2>a, <2>b, <2>c DEF Seen, Held, Found, TypeOK, Domains
  <2>6. Current'
    BY <2>a DEF Current, Setters, TypeOK, Domains
  <2>7. Setting'
    BY <2>a DEF Setting, TypeOK, Domains
  <2>8. Prepared'
    BY <2>a DEF Prepared, TypeOK, Domains
  <2>9. Copied'
    BY <2>a DEF Copied, Kept, TypeOK, Domains
  <2> QED  BY <2>1, <2>2, <2>3, <2>4, <2>5, <2>6, <2>7, <2>8, <2>9 DEF IInv
<1>6. CASE Return(t)
  <2>a. /\ pc[t] = "return"
        /\ pc' = [pc EXCEPT ![t] = "idle"]
        /\ request' = [request EXCEPT ![t] = Promise!NoRequest]
        /\ answer' = [answer EXCEPT ![t] = Promise!Pending]
        /\ copy' = [copy EXCEPT ![t] = [value |-> 0, message |-> Pad(<<>>), count |-> 0]]
        /\ index' = [index EXCEPT ![t] = 0]
        /\ seen' = [seen EXCEPT ![t] = Promise!Pending]
        /\ UNCHANGED <<lesson, value, message, write_count, lock, record>>
    BY <1>6 DEF Return, GoTo, memory, history
  <2>b. Promise!NoRequest.op = "none" /\ Pad(<<>>) \in Arr /\ 0 \in 0..(COUNTS - 1)
        /\ 0 \in 0..(MESSAGE_SIZE - 1)
    BY RequestTypes, HelloFacts, SizeAssumption
  <2>1. TypeOK'
    BY <2>a, <2>b DEF TypeOK, Labels
  <2>2. Domains'
    BY <2>a DEF Domains
  <2>3. LockOwned'
    BY <2>a, NoneAssumption DEF LockOwned, Held, TypeOK
  <2>4. Roles'
    BY <2>a, <2>b DEF Roles, Setters, Getters, TypeOK, Domains
  <2>5. Seen'
    BY <2>a DEF Seen, Held, Found, TypeOK, Domains
  <2>6. Current'
    BY <2>a DEF Current, Setters, TypeOK, Domains
  <2>7. Setting'
    BY <2>a DEF Setting, TypeOK, Domains
  <2>8. Prepared'
    BY <2>a DEF Prepared, TypeOK, Domains
  <2>9. Copied'
    BY <2>a DEF Copied, Kept, TypeOK, Domains
  <2> QED  BY <2>1, <2>2, <2>3, <2>4, <2>5, <2>6, <2>7, <2>8, <2>9 DEF IInv
<1>7. CASE Lock(t)
  <2>a. /\ pc[t] = "lock" /\ lock = None /\ lock' = t
        /\ pc' = [pc EXCEPT ![t] =
                       IF request[t].op \in {"message_store", "message_show"} THEN "bytes"
                       ELSE IF request[t].op = "write_count_show" THEN "count" ELSE "value"]
        /\ record' = Promise!Apply(request[t], record)
        /\ seen' = [seen EXCEPT ![t] = Promise!Result(request[t], record)]
        /\ UNCHANGED <<lesson, value, message, write_count, request, answer, copy, index>>
    BY <1>7 DEF Lock, GoTo, memory, history
  <2>b. /\ request[t].op = "message_store" =>
             record' = [record EXCEPT !.message = Promise!Line(request[t].message),
                                      !.count = (record.count + 1) % COUNTS]
        /\ request[t].op = "SET_VALUE" => record' = [record EXCEPT !.value = request[t].value]
        /\ request[t].op = "SET_DATA" =>
             record' = [record EXCEPT !.value = request[t].value,
                                      !.message = Promise!Shorten(
                                         Promise!String(request[t].message),
                                         MESSAGE_SIZE - 1)]
        /\ request[t].op \notin Setters \cup {"message_store"} => record' = record
    BY <2>a DEF Promise!Apply, Setters
  <2>c. value = record.value /\ write_count = record.count /\ Holds(message, record.message)
    BY <2>a, MemoryIsRecord
  <2>d. \A u \in Tasks : pc[u] \notin Held
    BY <2>a, NoneAssumption DEF LockOwned
  <2>e. request[t].op \in Ops \ {"none", "OTHER"}
    BY <2>a, OwnRequest DEF Roles
  <2>f. Promise!Result(request[t], record') = Promise!Result(request[t], record)
    BY <2>b, <2>e, Results
  <2>g. DOMAIN record' = {"value", "message", "count"}
    BY <2>b, <2>e DEF Domains, Setters
  <2>h. /\ request[t].op \notin Setters => record'.value = record.value
        /\ request[t].op # "message_store" => record'.count = record.count
        /\ request[t].op \notin {"SET_DATA", "message_store"} =>
             record'.message = record.message
    BY <2>b, <2>e DEF Domains, Setters
  <2>i. /\ request[t].op \in Setters => record'.value = request[t].value
        /\ request[t].op = "SET_DATA" =>
             record'.message = Promise!Shorten(Promise!String(request[t].message),
                                               MESSAGE_SIZE - 1)
        /\ request[t].op = "message_store" =>
             /\ record'.message = Promise!Line(request[t].message)
             /\ record'.count = (write_count + 1) % COUNTS
    BY <2>b, <2>c, <2>e DEF Domains, Setters
  <2>j. 0 <= Len(Kept(t)) \/ request[t].op # "message_store"
    BY OwnRequest, LineFacts, SizeAssumption DEF Kept
  <2>k. /\ index[t] = 0 /\ UNCHANGED <<message, request, copy, index>>
        /\ \A u \in Tasks : u # t => pc'[u] = pc[u]
        /\ pc'[t] = "bytes" => request[t].op \in {"message_store", "message_show"}
    BY <2>a DEF Prepared, TypeOK
  <2>1. TypeOK'
    BY <2>a DEF TypeOK, Labels
  <2>2. Domains'
    BY <2>a, <2>g DEF Domains
  <2>3. LockOwned'
    BY <2>a, NoneAssumption DEF LockOwned, Held, TypeOK
  <2>4. Roles'
    BY <2>a, <2>e DEF Roles, Setters, Getters, TypeOK, Domains, Ops
  <2>5. Seen'
    BY <2>a, <2>d, <2>f DEF Seen, Held, Found, TypeOK, Domains
  <2>6. Current'
    BY <2>a, <2>c, <2>e, <2>h DEF Current, Setters, TypeOK, Domains, Ops, Getters
  <2>7. Setting'
    BY <2>a, <2>d, <2>i DEF Setting, TypeOK, Domains, Held
  <2>8. Prepared'
    BY <2>a DEF Prepared, TypeOK, Domains
  <2>9. Copied'
    BY <2>a, <2>d, <2>j, <2>k DEF Copied, Kept, Held
  <2> QED  BY <2>1, <2>2, <2>3, <2>4, <2>5, <2>6, <2>7, <2>8, <2>9 DEF IInv
<1>8. CASE Unlock(t)
  <2>a. /\ pc[t] = "unlock" /\ lock' = None
        /\ \/ /\ request[t].op \in Getters
              /\ pc' = [pc EXCEPT ![t] = "to_user"] /\ answer' = answer
           \/ /\ pc' = [pc EXCEPT ![t] = "return"]
              /\ answer' = [answer EXCEPT ![t] = Found(t)]
        /\ UNCHANGED <<lesson, value, message, write_count, request, copy, index, record,
                       seen>>
    BY <1>8 DEF Unlock, Getters, Answer, GoTo, memory, history
  <2>b. Found(t).status = "ok"
    BY OwnRequest, Results DEF Found
  <2>1. TypeOK'
    BY <2>a DEF TypeOK, Labels
  <2>2. Domains'
    BY <2>a DEF Domains
  <2>3. LockOwned'
    BY <2>a, NoneAssumption DEF LockOwned, Held, TypeOK
  <2>4. Roles'
    BY <2>a DEF Roles, Setters, Getters, TypeOK, Domains
  <2>5. Seen'
    <3>1. \A u \in Tasks : u # t => pc'[u] = pc[u] /\ answer'[u] = answer[u]
                                   /\ Found(u)' = Found(u)
      BY <2>a DEF Found, TypeOK, Domains
    <3>2. UNCHANGED <<request, record, seen>> /\ pc[t] \in Held
          /\ \/ pc'[t] = "to_user" /\ Found(t)' = seen[t]
             \/ pc'[t] = "return" /\ answer'[t].status # "pending"
      BY <2>a, <2>b DEF Seen, Held, Found, TypeOK, Domains
    <3> QED  BY <3>1, <3>2 DEF Seen, Held
  <2>6. Current'
    BY <2>a DEF Current, Setters, TypeOK, Domains
  <2>7. Setting'
    BY <2>a DEF Setting, TypeOK, Domains
  <2>8. Prepared'
    BY <2>a DEF Prepared, TypeOK, Domains
  <2>9. Copied'
    BY <2>a DEF Copied, Kept, TypeOK, Domains
  <2> QED  BY <2>1, <2>2, <2>3, <2>4, <2>5, <2>6, <2>7, <2>8, <2>9 DEF IInv
<1>9. CASE CopyValue(t) /\ request[t].op \in Setters
  <2>a. /\ pc[t] = "value" /\ request[t].op \in Setters
        /\ value' = copy[t].value
        /\ pc' = [pc EXCEPT ![t] = IF request[t].op = "SET_DATA" THEN "bytes" ELSE "unlock"]
        /\ UNCHANGED <<lesson, message, write_count, lock, request, answer, copy, index,
                       record, seen>>
    BY <1>9 DEF CopyValue, Setters, GoTo, memory, history
  <2>b. \A u \in Tasks : pc[u] \in Held => u = t
    BY <2>a, OneInside DEF Held
  <2>c. value' = record.value /\ copy[t].value \in Values \cup {0}
    BY <2>a DEF Prepared, Setting, TypeOK
  <2>d. request[t].op \in Ops
    BY OwnRequest
  <2>e. Promise!Result(request[t], record) = Found(t)
    BY <2>a, <2>d, Results DEF Found
  <2>f. index[t] = 0 /\ \A u \in Tasks : u # t => pc'[u] = pc[u]
    BY <2>a DEF Prepared, TypeOK
  <2>1. TypeOK'
    BY <2>a, <2>c DEF TypeOK, Labels
  <2>2. Domains'
    BY <2>a DEF Domains
  <2>3. LockOwned'
    BY <2>a, NoneAssumption DEF LockOwned, Held, TypeOK
  <2>4. Roles'
    BY <2>a DEF Roles, Setters, Getters, TypeOK, Domains
  <2>5. Seen'
    BY <2>a, <2>e DEF Seen, Held, Found, TypeOK, Domains
  <2>6. Current'
    BY <2>a, <2>b, <2>c DEF Current, Setters, TypeOK, Domains, Held
  <2>7. Setting'
    BY <2>a, <2>b DEF Setting, TypeOK, Domains
  <2>8. Prepared'
    BY <2>a DEF Prepared, TypeOK, Domains
  <2>9. Copied'
    BY <2>a, <2>b, <2>f DEF Copied, Setters, Held
  <2> QED  BY <2>1, <2>2, <2>3, <2>4, <2>5, <2>6, <2>7, <2>8, <2>9 DEF IInv
<1>10. CASE CopyValue(t) /\ request[t].op \notin Setters
  <2>a. /\ pc[t] = "value" /\ request[t].op \notin Setters
        /\ copy' = [copy EXCEPT ![t].value = value]
        /\ pc' = [pc EXCEPT ![t] = IF request[t].op = "GET_DATA" THEN "bytes" ELSE "unlock"]
        /\ UNCHANGED <<lesson, value, message, write_count, lock, request, answer, index,
                       record, seen>>
    BY <1>10 DEF CopyValue, Setters, GoTo, memory, history
  <2>b. \A u \in Tasks : pc[u] \in Held => u = t
    BY <2>a, OneInside DEF Held
  <2>c. request[t].op \in Getters
    BY <2>a DEF Roles
  <2>d. value = record.value /\ copy'[t].value = value
    BY <2>a, <2>c, MemoryIsRecord DEF LockOwned, Held, Getters, Setters, TypeOK
  <2>e. copy' \in [Tasks -> [value : Values \cup {0}, message : Arr, count : 0..(COUNTS - 1)]]
    BY <2>a DEF TypeOK
  <2>f. request[t].op = "GET_VALUE" => Found(t)' = Promise!Result(request[t], record)
    <3>1. ASSUME request[t].op = "GET_VALUE"
          PROVE  Promise!Result(request[t], [copy'[t] EXCEPT !.message = Promise!String(@)])
                   = Promise!Result(request[t], record)
      BY <2>d, <2>e, <3>1, FoundInCopy, OwnRequest
    <3> QED  BY <2>a, <3>1 DEF Found
  <2>g. value = record.value /\ write_count = record.count /\ Holds(message, record.message)
    BY <2>a, <2>c, MemoryIsRecord DEF LockOwned, Held, Getters, Setters
  <2>h. index[t] = 0 /\ \A u \in Tasks : u # t => pc'[u] = pc[u] /\ copy'[u] = copy[u]
    BY <2>a DEF Prepared, TypeOK
  <2>1. TypeOK'
    BY <2>a, <2>e DEF TypeOK, Labels
  <2>2. Domains'
    BY <2>a DEF Domains
  <2>3. LockOwned'
    BY <2>a, NoneAssumption DEF LockOwned, Held, TypeOK
  <2>4. Roles'
    BY <2>a, <2>c DEF Roles, Setters, Getters, TypeOK, Domains
  <2>5. Seen'
    BY <2>a, <2>c, <2>f DEF Seen, Held, Found, TypeOK, Domains, Getters
  <2>6. Current'
    BY <2>a, <2>g DEF Current, Setters, TypeOK, Domains
  <2>7. Setting'
    BY <2>a DEF Setting, TypeOK, Domains
  <2>8. Prepared'
    BY <2>a, <2>c DEF Prepared, TypeOK, Domains, Getters, Setters
  <2>9. Copied'
    BY <2>a, <2>b, <2>c, <2>d, <2>h DEF Copied, Getters, Held
  <2> QED  BY <2>1, <2>2, <2>3, <2>4, <2>5, <2>6, <2>7, <2>8, <2>9 DEF IInv
<1>11. CASE SetByte(t)
  <2>a. /\ pc[t] = "bytes" /\ request[t].op = "SET_DATA"
        /\ message' = [message EXCEPT ![index[t] + 1] = IF index[t] + 1 = MESSAGE_SIZE THEN Nul
                                                     ELSE copy[t].message[index[t] + 1]]
        /\ IF index[t] + 1 = MESSAGE_SIZE \/ copy[t].message[index[t] + 1] = Nul
           THEN pc' = [pc EXCEPT ![t] = "unlock"] /\ index' = index
           ELSE index' = [index EXCEPT ![t] = index[t] + 1] /\ pc' = pc
        /\ UNCHANGED <<lesson, value, write_count, lock, request, answer, copy, record,
                       seen>>
    BY <1>11 DEF SetByte, In, Advance, Strscpy, GoTo, memory, history
  <2> DEFINE k == index[t] + 1
  <2>b. \A u \in Tasks : pc[u] \in Held => u = t
    BY <2>a, OneInside DEF Held
  <2>c. k \in 1..MESSAGE_SIZE /\ index[t] \in Nat /\ index[t] = k - 1
    BY SizeAssumption DEF TypeOK
  <2>d. copy[t].message \in Arr /\ copy[t].message[k] \in Bytes \cup {Nul} /\ message \in Arr
    BY <2>c DEF TypeOK, Arr
  <2>e. message' \in Arr
    BY <2>a, <2>d DEF Arr
  <2>f. /\ message'[k] = IF k = MESSAGE_SIZE THEN Nul ELSE copy[t].message[k]
        /\ \A i \in 1..(k - 1) : message'[i] = copy[t].message[i] /\ message'[i] # Nul
    <3>1. \A i \in 1..(k - 1) : message'[i] = message[i]
      BY <2>a, <2>c, <2>d DEF Arr
    <3>2. message'[k] = IF k = MESSAGE_SIZE THEN Nul ELSE copy[t].message[k]
      BY <2>a, <2>c, <2>d DEF Arr
    <3> QED  BY <2>a, <2>c, <3>1, <3>2 DEF Copied
  \* After the last byte the array holds what the record has.
  <2>g. ASSUME k = MESSAGE_SIZE \/ copy[t].message[k] = Nul
        PROVE  Holds(message', record.message)
    <3> DEFINE given == request[t].message
               text  == SubSeq(given, 1, k - 1)
    <3>1. /\ given \in Arr /\ copy[t].message = [given EXCEPT ![MESSAGE_SIZE] = Nul]
          /\ record.message = Promise!Shorten(Promise!String(given), MESSAGE_SIZE - 1)
      BY <2>a, OwnRequest DEF Prepared, Setting, Setters
    <3>2. \A i \in 1..(k - 1) : copy[t].message[i] = given[i] /\ given[i] # Nul
      <4>1. \A i \in 1..(k - 1) : i \in 1..MESSAGE_SIZE /\ i # MESSAGE_SIZE
        BY <2>c, SizeAssumption
      <4>2. \A i \in 1..(k - 1) : [given EXCEPT ![MESSAGE_SIZE] = Nul][i] = given[i]
        BY <3>1, <4>1 DEF Arr
      <4>3. \A i \in 1..(k - 1) : copy[t].message[i] # Nul
        BY <2>f
      <4> QED  BY <3>1, <4>2, <4>3
    <3>3. k = MESSAGE_SIZE \/ given[k] = Nul
      BY <2>c, <2>g, <3>1, SizeAssumption DEF Arr
    <3>4. /\ record.message = text /\ text \in Seq(Bytes) /\ Len(text) = k - 1
          /\ \A i \in 1..(k - 1) : text[i] = given[i]
      <4>1. given \in Arr /\ \A i \in 1..(k - 1) : given[i] # Nul
        BY <3>1, <3>2
      <4> HIDE DEF given
      <4>2. /\ Promise!Shorten(Promise!String(given), MESSAGE_SIZE - 1) = SubSeq(given, 1, k - 1)
            /\ SubSeq(given, 1, k - 1) \in Seq(Bytes) /\ Len(SubSeq(given, 1, k - 1)) = k - 1
            /\ \A i \in 1..(k - 1) : SubSeq(given, 1, k - 1)[i] = given[i]
        BY <2>c, <3>3, <4>1, FirstNul
      <4> QED  BY <3>1, <4>2
    <3>5. message'[k] = Nul /\ \A i \in 1..(k - 1) : message'[i] = given[i]
      BY <2>f, <2>g, <3>2
    <3> HIDE DEF text, given
    <3>6. Len(text) + 1 = k /\ Len(text) < MESSAGE_SIZE
      BY <2>c, <3>4, SizeAssumption
    <3> QED  BY <3>4, <3>5, <3>6 DEF Holds
  <2>h. request[t].op \in Ops
    BY OwnRequest
  <2>i. Promise!Result(request[t], record) = Found(t)'
    BY <2>a, <2>h, Results DEF Found, Setters
  <2>j. index' \in [Tasks -> 0..(MESSAGE_SIZE - 1)]
    <3>1. k # MESSAGE_SIZE => k \in 0..(MESSAGE_SIZE - 1)
      BY <2>c, SizeAssumption
    <3> QED  BY <2>a, <3>1 DEF TypeOK
  <2>1. TypeOK'
    BY <2>a, <2>e, <2>j DEF TypeOK, Labels
  <2>2. Domains'
    BY <2>a DEF Domains
  <2>3. LockOwned'
    BY <2>a, NoneAssumption DEF LockOwned, Held, TypeOK
  <2>4. Roles'
    BY <2>a DEF Roles, Setters, Getters, TypeOK, Domains
  <2>5. Seen'
    <3>1. \A u \in Tasks : u # t => pc'[u] = pc[u] /\ answer'[u] = answer[u]
                                   /\ Found(u)' = Found(u)
      BY <2>a DEF Found, TypeOK, Domains
    <3>2. UNCHANGED <<request, record, seen>> /\ pc[t] \in Held
          /\ \/ pc'[t] = "bytes"
             \/ pc'[t] = "unlock" /\ Found(t)' = Promise!Result(request[t], record)
      BY <2>a, <2>i DEF Held, TypeOK
    <3> QED  BY <3>1, <3>2 DEF Seen, Held
  <2>6. Current'
    BY <2>a, <2>b, <2>g DEF Current, Setters, TypeOK, Domains, Held
  <2>7. Setting'
    BY <2>a, <2>b DEF Setting, TypeOK, Domains
  <2>8. Prepared'
    BY <2>a DEF Prepared, TypeOK, Domains
  <2>9. Copied'
    BY <2>a, <2>b, <2>c, <2>f DEF Copied, Kept, TypeOK, Domains, Held
  <2> QED  BY <2>1, <2>2, <2>3, <2>4, <2>5, <2>6, <2>7, <2>8, <2>9 DEF IInv
<1>12. CASE GetByte(t)
  <2>a. /\ pc[t] = "bytes" /\ request[t].op = "GET_DATA"
        /\ copy' = [copy EXCEPT ![t].message[index[t] + 1] =
                       IF index[t] + 1 = MESSAGE_SIZE THEN Nul ELSE message[index[t] + 1]]
        /\ IF index[t] + 1 = MESSAGE_SIZE \/ message[index[t] + 1] = Nul
           THEN pc' = [pc EXCEPT ![t] = "unlock"] /\ index' = index
           ELSE index' = [index EXCEPT ![t] = index[t] + 1] /\ pc' = pc
        /\ UNCHANGED <<lesson, value, message, write_count, lock, request, answer, record,
                       seen>>
    BY <1>12 DEF GetByte, In, Advance, Strscpy, GoTo, memory, history
  <2> DEFINE k == index[t] + 1
  <2>b. \A u \in Tasks : pc[u] \in Held => u = t
    BY <2>a, OneInside DEF Held
  <2>c. k \in 1..MESSAGE_SIZE /\ index[t] \in Nat /\ index[t] = k - 1
    BY SizeAssumption DEF TypeOK
  <2>d. copy[t].message \in Arr /\ message[k] \in Bytes \cup {Nul} /\ message \in Arr
    BY <2>c DEF TypeOK, Arr
  <2>e. Holds(message, record.message) /\ value = record.value /\ write_count = record.count
    BY <2>a, MemoryIsRecord DEF LockOwned, Held, Setters
  <2>f. /\ k <= Len(record.message) + 1 /\ Len(record.message) \in Nat
        /\ message[k] = Nul <=> k = Len(record.message) + 1
        /\ k = MESSAGE_SIZE => k = Len(record.message) + 1
    <3>1. \A i \in 1..(k - 1) : message[i] # Nul
      BY <2>a, <2>c DEF Copied
    <3> QED  BY <2>c, <2>d, <2>e, <3>1, ReachNul
  <2>g. /\ copy'[t].message = [copy[t].message EXCEPT ![k] = message[k]]
        /\ copy'[t].value = copy[t].value
        /\ copy' \in [Tasks -> [value : Values \cup {0}, message : Arr, count : 0..(COUNTS - 1)]]
    <3>1. [copy[t].message EXCEPT ![k] = message[k]] \in Arr
      BY <2>d DEF Arr
    <3>2. copy' = [copy EXCEPT ![t].message = [copy[t].message EXCEPT ![k] = message[k]]]
      BY <2>a, <2>f DEF TypeOK
    <3> QED  BY <3>1, <3>2 DEF TypeOK
  <2>h. /\ copy'[t].message[k] = message[k]
        /\ \A i \in 1..(k - 1) : copy'[t].message[i] = message[i] /\ message[i] # Nul
    <3>1. \A i \in 1..(k - 1) : i # k /\ i \in 1..MESSAGE_SIZE
      BY <2>c, SizeAssumption
    <3>2. /\ copy'[t].message[k] = message[k]
          /\ \A i \in 1..(k - 1) : copy'[t].message[i] = copy[t].message[i]
      BY <2>c, <2>d, <2>g, <3>1 DEF Arr
    <3>3. \A i \in 1..(k - 1) : copy[t].message[i] = message[i] /\ message[i] # Nul
      BY <2>a, <2>c DEF Copied
    <3> QED  BY <3>2, <3>3
  \* After the last byte the copy holds what the record has.
  <2>i. ASSUME k = MESSAGE_SIZE \/ message[k] = Nul
        PROVE  Found(t)' = Promise!Result(request[t], record)
    <3>1. k = Len(record.message) + 1 /\ message[k] = Nul /\ Len(record.message) = k - 1
      BY <2>c, <2>f, <2>i
    <3>2. Holds(copy'[t].message, record.message)
      BY <2>e, <2>h, <3>1, CopyHolds
    <3>3. request[t].op \in Getters => copy'[t].value = record.value
      BY <2>a, <2>g DEF Copied, Getters
    <3>4. Promise!Result(request[t], [copy'[t] EXCEPT !.message = Promise!String(@)])
            = Promise!Result(request[t], record)
      <4>1. copy'[t] \in [value : Values \cup {0}, message : Arr, count : 0..(COUNTS - 1)]
        BY <2>g
      <4>2. request[t].op \in Ops /\ request[t].op # "write_count_show"
        BY <2>a, OwnRequest
      <4> QED  BY <3>2, <3>3, <4>1, <4>2, FoundInCopy
    <3> QED  BY <2>a, <3>4 DEF Found
  <2>j. index' \in [Tasks -> 0..(MESSAGE_SIZE - 1)]
    <3>1. ~(k = MESSAGE_SIZE \/ message[k] = Nul) => k \in 0..(MESSAGE_SIZE - 1)
      BY <2>c, <2>e, <2>f, SizeAssumption DEF Holds
    <3> QED  BY <2>a, <3>1 DEF TypeOK
  <2>1. TypeOK'
    BY <2>a, <2>g, <2>j DEF TypeOK, Labels
  <2>2. Domains'
    BY <2>a DEF Domains
  <2>3. LockOwned'
    BY <2>a, NoneAssumption DEF LockOwned, Held, TypeOK
  <2>4. Roles'
    BY <2>a DEF Roles, Setters, Getters, TypeOK, Domains
  <2>5. Seen'
    <3>1. \A u \in Tasks : u # t => pc'[u] = pc[u] /\ answer'[u] = answer[u]
                                   /\ Found(u)' = Found(u)
      BY <2>a DEF Found, TypeOK, Domains
    <3>2. UNCHANGED <<request, record, seen>> /\ pc[t] \in Held
          /\ \/ pc'[t] = "bytes"
             \/ pc'[t] = "unlock" /\ Found(t)' = Promise!Result(request[t], record)
      BY <2>a, <2>i DEF Held, TypeOK
    <3> QED  BY <3>1, <3>2 DEF Seen, Held
  <2>6. Current'
    BY <2>a, <2>b, <2>e DEF Current, Setters, TypeOK, Domains
  <2>7. Setting'
    BY <2>a DEF Setting, TypeOK, Domains
  <2>8. Prepared'
    BY <2>a DEF Prepared, TypeOK, Domains, Setters
  <2>9. Copied'
    BY <2>a, <2>b, <2>c, <2>g, <2>h DEF Copied, Kept, TypeOK, Domains, Held
  <2> QED  BY <2>1, <2>2, <2>3, <2>4, <2>5, <2>6, <2>7, <2>8, <2>9 DEF IInv
<1>13. CASE ShowByte(t)
  <2>a. /\ pc[t] = "bytes" /\ request[t].op = "message_show"
        /\ copy' = [copy EXCEPT ![t].message[index[t] + 1] =
                       message[index[t] + 1]]
        /\ IF message[index[t] + 1] = Nul
           THEN pc' = [pc EXCEPT ![t] = "unlock"] /\ index' = index
           ELSE index' = [index EXCEPT ![t] = index[t] + 1] /\ pc' = pc
        /\ UNCHANGED <<lesson, value, message, write_count, lock, request, answer, record,
                       seen>>
    BY <1>13 DEF ShowByte, In, Advance, Strscpy, GoTo, memory, history
  <2> DEFINE k == index[t] + 1
  <2>b. \A u \in Tasks : pc[u] \in Held => u = t
    BY <2>a, OneInside DEF Held
  <2>c. k \in 1..MESSAGE_SIZE /\ index[t] \in Nat /\ index[t] = k - 1
    BY SizeAssumption DEF TypeOK
  <2>d. copy[t].message \in Arr /\ message[k] \in Bytes \cup {Nul} /\ message \in Arr
    BY <2>c DEF TypeOK, Arr
  <2>e. Holds(message, record.message) /\ value = record.value /\ write_count = record.count
    BY <2>a, MemoryIsRecord DEF LockOwned, Held, Setters
  <2>f. /\ k <= Len(record.message) + 1 /\ Len(record.message) \in Nat
        /\ message[k] = Nul <=> k = Len(record.message) + 1
        /\ k = MESSAGE_SIZE => k = Len(record.message) + 1
    <3>1. \A i \in 1..(k - 1) : message[i] # Nul
      BY <2>a, <2>c DEF Copied
    <3> QED  BY <2>c, <2>d, <2>e, <3>1, ReachNul
  <2>g. /\ copy'[t].message = [copy[t].message EXCEPT ![k] = message[k]]
        /\ copy'[t].value = copy[t].value
        /\ copy' \in [Tasks -> [value : Values \cup {0}, message : Arr, count : 0..(COUNTS - 1)]]
    <3>1. [copy[t].message EXCEPT ![k] = message[k]] \in Arr
      BY <2>d DEF Arr
    <3>2. copy' = [copy EXCEPT ![t].message = [copy[t].message EXCEPT ![k] = message[k]]]
      BY <2>a, <2>f DEF TypeOK
    <3> QED  BY <3>1, <3>2 DEF TypeOK
  <2>h. /\ copy'[t].message[k] = message[k]
        /\ \A i \in 1..(k - 1) : copy'[t].message[i] = message[i] /\ message[i] # Nul
    <3>1. \A i \in 1..(k - 1) : i # k /\ i \in 1..MESSAGE_SIZE
      BY <2>c, SizeAssumption
    <3>2. /\ copy'[t].message[k] = message[k]
          /\ \A i \in 1..(k - 1) : copy'[t].message[i] = copy[t].message[i]
      BY <2>c, <2>d, <2>g, <3>1 DEF Arr
    <3>3. \A i \in 1..(k - 1) : copy[t].message[i] = message[i] /\ message[i] # Nul
      BY <2>a, <2>c DEF Copied
    <3> QED  BY <3>2, <3>3
  \* After the last byte the copy holds what the record has.
  <2>i. ASSUME message[k] = Nul
        PROVE  Found(t)' = Promise!Result(request[t], record)
    <3>1. k = Len(record.message) + 1 /\ message[k] = Nul /\ Len(record.message) = k - 1
      BY <2>c, <2>f, <2>i
    <3>2. Holds(copy'[t].message, record.message)
      BY <2>e, <2>h, <3>1, CopyHolds
    <3>3. request[t].op \in Getters => copy'[t].value = record.value
      BY <2>a, <2>g DEF Copied, Getters
    <3>4. Promise!Result(request[t], [copy'[t] EXCEPT !.message = Promise!String(@)])
            = Promise!Result(request[t], record)
      <4>1. copy'[t] \in [value : Values \cup {0}, message : Arr, count : 0..(COUNTS - 1)]
        BY <2>g
      <4>2. request[t].op \in Ops /\ request[t].op # "write_count_show"
        BY <2>a, OwnRequest
      <4> QED  BY <3>2, <3>3, <4>1, <4>2, FoundInCopy
    <3> QED  BY <2>a, <3>4 DEF Found
  <2>j. index' \in [Tasks -> 0..(MESSAGE_SIZE - 1)]
    <3>1. ~(message[k] = Nul) => k \in 0..(MESSAGE_SIZE - 1)
      BY <2>c, <2>e, <2>f, SizeAssumption DEF Holds
    <3> QED  BY <2>a, <3>1 DEF TypeOK
  <2>1. TypeOK'
    BY <2>a, <2>g, <2>j DEF TypeOK, Labels
  <2>2. Domains'
    BY <2>a DEF Domains
  <2>3. LockOwned'
    BY <2>a, NoneAssumption DEF LockOwned, Held, TypeOK
  <2>4. Roles'
    BY <2>a DEF Roles, Setters, Getters, TypeOK, Domains
  <2>5. Seen'
    <3>1. \A u \in Tasks : u # t => pc'[u] = pc[u] /\ answer'[u] = answer[u]
                                   /\ Found(u)' = Found(u)
      BY <2>a DEF Found, TypeOK, Domains
    <3>2. UNCHANGED <<request, record, seen>> /\ pc[t] \in Held
          /\ \/ pc'[t] = "bytes"
             \/ pc'[t] = "unlock" /\ Found(t)' = Promise!Result(request[t], record)
      BY <2>a, <2>i DEF Held, TypeOK
    <3> QED  BY <3>1, <3>2 DEF Seen, Held
  <2>6. Current'
    BY <2>a, <2>b, <2>e DEF Current, Setters, TypeOK, Domains
  <2>7. Setting'
    BY <2>a DEF Setting, TypeOK, Domains
  <2>8. Prepared'
    BY <2>a DEF Prepared, TypeOK, Domains, Setters
  <2>9. Copied'
    BY <2>a, <2>b, <2>c, <2>g, <2>h DEF Copied, Kept, TypeOK, Domains, Held
  <2> QED  BY <2>1, <2>2, <2>3, <2>4, <2>5, <2>6, <2>7, <2>8, <2>9 DEF IInv
<1>14. CASE StoreByte(t)
  <2>a. /\ pc[t] = "bytes" /\ request[t].op = "message_store" /\ index[t] < Len(Kept(t))
        /\ message' = [message EXCEPT ![index[t] + 1] = Kept(t)[index[t] + 1]]
        /\ index' = [index EXCEPT ![t] = index[t] + 1]
        /\ UNCHANGED <<lesson, value, write_count, lock, pc, request, answer, copy,
                       record, seen>>
    BY <1>14 DEF StoreByte, In, GoTo, memory, history
  <2> DEFINE k == index[t] + 1
  <2>b. \A u \in Tasks : pc[u] \in Held => u = t
    BY <2>a, OneInside DEF Held
  <2>c. k \in 1..MESSAGE_SIZE /\ index[t] \in Nat /\ index[t] = k - 1
    BY SizeAssumption DEF TypeOK
  <2>d. Kept(t) \in Seq(Bytes) /\ Len(Kept(t)) \in 1..(MESSAGE_SIZE - 1)
    BY <2>a, OwnRequest, LineFacts DEF Kept
  <2>e. k \in 1..Len(Kept(t)) /\ k \in 0..(MESSAGE_SIZE - 1) /\ Kept(t)[k] \in Bytes
    BY <2>a, <2>c, <2>d, SizeAssumption
  <2>f. message' \in Arr /\ index' \in [Tasks -> 0..(MESSAGE_SIZE - 1)]
    BY <2>a, <2>e DEF TypeOK, Arr
  <2>g. \A i \in 1..k : message'[i] = Kept(t)[i]
    <3>1. \A i \in 1..(k - 1) : i # k /\ message[i] = Kept(t)[i]
      BY <2>a, <2>c DEF Copied
    <3>2. k \in 1..MESSAGE_SIZE /\ message \in Arr
      BY <2>c DEF TypeOK
    <3>3. message'[k] = Kept(t)[k] /\ \A i \in 1..(k - 1) : message'[i] = message[i]
      BY <2>a, <3>1, <3>2 DEF Arr
    <3>4. \A i \in 1..k : i = k \/ i \in 1..(k - 1)
      BY <2>c
    <3> QED  BY <3>1, <3>3, <3>4
  <2>1. TypeOK'
    BY <2>a, <2>f DEF TypeOK, Labels
  <2>2. Domains'
    BY <2>a DEF Domains
  <2>3. LockOwned'
    BY <2>a, NoneAssumption DEF LockOwned, Held, TypeOK
  <2>4. Roles'
    BY <2>a DEF Roles, Setters, Getters, TypeOK, Domains
  <2>5. Seen'
    BY <2>a DEF Seen, Held, Found, TypeOK, Domains
  <2>6. Current'
    BY <2>a DEF Current, Setters, TypeOK, Domains
  <2>7. Setting'
    BY <2>a DEF Setting, TypeOK, Domains
  <2>8. Prepared'
    BY <2>a DEF Prepared, TypeOK, Domains
  <2>9. Copied'
    BY <2>a, <2>b, <2>e, <2>g DEF Copied, Kept, TypeOK, Domains, Held
  <2> QED  BY <2>1, <2>2, <2>3, <2>4, <2>5, <2>6, <2>7, <2>8, <2>9 DEF IInv
<1>15. CASE StoreEnd(t)
  <2>a. /\ pc[t] = "bytes" /\ request[t].op = "message_store" /\ index[t] = Len(Kept(t))
        /\ message' = [message EXCEPT ![IF message[Len(Kept(t))] = Newline THEN Len(Kept(t))
                                      ELSE Len(Kept(t)) + 1] = Nul]
        /\ write_count' = (write_count + 1) % COUNTS
        /\ pc' = [pc EXCEPT ![t] = "unlock"]
        /\ UNCHANGED <<lesson, value, lock, request, answer, copy, index, record, seen>>
    BY <1>15 DEF StoreEnd, In, GoTo, memory, history
  <2>b. \A u \in Tasks : pc[u] \in Held => u = t
    BY <2>a, OneInside DEF Held
  <2> DEFINE len  == Len(Kept(t))
             line == Promise!Line(request[t].message)
             end  == IF message[len] = Newline THEN len ELSE len + 1
  <2>c. /\ Kept(t) \in Seq(Bytes) /\ len \in 1..(MESSAGE_SIZE - 1)
        /\ line \in Seq(Bytes)
        /\ Len(line) = IF Kept(t)[len] = Newline THEN len - 1 ELSE len
        /\ \A i \in 1..Len(line) : line[i] = Kept(t)[i]
    BY <2>a, OwnRequest, LineFacts DEF Kept
  <2>d. \A i \in 1..len : message[i] = Kept(t)[i]
    BY <2>a DEF Copied
  <2> HIDE DEF len, line
  <2>e. message \in Arr /\ MESSAGE_SIZE \in Nat /\ len \in Nat
    BY <2>c, SizeAssumption DEF TypeOK
  <2>f. end = Len(line) + 1 /\ end \in 1..MESSAGE_SIZE /\ Len(line) \in Nat
    BY <2>c, <2>d, <2>e
  <2>g. message' = [message EXCEPT ![end] = Nul] /\ message' \in Arr
    BY <2>a, <2>e DEF Arr, len
  <2> HIDE DEF end
  <2>h. message'[end] = Nul /\ \A i \in 1..Len(line) : message'[i] = message[i]
    BY <2>e, <2>f, <2>g DEF Arr
  <2>i. Len(line) <= len /\ Len(line) < MESSAGE_SIZE
    BY <2>c, <2>e
  <2>j. Holds(message', line)
    BY <2>c, <2>d, <2>e, <2>f, <2>h, <2>i DEF Holds
  <2>k. record.message = line /\ record.count = write_count'
    BY <2>a DEF Setting, line
  <2>l. write_count' \in 0..(COUNTS - 1)
    BY <2>a, SizeAssumption DEF TypeOK
  <2>m. Promise!Result(request[t], record) = Found(t)'
    BY <2>a, OwnRequest, Results DEF Found
  <2>1. TypeOK'
    BY <2>a, <2>g, <2>l DEF TypeOK, Labels
  <2>2. Domains'
    BY <2>a DEF Domains
  <2>3. LockOwned'
    BY <2>a, NoneAssumption DEF LockOwned, Held, TypeOK
  <2>4. Roles'
    BY <2>a DEF Roles, Setters, Getters, TypeOK, Domains
  <2>5. Seen'
    BY <2>a, <2>m DEF Seen, Held, Found, TypeOK, Domains
  <2>6. Current'
    BY <2>a, <2>b, <2>j, <2>k DEF Current, Setters, TypeOK, Domains, Held
  <2>7. Setting'
    BY <2>a, <2>b DEF Setting, TypeOK, Domains, Held
  <2>8. Prepared'
    BY <2>a DEF Prepared, TypeOK, Domains
  <2>9. Copied'
    BY <2>a, <2>b DEF Copied, Kept, TypeOK, Domains, Held
  <2> QED  BY <2>1, <2>2, <2>3, <2>4, <2>5, <2>6, <2>7, <2>8, <2>9 DEF IInv
<1>16. CASE ReadCount(t)
  <2>a. /\ pc[t] = "count"
        /\ copy' = [copy EXCEPT ![t].count = write_count]
        /\ pc' = [pc EXCEPT ![t] = "unlock"]
        /\ UNCHANGED <<lesson, value, message, write_count, lock, request, answer, index,
                       record, seen>>
    BY <1>16 DEF ReadCount, GoTo, memory, history
  <2>b. \A u \in Tasks : pc[u] \in Held => u = t
    BY <2>a, OneInside DEF Held
  <2>c. request[t].op = "write_count_show"
    BY <2>a DEF Roles
  <2>d. write_count = record.count /\ copy'[t].count = write_count
    BY <2>a, <2>c, MemoryIsRecord DEF LockOwned, Held, Setters, TypeOK
  <2>e. copy' \in [Tasks -> [value : Values \cup {0}, message : Arr, count : 0..(COUNTS - 1)]]
    BY <2>a DEF TypeOK
  <2>f. Found(t)' = Promise!Result(request[t], record)
    <3>1. Promise!Result(request[t], [copy'[t] EXCEPT !.message = Promise!String(@)])
            = Promise!Result(request[t], record)
      BY <2>c, <2>d, <2>e, FoundInCopy, OwnRequest DEF Getters
    <3> QED  BY <2>a, <3>1 DEF Found
  <2>1. TypeOK'
    BY <2>a, <2>e DEF TypeOK, Labels
  <2>2. Domains'
    BY <2>a DEF Domains
  <2>3. LockOwned'
    BY <2>a, NoneAssumption DEF LockOwned, Held, TypeOK
  <2>4. Roles'
    BY <2>a, <2>c DEF Roles, Setters, Getters, TypeOK, Domains
  <2>5. Seen'
    BY <2>a, <2>f DEF Seen, Held, Found, TypeOK, Domains
  <2>6. Current'
    BY <2>a, <2>b DEF Current, Setters, TypeOK, Domains, Held
  <2>7. Setting'
    BY <2>a DEF Setting, TypeOK, Domains
  <2>8. Prepared'
    BY <2>a, <2>c DEF Prepared, TypeOK, Domains, Setters
  <2>9. Copied'
    BY <2>a DEF Copied, Kept, TypeOK, Domains
  <2> QED  BY <2>1, <2>2, <2>3, <2>4, <2>5, <2>6, <2>7, <2>8, <2>9 DEF IInv
<1>a. FromUser(t) => pc'[t] \in {"lock", "return"}
  BY DEF FromUser, Answer, GoTo, TypeOK
<1> QED
  BY <1>a, <1>1, <1>2, <1>3, <1>4, <1>5, <1>6, <1>7, <1>8, <1>9, <1>10, <1>11, <1>12,
     <1>13, <1>14, <1>15, <1>16
  DEF Progress, Inside

-----------------------------------------------------------------------------
(* Theorems *)

\* In every reachable state: the types, the mutex, the calls and their results, and
\* what the memory has of the record.
THEOREM Invariance == Spec => []IInv
<1>1. IInv /\ [Next]_vars => IInv'
  BY StutterIInv, NextIInv
<1> QED  BY InitIInv, <1>1, PTL DEF Spec

\* No loop over a text leaves its array (si_sysfs13.c:126-154, si_ioctl16.c:184-196).
THEOREM TypeCorrect == Spec => []TypeOK
<1>1. IInv => TypeOK
  BY DEF IInv
<1> QED  BY Invariance, <1>1, PTL

\* The modules are loaded with the initial record, and nobody has called yet.
LEMMA InitRecord == Init => Promise!Init
<1> SUFFICES ASSUME Init PROVE Promise!Init
  OBVIOUS
<1>1. Settled = [t \in Tasks |-> Promise!Pending]
  BY DEF Init, Settled
<1> QED  BY <1>1 DEF Init, Promise!Init

\* The steps that callers cannot tell from no step at all.
LEMMA SilentSteps ==
  ASSUME IInv, NEW t \in Tasks,
         \/ FromUser(t) /\ pc'[t] = "lock" /\ UNCHANGED answer
         \/ Unlock(t) \/ CopyValue(t) \/ SetByte(t) \/ GetByte(t) \/ ShowByte(t)
         \/ StoreByte(t) \/ StoreEnd(t) \/ ReadCount(t)
         \/ ToUser(t) /\ answer' = [answer EXCEPT ![t] = Found(t)]
  PROVE  UNCHANGED Promise!recordVars
<1>1. UNCHANGED <<record, request, seen>>
  BY DEF FromUser, Unlock, CopyValue, SetByte, GetByte, ShowByte, StoreByte, StoreEnd,
     ReadCount, ToUser, memory, history
<1>2. ASSUME NEW u \in Tasks
      PROVE  (IF pc'[u] = "return" THEN answer'[u] ELSE seen'[u])
               = (IF pc[u] = "return" THEN answer[u] ELSE seen[u])
  <2>1. \/ UNCHANGED answer /\ pc[t] # "return"
           /\ \/ UNCHANGED pc
              \/ \E l \in Labels \ {"return"} : pc' = [pc EXCEPT ![t] = l]
        \/ /\ pc[t] \in {"unlock", "to_user"} /\ pc' = [pc EXCEPT ![t] = "return"]
           /\ answer' = [answer EXCEPT ![t] = Found(t)]
    BY DEF FromUser, Unlock, CopyValue, SetByte, GetByte, ShowByte, StoreByte, StoreEnd,
       ReadCount, ToUser, GoTo, Answer, Advance, In, Labels
  <2>2. (pc[t] \in {"unlock", "to_user"}) => seen[t] = Found(t)
    BY DEF IInv, Seen
  <2> QED  BY <1>1, <2>1, <2>2 DEF IInv, TypeOK, Domains, Labels
<1>3. Settled' = Settled
  BY <1>2 DEF Settled
<1> QED  BY <1>1, <1>3 DEF Promise!recordVars

\* The other steps each are one step of the record.
LEMMA VisibleSteps ==
  ASSUME IInv, NEW t \in Tasks,
         \/ Enter(t) \/ Refuse(t) \/ (FromUser(t) /\ pc'[t] = "return") \/ Lock(t)
         \/ (ToUser(t) /\ answer' = [answer EXCEPT ![t] = Promise!Failed("EFAULT")])
         \/ Return(t)
  PROVE  Promise!Next
<1> USE DEF IInv
<1>a. DOMAIN pc = Tasks /\ DOMAIN answer = Tasks /\ DOMAIN seen = Tasks
  BY DEF TypeOK, Domains
\* How a step of t shows in what the callers get.
<1>b. ASSUME NEW r, \A u \in Tasks \ {t} : pc'[u] = pc[u] /\ answer'[u] = answer[u]
                                           /\ seen'[u] = seen[u],
             (IF pc'[t] = "return" THEN answer'[t] ELSE seen'[t]) = r
      PROVE  Settled' = [Settled EXCEPT ![t] = r]
  BY <1>b DEF Settled
<1>1. CASE Enter(t)
  <2>1. PICK r \in AttributeCalls \cup Commands : request' = [request EXCEPT ![t] = r]
    BY <1>1 DEF Enter
  <2>2. /\ pc[t] = "idle" /\ pc'[t] # "return" /\ UNCHANGED <<record, answer, seen>>
        /\ \A u \in Tasks \ {t} : pc'[u] = pc[u]
    BY <1>1, <1>a DEF Enter, GoTo, history
  <2>3. Settled' = Settled
    BY <2>2 DEF Settled
  <2>4. Promise!Begin(t)
    BY <2>1, <2>2, <2>3 DEF Promise!Begin, Roles
  <2> QED  BY <2>4 DEF Promise!Next
<1>2. CASE Refuse(t)
  <2>1. /\ pc[t] = "refuse" /\ pc' = [pc EXCEPT ![t] = "return"]
        /\ answer' = [answer EXCEPT ![t] = Promise!Failed("ENOTTY")]
        /\ UNCHANGED <<record, request, seen>>
    BY <1>2 DEF Refuse, Answer, GoTo, history
  <2>2. Settled' = [Settled EXCEPT ![t] = Promise!Failed("ENOTTY")]
    BY <1>a, <1>b, <2>1
  <2>3. Promise!Refuse(t)
    BY <2>1, <2>2 DEF Promise!Refuse, Roles
  <2> QED  BY <2>3 DEF Promise!Next
<1>3. CASE FromUser(t) /\ pc'[t] = "return"
  <2>1. /\ pc[t] = "from_user" /\ pc' = [pc EXCEPT ![t] = "return"]
        /\ answer' = [answer EXCEPT ![t] = Promise!Failed("EFAULT")]
        /\ UNCHANGED <<record, request, seen>>
    BY <1>3, <1>a DEF FromUser, Answer, GoTo, history
  <2>2. Settled' = [Settled EXCEPT ![t] = Promise!Failed("EFAULT")]
    BY <1>a, <1>b, <2>1
  <2>3. request[t].op \in Setters /\ Settled[t] = Promise!Pending
    BY <2>1 DEF Roles, Seen, Settled
  <2>4. Promise!Fail(t)
    BY <2>1, <2>2, <2>3 DEF Promise!Fail, Promise!Setters, Setters
  <2> QED  BY <2>4 DEF Promise!Next
<1>4. CASE Lock(t)
  <2>1. /\ pc[t] = "lock" /\ record' = Promise!Apply(request[t], record)
        /\ seen' = [seen EXCEPT ![t] = Promise!Result(request[t], record)]
        /\ UNCHANGED <<request, answer>>
        /\ \E l \in Labels \ {"return"} : pc' = [pc EXCEPT ![t] = l]
    BY <1>4 DEF Lock, GoTo, Labels
  <2>2. Settled' = [Settled EXCEPT ![t] = Promise!Result(request[t], record)]
    BY <1>a, <1>b, <2>1
  <2>3. request[t].op \notin {"none", "OTHER"} /\ Settled[t] = Promise!Pending
    BY <2>1 DEF Roles, Seen, Settled
  <2>4. Promise!Commit(t)
    BY <2>1, <2>2, <2>3 DEF Promise!Commit
  <2> QED  BY <2>4 DEF Promise!Next
<1>5. CASE ToUser(t) /\ answer' = [answer EXCEPT ![t] = Promise!Failed("EFAULT")]
  <2>1. /\ pc[t] = "to_user" /\ pc' = [pc EXCEPT ![t] = "return"]
        /\ UNCHANGED <<record, request, seen>>
    BY <1>5 DEF ToUser, Answer, GoTo, history
  <2>2. Settled' = [Settled EXCEPT ![t] = Promise!Failed("EFAULT")]
    BY <1>5, <1>a, <1>b, <2>1
  <2>3. request[t].op \in Getters
    BY <2>1 DEF Roles
  <2>4. Promise!Fail(t)
    BY <2>1, <2>2, <2>3 DEF Promise!Fail, Promise!Getters, Getters
  <2> QED  BY <2>4 DEF Promise!Next
<1>6. CASE Return(t)
  <2>1. /\ pc[t] = "return" /\ pc' = [pc EXCEPT ![t] = "idle"]
        /\ request' = [request EXCEPT ![t] = Promise!NoRequest]
        /\ answer' = [answer EXCEPT ![t] = Promise!Pending]
        /\ seen' = [seen EXCEPT ![t] = Promise!Pending]
        /\ UNCHANGED record
    BY <1>6 DEF Return, GoTo
  <2>2. Settled' = [Settled EXCEPT ![t] = Promise!Pending]
    BY <1>a, <1>b, <2>1
  <2>3. Settled[t] # Promise!Pending
    BY <2>1 DEF Seen, Settled, Promise!Pending
  <2>4. Promise!Return(t)
    BY <2>1, <2>2, <2>3 DEF Promise!Return
  <2> QED  BY <2>4 DEF Promise!Next
<1> QED  BY <1>1, <1>2, <1>3, <1>4, <1>5, <1>6

\* However the loops over the bytes interleave, and whatever addresses are bad, no
\* caller of the callbacks of si_sysfs13.c:120-172 or of the commands of
\* si_ioctl16.c:139-205 can tell the data from a record that changes in one step.
THEOREM DataIsRecord == Spec => IsRecord
<1>1. IInv /\ [Next]_vars => [Promise!Next]_(Promise!recordVars)
  <2>1. CASE UNCHANGED vars
    <3>1. Settled' = Settled
      BY <2>1 DEF vars, history, Settled
    <3> QED  BY <2>1, <3>1 DEF vars, history, Promise!recordVars
  <2>2. ASSUME IInv, Next PROVE [Promise!Next]_(Promise!recordVars)
    <3> PICK t \in Tasks : Enter(t) \/ Lock(t) \/ Progress(t)
      BY <2>2 DEF Next
    <3>1. FromUser(t) => \/ pc'[t] = "lock" /\ UNCHANGED answer
                         \/ pc'[t] = "return"
      BY <2>2 DEF FromUser, Answer, GoTo, IInv, TypeOK
    <3>2. ToUser(t) => \/ answer' = [answer EXCEPT ![t] = Found(t)]
                       \/ answer' = [answer EXCEPT ![t] = Promise!Failed("EFAULT")]
      BY DEF ToUser, Answer
    <3> QED  BY <2>2, <3>1, <3>2, SilentSteps, VisibleSteps DEF Progress, Inside
  <2> QED  BY <2>1, <2>2
<1> QED  BY InitRecord, Invariance, <1>1, PTL DEF Spec, IsRecord, Promise!Spec
=============================================================================
