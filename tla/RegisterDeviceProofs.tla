------------------------ MODULE RegisterDeviceProofs ------------------------
(***************************************************************************)
(* Proofs about RegisterDevice: that the answers of the sensors are their  *)
(* callers' own, that the other pins are left alone and whom rmmod can     *)
(* hurt, for any tasks, readings, sizes of buffers and numbers.            *)
(*                                                                         *)
(* The first part of the invariant is about the mutex (LockOwned), the     *)
(* second about the text that its owner writes and copies (Answers), the   *)
(* third about the mapping and those who use it while exit runs (Mapping). *)
(***************************************************************************)
EXTENDS RegisterDevice, SequenceTheorems, TLAPS

Chars     == 0..9 \cup {Minus, Newline, Nul}
TextOf(t) == Text(S8(seen[t]))

Accessing == {"get", "moder", "bsrr", "odr"}

\* Where a task has the mutex: for ever, if it has died.
Held == Accessing \cup {"get_test", "set_test", "transfer", "format", "copy", "unlock",
                        "oops"}

LockOwned == \A t \in Tasks : pc[t] \in Held <=> lock = t

Places ==
  \A t \in Tasks :
    pc[t] \in IF lesson \in Mapped
              THEN Accessing \cup {"idle", "get_lock", "set_lock", "get_test", "set_test",
                                   "unlock", "return", "oops"}
              ELSE {"idle", "read_lock", "transfer", "format", "copy", "unlock", "return"}

\* What a call has written, and what it has copied, are beginnings of its text.
Answer(t) ==
  /\ Len(got[t]) <= Len(TextOf(t))
  /\ \A i \in 1..Len(got[t]) : got[t][i] = TextOf(t)[i]
  /\ pc[t] \in {"idle", "read_lock", "transfer", "format"} => got[t] = <<>>
  /\ pc[t] \in {"idle", "read_lock", "transfer"} => index[t] = 0
  /\ pc[t] \in {"format", "copy"} =>
       index[t] <= Len(TextOf(t)) /\ \A i \in 1..index[t] : output[i] = TextOf(t)[i]
  /\ pc[t] = "copy" => index[t] = Len(TextOf(t))
  /\ pc[t] \notin {"idle", "return"} \/ got[t] # <<>> => ppos[t] = 0

Answers ==
  lesson \in Sensors => got \in [Tasks -> Seq(Chars)] /\ \A t \in Tasks : Answer(t)

\* The mapping, by where insmod or rmmod is; and those it may go away from.
Mapping ==
  lesson \in Mapped =>
    /\ base = IF cpu \in {"loaded", "exit", "unmap"} THEN "mapped"
              ELSE IF cpu = "forget" THEN "stale" ELSE "null"
    /\ ExitRuns => InCall \subseteq overlap
    /\ \A t \in Tasks : pc[t] \in Accessing /\ base # "mapped" => t \in overlap
    /\ \A t \in Tasks : pc[t] = "oops" => t \in overlap
    /\ cpu \in {"unmap", "forget", "exit_done", "unloaded"} /\ lesson = "15"
         /\ overlap = {} => "PH11" \notin odr

IInv == TypeOK /\ LockOwned /\ Places /\ Answers /\ Mapping

-----------------------------------------------------------------------------
\* The decimal digits of a byte's absolute value are three at most.
LEMMA DigitsAreShort ==
  ASSUME NEW n \in 0..128
  PROVE  Digits(n) \in Seq(Chars) /\ Len(Digits(n)) \in 0..3
<1>1. CASE n < 10
  BY <1>1 DEF Digits, Chars
<1>2. CASE n >= 10 /\ n < 100
  <2>1. n \div 10 \in 0..9 /\ n % 10 \in 0..9
    BY <1>2
  <2>2. Digits(n) = <<n \div 10, n % 10>>
    BY <1>2 DEF Digits
  <2> QED
    BY <2>1, <2>2 DEF Chars
<1>3. CASE n >= 100
  <2>1. n \div 100 \in 0..9 /\ (n \div 10) % 10 \in 0..9 /\ n % 10 \in 0..9
    BY <1>3
  <2>2. Digits(n) = <<n \div 100, (n \div 10) % 10, n % 10>>
    BY <1>3 DEF Digits
  <2> QED
    BY <2>1, <2>2 DEF Chars
<1> QED
  BY <1>1, <1>2, <1>3

\* The text of any signed byte fits.
LEMMA TextIsShort ==
  ASSUME NEW temperature \in Int, -128 <= temperature, temperature < 128
  PROVE  Text(temperature) \in Seq(Chars) /\ Len(Text(temperature)) \in 0..5
<1>1. <<Minus>> \in Seq(Chars) /\ <<Newline>> \in Seq(Chars)
      /\ Len(<<Minus>>) = 1 /\ Len(<<Newline>>) = 1
  BY DEF Chars
<1>2. CASE temperature < 0
  <2> DEFINE n == -temperature
  <2>1. n \in 0..128
    BY <1>2
  <2>2. Digits(n) \in Seq(Chars) /\ Len(Digits(n)) \in 0..3
    BY <2>1, DigitsAreShort
  <2>3. Text(temperature) = (<<Minus>> \o Digits(n)) \o <<Newline>>
    BY <1>2 DEF Text
  <2> HIDE DEF n
  <2>4. <<Minus>> \o Digits(n) \in Seq(Chars)
        /\ Len(<<Minus>> \o Digits(n)) = 1 + Len(Digits(n))
    BY <1>1, <2>2, ConcatProperties
  <2>5. Text(temperature) \in Seq(Chars) /\ Len(Text(temperature)) = 1 + Len(Digits(n)) + 1
    BY <1>1, <2>2, <2>3, <2>4, ConcatProperties
  <2>6. \A m \in 0..3 : 1 + m + 1 \in 0..5
    OBVIOUS
  <2> QED
    BY <2>2, <2>5, <2>6, Zenon
<1>3. CASE ~(temperature < 0)
  <2>1. temperature \in 0..128
    BY <1>3
  <2>2. Digits(temperature) \in Seq(Chars) /\ Len(Digits(temperature)) \in 0..3
    BY <2>1, DigitsAreShort
  <2>3. Text(temperature) = Digits(temperature) \o <<Newline>>
    BY <1>3 DEF Text
  <2>4. Text(temperature) \in Seq(Chars)
        /\ Len(Text(temperature)) = Len(Digits(temperature)) + 1
    BY <1>1, <2>2, <2>3, ConcatProperties
  <2>5. \A m \in 0..3 : m + 1 \in 0..5
    OBVIOUS
  <2> QED
    BY <2>2, <2>4, <2>5, Zenon
<1> QED
  BY <1>2, <1>3

LEMMA SeenIsByte ==
  ASSUME TypeOK, NEW t \in Tasks
  PROVE  /\ seen[t] \in 0..255
         /\ S8(seen[t]) \in Int /\ -128 <= S8(seen[t]) /\ S8(seen[t]) < 128
         /\ S8(seen[t]) % 256 = seen[t]
<1>1. seen \in [Tasks -> Readings \cup {0}]
  BY DEF TypeOK
<1>2. Readings \cup {0} \subseteq 0..255
  BY ReadingAssumption
<1>3. seen[t] \in 0..255
  BY <1>1, <1>2
<1>4. S8(seen[t]) \in Int /\ -128 <= S8(seen[t]) /\ S8(seen[t]) < 128
  BY <1>3 DEF S8
<1>5. S8(seen[t]) % 256 = seen[t]
  BY <1>3 DEF S8
<1> QED
  BY <1>3, <1>4, <1>5

LEMMA TextOfIsShort ==
  ASSUME TypeOK, NEW t \in Tasks
  PROVE  TextOf(t) \in Seq(Chars) /\ Len(TextOf(t)) \in 0..5
BY SeenIsByte, TextIsShort DEF TextOf

LEMMA TextOfNext ==
  ASSUME TypeOK', NEW t \in Tasks
  PROVE  Len(TextOf(t)') \in 0..5
<1>1. seen'[t] \in 0..255
  <2>1. seen' \in [Tasks -> Readings \cup {0}]
    BY DEF TypeOK
  <2>2. Readings \cup {0} \subseteq 0..255
    BY ReadingAssumption
  <2> QED
    BY <2>1, <2>2
<1>2. S8(seen'[t]) \in Int /\ -128 <= S8(seen'[t]) /\ S8(seen'[t]) < 128
  BY <1>1 DEF S8
<1> QED
  BY <1>2, TextIsShort DEF TextOf

LEMMA InitIInv == Init => IInv
<1> SUFFICES ASSUME Init PROVE IInv
  OBVIOUS
<1>1. TypeOK
  <2>1. odr \subseteq OtherPins \cup {"PH11"} /\ moder \in BOOLEAN
    BY DEF Init
  <2>2. 0 \in 0..(OUTPUT_SIZE - 1) /\ 0 \in 0..OUTPUT_SIZE
    BY SizeAssumption
  <2>3. cpu \in {"init", "loaded"}
    BY DEF Init
  <2> QED
    BY <2>1, <2>2, <2>3 DEF Init, TypeOK, Labels
<1>2. LockOwned /\ Places
  BY NamesAssumption DEF Init, LockOwned, Places, Held, Accessing
<1>3. Answers
  <2> SUFFICES ASSUME NEW t \in Tasks PROVE Answer(t)
    BY DEF Init, Answers
  <2>1. Len(TextOf(t)) \in 0..5
    BY <1>1, TextOfIsShort
  <2> QED
    BY <2>1 DEF Init, Answer
<1>4. Mapping
  BY DEF Init, Mapping, Accessing, ExitRuns, InCall
<1> QED
  BY <1>1, <1>2, <1>3, <1>4 DEF IInv

-----------------------------------------------------------------------------
\* What leaves the calls alone leaves their part of the invariant alone.
LEMMA CallsAlone ==
  ASSUME LockOwned, Places, Answers, UNCHANGED <<lesson, lock, output, pc, call>>
  PROVE  LockOwned' /\ Places' /\ Answers'
<1>1. LockOwned' /\ Places'
  BY DEF LockOwned, Places
<1>2. ASSUME NEW t \in Tasks PROVE Answer(t)' <=> Answer(t)
  BY DEF Answer, TextOf, call
<1>3. lesson' = lesson /\ got' = got
  BY DEF call
<1> QED
  BY <1>1, <1>2, <1>3 DEF Answers

LEMMA HardwareSteps ==
  ASSUME IInv, RegisterChanges \/ \E p \in OtherPins : OtherDriver(p)
  PROVE  IInv'
<1> USE DEF IInv
<1>1. TypeOK'
  BY DEF TypeOK, RegisterChanges, OtherDriver, loader, call
<1>2. LockOwned' /\ Places' /\ Answers'
  BY CallsAlone DEF RegisterChanges, OtherDriver
<1>3. "PH11" \in odr' <=> "PH11" \in odr
  BY NamesAssumption DEF RegisterChanges, OtherDriver
<1>4. Mapping'
  BY <1>3 DEF Mapping, RegisterChanges, OtherDriver, loader, ExitRuns, InCall
<1> QED
  BY <1>1, <1>2, <1>4

LEMMA LoaderSteps ==
  ASSUME IInv, Ioremap \/ Rmmod \/ Exit \/ RemoveParameter
  PROVE  IInv'
<1> USE DEF IInv
<1> USE DEF Ioremap, Rmmod, Exit, ExitClears, ExitUnmaps, ExitForgets, RemoveParameter
<1>1. UNCHANGED <<lesson, reading, moder, lock, output, pc, call>>
  BY DEF hardware
<1>2. LockOwned' /\ Places' /\ Answers'
  BY <1>1, CallsAlone
<1>3. TypeOK'
  <2>1. odr' \subseteq OtherPins \cup {"PH11"}
    BY DEF TypeOK, WriteBsrr, BsrrOf, hardware
  <2>2. cpu' \in {"init", "init_failed", "failed", "loaded", "exit", "unmap", "forget",
                 "exit_done", "unloaded"}
        /\ base' \in {"null", "mapped", "stale"} /\ overlap' \subseteq Tasks
    BY DEF TypeOK, InCall
  <2> QED
    BY <1>1, <2>1, <2>2 DEF TypeOK, call
<1>4. Mapping'
  <2> SUFFICES ASSUME lesson \in Mapped PROVE Mapping'
    BY <1>1 DEF Mapping
  <2>1. CASE Ioremap \/ Rmmod
    BY <2>1 DEF Mapping, ExitRuns, InCall, Accessing, hardware
  <2>2. CASE ExitClears
    BY <2>2 DEF Mapping, ExitRuns, InCall, Accessing, WriteBsrr, BsrrOf
  <2>3. CASE ExitUnmaps
    BY <2>3 DEF Mapping, ExitRuns, InCall, Accessing, hardware
  <2>4. CASE ExitForgets
    BY <2>4 DEF Mapping, ExitRuns, InCall, Accessing, hardware
  <2>5. CASE RemoveParameter
    BY <2>5 DEF Mapping, ExitRuns, InCall, Accessing, hardware
  <2> QED
    BY <2>1, <2>2, <2>3, <2>4, <2>5
<1> QED
  BY <1>2, <1>3, <1>4

-----------------------------------------------------------------------------
\* What each step of a task does to the mutex and to the places.
LEMMA PlacesSteps ==
  ASSUME IInv, NEW t \in Tasks,
         UseParameter(t) \/ Read(t) \/ Reopen(t) \/ Lock(t) \/ Progress(t)
  PROVE  LockOwned' /\ Places'
<1> USE DEF IInv, GoTo, Step
<1>1. pc \in [Tasks -> Labels] /\ lock \in Tasks \cup {None} /\ None \notin Tasks
  BY NamesAssumption DEF TypeOK
<1>2. lesson' = lesson
  BY DEF UseParameter, Read, Reopen, Lock, Progress, Parameter, ReadSensor, TestBase, Get,
         SetReadsModer, SetWritesBsrr, SetReadsOdr, Oops, Transfer, TransferFails, Format,
         Copy, CopyFaults, Unlock, Return
<1>3. CASE UseParameter(t) \/ Read(t) \/ Reopen(t) \/ Return(t)
  BY <1>1, <1>2, <1>3 DEF UseParameter, Read, Reopen, Return, LockOwned, Places, Held,
                          Accessing, Mapped, Sensors
<1>4. CASE Lock(t)
  BY <1>1, <1>2, <1>4 DEF Lock, LockOwned, Places, Held, Accessing
<1>5. CASE Unlock(t)
  BY <1>1, <1>2, <1>5 DEF Unlock, LockOwned, Places, Held, Accessing
<1>6. CASE Parameter(t)
  BY <1>1, <1>2, <1>6 DEF Parameter, TestBase, Get, SetReadsModer, SetWritesBsrr,
                          SetReadsOdr, Oops, LockOwned, Places, Held, Accessing
<1>7. CASE ReadSensor(t)
  BY <1>1, <1>2, <1>7 DEF ReadSensor, Transfer, TransferFails, Format, Copy, CopyFaults,
                          LockOwned, Places, Held, Accessing
<1> QED
  BY <1>3, <1>4, <1>5, <1>6, <1>7 DEF Progress

\* The steps of a sensor's reader, while it has the mutex.
LEMMA FormatStep ==
  ASSUME IInv, lesson \in Sensors, NEW t \in Tasks, Format(t)
  PROVE  TypeOK' /\ Answers'
<1> USE DEF IInv
<1> DEFINE T == TextOf(t)
           text == Append(T, Nul)
           i == index[t] + 1
<1>1. T \in Seq(Chars) /\ Len(T) \in 0..5 /\ Nul \in Chars
  BY TextOfIsShort DEF Chars
<1>2. Answer(t) /\ pc[t] = "format"
  BY DEF Answers, Format
<1>3. index[t] \in Nat /\ index[t] <= Len(T) /\ OUTPUT_SIZE \in Nat /\ OUTPUT_SIZE >= 6
  BY <1>2, SizeAssumption DEF Answer, TypeOK
<1>4. /\ text \in Seq(Chars) /\ Len(text) = Len(T) + 1
      /\ \A j \in 1..Len(T) : text[j] = T[j]
      /\ text[Len(T) + 1] = Nul
  BY <1>1, AppendProperties
<1>5. i \in 1..Len(text) /\ i \in 1..OUTPUT_SIZE /\ text[i] \in Chars
  <2>1. \A l \in 0..5 : \A x \in Nat :
          x <= l => x + 1 \in 1..(l + 1) /\ x + 1 \in 1..OUTPUT_SIZE
    BY SizeAssumption
  <2>2. i \in 1..Len(text) /\ i \in 1..OUTPUT_SIZE
    BY <1>1, <1>3, <1>4, <2>1, Zenon
  <2> QED
    BY <1>4, <2>2, ElementOfSeq
<1>6. /\ output' = [output EXCEPT ![i] = text[i]]
      /\ IF i < Len(text) THEN index' = [index EXCEPT ![t] = i] /\ UNCHANGED pc
                          ELSE pc' = [pc EXCEPT ![t] = "copy"] /\ UNCHANGED index
      /\ UNCHANGED <<lesson, hardware, loader, lock, request, seen, got, ppos>>
  BY DEF Format, GoTo, TextOf
<1>7. output' \in [1..OUTPUT_SIZE -> Chars]
  BY <1>5, <1>6 DEF TypeOK, Chars
<1>8. index' \in [Tasks -> 0..(OUTPUT_SIZE - 1)] /\ pc' \in [Tasks -> Labels]
  <2>1. index \in [Tasks -> 0..(OUTPUT_SIZE - 1)] /\ pc \in [Tasks -> Labels]
    BY DEF TypeOK
  <2>2. i < Len(text) => i \in 0..(OUTPUT_SIZE - 1)
    <3>1. \A l \in 0..5 : \A x \in Nat : x + 1 < l + 1 => x + 1 \in 0..(OUTPUT_SIZE - 1)
      BY SizeAssumption
    <3> QED
      BY <1>1, <1>3, <1>4, <3>1, Zenon
  <2> QED
    BY <1>6, <2>1, <2>2 DEF Labels
<1>9. TypeOK'
  BY <1>6, <1>7, <1>8 DEF TypeOK, Chars, hardware, loader
<1>10. \A u \in Tasks : TextOf(u)' = TextOf(u)
  BY <1>6 DEF TextOf
<1>11. ASSUME NEW u \in Tasks, u # t PROVE Answer(u)'
  <2>1. Answer(u) /\ pc[u] \notin {"format", "copy"}
    BY <1>2, <1>11 DEF Answers, LockOwned, Held
  <2>2. pc'[u] = pc[u] /\ index'[u] = index[u] /\ got'[u] = got[u] /\ ppos'[u] = ppos[u]
    BY <1>6, <1>11 DEF TypeOK
  <2> QED
    BY <2>1, <2>2, <1>10 DEF Answer
<1>12. Answer(t)'
  <2>1. \A j \in 1..index[t] : output'[j] = T[j]
    <3> SUFFICES ASSUME NEW j \in 1..index[t] PROVE output'[j] = T[j]
      OBVIOUS
    <3>1. output[j] = T[j]
      BY <1>2 DEF Answer
    <3> QED
      BY <3>1, <1>3, <1>5, <1>6 DEF TypeOK
  <2>2. got'[t] = got[t] /\ got[t] = <<>> /\ ppos'[t] = ppos[t] /\ ppos[t] = 0
    BY <1>2, <1>6 DEF Answer
  <2>3. CASE i < Len(text)
    <3>1. index'[t] = i /\ pc'[t] = "format" /\ i <= Len(T)
      BY <1>1, <1>2, <1>3, <1>4, <1>6, <2>3 DEF TypeOK
    <3>2. output'[i] = T[i]
      BY <1>4, <1>5, <1>6, <3>1, <1>1 DEF TypeOK
    <3>3. \A j \in 1..i : output'[j] = T[j]
      BY <2>1, <3>2, <1>3
    <3> QED
      BY <1>1, <1>10, <2>2, <3>1, <3>3 DEF Answer
  <2>4. CASE ~(i < Len(text))
    <3>1. index'[t] = index[t] /\ pc'[t] = "copy" /\ index[t] = Len(T)
      BY <1>1, <1>3, <1>4, <1>6, <2>4 DEF TypeOK
    <3> QED
      BY <1>1, <1>10, <2>1, <2>2, <3>1 DEF Answer
  <2> QED
    BY <2>3, <2>4
<1> QED
  BY <1>6, <1>9, <1>11, <1>12 DEF Answers

LEMMA CopyStep ==
  ASSUME IInv, lesson \in Sensors, NEW t \in Tasks, Copy(t)
  PROVE  TypeOK' /\ Answers'
<1> USE DEF IInv
<1> DEFINE T == TextOf(t)
           k == Len(got[t])
<1>1. T \in Seq(Chars) /\ Len(T) \in 0..5
  BY TextOfIsShort
<1>2. Answer(t) /\ pc[t] = "copy"
  BY DEF Answers, Copy
<1>3. /\ got[t] \in Seq(Chars) /\ k \in Nat /\ k <= Len(T)
      /\ index[t] = Len(T) /\ \A i \in 1..Len(T) : output[i] = T[i]
      /\ ppos[t] = 0
  BY <1>2 DEF Answer, Answers
<1>4. /\ IF k < request[t] /\ k < index[t]
         THEN got' = [got EXCEPT ![t] = Append(got[t], output[k + 1])] /\ UNCHANGED pc
         ELSE pc' = [pc EXCEPT ![t] = "unlock"] /\ UNCHANGED got
      /\ UNCHANGED <<lesson, hardware, loader, lock, output, request, seen, index, ppos>>
  BY DEF Copy, GoTo
<1>5. TypeOK'
  BY <1>4 DEF TypeOK, hardware, loader, Labels
<1>9. got \in [Tasks -> Seq(Chars)]
  BY DEF Answers
<1>10. got' \in [Tasks -> Seq(Chars)]
  <2>1. CASE k < request[t] /\ k < index[t]
    <3>1. output[k + 1] = T[k + 1] /\ T[k + 1] \in Chars
      BY <1>1, <1>3, <2>1
    <3>2. Append(got[t], output[k + 1]) \in Seq(Chars)
      BY <1>3, <3>1, AppendProperties
    <3> QED
      BY <1>4, <1>9, <2>1, <3>2
  <2> QED
    BY <1>4, <1>9, <2>1
<1>6. \A u \in Tasks : TextOf(u)' = TextOf(u)
  BY <1>4 DEF TextOf
<1>7. ASSUME NEW u \in Tasks, u # t PROVE Answer(u)'
  <2>1. Answer(u)
    BY DEF Answers
  <2>2. pc'[u] = pc[u] /\ got'[u] = got[u]
    BY <1>4, <1>9, <1>7 DEF TypeOK
  <2> QED
    BY <2>1, <2>2, <1>4, <1>6 DEF Answer
<1>8. Answer(t)'
  <2>1. CASE k < request[t] /\ k < index[t]
    <3>1. output[k + 1] = T[k + 1] /\ k + 1 <= Len(T) /\ T[k + 1] \in Chars
      BY <1>1, <1>3, <2>1
    <3>2. /\ Append(got[t], output[k + 1]) \in Seq(Chars)
          /\ Len(Append(got[t], output[k + 1])) = k + 1
          /\ \A i \in 1..k : Append(got[t], output[k + 1])[i] = got[t][i]
          /\ Append(got[t], output[k + 1])[k + 1] = output[k + 1]
      BY <1>3, <3>1, AppendProperties
    <3>3. ASSUME NEW i \in 1..(k + 1)
          PROVE  Append(got[t], output[k + 1])[i] = T[i]
      <4>1. CASE i = k + 1
        BY <3>1, <3>2, <4>1
      <4>2. CASE i # k + 1
        <5>1. i \in 1..k
          BY <1>3, <4>2
        <5>2. got[t][i] = T[i]
          BY <1>2, <5>1 DEF Answer
        <5> QED
          BY <3>2, <5>1, <5>2
      <4> QED
        BY <4>1, <4>2
    <3>4. got'[t] = Append(got[t], output[k + 1]) /\ pc'[t] = "copy"
      BY <1>2, <1>4, <1>9, <2>1
    <3> QED
      BY <1>3, <1>4, <1>6, <3>1, <3>2, <3>3, <3>4 DEF Answer
  <2>2. CASE ~(k < request[t] /\ k < index[t])
    <3>1. pc'[t] = "unlock" /\ got' = got
      BY <1>4, <2>2 DEF TypeOK
    <3> QED
      BY <1>2, <1>3, <1>4, <1>6, <3>1 DEF Answer
  <2> QED
    BY <2>1, <2>2
<1> QED
  BY <1>4, <1>5, <1>10, <1>7, <1>8 DEF Answers

\* The other steps of a sensor's reader.
LEMMA ReaderSteps ==
  ASSUME IInv, lesson \in Sensors, NEW t \in Tasks,
         \/ Read(t) \/ Reopen(t) \/ Lock(t) \/ Unlock(t)
         \/ Transfer(t) \/ TransferFails(t) \/ CopyFaults(t)
  PROVE  TypeOK' /\ Answers'
<1> USE DEF IInv, GoTo, Step
<1>1. UNCHANGED <<lesson, hardware, loader, output, index, got>>
  BY DEF Read, Reopen, Lock, Unlock, Transfer, TransferFails, CopyFaults, call
<1>2. /\ \A u \in Tasks : Answer(u)
      /\ got \in [Tasks -> Seq(Chars)]
      /\ pc[t] \in {"idle", "read_lock", "transfer", "format", "copy", "unlock", "return"}
      /\ lesson \notin Mapped
  BY DEF Answers, Places, Mapped, Sensors
<1>3. TypeOK'
  <2>1. pc' \in [Tasks -> Labels]
    BY DEF TypeOK, Labels, Read, Reopen, Lock, Unlock, Transfer, TransferFails, CopyFaults
  <2>2. request' \in [Tasks -> Counts \cup Requests \cup {0, Junk}]
    BY DEF TypeOK, Read, Reopen, Lock, Unlock, Transfer, TransferFails, CopyFaults, call
  <2>3. seen' \in [Tasks -> Readings \cup {0}]
    BY DEF TypeOK, Read, Reopen, Lock, Unlock, Transfer, TransferFails, CopyFaults, call
  <2>4. ppos' \in [Tasks -> 0..OUTPUT_SIZE]
    <3>1. 0 \in 0..OUTPUT_SIZE /\ ppos \in [Tasks -> 0..OUTPUT_SIZE]
      BY SizeAssumption DEF TypeOK
    <3>2. UNCHANGED ppos \/ ppos' = [ppos EXCEPT ![t] = 0]
      BY DEF Read, Reopen, Lock, Unlock, Transfer, TransferFails, CopyFaults, call
    <3> QED
      BY <3>1, <3>2, Zenon
  <2>5. lock' \in Tasks \cup {None}
    BY DEF TypeOK, Read, Reopen, Lock, Unlock, Transfer, TransferFails, CopyFaults
  <2> QED
    BY <1>1, <2>1, <2>2, <2>3, <2>4, <2>5 DEF TypeOK, hardware, loader
<1>4. ASSUME NEW u \in Tasks, u # t PROVE Answer(u)'
  <2>1. pc'[u] = pc[u]
    BY <1>4 DEF TypeOK, Read, Reopen, Lock, Unlock, Transfer, TransferFails, CopyFaults
  <2>2. seen'[u] = seen[u]
    BY <1>4 DEF TypeOK, Read, Reopen, Lock, Unlock, Transfer, TransferFails, CopyFaults,
                call
  <2>3. ppos'[u] = ppos[u]
    BY <1>4 DEF TypeOK, Read, Reopen, Lock, Unlock, Transfer, TransferFails, CopyFaults,
                call
  <2> QED
    BY <1>1, <1>2, <2>1, <2>2, <2>3 DEF Answer, TextOf
<1>5. Answer(t)'
  <2>1. CASE Read(t)
    <3>1. /\ pc[t] = "idle" /\ UNCHANGED <<seen, ppos>>
          /\ pc'[t] = IF ppos[t] # 0 THEN "return" ELSE "read_lock"
      BY <2>1 DEF Read, TypeOK
    <3> QED
      BY <1>1, <1>2, <3>1 DEF Answer, TextOf
  <2>2. CASE Reopen(t)
    <3>1. pc[t] = "idle" /\ UNCHANGED <<seen, pc>> /\ ppos'[t] = 0
      BY <2>2 DEF Reopen, TypeOK
    <3> QED
      BY <1>1, <1>2, <3>1 DEF Answer, TextOf
  <2>3. CASE Lock(t)
    <3>1. pc[t] = "read_lock" /\ pc'[t] = "transfer" /\ UNCHANGED <<seen, ppos>>
      BY <1>2, <2>3 DEF Lock, TypeOK, call
    <3> QED
      BY <1>1, <1>2, <3>1 DEF Answer, TextOf
  <2>4. CASE Transfer(t)
    <3>1. pc[t] = "transfer" /\ pc'[t] = "format" /\ UNCHANGED ppos
      BY <2>4 DEF Transfer, TypeOK
    <3>2. got[t] = <<>> /\ index[t] = 0 /\ ppos[t] = 0
      BY <1>2, <3>1 DEF Answer
    <3>3. Len(TextOf(t)') \in 0..5
      BY <1>3, TextOfNext
    <3> QED
      BY <1>1, <3>1, <3>2, <3>3 DEF Answer
  <2>5. CASE Unlock(t) \/ TransferFails(t) \/ CopyFaults(t)
    <3>1. /\ pc[t] \notin {"idle", "return"} /\ pc'[t] \in {"unlock", "return"}
          /\ UNCHANGED <<seen, ppos>>
      BY <2>5 DEF Unlock, TransferFails, CopyFaults, TypeOK, call
    <3> QED
      BY <1>1, <1>2, <3>1 DEF Answer, TextOf
  <2> QED
    BY <2>1, <2>2, <2>3, <2>4, <2>5
<1> QED
  BY <1>1, <1>2, <1>3, <1>4, <1>5 DEF Answers

LEMMA ReturnStep ==
  ASSUME IInv, NEW t \in Tasks, Return(t)
  PROVE  TypeOK' /\ Answers'
<1> USE DEF IInv, GoTo, Step
<1>1. /\ pc[t] = "return" /\ pc' = [pc EXCEPT ![t] = "idle"]
      /\ ppos' = [ppos EXCEPT ![t] = IF lesson \in Sensors THEN @ + Len(got[t]) ELSE @]
      /\ got' = [got EXCEPT ![t] = <<>>] /\ index' = [index EXCEPT ![t] = 0]
      /\ request' = [request EXCEPT ![t] = 0] /\ seen' = [seen EXCEPT ![t] = 0]
      /\ UNCHANGED <<lesson, hardware, loader, lock, output>>
  BY DEF Return
<1>2. ppos' \in [Tasks -> 0..OUTPUT_SIZE]
  <2>1. ppos \in [Tasks -> 0..OUTPUT_SIZE]
    BY DEF TypeOK
  <2>2. CASE lesson \in Sensors
    <3>1. Answer(t) /\ Len(TextOf(t)) \in 0..5 /\ got[t] \in Seq(Chars)
      BY <2>2, TextOfIsShort DEF Answers
    <3>2. Len(got[t]) \in Nat /\ Len(got[t]) <= Len(TextOf(t))
      BY <3>1 DEF Answer
    <3>3. got[t] = <<>> => Len(got[t]) = 0
      OBVIOUS
    <3>4. got[t] # <<>> => ppos[t] = 0
      BY <3>1 DEF Answer
    <3>5. ppos[t] + Len(got[t]) \in 0..OUTPUT_SIZE
      <4>1. \A l \in 0..5 : \A k \in Nat : k <= l => 0 + k \in 0..OUTPUT_SIZE
        BY SizeAssumption
      <4>2. CASE got[t] = <<>>
        <5>1. \A p \in 0..OUTPUT_SIZE : p + 0 \in 0..OUTPUT_SIZE
          BY SizeAssumption
        <5> QED
          BY <2>1, <3>3, <4>2, <5>1
      <4>3. CASE got[t] # <<>>
        BY <3>1, <3>2, <3>4, <4>1, <4>3, Zenon
      <4> QED
        BY <4>2, <4>3
    <3> QED
      BY <1>1, <2>1, <2>2, <3>5, Zenon
  <2>3. CASE lesson \notin Sensors
    BY <1>1, <2>1, <2>3, Zenon
  <2> QED
    BY <2>2, <2>3
<1>3. TypeOK'
  <2>1. 0 \in 0..(OUTPUT_SIZE - 1)
    BY SizeAssumption
  <2>2. index' \in [Tasks -> 0..(OUTPUT_SIZE - 1)]
    BY <1>1, <2>1 DEF TypeOK
  <2>3. /\ pc' \in [Tasks -> Labels] /\ seen' \in [Tasks -> Readings \cup {0}]
        /\ request' \in [Tasks -> Counts \cup Requests \cup {0, Junk}]
    BY <1>1 DEF TypeOK, Labels
  <2> QED
    BY <1>1, <1>2, <2>2, <2>3 DEF TypeOK, hardware, loader
<1>4. Answers'
  <2> SUFFICES ASSUME lesson \in Sensors PROVE Answers'
    BY <1>1 DEF Answers
  <2>1. got \in [Tasks -> Seq(Chars)] /\ \A u \in Tasks : Answer(u)
    BY DEF Answers
  <2>2. got' \in [Tasks -> Seq(Chars)]
    BY <1>1, <2>1
  <2>3. ASSUME NEW u \in Tasks, u # t PROVE Answer(u)'
    <3>1. /\ pc'[u] = pc[u] /\ seen'[u] = seen[u] /\ ppos'[u] = ppos[u]
          /\ got'[u] = got[u] /\ index'[u] = index[u]
      BY <1>1, <2>1, <2>3 DEF TypeOK
    <3> QED
      BY <1>1, <2>1, <3>1 DEF Answer, TextOf
  <2>4. Answer(t)'
    <3>1. pc'[t] = "idle" /\ got'[t] = <<>> /\ index'[t] = 0
      BY <1>1, <2>1 DEF TypeOK
    <3>2. Len(TextOf(t)') \in 0..5
      BY <1>3, TextOfNext
    <3> QED
      BY <3>1, <3>2 DEF Answer
  <2> QED
    BY <1>1, <2>2, <2>3, <2>4 DEF Answers
<1> QED
  BY <1>3, <1>4

\* The steps of those who use the parameter.
LEMMA ParameterSteps ==
  ASSUME IInv, lesson \in Mapped, NEW t \in Tasks,
         UseParameter(t) \/ Lock(t) \/ Unlock(t) \/ Parameter(t)
  PROVE  TypeOK' /\ Answers'
<1> USE DEF IInv, GoTo, Step
<1> USE DEF UseParameter, Lock, Unlock, Parameter, TestBase, Get, SetReadsModer,
            SetWritesBsrr, SetReadsOdr, Oops
<1>1. UNCHANGED <<lesson, reading, moder, cpu, base, output, seen, index, ppos>>
  BY DEF hardware, loader, call
<1>2. Answers'
  BY <1>1 DEF Answers, Mapped, Sensors
<1>3. pc' \in [Tasks -> Labels]
  <2>1. \E l \in Labels : pc' = [pc EXCEPT ![t] = l]
    BY DEF Labels
  <2>2. pc \in [Tasks -> Labels]
    BY DEF TypeOK
  <2> QED  BY <2>1, <2>2
<1>4. request' \in [Tasks -> Counts \cup Requests \cup {0, Junk}]
  BY DEF TypeOK, call
<1>5. odr' \subseteq OtherPins \cup {"PH11"}
  <2>1. odr \subseteq OtherPins \cup {"PH11"}
    BY DEF TypeOK
  <2>2. odr' \subseteq odr \cup {"PH11"}
    BY DEF hardware, WriteBsrr, BsrrOf
  <2> QED  BY <2>1, <2>2
<1>6. overlap' \subseteq Tasks /\ lock' \in Tasks \cup {None}
  BY DEF TypeOK, loader
<1> QED
  BY <1>1, <1>2, <1>3, <1>4, <1>5, <1>6 DEF TypeOK

LEMMA MappingSteps ==
  ASSUME IInv, lesson \in Mapped, NEW t \in Tasks,
         UseParameter(t) \/ Lock(t) \/ Unlock(t) \/ Return(t) \/ Parameter(t)
  PROVE  Mapping'
<1> USE DEF IInv, GoTo, Step
<1>1. pc \in [Tasks -> Labels] /\ overlap \subseteq Tasks
  BY DEF TypeOK
<1>2. CASE UseParameter(t)
  BY <1>1, <1>2 DEF UseParameter, Mapping, ExitRuns, InCall, Accessing, hardware
<1>3. CASE Lock(t) \/ Unlock(t) \/ Return(t)
  <2>1. UNCHANGED <<lesson, odr, cpu, base, overlap>>
    BY <1>3 DEF Lock, Unlock, Return, hardware, loader
  <2>2. /\ pc[t] # "idle" /\ pc'[t] \notin Accessing \cup {"oops"}
        /\ \A u \in Tasks \ {t} : pc'[u] = pc[u]
    BY <1>1, <1>3 DEF Lock, Unlock, Return, Accessing
  <2> QED
    BY <2>1, <2>2 DEF Mapping, ExitRuns, InCall
<1>4. CASE Parameter(t)
  <2>1. /\ UNCHANGED <<lesson, cpu, base, overlap>>
        /\ pc[t] # "idle" /\ pc'[t] # "idle" /\ \A u \in Tasks \ {t} : pc'[u] = pc[u]
    BY <1>1, <1>4 DEF Parameter, TestBase, Get, SetReadsModer, SetWritesBsrr, SetReadsOdr,
                      Oops, hardware, loader
  <2>2. ExitRuns => t \in overlap
    BY <2>1 DEF Mapping, InCall
  <2>3. pc'[t] \in Accessing /\ base # "mapped" => t \in overlap
    BY <1>1, <1>4, <2>2 DEF Parameter, TestBase, Get, SetReadsModer, SetWritesBsrr,
                            SetReadsOdr, Oops, Mapping, ExitRuns, Accessing
  <2>4. pc'[t] = "oops" => t \in overlap
    BY <1>1, <1>4 DEF Parameter, TestBase, Get, SetReadsModer, SetWritesBsrr, SetReadsOdr,
                      Oops, Mapping, Accessing
  <2>5. odr' = odr \/ base = "mapped"
    BY <1>4 DEF Parameter, TestBase, Get, SetReadsModer, SetWritesBsrr, SetReadsOdr, Oops,
                hardware
  <2>6. (/\ cpu \in {"unmap", "forget", "exit_done", "unloaded"}
         /\ lesson = "15" /\ overlap = {}) => "PH11" \notin odr'
    <3>1. base = "mapped" => cpu \in {"loaded", "exit", "unmap"}
      BY DEF Mapping
    <3>2. odr' = odr \/ cpu # "unmap" \/ overlap # {}
      BY <2>2, <2>5 DEF ExitRuns
    <3>3. CASE odr' = odr
      BY <3>3 DEF Mapping
    <3>4. CASE odr' # odr
      BY <2>5, <3>1, <3>2, <3>4
    <3> QED
      BY <3>3, <3>4
  <2>7. /\ base = IF cpu \in {"loaded", "exit", "unmap"} THEN "mapped"
                  ELSE IF cpu = "forget" THEN "stale" ELSE "null"
        /\ ExitRuns => InCall \subseteq overlap
    BY DEF Mapping
  <2>8. \A u \in Tasks \ {t} :
          /\ pc[u] \in Accessing /\ base # "mapped" => u \in overlap
          /\ pc[u] = "oops" => u \in overlap
    BY DEF Mapping
  <2>9. ExitRuns' => InCall' \subseteq overlap'
    BY <2>1, <2>2, <2>7 DEF ExitRuns, InCall
  <2> QED
    BY <2>1, <2>3, <2>4, <2>6, <2>7, <2>8, <2>9 DEF Mapping
<1> QED
  BY <1>2, <1>3, <1>4

LEMMA NextIInv == IInv /\ [Next]_vars => IInv'
<1> SUFFICES ASSUME IInv, [Next]_vars PROVE IInv'
  OBVIOUS
<1>1. CASE UNCHANGED vars
  <2>1. UNCHANGED <<lesson, reading, moder, odr, cpu, base, overlap, lock, output, pc, call>>
    BY <1>1 DEF vars, hardware, loader
  <2>2. TypeOK'
    BY <2>1 DEF IInv, TypeOK, call
  <2>3. LockOwned' /\ Places' /\ Answers'
    BY <2>1, CallsAlone DEF IInv
  <2>4. Mapping'
    BY <2>1 DEF IInv, Mapping, ExitRuns, InCall
  <2> QED
    BY <2>2, <2>3, <2>4 DEF IInv
<1>2. CASE RegisterChanges \/ \E p \in OtherPins : OtherDriver(p)
  BY <1>2, HardwareSteps
<1>3. CASE Ioremap \/ Rmmod \/ Exit \/ RemoveParameter
  BY <1>3, LoaderSteps
<1>4. ASSUME NEW t \in Tasks,
             UseParameter(t) \/ Read(t) \/ Reopen(t) \/ Lock(t) \/ Progress(t)
      PROVE  IInv'
  <2>1. LockOwned' /\ Places'
    BY <1>4, PlacesSteps
  <2>2. lesson \in Mapped \/ lesson \in Sensors
    BY LessonAssumption DEF IInv, TypeOK
  <2>3. CASE lesson \in Mapped
    <3>1. UseParameter(t) \/ Lock(t) \/ Unlock(t) \/ Return(t) \/ Parameter(t)
      <4>1. lesson \notin Sensors /\ pc[t] \notin {"transfer", "format", "copy"}
        BY <2>3 DEF IInv, Places, Mapped, Sensors, Accessing
      <4> QED
        BY <1>4, <4>1 DEF Read, Reopen, Progress, ReadSensor, Transfer, TransferFails,
                          Format, Copy, CopyFaults, Step
    <3>2. TypeOK' /\ Answers'
      BY <2>3, <3>1, ParameterSteps, ReturnStep
    <3>3. Mapping'
      BY <2>3, <3>1, MappingSteps
    <3> QED
      BY <2>1, <3>2, <3>3 DEF IInv
  <2>4. CASE lesson \in Sensors
    <3>1. \/ Read(t) \/ Reopen(t) \/ Lock(t) \/ Unlock(t) \/ Return(t)
          \/ Transfer(t) \/ TransferFails(t) \/ Format(t) \/ Copy(t) \/ CopyFaults(t)
      <4>1. /\ lesson \notin Mapped
            /\ pc[t] \notin Accessing \cup {"get_test", "set_test"}
        BY <2>4 DEF IInv, Places, Mapped, Sensors, Accessing
      <4> QED
        BY <1>4, <4>1 DEF UseParameter, Progress, ReadSensor, Parameter, TestBase, Get,
                          SetReadsModer, SetWritesBsrr, SetReadsOdr, Oops, Step, Accessing
    <3>2. TypeOK' /\ Answers'
      BY <2>4, <3>1, ReaderSteps, ReturnStep, FormatStep, CopyStep
    <3>3. lesson' \notin Mapped
      BY <2>4, <3>1 DEF Read, Reopen, Lock, Unlock, Return, Transfer, TransferFails, Format,
                        Copy, CopyFaults, Mapped, Sensors
    <3> QED
      BY <2>1, <3>2, <3>3 DEF IInv, Mapping
  <2> QED
    BY <2>2, <2>3, <2>4
<1> QED
  BY <1>1, <1>2, <1>3, <1>4 DEF Next

-----------------------------------------------------------------------------
\* Every state that the drivers reach satisfies the invariant (si_mmio14.c:114-169,
\* si_mmio15.c:86-212, si_temp21.c:70-100 and its likes).
THEOREM Invariance == Spec => []IInv
<1>1. Init => IInv
  BY InitIInv
<1>2. IInv /\ [Next]_vars => IInv'
  BY NextIInv
<1> QED
  BY <1>1, <1>2, PTL DEF Spec

\* The variables keep their types: in particular no text is longer than
\* data->output, and an interrupted file position stays within it.
THEOREM TypeCorrect == Spec => []TypeOK
<1>1. IInv => TypeOK
  BY DEF IInv
<1> QED
  BY <1>1, Invariance, PTL

\* A reader of a sensor gets the beginning of its own text, from any callers with
\* buffers of any size (si_temp21.c:70-100).
THEOREM OwnAnswers == Spec => []AnswersAreOwn
<1>1. IInv => AnswersAreOwn
  <2> SUFFICES ASSUME IInv, NEW t \in Tasks, lesson \in Sensors, got[t] # <<>>
               PROVE  \E temperature \in -128..127 :
                        /\ temperature % 256 = seen[t]
                        /\ got[t] = SubSeq(Text(temperature), 1, Len(got[t]))
    BY DEF AnswersAreOwn
  <2> USE DEF IInv
  <2> DEFINE s == S8(seen[t])
             k == Len(got[t])
  <2>1. s \in -128..127 /\ s % 256 = seen[t]
    <3>1. s \in Int /\ -128 <= s /\ s < 128 /\ s % 256 = seen[t]
      BY SeenIsByte
    <3> HIDE DEF s
    <3> QED
      BY <3>1
  <2>2. Text(s) \in Seq(Chars) /\ Len(Text(s)) \in 0..5
    BY TextOfIsShort DEF TextOf
  <2>3. got[t] \in Seq(Chars) /\ Answer(t)
    BY DEF Answers
  <2>4. k \in Nat /\ k <= Len(Text(s)) /\ \A i \in 1..k : got[t][i] = Text(s)[i]
    BY <2>3 DEF Answer, TextOf
  <2> HIDE DEF s
  <2>5. /\ SubSeq(Text(s), 1, k) \in Seq(Chars)
        /\ Len(SubSeq(Text(s), 1, k)) = k
        /\ \A i \in 1..k : SubSeq(Text(s), 1, k)[i] = Text(s)[i]
    BY <2>2, <2>4
  <2>6. got[t] = SubSeq(Text(s), 1, k)
    BY <2>3, <2>4, <2>5, SeqEqual
  <2> QED
    BY <2>1, <2>6
<1> QED
  BY <1>1, Invariance, PTL

\* Whoever is hurt by rmmod has been in a call while exit ran, and a call is also
\* what it takes to undo the clearing of the latch (si_mmio15.c:198-212).
THEOREM ExitHurtsFew == Spec => []OnlyCallsDuringExitAreHurt
<1>1. IInv => OnlyCallsDuringExitAreHurt
  <2> SUFFICES ASSUME IInv PROVE OnlyCallsDuringExitAreHurt
    OBVIOUS
  <2>1. ASSUME NEW t \in Tasks, pc[t] = "oops" PROVE t \in overlap
    <3>1. lesson \in Mapped
      BY <2>1 DEF IInv, Places
    <3> QED
      BY <2>1, <3>1 DEF IInv, Mapping
  <2>2. cpu = "unloaded" /\ lesson = "15" /\ overlap = {} => "PH11" \notin odr
    BY DEF IInv, Mapping, Mapped
  <2> QED
    BY <2>1, <2>2 DEF OnlyCallsDuringExitAreHurt
<1> QED
  BY <1>1, Invariance, PTL

\* No step of the driver, exit's included, changes the latch of another pin
\* (si_mmio15.c:27-28).
THEOREM PinsUntouched == Spec => OtherPinsUntouched
<1>1. ASSUME [Next]_vars, NEW p \in OtherPins
      PROVE  (p \in odr' <=> p \in odr) \/ OtherDriver(p)
  <2>1. p # "PH11"
    BY NamesAssumption
  <2>2. CASE \E q \in OtherPins : OtherDriver(q)
    BY <2>2 DEF OtherDriver
  <2>3. CASE RegisterChanges \/ Ioremap \/ Rmmod \/ Exit \/ RemoveParameter \/ UNCHANGED vars
    BY <2>1, <2>3 DEF RegisterChanges, Ioremap, Rmmod, Exit, ExitClears, ExitUnmaps,
                      ExitForgets, RemoveParameter, WriteBsrr, BsrrOf, hardware, vars
  <2>4. ASSUME NEW t \in Tasks,
               UseParameter(t) \/ Read(t) \/ Reopen(t) \/ Lock(t) \/ Progress(t)
        PROVE  p \in odr' <=> p \in odr
    BY <2>1, <2>4 DEF UseParameter, Read, Reopen, Lock, Progress, Parameter, ReadSensor,
                      TestBase, Get, SetReadsModer, SetWritesBsrr, SetReadsOdr, Oops,
                      Transfer, TransferFails, Format, Copy, CopyFaults, Unlock, Return,
                      WriteBsrr, BsrrOf, hardware
  <2> QED
    BY <1>1, <2>2, <2>3, <2>4 DEF Next
<1>2. [Next]_vars =>
        [\A p \in OtherPins : (p \in odr' <=> p \in odr) \/ OtherDriver(p)]_vars
  BY <1>1
<1> QED
  BY <1>2, PTL DEF Spec, OtherPinsUntouched
=============================================================================
