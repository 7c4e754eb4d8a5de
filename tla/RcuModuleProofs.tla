-------------------------- MODULE RcuModuleProofs --------------------------
(***************************************************************************)
(* The safety of RcuModule, proved for any number of addresses, any limits *)
(* and bound, and any width of the version counter, which wraps.  IInv is  *)
(* the inductive invariant: TypeOK, who is allowed to be where (Control),  *)
(* who owns which object (Ownership), why the reader's object cannot be    *)
(* freed (Protected) and what the objects hold (Contents).                 *)
(***************************************************************************)
EXTENDS RcuModule, TLAPS

Loading   == {"init_alloc", "init_fill", "init_reader", "init_undo", "failed"}
Published == {"init_reader", "init_arm", "loaded", "exit_flush", "exit_stop",
              "exit_join", "exit_unpublish"}
Stopping  == {"exit_join", "exit_unpublish", "exit_free", "exit_barrier", "unloaded"}
Joined    == {"exit_unpublish", "exit_free", "exit_barrier", "unloaded"}

\* Which threads exist, and which pointers are set, at each phase.
Control ==
  /\ work = "pending" => phase = "loaded"
  /\ work = "canceling" <=> phase = "exit_flush"
  /\ writer # "idle" => phase \in {"loaded", "exit_flush"}
  /\ reader = "none" <=> phase \in Loading
  /\ reader = "exited" => should_stop
  /\ should_stop => phase \in Stopping
  /\ phase \in Joined => reader = "exited"
  /\ current_value # NULL <=> phase \in Published
  /\ phase \in {"init_fill", "init_reader", "init_undo"} => initial # NULL
  /\ phase = "init_reader" => current_value = initial
  /\ phase \in Loading \cup {"init_arm", "unloaded"} => callbacks = {}

\* The writer's and the reader's own pointers.
Pointers ==
  /\ writer \in {"fill", "publish"} => new_value # NULL
  /\ writer = "call_rcu" => old_value # NULL
  /\ reader \in {"version", "payload"} => value # NULL
  /\ reader \in {"none", "loop", "locked", "exited"} => value = NULL
  /\ ~InReadSection => waiting = {}

\* The members of Owners(a), each as a predicate.
OfThread(a)  == initial = a /\ phase \in {"init_fill", "init_undo", "exit_free"}
OfPointer(a) == current_value = a
OfNew(a)     == new_value = a /\ writer \in {"fill", "publish"}
OfOld(a)     == old_value = a /\ writer = "call_rcu"
OfCallback(a) == a \in callbacks

Ownership ==
  \A a \in Addrs :
    /\ heap[a].allocated <=>
         OfThread(a) \/ OfPointer(a) \/ OfNew(a) \/ OfOld(a) \/ OfCallback(a)
    /\ OfThread(a)  => ~(OfPointer(a) \/ OfNew(a) \/ OfOld(a) \/ OfCallback(a))
    /\ OfPointer(a) => ~(OfNew(a) \/ OfOld(a) \/ OfCallback(a))
    /\ OfNew(a)     => ~(OfOld(a) \/ OfCallback(a))
    /\ OfOld(a)     => ~OfCallback(a)

\* The object the reader may still follow is published, or replaced but not yet
\* handed to call_rcu(), or its grace period waits for the reader.
Protected ==
  reader \in {"version", "payload"} =>
    OfPointer(value) \/ OfOld(value) \/ value \in waiting

Filled(a) == heap[a].payload = PayloadOf(heap[a].version)

\* The version that has been counted last.
Latest == [version |-> update_count, wraps |-> wraps]

\* What objects hold from the moment they are published.
Contents ==
  /\ reader = "none" => report = NoFields
  /\ current_value # NULL =>
       /\ Filled(current_value)
       /\ NoLater(report, heap[current_value])
       /\ NoLater(heap[current_value], Latest)
  /\ writer = "publish" =>
       /\ Filled(new_value)
       /\ heap[new_value].version = update_count /\ heap[new_value].wraps = wraps
  /\ reader \in {"version", "payload"} =>
       /\ Filled(value)
       /\ NoLater(report, heap[value])
       /\ NoLater(heap[value], heap[current_value])
  /\ reader = "payload" =>
       copy.version = heap[value].version /\ copy.wraps = heap[value].wraps
  /\ reader = "unlock" /\ value # NULL =>
       /\ copy.payload = PayloadOf(copy.version)
       /\ NoLater(report, copy)
       /\ NoLater(copy, heap[current_value])
  /\ ConsistentReport

IInv == TypeOK /\ Control /\ Pointers /\ Ownership /\ Protected /\ Contents

-----------------------------------------------------------------------------
(* Lemmas *)

\* kmalloc() takes a free object, and touches no other.
LEMMA KmallocType ==
  ASSUME NEW a \in Addrs, heap \in [Addrs -> Object], Kmalloc(a)
  PROVE  /\ heap' \in [Addrs -> Object]
         /\ heap'[a].allocated /\ ~heap[a].allocated
         /\ \A b \in Addrs : b # a => heap'[b] = heap[b]
  BY DEF Kmalloc, Object

\* kfree() gives the object back, and touches no other.
LEMMA KfreeType ==
  ASSUME NEW a \in Addrs, heap \in [Addrs -> Object], Kfree(a)
  PROVE  /\ heap' \in [Addrs -> Object]
         /\ ~heap'[a].allocated
         /\ \A b \in Addrs : b # a => heap'[b] = heap[b]
  BY DEF Kfree, Object

\* A remainder is less than the divisor, and a number that is less is its own.
LEMMA Remainder ==
  ASSUME NEW n \in Nat \ {0}, NEW a \in Nat
  PROVE  /\ a % n \in 0..(n - 1)
         /\ a < n => a % n = a
         /\ a = n => a % n = 0
<1> DEFINE q == a \div n
           r == a % n
<1>1. q \in Int /\ r \in 0..(n - 1) /\ a = n * q + r
  OBVIOUS
<1> HIDE DEF q, r
<1>2. ASSUME NEW k \in Int, NEW l \in Int, k < l PROVE n * k + n <= n * l
  <2>1. n * (l - k - 1) \in Nat
    BY <1>2
  <2> QED  BY <2>1
<1>3. n * 0 = 0 /\ n * 1 = n /\ n * 2 = n + n /\ n * (-1) = -n /\ n * q \in Int
  BY <1>1
<1>4. q >= 0
  <2>1. q < 0 => n * q + n <= n * 0
    BY <1>1, <1>2
  <2> QED  BY <1>1, <1>3, <2>1
<1>5. q > 0 => n * q >= n
  BY <1>1, <1>2, <1>3
<1>6. q > 1 => n * q >= n + n
  <2>1. q > 1 => n * 1 + n <= n * q
    BY <1>1, <1>2
  <2> QED  BY <1>1, <1>3, <2>1
<1>7. a < n => r = a
  BY <1>1, <1>3, <1>4, <1>5
<1>8. a = n => r = 0
  BY <1>1, <1>3, <1>4, <1>5, <1>6
<1> QED  BY <1>1, <1>7, <1>8 DEF r

\* What has not been read or printed yet is of the right type, and consistent.
LEMMA NoFieldsType ==
  /\ 0 \in UInt /\ 1 \in UInt /\ PayloadOf(0) = 0
  /\ NoFields \in Fields /\ NoFields.payload = PayloadOf(NoFields.version)
<1>1. 0 \in UInt /\ 1 \in UInt
  BY UIntAssumption DEF UInt
<1>2. PayloadOf(0) = 0
  <2>1. 0 * 100 = 0 /\ 0 % UINT_VALUES = 0
    BY UIntAssumption, Remainder
  <2> QED  BY <2>1 DEF PayloadOf
<1> QED  BY <1>1, <1>2 DEF NoFields, Fields

\* The version counted next is later than the last one.
LEMMA NextVersion ==
  ASSUME update_count \in UInt, wraps \in Nat,
         update_count' = (update_count + 1) % UINT_VALUES,
         wraps' = IF update_count' = 0 THEN wraps + 1 ELSE wraps
  PROVE  /\ update_count' \in UInt /\ wraps' \in Nat
         /\ NoLater(Latest, Latest')
<1>1. update_count + 1 \in Nat /\ update_count + 1 <= UINT_VALUES
  BY UIntAssumption DEF UInt
<1>2. /\ update_count' \in UInt
      /\ update_count' = 0 \/ update_count' = update_count + 1
  <2>1. UINT_VALUES \in Nat \ {0}
    BY UIntAssumption
  <2>2. (update_count + 1) % UINT_VALUES \in UInt
    BY <1>1, <2>1, Remainder DEF UInt
  <2>3. \/ (update_count + 1) % UINT_VALUES = 0
        \/ (update_count + 1) % UINT_VALUES = update_count + 1
    <3>1. update_count + 1 = UINT_VALUES \/ update_count + 1 < UINT_VALUES
      BY <1>1, <2>1
    <3> QED  BY <1>1, <2>1, <3>1, Remainder
  <2> QED  BY <2>2, <2>3
<1> QED  BY <1>2 DEF NoLater, Latest, UInt

\* Filling an object stores a version and its payload in it, and touches no other.
LEMMA FillType ==
  ASSUME NEW a \in Addrs, NEW version \in UInt, NEW w \in Nat,
         heap \in [Addrs -> Object], Fill(a, version, w)
  PROVE  /\ heap' \in [Addrs -> Object]
         /\ heap'[a].allocated = heap[a].allocated
         /\ heap'[a].version = version /\ heap'[a].wraps = w
         /\ heap'[a].payload = PayloadOf(version)
         /\ \A b \in Addrs : b # a => heap'[b] = heap[b]
<1>1. PayloadOf(version) \in UInt
  BY UIntAssumption, Remainder DEF PayloadOf, UInt
<1>2. heap[a] \in Object
  OBVIOUS
<1> DEFINE filled == [heap[a] EXCEPT !.version = version, !.payload = PayloadOf(version),
                                 !.wraps = w]
<1>3. heap' = [heap EXCEPT ![a] = filled]
  BY DEF Fill
<1>4. /\ filled \in Object /\ filled.allocated = heap[a].allocated
      /\ filled.version = version /\ filled.wraps = w /\ filled.payload = PayloadOf(version)
  BY <1>1, <1>2 DEF Object
<1> HIDE DEF filled
<1> QED  BY <1>3, <1>4

-----------------------------------------------------------------------------
(* The invariant is inductive *)

\* The module starts unloaded: nothing exists yet.
LEMMA InitIInv == Init => IInv
<1> SUFFICES ASSUME Init PROVE IInv
  OBVIOUS
<1>1. TypeOK
  <2>1. heap \in [Addrs -> Object]
    BY NoFieldsType DEF Init, Object
  <2>2. copy \in Fields /\ report \in Fields
    BY NoFieldsType DEF Init
  <2>3. update_count \in UInt /\ wraps \in Nat /\ updates \in UpdateLimits
    BY NoFieldsType DEF Init
  <2> QED  BY <2>1, <2>2, <2>3 DEF Init, TypeOK
<1>2. Control /\ Pointers
  BY NullAssumption DEF Init, Control, Pointers, Loading, Published, Stopping, Joined,
     InReadSection
<1>3. Ownership
  BY NullAssumption DEF Init, Ownership, OfThread, OfPointer, OfNew, OfOld, OfCallback
<1>4. Protected
  BY DEF Init, Protected
<1>5. ConsistentReport /\ report = NoFields
  BY NoFieldsType DEF Init, ConsistentReport
<1>6. Contents
  BY <1>5 DEF Init, Contents
<1> QED  BY <1>1, <1>2, <1>3, <1>4, <1>6 DEF IInv

\* A step that changes nothing.
LEMMA StutterIInv == IInv /\ UNCHANGED vars => IInv'
  BY DEF IInv, vars, initVars, writerVars, readerVars, rcuVars, TypeOK, Control,
     Pointers, InReadSection, Ownership, OfThread, OfPointer, OfNew, OfOld, OfCallback,
     Protected, Contents, Filled, ConsistentReport, NoLater, Latest

\* One case per action, and in it one step per part of IInv the action disturbs.
LEMMA NextIInv == IInv /\ Next => IInv'
<1> SUFFICES ASSUME IInv, Next PROVE IInv'
  OBVIOUS
<1> USE DEF IInv, initVars, writerVars, readerVars, rcuVars, NoLater, Latest
<1>1. CASE InitAlloc
  <2>1. TypeOK'
    BY <1>1, KmallocType DEF InitAlloc, TypeOK
  <2>2. Control'
    BY <1>1, KmallocType DEF InitAlloc, TypeOK, Control, Loading, Published,
       Stopping, Joined, Ownership, OfPointer
  <2>3. Ownership'
    BY <1>1, KmallocType DEF InitAlloc, TypeOK, Ownership, OfThread, OfPointer,
       OfNew, OfOld, OfCallback
  <2>4. Contents'
    BY <1>1 DEF InitAlloc, Control, Loading, Published, Contents, ConsistentReport
  <2>5. Pointers' /\ Protected'
    BY <1>1 DEF InitAlloc, Pointers, InReadSection, Protected, OfPointer, OfOld
  <2> QED  BY <2>1, <2>2, <2>3, <2>4, <2>5 DEF IInv
<1>2. CASE InitFill
  <2>1. TypeOK'
    BY <1>2, NoFieldsType, FillType DEF InitFill, TypeOK, Control
  <2>2. Control'
    BY <1>2 DEF InitFill, Control, Loading, Published, Stopping, Joined
  <2>3. Ownership'
    BY <1>2, NullAssumption, NoFieldsType, FillType DEF InitFill, TypeOK, Control, Published,
       Ownership, OfThread, OfPointer, OfNew, OfOld, OfCallback
  <2>4. Protected'
    BY <1>2 DEF InitFill, Control, Published, Pointers, Ownership, OfPointer, OfOld,
       Protected
  <2>5. Contents'
    <3>1. /\ current_value' = initial /\ current_value = NULL /\ initial # NULL
          /\ heap'[initial].version = 0 /\ heap'[initial].wraps = 0
          /\ heap'[initial].payload = PayloadOf(0)
          /\ reader = "none" /\ writer = "idle" /\ UNCHANGED <<readerVars, writerVars>>
      BY <1>2, NoFieldsType, FillType DEF InitFill, TypeOK, Control, Loading, Published
    <3>2. /\ report.version = 0 /\ report.wraps = 0
          /\ update_count \in Nat /\ wraps \in Nat
      BY <3>1 DEF Contents, NoFields, TypeOK, UInt
    <3> QED  BY <3>1, <3>2 DEF Contents, Filled, ConsistentReport
  <2>6. Pointers'
    BY <1>2 DEF InitFill, Pointers, InReadSection
  <2> QED  BY <2>1, <2>2, <2>3, <2>4, <2>5, <2>6 DEF IInv
<1>3. CASE InitReader
  <2>1. TypeOK'
    BY <1>3 DEF InitReader, TypeOK, Object, Fields
  <2>2. Control'
    BY <1>3 DEF InitReader, Control, Loading, Published, Stopping, Joined
  <2>3. Pointers'
    BY <1>3 DEF InitReader, Control, Loading, Pointers, InReadSection
  <2>4. Ownership'
    BY <1>3, NullAssumption DEF InitReader, Control, Ownership, OfThread, OfPointer,
       OfNew, OfOld, OfCallback
  <2>5. Protected'
    BY <1>3 DEF InitReader, Control, Loading, Protected
  <2>6. Contents'
    BY <1>3 DEF InitReader, Control, Loading, Contents, Filled, ConsistentReport
  <2> QED  BY <2>1, <2>2, <2>3, <2>4, <2>5, <2>6 DEF IInv
<1>4. CASE InitUndo
  <2>1. TypeOK'
    BY <1>4, KfreeType DEF InitUndo, TypeOK, Control
  <2>2. Control'
    BY <1>4 DEF InitUndo, Control, Loading, Published, Stopping, Joined
  <2>3. Ownership'
    BY <1>4, KfreeType DEF InitUndo, TypeOK, Control, Ownership, OfThread,
       OfPointer, OfNew, OfOld, OfCallback
  <2>4. Contents'
    BY <1>4 DEF InitUndo, Control, Loading, Published, Contents, ConsistentReport
  <2>5. Pointers' /\ Protected'
    BY <1>4 DEF InitUndo, Pointers, InReadSection, Protected, OfPointer, OfOld
  <2> QED  BY <2>1, <2>2, <2>3, <2>4, <2>5 DEF IInv
<1>5. CASE InitArm
  <2>1. TypeOK'
    BY <1>5 DEF InitArm, ScheduleWork, TypeOK, Object, Fields
  <2>2. Control'
    BY <1>5 DEF InitArm, ScheduleWork, Control, Loading, Published, Stopping, Joined
  <2>3. Ownership'
    BY <1>5 DEF InitArm, ScheduleWork, Ownership, OfThread, OfPointer, OfNew, OfOld,
       OfCallback
  <2>4. Pointers' /\ Protected' /\ Contents'
    BY <1>5 DEF InitArm, Pointers, InReadSection, Protected, OfPointer, OfOld,
       Contents, Filled, ConsistentReport
  <2> QED  BY <2>1, <2>2, <2>3, <2>4 DEF IInv
<1>6. CASE ExitCancel
  <2>1. TypeOK'
    BY <1>6 DEF ExitCancel, TypeOK, Object, Fields
  <2>2. Control'
    BY <1>6 DEF ExitCancel, Control, Loading, Published, Stopping, Joined
  <2>3. Ownership'
    BY <1>6 DEF ExitCancel, Ownership, OfThread, OfPointer, OfNew, OfOld, OfCallback
  <2>4. Pointers' /\ Protected' /\ Contents'
    BY <1>6 DEF ExitCancel, Pointers, InReadSection, Protected, OfPointer, OfOld,
       Contents, Filled, ConsistentReport
  <2> QED  BY <2>1, <2>2, <2>3, <2>4 DEF IInv
<1>7. CASE ExitFlush
  <2>1. TypeOK'
    BY <1>7 DEF ExitFlush, TypeOK, Object, Fields
  <2>2. Control'
    BY <1>7 DEF ExitFlush, Control, Loading, Published, Stopping, Joined
  <2>3. Ownership'
    BY <1>7 DEF ExitFlush, Ownership, OfThread, OfPointer, OfNew, OfOld, OfCallback
  <2>4. Pointers' /\ Protected' /\ Contents'
    BY <1>7 DEF ExitFlush, Pointers, InReadSection, Protected, OfPointer, OfOld,
       Contents, Filled, ConsistentReport
  <2> QED  BY <2>1, <2>2, <2>3, <2>4 DEF IInv
<1>8. CASE ExitStop
  <2>1. TypeOK'
    BY <1>8 DEF ExitStop, TypeOK, Object, Fields
  <2>2. Control'
    BY <1>8 DEF ExitStop, Control, Loading, Published, Stopping, Joined
  <2>3. Ownership'
    BY <1>8 DEF ExitStop, Ownership, OfThread, OfPointer, OfNew, OfOld, OfCallback
  <2>4. Pointers' /\ Protected' /\ Contents'
    BY <1>8 DEF ExitStop, Pointers, InReadSection, Protected, OfPointer, OfOld,
       Contents, Filled, ConsistentReport
  <2> QED  BY <2>1, <2>2, <2>3, <2>4 DEF IInv
<1>9. CASE ExitJoin
  <2>1. TypeOK'
    BY <1>9 DEF ExitJoin, TypeOK, Object, Fields
  <2>2. Control'
    BY <1>9 DEF ExitJoin, Control, Loading, Published, Stopping, Joined
  <2>3. Ownership'
    BY <1>9 DEF ExitJoin, Ownership, OfThread, OfPointer, OfNew, OfOld, OfCallback
  <2>4. Pointers' /\ Protected' /\ Contents'
    BY <1>9 DEF ExitJoin, Pointers, InReadSection, Protected, OfPointer, OfOld,
       Contents, Filled, ConsistentReport
  <2> QED  BY <2>1, <2>2, <2>3, <2>4 DEF IInv
<1>10. CASE ExitUnpublish
  <2>1. TypeOK'
    BY <1>10 DEF ExitUnpublish, TypeOK, Object, Fields
  <2>2. Control'
    BY <1>10 DEF ExitUnpublish, Control, Loading, Published, Stopping, Joined
  <2>3. Ownership'
    BY <1>10, NullAssumption DEF ExitUnpublish, Ownership, OfThread, OfPointer,
       OfNew, OfOld, OfCallback
  <2>4. Protected'
    BY <1>10 DEF ExitUnpublish, Control, Joined, Protected
  <2>5. Contents'
    BY <1>10 DEF ExitUnpublish, Control, Joined, Contents, ConsistentReport
  <2>6. Pointers'
    BY <1>10 DEF ExitUnpublish, Pointers, InReadSection
  <2> QED  BY <2>1, <2>2, <2>3, <2>4, <2>5, <2>6 DEF IInv
<1>11. CASE ExitFree
  <2>1. TypeOK'
    BY <1>11, KfreeType DEF ExitFree, TypeOK
  <2>2. Control'
    BY <1>11 DEF ExitFree, Control, Loading, Published, Stopping, Joined
  <2>3. Ownership'
    BY <1>11, KfreeType DEF ExitFree, TypeOK, Control, Published, Ownership,
       OfThread, OfPointer, OfNew, OfOld, OfCallback
  <2>4. Contents'
    BY <1>11 DEF ExitFree, Control, Published, InReadSection, Contents,
       ConsistentReport
  <2>5. Pointers' /\ Protected'
    BY <1>11 DEF ExitFree, Pointers, InReadSection, Protected, OfPointer, OfOld
  <2> QED  BY <2>1, <2>2, <2>3, <2>4, <2>5 DEF IInv
<1>12. CASE ExitBarrier
  <2>1. TypeOK'
    BY <1>12 DEF ExitBarrier, TypeOK, Object, Fields
  <2>2. Control'
    BY <1>12 DEF ExitBarrier, Control, Loading, Published, Stopping, Joined
  <2>3. Ownership'
    BY <1>12 DEF ExitBarrier, Ownership, OfThread, OfPointer, OfNew, OfOld,
       OfCallback
  <2>4. Pointers' /\ Protected' /\ Contents'
    BY <1>12 DEF ExitBarrier, Pointers, InReadSection, Protected, OfPointer, OfOld,
       Contents, Filled, ConsistentReport
  <2> QED  BY <2>1, <2>2, <2>3, <2>4 DEF IInv
<1>13. CASE WriterStart
  <2>1. TypeOK'
    BY <1>13 DEF WriterStart, TypeOK, Object, Fields
  <2>2. Control'
    BY <1>13 DEF WriterStart, Control, Loading, Published, Stopping, Joined
  <2>3. Pointers'
    BY <1>13 DEF WriterStart, Pointers, InReadSection
  <2>4. Ownership'
    BY <1>13 DEF WriterStart, Ownership, OfThread, OfPointer, OfNew, OfOld,
       OfCallback
  <2>5. Protected'
    BY <1>13 DEF WriterStart, OfPointer, OfOld, Protected
  <2>6. Contents'
    BY <1>13 DEF WriterStart, Contents, Filled, ConsistentReport
  <2> QED  BY <2>1, <2>2, <2>3, <2>4, <2>5, <2>6 DEF IInv
<1>14. CASE WriterCheck
  <2>1. TypeOK'
    BY <1>14 DEF WriterCheck, TypeOK, Object, Fields
  <2>2. Control'
    BY <1>14 DEF WriterCheck, Control, Loading, Published, Stopping, Joined
  <2>3. Pointers'
    BY <1>14 DEF WriterCheck, Pointers, InReadSection
  <2>4. Ownership'
    BY <1>14 DEF WriterCheck, Ownership, OfThread, OfPointer, OfNew, OfOld,
       OfCallback
  <2>5. Protected'
    BY <1>14 DEF WriterCheck, OfPointer, OfOld, Protected
  <2>6. Contents'
    BY <1>14 DEF WriterCheck, Contents, Filled, ConsistentReport
  <2> QED  BY <2>1, <2>2, <2>3, <2>4, <2>5, <2>6 DEF IInv
<1>15. CASE WriterAlloc
  <2>1. TypeOK'
    BY <1>15, KmallocType DEF WriterAlloc, TypeOK
  <2>2. Control'
    BY <1>15 DEF WriterAlloc, Control, Loading, Published, Stopping, Joined
  <2>3. Pointers'
    BY <1>15, NullAssumption DEF WriterAlloc, Pointers, InReadSection
  <2>4. Ownership'
    BY <1>15, KmallocType DEF WriterAlloc, TypeOK, Ownership, OfThread, OfPointer,
       OfNew, OfOld, OfCallback
  <2>5. Protected'
    BY <1>15 DEF WriterAlloc, OfPointer, OfOld, Protected
  <2>6. Contents'
    BY <1>15, KmallocType DEF WriterAlloc, TypeOK, Control, Published, Ownership,
       OfPointer, OfOld, OfCallback, Protected, Contents, Filled, ConsistentReport
  <2> QED  BY <2>1, <2>2, <2>3, <2>4, <2>5, <2>6 DEF IInv
<1>16. CASE WriterAllocFails
  <2>1. TypeOK'
    BY <1>16 DEF WriterAllocFails, TypeOK, Object, Fields
  <2>2. Control'
    BY <1>16 DEF WriterAllocFails, Control, Loading, Published, Stopping, Joined
  <2>3. Pointers'
    BY <1>16 DEF WriterAllocFails, Pointers, InReadSection
  <2>4. Ownership'
    BY <1>16 DEF WriterAllocFails, Ownership, OfThread, OfPointer, OfNew, OfOld,
       OfCallback
  <2>5. Protected'
    BY <1>16 DEF WriterAllocFails, OfPointer, OfOld, Protected
  <2>6. Contents'
    BY <1>16 DEF WriterAllocFails, Contents, Filled, ConsistentReport
  <2> QED  BY <2>1, <2>2, <2>3, <2>4, <2>5, <2>6 DEF IInv
<1>17. CASE WriterFill
  <2>1. TypeOK'
    BY <1>17, NextVersion, FillType DEF WriterFill, TypeOK, Pointers
  <2>2. Control'
    BY <1>17 DEF WriterFill, Control, Loading, Published, Stopping, Joined
  <2>3. Pointers'
    BY <1>17 DEF WriterFill, Pointers, InReadSection
  <2>4. Ownership'
    BY <1>17, NextVersion, FillType DEF WriterFill, TypeOK, Pointers, Ownership, OfThread,
       OfPointer, OfNew, OfOld, OfCallback
  <2>5. Protected'
    BY <1>17 DEF WriterFill, OfPointer, OfOld, Protected
  <2>6. Contents'
    <3>1. NoLater(Latest, Latest') /\ update_count' \in Nat /\ wraps' \in Nat
      BY <1>17, NextVersion DEF WriterFill, TypeOK, UInt
    <3>2. /\ heap'[new_value].version = update_count' /\ heap'[new_value].wraps = wraps'
          /\ heap'[new_value].payload = PayloadOf(update_count')
          /\ current_value # new_value /\ heap'[current_value] = heap[current_value]
          /\ reader \in {"version", "payload"} =>
               value # new_value /\ heap'[value] = heap[value]
      BY <1>17, NextVersion, FillType DEF WriterFill, TypeOK, Control, Published, Pointers,
         Ownership, OfPointer, OfOld, OfNew, OfCallback, Protected
    <3>3. NoLater(heap[current_value], Latest')
      <4>1. /\ current_value \in Addrs /\ NoLater(heap[current_value], Latest)
            /\ heap[current_value].version \in Nat /\ heap[current_value].wraps \in Nat
        BY <1>17 DEF WriterFill, TypeOK, Object, UInt, Control, Published, Contents
      <4> QED  BY <3>1, <4>1 DEF TypeOK, UInt
    <3> QED  BY <1>17, <3>2, <3>3 DEF WriterFill, Contents, Filled, ConsistentReport
  <2> QED  BY <2>1, <2>2, <2>3, <2>4, <2>5, <2>6 DEF IInv
<1>18. CASE WriterPublish
  <2>1. TypeOK'
    BY <1>18 DEF WriterPublish, TypeOK, Object, Fields
  <2>2. Control'
    BY <1>18 DEF WriterPublish, Control, Published, Pointers
  <2>3. Pointers'
    BY <1>18 DEF WriterPublish, Control, Published, Pointers, InReadSection
  <2>4. Ownership'
    BY <1>18 DEF WriterPublish, Ownership, OfThread, OfPointer, OfNew, OfOld,
       OfCallback
  <2>5. Protected'
    BY <1>18 DEF WriterPublish, OfPointer, OfOld, Protected
  <2>6. Contents'
    BY <1>18 DEF WriterPublish, TypeOK, Object, Fields, UInt, Control, Published,
       Ownership, OfPointer, OfOld, Protected, Contents, Filled, ConsistentReport
  <2> QED  BY <2>1, <2>2, <2>3, <2>4, <2>5, <2>6 DEF IInv
<1>19. CASE WriterCallRcu
  <2>1. TypeOK'
    BY <1>19 DEF WriterCallRcu, TypeOK, Object, Fields
  <2>2. Control'
    BY <1>19 DEF WriterCallRcu, Control, Loading, Published, Stopping, Joined
  <2>3. Pointers'
    BY <1>19 DEF WriterCallRcu, Pointers, InReadSection
  <2>4. Ownership'
    BY <1>19 DEF WriterCallRcu, Pointers, Ownership, OfThread, OfPointer, OfNew,
       OfOld, OfCallback
  <2>5. Protected'
    BY <1>19 DEF WriterCallRcu, Pointers, InReadSection, Ownership, OfPointer,
       OfOld, Protected
  <2>6. Contents'
    BY <1>19 DEF WriterCallRcu, Contents, Filled, ConsistentReport
  <2> QED  BY <2>1, <2>2, <2>3, <2>4, <2>5, <2>6 DEF IInv
<1>20. CASE WriterRearm
  <2>1. TypeOK'
    BY <1>20 DEF WriterRearm, ScheduleWork, TypeOK, Object, Fields
  <2>2. Control'
    BY <1>20 DEF WriterRearm, ScheduleWork, Control, Loading, Published, Stopping,
       Joined
  <2>3. Pointers'
    BY <1>20 DEF WriterRearm, ScheduleWork, Pointers, InReadSection
  <2>4. Ownership'
    BY <1>20 DEF WriterRearm, ScheduleWork, Ownership, OfThread, OfPointer, OfNew,
       OfOld, OfCallback
  <2>5. Protected'
    BY <1>20 DEF WriterRearm, ScheduleWork, OfPointer, OfOld, Protected
  <2>6. Contents'
    BY <1>20 DEF WriterRearm, ScheduleWork, Contents, Filled, ConsistentReport
  <2> QED  BY <2>1, <2>2, <2>3, <2>4, <2>5, <2>6 DEF IInv
<1>21. CASE ReaderLoop
  <2>1. TypeOK'
    BY <1>21, NoFieldsType DEF ReaderLoop, TypeOK, Object
  <2>2. Control'
    BY <1>21 DEF ReaderLoop, Control, Loading, Published, Stopping, Joined
  <2>3. Pointers'
    BY <1>21 DEF ReaderLoop, Pointers, InReadSection
  <2>4. Protected'
    BY <1>21 DEF ReaderLoop, OfPointer, OfOld, Protected
  <2>5. Contents'
    BY <1>21 DEF ReaderLoop, Contents, Filled, ConsistentReport
  <2>6. Ownership'
    BY <1>21 DEF ReaderLoop, Ownership, OfThread, OfPointer, OfNew, OfOld,
       OfCallback
  <2> QED  BY <2>1, <2>2, <2>3, <2>4, <2>5, <2>6 DEF IInv
<1>22. CASE ReaderDereference
  <2>1. TypeOK'
    BY <1>22 DEF ReaderDereference, TypeOK, Object, Fields
  <2>2. Control'
    BY <1>22 DEF ReaderDereference, Control, Loading, Published, Stopping, Joined
  <2>3. Pointers'
    BY <1>22 DEF ReaderDereference, Pointers, InReadSection
  <2>4. Protected'
    BY <1>22 DEF ReaderDereference, OfPointer, OfOld, Protected
  <2>5. Contents'
    BY <1>22 DEF ReaderDereference, TypeOK, Object, UInt, Contents, Filled,
       ConsistentReport
  <2>6. Ownership'
    BY <1>22 DEF ReaderDereference, Ownership, OfThread, OfPointer, OfNew, OfOld,
       OfCallback
  <2> QED  BY <2>1, <2>2, <2>3, <2>4, <2>5, <2>6 DEF IInv
<1>23. CASE ReaderVersion
  <2>1. TypeOK'
    <3>1. heap[value] \in Object
      BY <1>23 DEF ReaderVersion, TypeOK, Pointers
    <3>2. copy' \in Fields
      BY <1>23, <3>1 DEF ReaderVersion, TypeOK, Object, Fields
    <3> QED  BY <1>23, <3>2 DEF ReaderVersion, TypeOK, Object, Fields
  <2>2. Control'
    BY <1>23 DEF ReaderVersion, Control, Loading, Published, Stopping, Joined
  <2>3. Pointers'
    BY <1>23 DEF ReaderVersion, Pointers, InReadSection
  <2>4. Protected'
    BY <1>23 DEF ReaderVersion, OfPointer, OfOld, Protected
  <2>5. Contents'
    BY <1>23 DEF ReaderVersion, Contents, Filled, ConsistentReport
  <2>6. Ownership'
    BY <1>23 DEF ReaderVersion, Ownership, OfThread, OfPointer, OfNew, OfOld,
       OfCallback
  <2> QED  BY <2>1, <2>2, <2>3, <2>4, <2>5, <2>6 DEF IInv
<1>24. CASE ReaderPayload
  <2>1. TypeOK'
    BY <1>24 DEF ReaderPayload, TypeOK, Object, Fields, Pointers
  <2>2. Control'
    BY <1>24 DEF ReaderPayload, Control, Loading, Published, Stopping, Joined
  <2>3. Pointers'
    BY <1>24 DEF ReaderPayload, Pointers, InReadSection
  <2>4. Protected'
    BY <1>24 DEF ReaderPayload, OfPointer, OfOld, Protected
  <2>5. Contents'
    BY <1>24 DEF ReaderPayload, Contents, Filled, ConsistentReport
  <2>6. Ownership'
    BY <1>24 DEF ReaderPayload, Ownership, OfThread, OfPointer, OfNew, OfOld,
       OfCallback
  <2> QED  BY <2>1, <2>2, <2>3, <2>4, <2>5, <2>6 DEF IInv
<1>25. CASE ReaderUnlock
  <2>1. TypeOK'
    BY <1>25 DEF ReaderUnlock, TypeOK, Object, Fields
  <2>2. Control'
    BY <1>25 DEF ReaderUnlock, Control, Loading, Published, Stopping, Joined
  <2>3. Pointers'
    BY <1>25 DEF ReaderUnlock, Pointers, InReadSection
  <2>4. Protected'
    BY <1>25 DEF ReaderUnlock, OfPointer, OfOld, Protected
  <2>5. Contents'
    BY <1>25 DEF ReaderUnlock, Contents, Filled, ConsistentReport
  <2>6. Ownership'
    BY <1>25 DEF ReaderUnlock, Ownership, OfThread, OfPointer, OfNew, OfOld,
       OfCallback
  <2> QED  BY <2>1, <2>2, <2>3, <2>4, <2>5, <2>6 DEF IInv
<1>26. CASE SetUpdates
  <2>1. TypeOK'
    BY <1>26 DEF SetUpdates, TypeOK, Object, Fields
  <2>2. Control' /\ Pointers' /\ Ownership' /\ Protected' /\ Contents'
    BY <1>26 DEF SetUpdates, Control, Loading, Published, Stopping, Joined,
       Pointers, InReadSection, Ownership, OfThread, OfPointer, OfNew, OfOld,
       OfCallback, Protected, Contents, Filled, ConsistentReport
  <2> QED  BY <2>1, <2>2 DEF IInv
<1>27. ASSUME NEW a \in Addrs, Free(a) PROVE IInv'
  <2>1. TypeOK'
    BY <1>27, KfreeType DEF Free, TypeOK
  <2>2. Control'
    BY <1>27 DEF Free, Control, Loading, Published, Stopping, Joined
  <2>3. Ownership'
    BY <1>27, KfreeType DEF Free, TypeOK, Ownership, OfThread, OfPointer, OfNew,
       OfOld, OfCallback
  <2>4. Contents'
    BY <1>27, KfreeType DEF Free, TypeOK, Control, Loading, Published, Joined,
       Pointers, Ownership, OfPointer, OfNew, OfCallback, Protected, Contents,
       Filled, ConsistentReport
  <2>5. Pointers' /\ Protected'
    BY <1>27 DEF Free, Pointers, InReadSection, Protected, OfPointer, OfOld
  <2> QED  BY <2>1, <2>2, <2>3, <2>4, <2>5 DEF IInv
<1> QED
  BY <1>1, <1>2, <1>3, <1>4, <1>5, <1>6, <1>7, <1>8, <1>9, <1>10, <1>11, <1>12, <1>13,
     <1>14, <1>15, <1>16, <1>17, <1>18, <1>19, <1>20, <1>21, <1>22, <1>23, <1>24, <1>25, <1>26, <1>27
  DEF Next, InitStep, ExitStep, WriterStep, ReaderStep

-----------------------------------------------------------------------------
(* Theorems *)

\* The strengthening that carries all the rest holds in every reachable state, for
\* any supply of memory and any limit on the number of updates.
THEOREM Invariance == Spec => []IInv
<1>1. IInv /\ [Next]_vars => IInv'
  BY StutterIInv, NextIInv
<1> QED  BY InitIInv, <1>1, PTL DEF Spec

\* Every variable of the module keeps its type, and RCU waits for no object that
\* was not handed to call_rcu().
THEOREM TypeCorrect == Spec => []TypeOK
<1>1. IInv => TypeOK
  BY DEF IInv
<1> QED  BY Invariance, <1>1, PTL

\* No schedule of writer, reader and callbacks frees the object the reader is
\* copying, nor the published one (si_rcu19.c:163, 182-189).
THEOREM ReaderIsSafe == Spec => []NoUseAfterFree
<1>1. IInv => NoUseAfterFree
  BY NullAssumption DEF IInv, TypeOK, Control, Pointers, Ownership, OfPointer, OfOld,
     OfCallback, Protected, NoUseAfterFree
<1> QED  BY Invariance, <1>1, PTL

\* What the reader prints is one version of the object (si_rcu19.c:184-187).
THEOREM ReportsAreConsistent == Spec => []ConsistentReport
<1>1. IInv => ConsistentReport
  BY DEF IInv, Contents
<1> QED  BY Invariance, <1>1, PTL

\* The reader's reports never go back to an older object, although the writer
\* recycles memory and the reader copies without a lock (si_rcu19.c:153-165,
\* 182-187): whatever the width of update_count, a version lower than the last
\* one means that the counter has wrapped in between (si_rcu19.c:150).
THEOREM ReportsAreMonotonic == Spec => MonotonicReads
<1>1. IInv /\ [Next]_vars => [NoLater(report, report')]_vars
  <2> SUFFICES ASSUME IInv, Next PROVE NoLater(report, report')
    BY DEF IInv, TypeOK, Fields, UInt, NoLater, vars, readerVars
  <2>1. report.version \in Nat /\ report.wraps \in Nat
    BY DEF IInv, TypeOK, Fields, UInt
  <2>2. CASE ReaderUnlock
    BY <2>1, <2>2 DEF ReaderUnlock, IInv, Contents, NoLater
  <2>3. CASE ~ReaderUnlock
    <3>1. report' = report
      BY <2>3 DEF Next, InitStep, ExitStep, WriterStep, ReaderStep, InitAlloc, InitFill,
         InitReader, InitUndo, InitArm, ExitCancel, ExitFlush, ExitStop, ExitJoin,
         ExitUnpublish, ExitFree, ExitBarrier, WriterStart, WriterCheck, WriterAlloc,
         WriterAllocFails, WriterFill, WriterPublish, WriterCallRcu, WriterRearm,
         ReaderLoop, ReaderDereference, ReaderVersion, ReaderPayload, SetUpdates, Free,
         readerVars
    <3> QED  BY <2>1, <3>1 DEF NoLater
  <2> QED  BY <2>2, <2>3
<1> QED  BY Invariance, <1>1, PTL DEF Spec, MonotonicReads

\* On every path of init, writer, callback and exit, failures included, each
\* allocated object has exactly one owner that will free it.
THEOREM NoLeakNoDoubleFree == Spec => []OneOwner
<1>1. ASSUME NEW a \in Addrs
      PROVE  Owners(a) = {o \in {"thread", "pointer", "new", "old", "callback"} :
                            \/ o = "thread" /\ OfThread(a)
                            \/ o = "pointer" /\ OfPointer(a)
                            \/ o = "new" /\ OfNew(a)
                            \/ o = "old" /\ OfOld(a)
                            \/ o = "callback" /\ OfCallback(a)}
  BY DEF Owners, OfThread, OfPointer, OfNew, OfOld, OfCallback
<1>2. IInv => OneOwner
  <2> SUFFICES ASSUME IInv, NEW a \in Addrs
               PROVE  /\ heap[a].allocated <=> Owners(a) # {}
                      /\ \A o, p \in Owners(a) : o = p
    BY DEF OneOwner
  <2> QED  BY <1>1 DEF IInv, Ownership
<1> QED  BY Invariance, <1>2, PTL

\* After rmmod, and after a failed insmod, no work, thread or callback of the
\* module is left, nor any memory (si_rcu19.c:226-229, 242-256).
THEOREM UnloadIsClean == Spec => []CleanUnload
<1>1. IInv => CleanUnload
  BY NullAssumption DEF IInv, TypeOK, Control, Ownership, OfThread, OfPointer, OfNew,
     OfOld, OfCallback, CleanUnload, Loading, Published, Joined
<1> QED  BY Invariance, <1>1, PTL
=============================================================================
