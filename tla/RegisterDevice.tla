--------------------------- MODULE RegisterDevice ---------------------------
(***************************************************************************)
(* The drivers through which user tasks reach one register of the          *)
(* hardware: lessons 14 and 15 (GPIO registers behind an ioremap() mapping *)
(* and a module parameter) and 21, 21_cdev and 22 (a temperature sensor    *)
(* behind a bus and a character device).                                   *)
(*                                                                         *)
(* All of them take a mutex, look at the register and format what they     *)
(* have found: the parameter's callbacks under the kernel's param_lock and *)
(* into a page of the caller's own, the sensors' read() under data->lock   *)
(* and into data->output, which all callers share.  Loading and unloading  *)
(* of 14 and 15 is here, since their parameter can be used meanwhile; that *)
(* of the sensors is in Lifecycle.                                         *)
(***************************************************************************)
EXTENDS Integers, Sequences

CONSTANTS
  Tasks,       \* the callers
  None,        \* the owner of a free mutex
  Lessons,     \* the drivers that are looked at
  Readings,    \* the bytes the sensor, or the input register of lesson 14, may hold
  Counts,      \* the sizes of the buffers passed to read()
  Requests,    \* the numbers written to ph11
  Junk,        \* what is written to ph11 and is no number
  Minus, Newline, Nul,  \* characters: a digit stands for its own
  OtherPins,   \* pins of GPIOH that other drivers use
  OUTPUT_SIZE, \* sizeof(data->output)
  Faults       \* the tasks that may pass a bad user address

Mapped  == {"14", "15"}
Sensors == {"21", "21_cdev", "22"}

ASSUME LessonAssumption  == Lessons \subseteq Mapped \cup Sensors
ASSUME ReadingAssumption == Readings \subseteq 0..255 /\ Counts \subseteq Nat
ASSUME SizeAssumption    == OUTPUT_SIZE \in Nat /\ OUTPUT_SIZE >= 6   \* "-128\n"
ASSUME NamesAssumption   == None \notin Tasks /\ "PH11" \notin OtherPins

VARIABLES
  lesson,
  reading,     \* the sensor's temperature register, or GPIOF_IDR
  moder, odr,  \* whether PH11 is an output; the pins of GPIOH whose latch is 1
  cpu,         \* where insmod or rmmod is
  base,        \* gpiof_base, gpioh_base: "null", "mapped", or "stale"
  lock,        \* the owner of param_lock or data->lock
  output,      \* data->output
  pc,          \* where each task is
  request,     \* its argument: the size of its buffer, or what it writes to ph11
  seen,        \* the reading it has got from the register
  index,       \* how many characters its scnprintf() has written
  got,         \* what has been copied to its buffer
  ppos,        \* the position of its file
  overlap      \* history: the tasks that have been in a call while exit ran

hardware == <<reading, moder, odr>>
loader   == <<cpu, base, overlap>>
call     == <<request, seen, index, got, ppos>>
vars     == <<lesson, hardware, loader, lock, output, pc, call>>

-----------------------------------------------------------------------------
(* (s8) and "%d\n" *)

S8(byte) == IF byte < 128 THEN byte ELSE byte - 256

Digits(n) ==
  IF n < 10 THEN <<n>>
  ELSE IF n < 100 THEN <<n \div 10, n % 10>>
  ELSE <<n \div 100, (n \div 10) % 10, n % 10>>

Text(temperature) ==
  (IF temperature < 0 THEN <<Minus>> \o Digits(-temperature) ELSE Digits(temperature))
    \o <<Newline>>

Init ==
  /\ lesson \in Lessons
  /\ reading \in Readings
  /\ IF lesson = "15" THEN moder \in BOOLEAN /\ odr \in SUBSET (OtherPins \cup {"PH11"})
                      ELSE moder = FALSE /\ odr = {}
  /\ cpu = (IF lesson \in Mapped THEN "init" ELSE "loaded")
  /\ base = "null" /\ overlap = {}
  /\ lock = None /\ output = [i \in 1..OUTPUT_SIZE |-> Nul]
  /\ pc      = [t \in Tasks |-> "idle"]
  /\ request = [t \in Tasks |-> 0]
  /\ seen    = [t \in Tasks |-> 0]
  /\ index   = [t \in Tasks |-> 0]
  /\ got     = [t \in Tasks |-> <<>>]
  /\ ppos    = [t \in Tasks |-> 0]

GoTo(t, label) == pc' = [pc EXCEPT ![t] = label]

Step(t, from, to) == pc[t] = from /\ GoTo(t, to)

-----------------------------------------------------------------------------
(* The hardware, and other drivers on the same registers *)

RegisterChanges ==
  /\ reading' \in Readings \ {reading}
  /\ UNCHANGED <<lesson, moder, odr, loader, lock, output, pc, call>>

OtherDriver(p) ==
  /\ lesson = "15"
  /\ odr' = IF p \in odr THEN odr \ {p} ELSE odr \cup {p}
  /\ UNCHANGED <<lesson, reading, moder, loader, lock, output, pc, call>>

\* The value of a write to BSRR that sets, or clears, PH11's latch.
BsrrOf(level) ==
  IF level = 1 THEN [set |-> {"PH11"}, clear |-> {}] ELSE [set |-> {}, clear |-> {"PH11"}]

WriteBsrr(level) == odr' = (odr \ BsrrOf(level).clear) \cup BsrrOf(level).set

-----------------------------------------------------------------------------
(* insmod and rmmod of lessons 14 and 15 *)

Ioremap ==
  /\ cpu = "init"
  /\ \/ base' = "mapped" /\ cpu' = "loaded"
     \/ UNCHANGED base   /\ cpu' = "init_failed"
  /\ UNCHANGED <<lesson, hardware, overlap, lock, output, pc, call>>

InCall == {t \in Tasks : pc[t] # "idle"}

\* A parameter's file holds no reference to the module: rmmod is never refused.
Rmmod ==
  /\ cpu = "loaded" /\ lesson \in Mapped
  /\ cpu' = "exit" /\ overlap' = InCall
  /\ UNCHANGED <<lesson, hardware, base, lock, output, pc, call>>

\* Lesson 15 clears the latch, whatever MODER says.
ExitClears ==
  /\ cpu = "exit"
  /\ IF lesson = "15" THEN WriteBsrr(0) ELSE UNCHANGED odr
  /\ cpu' = "unmap"
  /\ UNCHANGED <<lesson, reading, moder, base, overlap, lock, output, pc, call>>

ExitUnmaps ==
  /\ cpu = "unmap"
  /\ base' = "stale" /\ cpu' = "forget"
  /\ UNCHANGED <<lesson, hardware, overlap, lock, output, pc, call>>

\* Mutant: the pointer is left as it is.
ExitKeepsPointer ==
  /\ cpu = "forget"
  /\ cpu' = "exit_done"
  /\ UNCHANGED <<lesson, hardware, base, overlap, lock, output, pc, call>>

ExitForgets ==
  /\ cpu = "forget"
  /\ base' = "null" /\ cpu' = "exit_done"
  /\ UNCHANGED <<lesson, hardware, overlap, lock, output, pc, call>>

\* Only when init or exit has returned the parameter's file is removed, which
\* waits for those who use it.
RemoveParameter ==
  /\ cpu \in {"init_failed", "exit_done"} /\ InCall = {}
  /\ cpu' = IF cpu = "exit_done" THEN "unloaded" ELSE "failed"
  /\ UNCHANGED <<lesson, hardware, base, overlap, lock, output, pc, call>>

ExitRuns == cpu \in {"exit", "unmap", "forget"}

-----------------------------------------------------------------------------
(* Calls *)

\* Reading the parameter, or writing it: that of lesson 14 is read-only.
UseParameter(t) ==
  /\ lesson \in Mapped /\ cpu \notin {"failed", "unloaded"} /\ pc[t] = "idle"
  /\ \/ GoTo(t, "get_lock") /\ UNCHANGED request
     \/ /\ lesson = "15" /\ GoTo(t, "set_lock")
        /\ \E r \in Requests \cup {Junk} : request' = [request EXCEPT ![t] = r]
  /\ overlap' = IF ExitRuns THEN overlap \cup {t} ELSE overlap
  /\ UNCHANGED <<lesson, hardware, cpu, base, lock, output, seen, index, got, ppos>>

\* Only the first read of a file is answered.
Read(t) ==
  /\ lesson \in Sensors /\ pc[t] = "idle"
  /\ GoTo(t, IF ppos[t] # 0 THEN "return" ELSE "read_lock")
  /\ \E n \in Counts : request' = [request EXCEPT ![t] = n]
  /\ UNCHANGED <<lesson, hardware, loader, lock, output, seen, index, got, ppos>>

\* llseek() is refused: only a new open() goes back to the start.
Reopen(t) ==
  /\ lesson \in Sensors /\ pc[t] = "idle"
  /\ ppos' = [ppos EXCEPT ![t] = 0]
  /\ UNCHANGED <<lesson, hardware, loader, lock, output, pc, request, seen, index, got>>

\* Mutant: read() goes without data->lock.
LockParameterOnly(t) ==
  /\ lesson \in Mapped => lock = None
  /\ \/ Step(t, "get_lock", "get_test")
     \/ Step(t, "set_lock", "set_test")
     \/ Step(t, "read_lock", "transfer")
  /\ lock' = IF lesson \in Mapped THEN t ELSE lock
  /\ UNCHANGED <<lesson, hardware, loader, output, call>>

Lock(t) ==
  /\ lock = None
  /\ \/ Step(t, "get_lock", "get_test")
     \/ Step(t, "set_lock", "set_test")
     \/ Step(t, "read_lock", "transfer")
  /\ lock' = t
  /\ UNCHANGED <<lesson, hardware, loader, output, call>>

Unlock(t) ==
  /\ Step(t, "unlock", "return")
  /\ lock' = None
  /\ UNCHANGED <<lesson, hardware, loader, output, call>>

Return(t) ==
  /\ Step(t, "return", "idle")
  /\ ppos'    = [ppos    EXCEPT ![t] = IF lesson \in Sensors THEN @ + Len(got[t]) ELSE @]
  /\ got'     = [got     EXCEPT ![t] = <<>>]
  /\ index'   = [index   EXCEPT ![t] = 0]
  /\ request' = [request EXCEPT ![t] = 0]
  /\ seen'    = [seen    EXCEPT ![t] = 0]
  /\ UNCHANGED <<lesson, hardware, loader, lock, output>>

-----------------------------------------------------------------------------
(* The parameter's callbacks *)

\* ENODEV without a mapping; ph11_set() refuses what is no number.
TestBase(t) ==
  /\ \/ Step(t, "get_test", IF base = "null" THEN "unlock" ELSE "get")
     \/ Step(t, "set_test", IF base = "null" \/ request[t] = Junk THEN "unlock" ELSE "moder")
  /\ UNCHANGED <<lesson, hardware, loader, lock, output, call>>

\* idr_get() reads the input register, ph11_get() the mode and the latches.
Get(t) ==
  /\ Step(t, "get", "unlock") /\ base = "mapped"
  /\ got' = [got EXCEPT ![t] = IF lesson = "14" THEN <<reading>> ELSE <<moder, odr>>]
  /\ UNCHANGED <<lesson, hardware, loader, lock, output, request, seen, index, ppos>>

\* EPERM if PH11 is no output, EINVAL for other numbers than 0 and 1.
SetReadsModer(t) ==
  /\ Step(t, "moder", IF moder /\ request[t] \in {0, 1} THEN "bsrr" ELSE "unlock")
  /\ base = "mapped"
  /\ UNCHANGED <<lesson, hardware, loader, lock, output, call>>

\* Mutant: the pin is set in ODR, which is read, changed and written back; got holds
\* what has been read.
SetModifiesOdr(t) ==
  /\ \/ /\ pc[t] = "bsrr" /\ got[t] = <<>>
        /\ got' = [got EXCEPT ![t] = <<odr>>]
        /\ UNCHANGED <<pc, odr>>
     \/ /\ Step(t, "bsrr", "odr") /\ got[t] # <<>>
        /\ odr' = (got[t][1] \ BsrrOf(request[t]).clear) \cup BsrrOf(request[t]).set
        /\ UNCHANGED got
  /\ base = "mapped"
  /\ UNCHANGED <<lesson, reading, moder, loader, lock, output, request, seen, index, ppos>>

SetWritesBsrr(t) ==
  /\ Step(t, "bsrr", "odr") /\ base = "mapped"
  /\ WriteBsrr(request[t])
  /\ UNCHANGED <<lesson, reading, moder, loader, lock, output, call>>

\* The latches are read again and logged.
SetReadsOdr(t) ==
  /\ Step(t, "odr", "unlock") /\ base = "mapped"
  /\ UNCHANGED <<lesson, hardware, loader, lock, output, call>>

\* An access through a pointer that exit has unmapped or cleared: the task ends
\* in an oops, with param_lock in its hands.
Oops(t) ==
  /\ pc[t] \in {"get", "moder", "bsrr", "odr"} /\ base # "mapped"
  /\ GoTo(t, "oops")
  /\ UNCHANGED <<lesson, hardware, loader, lock, output, call>>

-----------------------------------------------------------------------------
(* read() of a sensor *)

\* One transfer on the bus, which is atomic.
Transfer(t) ==
  /\ Step(t, "transfer", "format")
  /\ seen' = [seen EXCEPT ![t] = reading]
  /\ UNCHANGED <<lesson, hardware, loader, lock, output, request, index, got, ppos>>

\* Mutant: the error returns at once instead of jumping to out_unlock.
TransferFailsLocked(t) ==
  /\ Step(t, "transfer", "return")
  /\ UNCHANGED <<lesson, hardware, loader, lock, output, call>>

TransferFails(t) ==
  /\ Step(t, "transfer", "unlock")
  /\ UNCHANGED <<lesson, hardware, loader, lock, output, call>>

\* scnprintf() writes the characters and then a Nul.
Format(t) ==
  LET text == Append(Text(S8(seen[t])), Nul)
      i    == index[t] + 1
  IN  /\ pc[t] = "format"
      /\ output' = [output EXCEPT ![i] = text[i]]
      /\ IF i < Len(text) THEN index' = [index EXCEPT ![t] = i] /\ UNCHANGED pc
                          ELSE GoTo(t, "copy") /\ UNCHANGED index
      /\ UNCHANGED <<lesson, hardware, loader, lock, request, seen, got, ppos>>

\* simple_read_from_buffer() copies as much of the text as the caller has room for.
Copy(t) ==
  LET k == Len(got[t])
  IN  /\ pc[t] = "copy"
      /\ IF k < request[t] /\ k < index[t]
         THEN got' = [got EXCEPT ![t] = Append(@, output[k + 1])] /\ UNCHANGED pc
         ELSE GoTo(t, "unlock") /\ UNCHANGED got
      /\ UNCHANGED <<lesson, hardware, loader, lock, output, request, seen, index, ppos>>

\* A bad address ends the copy: EFAULT if nothing has been copied, and otherwise
\* the caller gets, and has read, what has.
CopyFaults(t) ==
  /\ Step(t, "copy", "unlock")
  /\ t \in Faults /\ request[t] > Len(got[t])
  /\ UNCHANGED <<lesson, hardware, loader, lock, output, call>>

-----------------------------------------------------------------------------
Parameter(t) ==
  \/ TestBase(t) \/ Get(t) \/ SetReadsModer(t) \/ SetWritesBsrr(t) \/ SetReadsOdr(t)
  \/ Oops(t)

ReadSensor(t) ==
  Transfer(t) \/ TransferFails(t) \/ Format(t) \/ Copy(t) \/ CopyFaults(t)

Progress(t) == Parameter(t) \/ ReadSensor(t) \/ Unlock(t) \/ Return(t)

Exit == ExitClears \/ ExitUnmaps \/ ExitForgets

Next ==
  \/ RegisterChanges \/ \E p \in OtherPins : OtherDriver(p)
  \/ Ioremap \/ Rmmod \/ Exit \/ RemoveParameter
  \/ \E t \in Tasks : UseParameter(t) \/ Read(t) \/ Reopen(t) \/ Lock(t) \/ Progress(t)

Spec == Init /\ [][Next]_vars

\* Tasks and exit run, the bus answers or fails, the mutex queues its waiters.
Fairness ==
  /\ WF_vars(Exit)
  /\ \A t \in Tasks : WF_vars(Progress(t)) /\ SF_vars(Lock(t))

FairSpec == Spec /\ Fairness

-----------------------------------------------------------------------------
(* Properties *)

Labels == {"idle", "get_lock", "set_lock", "read_lock", "get_test", "set_test", "get",
           "moder", "bsrr", "odr", "transfer", "format", "copy", "unlock", "return",
           "oops"}

TypeOK ==
  /\ lesson \in Lessons
  /\ reading \in Readings /\ moder \in BOOLEAN /\ odr \subseteq OtherPins \cup {"PH11"}
  /\ cpu \in {"init", "init_failed", "failed", "loaded", "exit", "unmap", "forget",
              "exit_done", "unloaded"}
  /\ base \in {"null", "mapped", "stale"} /\ overlap \subseteq Tasks
  /\ lock \in Tasks \cup {None}
  /\ output \in [1..OUTPUT_SIZE -> 0..9 \cup {Minus, Newline, Nul}]
  /\ pc \in [Tasks -> Labels]
  /\ request \in [Tasks -> Counts \cup Requests \cup {0, Junk}]
  /\ seen \in [Tasks -> Readings \cup {0}]
  /\ index \in [Tasks -> 0..(OUTPUT_SIZE - 1)]
  /\ ppos \in [Tasks -> 0..OUTPUT_SIZE]

\* What read() gives to a caller is the beginning of the text of the temperature
\* that this call has read, signed, from the sensor: never the text of a call that
\* shares the buffer, nor a mixture, nor what an earlier text has left behind.
AnswersAreOwn ==
  \A t \in Tasks :
    lesson \in Sensors /\ got[t] # <<>> =>
      \E temperature \in -128..127 :
        /\ temperature % 256 = seen[t]
        /\ got[t] = SubSeq(Text(temperature), 1, Len(got[t]))

\* Through BSRR the driver changes PH11 only, whatever other drivers do to other
\* pins between its steps (si_mmio15.c:27-28).
OtherPinsUntouched ==
  [][\A p \in OtherPins : (p \in odr' <=> p \in odr) \/ OtherDriver(p)]_vars

\* rmmod does not wait for those who use the parameter, and si_mmio14.c:166 and
\* si_mmio15.c:202-208 can hurt them, or be undone by them.  Nobody else is hurt:
\* not a call before init or after exit, and without a call during exit the latch
\* stays cleared.
OnlyCallsDuringExitAreHurt ==
  /\ \A t \in Tasks : pc[t] = "oops" => t \in overlap
  /\ cpu = "unloaded" /\ lesson = "15" /\ overlap = {} => "PH11" \notin odr

\* Every call returns, unless a task has died with the mutex in its hands.
CallsReturn ==
  \A t \in Tasks :
    pc[t] # "idle" ~> (pc[t] = "idle" \/ \E u \in Tasks : pc[u] = "oops")

\* "If MODER shows that PH11 is not in output mode, the driver refuses to write
\* BSRR" (si_mmio15.c:57-58).
OnlyInOutputMode ==
  [][("PH11" \in odr) # ("PH11" \in odr') => moder]_vars
=============================================================================
