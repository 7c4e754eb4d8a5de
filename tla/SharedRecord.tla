---------------------------- MODULE SharedRecord ----------------------------
(***************************************************************************)
(* The callbacks of 13-sysfs (message_store, message_show,                 *)
(* write_count_show) and the commands of 16-ioctl, on the data that a      *)
(* mutex protects.  Copies inside the lock go byte by byte, copies from    *)
(* and to user memory happen outside it.                                   *)
(***************************************************************************)
EXTENDS Integers, Sequences

CONSTANTS
  Tasks,          \* the callers
  None,           \* the owner of a free mutex
  Bytes,          \* the bytes a text is made of: Newline may be among them
  Newline, Nul,
  MESSAGE_SIZE,   \* MESSAGE_SIZE (13), SI_IOCTL16_MESSAGE_SIZE (16)
  COUNTS,         \* the number of values of the unsigned write_count
  Hello,          \* the text the module is loaded with
  Values,         \* the numbers offered to SET_VALUE and SET_DATA
  Texts,          \* the texts offered to message_store: sysfs drops empty ones
  Arrays,         \* the arrays offered to SET_DATA, not always with a Nul
  Faults          \* the tasks that may pass a bad user address

ASSUME SizeAssumption == MESSAGE_SIZE \in Nat \ {0, 1} /\ COUNTS \in Nat \ {0}
ASSUME NoneAssumption == None \notin Tasks
ASSUME ByteAssumption == Nul \notin Bytes
ASSUME TextAssumption ==
  /\ Hello \in Seq(Bytes) /\ Len(Hello) < MESSAGE_SIZE
  /\ Texts \subseteq Seq(Bytes) \ {<<>>}
  /\ Arrays \subseteq [1..MESSAGE_SIZE -> Bytes \cup {Nul}]
ASSUME ValueAssumption == Values \subseteq Nat

VARIABLES
  lesson,         \* "13" or "16"
  value, message, write_count,
  lock,           \* the owner of the mutex
  pc,             \* where each task is
  request, answer,\* its arguments, and what it will return
  copy,           \* its local variables: buf, or value and data
  index,          \* how far its loop over the text has come
  record, seen    \* history: the record, and what each call has found in it

memory  == <<value, message, write_count>>
history == <<record, seen>>
vars == <<lesson, memory, lock, pc, request, answer, copy, index, history>>

Pad(text) == [i \in 1..MESSAGE_SIZE |-> IF i <= Len(text) THEN text[i] ELSE Nul]

AttributeCalls ==
  {[op |-> "message_store", message |-> m] : m \in Texts}
    \cup {[op |-> "message_show"], [op |-> "write_count_show"]}

Commands ==
  {[op |-> "SET_VALUE", value |-> v] : v \in Values}
    \cup {[op |-> "SET_DATA", value |-> v, message |-> m] : v \in Values, m \in Arrays}
    \cup {[op |-> "GET_VALUE"], [op |-> "GET_DATA"], [op |-> "OTHER"]}

\* What each caller will get, as far as it is settled.
Settled == [t \in Tasks |-> IF pc[t] = "return" THEN answer[t] ELSE seen[t]]

Promise == INSTANCE AtomicRecord WITH
             Requests <- AttributeCalls \cup Commands, answer <- Settled,
             Initial  <- [value |-> 0, message |-> Hello, count |-> 0]

Init ==
  /\ lesson \in {"13", "16"}
  /\ value = 0 /\ message = Pad(Hello) /\ write_count = 0
  /\ lock = None
  /\ pc      = [t \in Tasks |-> "idle"]
  /\ request = [t \in Tasks |-> Promise!NoRequest]
  /\ answer  = [t \in Tasks |-> Promise!Pending]
  /\ copy    = [t \in Tasks |-> [value |-> 0, message |-> Pad(<<>>), count |-> 0]]
  /\ index   = [t \in Tasks |-> 0]
  /\ record  = [value |-> 0, message |-> Hello, count |-> 0]
  /\ seen    = [t \in Tasks |-> Promise!Pending]

In(t, label, ops)  == pc[t] = label /\ request[t].op \in ops
GoTo(t, label)     == pc' = [pc EXCEPT ![t] = label]
Answer(t, outcome) == answer' = [answer EXCEPT ![t] = outcome] /\ GoTo(t, "return")

-----------------------------------------------------------------------------
(* Outside the lock *)

\* sysfs hands message_store a copy in the kernel.
Enter(t) ==
  /\ pc[t] = "idle"
  /\ \E r \in IF lesson = "13" THEN AttributeCalls ELSE Commands :
       /\ request' = [request EXCEPT ![t] = r]
       /\ GoTo(t, CASE r.op = "OTHER"                     -> "refuse"
                    [] r.op \in {"SET_VALUE", "SET_DATA"} -> "from_user"
                    [] OTHER                              -> "lock")
  /\ UNCHANGED <<lesson, memory, lock, answer, copy, index, history>>

\* A command of another type, number, direction or size.
Refuse(t) ==
  /\ pc[t] = "refuse"
  /\ Answer(t, Promise!Failed("ENOTTY"))
  /\ UNCHANGED <<lesson, memory, lock, request, copy, index, history>>

\* Mutant: a copy that meets a bad address is tried again.
FromUserRetries(t) ==
  LET r == request[t]
  IN  /\ pc[t] = "from_user"
      /\ IF t \in Faults THEN UNCHANGED <<copy, pc>>
         ELSE /\ copy' = [copy EXCEPT ![t].value = r.value,
                                   ![t].message = IF r.op = "SET_DATA"
                                                  THEN [r.message EXCEPT ![MESSAGE_SIZE] = Nul]
                                                  ELSE @]
              /\ GoTo(t, "lock")
  /\ UNCHANGED <<lesson, memory, lock, request, answer, index, history>>

\* The last byte of the user's array becomes Nul, whatever it was.
FromUser(t) ==
  LET r == request[t]
  IN  /\ pc[t] = "from_user"
      /\ \/ /\ copy' = [copy EXCEPT ![t].value = r.value,
                        ![t].message = IF r.op = "SET_DATA"
                                       THEN [r.message EXCEPT ![MESSAGE_SIZE] = Nul]
                                       ELSE @]
            /\ GoTo(t, "lock") /\ UNCHANGED answer
         \/ /\ t \in Faults
            /\ Answer(t, Promise!Failed("EFAULT")) /\ UNCHANGED copy
  /\ UNCHANGED <<lesson, memory, lock, request, index, history>>

\* What a task has copied, as the call returns it.
Found(t) ==
  Promise!Result(request[t], [copy[t] EXCEPT !.message = Promise!String(@)])

ToUser(t) ==
  /\ pc[t] = "to_user"
  /\ \/ Answer(t, Found(t))
     \/ t \in Faults /\ Answer(t, Promise!Failed("EFAULT"))
  /\ UNCHANGED <<lesson, memory, lock, request, copy, index, history>>

Return(t) ==
  /\ pc[t] = "return"
  /\ GoTo(t, "idle")
  /\ request' = [request EXCEPT ![t] = Promise!NoRequest]
  /\ answer'  = [answer  EXCEPT ![t] = Promise!Pending]
  /\ copy'    = [copy    EXCEPT ![t] = [value |-> 0, message |-> Pad(<<>>), count |-> 0]]
  /\ index'   = [index   EXCEPT ![t] = 0]
  /\ seen'    = [seen    EXCEPT ![t] = Promise!Pending]
  /\ UNCHANGED <<lesson, memory, lock, record>>

-----------------------------------------------------------------------------
(* The mutex *)

\* Mutant: the commands that only read go without the mutex.
LockToSet(t) ==
  /\ pc[t] = "lock"
  /\ IF request[t].op \in {"GET_VALUE", "GET_DATA"} THEN UNCHANGED lock
     ELSE lock = None /\ lock' = t
  /\ GoTo(t, CASE request[t].op \in {"message_store", "message_show"} -> "bytes"
               [] request[t].op = "write_count_show"               -> "count"
               [] OTHER                                            -> "value")
  /\ record' = Promise!Apply(request[t], record)
  /\ seen'   = [seen EXCEPT ![t] = Promise!Result(request[t], record)]
  /\ UNCHANGED <<lesson, memory, request, answer, copy, index>>

\* Whoever takes the mutex has made his change, for all the others, at that moment.
Lock(t) ==
  /\ pc[t] = "lock" /\ lock = None
  /\ lock' = t
  /\ GoTo(t, CASE request[t].op \in {"message_store", "message_show"} -> "bytes"
               [] request[t].op = "write_count_show"               -> "count"
               [] OTHER                                            -> "value")
  /\ record' = Promise!Apply(request[t], record)
  /\ seen'   = [seen EXCEPT ![t] = Promise!Result(request[t], record)]
  /\ UNCHANGED <<lesson, memory, request, answer, copy, index>>

Unlock(t) ==
  /\ pc[t] = "unlock"
  /\ lock' = None
  /\ IF request[t].op \in {"GET_VALUE", "GET_DATA"}
     THEN GoTo(t, "to_user") /\ UNCHANGED answer
     ELSE Answer(t, Found(t))
  /\ UNCHANGED <<lesson, memory, request, copy, index, history>>

-----------------------------------------------------------------------------
(* Inside the lock *)

\* dev->value = value; of SET_DATA and GET_DATA the text comes next.
CopyValue(t) ==
  /\ pc[t] = "value"
  /\ IF request[t].op \in {"SET_VALUE", "SET_DATA"}
     THEN value' = copy[t].value /\ UNCHANGED copy
     ELSE copy' = [copy EXCEPT ![t].value = value] /\ UNCHANGED value
  /\ GoTo(t, IF request[t].op \in {"SET_DATA", "GET_DATA"} THEN "bytes" ELSE "unlock")
  /\ UNCHANGED <<lesson, message, write_count, lock, request, answer, index, history>>

\* One byte of a strscpy(), which ends with a Nul, its own if need be.
Strscpy(t, from) ==
  IF index[t] + 1 = MESSAGE_SIZE THEN Nul ELSE from[index[t] + 1]

\* To the byte after this one, or out of the lock after a Nul.
Advance(t, byte) ==
  IF byte = Nul THEN GoTo(t, "unlock") /\ UNCHANGED index
  ELSE index' = [index EXCEPT ![t] = @ + 1] /\ UNCHANGED pc

SetByte(t) ==
  LET byte == Strscpy(t, copy[t].message)
  IN  /\ In(t, "bytes", {"SET_DATA"})
      /\ message' = [message EXCEPT ![index[t] + 1] = byte]
      /\ Advance(t, byte)
      /\ UNCHANGED <<lesson, value, write_count, lock, request, answer, copy, history>>

GetByte(t) ==
  LET byte == Strscpy(t, message)
  IN  /\ In(t, "bytes", {"GET_DATA"})
      /\ copy' = [copy EXCEPT ![t].message[index[t] + 1] = byte]
      /\ Advance(t, byte)
      /\ UNCHANGED <<lesson, memory, lock, request, answer, history>>

\* sysfs_emit() of "%s" stops at a Nul and nowhere else.
ShowByte(t) ==
  /\ In(t, "bytes", {"message_show"}) /\ index[t] < MESSAGE_SIZE
  /\ copy' = [copy EXCEPT ![t].message[index[t] + 1] = message[index[t] + 1]]
  /\ Advance(t, message[index[t] + 1])
  /\ UNCHANGED <<lesson, memory, lock, request, answer, history>>

\* Mutant: the whole array may be filled.
KeptTooMuch(t) == Promise!Shorten(request[t].message, MESSAGE_SIZE)

\* What memcpy() copies: len is at most MESSAGE_SIZE - 1.
Kept(t) == Promise!Shorten(request[t].message, MESSAGE_SIZE - 1)

StoreByte(t) ==
  /\ In(t, "bytes", {"message_store"}) /\ index[t] < Len(Kept(t))
  /\ message' = [message EXCEPT ![index[t] + 1] = Kept(t)[index[t] + 1]]
  /\ index' = [index EXCEPT ![t] = @ + 1]
  /\ UNCHANGED <<lesson, value, write_count, lock, pc, request, answer, copy, history>>

\* The newline that ends the text, if there is one, gives way to the Nul.
StoreEnd(t) ==
  LET len == Len(Kept(t))
      end == IF message[len] = Newline THEN len ELSE len + 1
  IN  /\ In(t, "bytes", {"message_store"}) /\ index[t] = len
      /\ message' = [message EXCEPT ![end] = Nul]
      /\ write_count' = (write_count + 1) % COUNTS
      /\ GoTo(t, "unlock")
      /\ UNCHANGED <<lesson, value, lock, request, answer, copy, index, history>>

ReadCount(t) ==
  /\ pc[t] = "count"
  /\ copy' = [copy EXCEPT ![t].count = write_count]
  /\ GoTo(t, "unlock")
  /\ UNCHANGED <<lesson, memory, lock, request, answer, index, history>>

-----------------------------------------------------------------------------
Inside(t) ==
  \/ CopyValue(t) \/ SetByte(t) \/ GetByte(t) \/ ShowByte(t)
  \/ StoreByte(t) \/ StoreEnd(t) \/ ReadCount(t) \/ Unlock(t)

Progress(t) == Refuse(t) \/ FromUser(t) \/ Inside(t) \/ ToUser(t) \/ Return(t)

Next == \E t \in Tasks : Enter(t) \/ Lock(t) \/ Progress(t)

Spec == Init /\ [][Next]_vars

\* Tasks are scheduled; the mutex queues its waiters.
Fairness == \A t \in Tasks : WF_vars(Progress(t)) /\ SF_vars(Lock(t))

FairSpec == Spec /\ Fairness

-----------------------------------------------------------------------------
(* Properties *)

Labels == {"idle", "refuse", "from_user", "lock", "value", "bytes", "count",
           "unlock", "to_user", "return"}

Arr == [1..MESSAGE_SIZE -> Bytes \cup {Nul}]

\* In particular no loop over the text leaves its array.
TypeOK ==
  /\ lesson \in {"13", "16"}
  /\ value \in Values \cup {0} /\ message \in Arr /\ write_count \in 0..(COUNTS - 1)
  /\ lock \in Tasks \cup {None}
  /\ pc \in [Tasks -> Labels]
  /\ \A t \in Tasks : request[t] \in {Promise!NoRequest} \cup AttributeCalls \cup Commands
  /\ copy \in [Tasks -> [value : Values \cup {0}, message : Arr, count : 0..(COUNTS - 1)]]
  /\ index \in [Tasks -> 0..(MESSAGE_SIZE - 1)]

\* The callers cannot tell the data from a record that changes in one step: no
\* text is torn, no number is paired with the text of another call, no store goes
\* uncounted, and a call that fails has changed nothing.
IsRecord == Promise!Spec

\* Every call returns.
CallsReturn == \A t \in Tasks : (pc[t] # "idle") ~> (pc[t] = "idle")
=============================================================================
