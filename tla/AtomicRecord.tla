---------------------------- MODULE AtomicRecord ----------------------------
(***************************************************************************)
(* What lessons 13 and 16 promise of the data behind their attributes and  *)
(* commands: a number, a text and a count of the stores.  Every call reads *)
(* or replaces what it is about at one moment between its start and its    *)
(* end, or fails and changes nothing.                                      *)
(***************************************************************************)
EXTENDS Integers, Sequences

CONSTANTS
  Tasks,          \* the callers
  Requests,       \* the calls they may make
  Initial,        \* the record at the start
  Newline, Nul,   \* the bytes '\n' and 0
  MESSAGE_SIZE,   \* the size of the text's array
  COUNTS          \* the number of values of the unsigned write_count

VARIABLES
  record,         \* the data
  request,        \* the call each task is in
  answer          \* its outcome, once that is settled

recordVars == <<record, request, answer>>

NoRequest == [op |-> "none"]
Pending   == [status |-> "pending"]
Ok        == [status |-> "ok"]
Failed(e) == [status |-> e]

Getters == {"GET_VALUE", "GET_DATA"}
Setters == {"SET_VALUE", "SET_DATA"}

\* The string in an array of bytes: what stands before the first Nul.
String(bytes) ==
  LET ends == {i \in 1..Len(bytes) : bytes[i] = Nul}
  IN  IF ends = {} THEN bytes
      ELSE SubSeq(bytes, 1, (CHOOSE i \in ends : \A j \in ends : i <= j) - 1)

Shorten(bytes, n) == IF Len(bytes) > n THEN SubSeq(bytes, 1, n) ELSE bytes

\* What is kept of a text written to an attribute: as much as fits, without
\* the newline if that is the last byte that fits.
Line(text) ==
  LET kept == Shorten(text, MESSAGE_SIZE - 1)
  IN  IF kept[Len(kept)] = Newline THEN SubSeq(kept, 1, Len(kept) - 1) ELSE kept

Apply(r, rec) ==
  CASE r.op = "message_store" ->
         [rec EXCEPT !.message = Line(r.message), !.count = (@ + 1) % COUNTS]
    [] r.op = "SET_VALUE" -> [rec EXCEPT !.value = r.value]
    [] r.op = "SET_DATA"  ->
         [rec EXCEPT !.value = r.value,
                     !.message = Shorten(String(r.message), MESSAGE_SIZE - 1)]
    [] OTHER -> rec

Result(r, rec) ==
  CASE r.op = "message_show"     -> [status |-> "ok", message |-> rec.message]
    [] r.op = "write_count_show" -> [status |-> "ok", count |-> rec.count]
    [] r.op = "GET_VALUE"        -> [status |-> "ok", value |-> rec.value]
    [] r.op = "GET_DATA" -> [status |-> "ok", value |-> rec.value,
                             message |-> rec.message]
    [] OTHER -> Ok

-----------------------------------------------------------------------------
Init ==
  /\ record = Initial
  /\ request = [t \in Tasks |-> NoRequest]
  /\ answer  = [t \in Tasks |-> Pending]

Begin(t) ==
  /\ request[t] = NoRequest
  /\ \E r \in Requests : request' = [request EXCEPT ![t] = r]
  /\ UNCHANGED <<record, answer>>

Commit(t) ==
  /\ request[t].op \notin {"none", "OTHER"} /\ answer[t] = Pending
  /\ record' = Apply(request[t], record)
  /\ answer' = [answer EXCEPT ![t] = Result(request[t], record)]
  /\ UNCHANGED request

\* A bad address; the call must not have set anything.
Fail(t) ==
  /\ request[t].op \in Getters \/ (request[t].op \in Setters /\ answer[t] = Pending)
  /\ answer' = [answer EXCEPT ![t] = Failed("EFAULT")]
  /\ UNCHANGED <<record, request>>

Refuse(t) ==
  /\ request[t].op = "OTHER"
  /\ answer' = [answer EXCEPT ![t] = Failed("ENOTTY")]
  /\ UNCHANGED <<record, request>>

Return(t) ==
  /\ answer[t] # Pending
  /\ request' = [request EXCEPT ![t] = NoRequest]
  /\ answer'  = [answer  EXCEPT ![t] = Pending]
  /\ UNCHANGED record

Next == \E t \in Tasks : Begin(t) \/ Commit(t) \/ Fail(t) \/ Refuse(t) \/ Return(t)

Spec == Init /\ [][Next]_recordVars
=============================================================================
