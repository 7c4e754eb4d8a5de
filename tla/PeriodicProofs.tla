--------------------------- MODULE PeriodicProofs ---------------------------
(***************************************************************************)
(* Proofs about Periodic: the pace of the thread of 17-kthread and the     *)
(* deadlines and statistics of the timer of 18-timer, for any periods, any *)
(* width of the counter and however late anything is.                      *)
(***************************************************************************)
EXTENDS Periodic, TLAPS

Interval == Duration(AtLeastOne(period_ms))

CallbackPlaces == {"count", "minmax", "forward", "restart"}

\* The types of the history.
History ==
  /\ sets \in Nat /\ samples \in Nat /\ first \in Nat
  /\ printed \in Nat \cup {Never} /\ gap \in Nat \cup {Never}
  /\ lates \subseteq 0..MAX_NOW /\ sum_ns \in Nat

\* Which of thread and timer there is, and when.
Phases ==
  /\ cpu # "clamp" /\ sets = 0 => period_ms # 0
  /\ cpu \in {"clamp", "start", "failed"} => pc = "none" /\ ~queued
  /\ lesson = "17" => /\ pc \notin CallbackPlaces /\ report = NoReport
                      /\ cpu \notin {"cancel", "report"}
  /\ lesson = "18" => pc \in CallbackPlaces \cup {"none"}
  /\ lesson = "18" /\ cpu \in {"report", "unloaded"} => pc = "none" /\ ~queued
  /\ cpu # "unloaded" => report = NoReport

\* While nobody sets period_ms the thread waits until a period after its last
\* print, unless it is told to stop.
Pace ==
  /\ printed <= now
  /\ pc \in CallbackPlaces \cup {"none", "created"} => printed = Never /\ gap = Never
  /\ pc \in {"wait", "prepare", "recheck", "asleep"} => printed # Never
  /\ sets = 0 =>
       /\ pc \in {"prepare", "recheck"} => now + remaining >= printed + Interval
       /\ pc = "asleep" => wake_at >= printed + Interval
       /\ pc = "loop" /\ ~should_stop /\ printed # Never => now >= printed + Interval
  /\ OncePerPeriod

\* The callback runs at the deadline or later, until it has moved the deadline.
Grid ==
  /\ pc \in {"count", "minmax", "forward"} => expires <= now
  /\ NoDrift

Bounded(min, max, S) == min \in S /\ max \in S /\ \A x \in S : min <= x /\ x <= max

\* Until Count the number, and until MinMax the extremes, may lack the sample that
\* has been taken.
Extremes ==
  /\ samples = 0 <=> lates = {}
  /\ IF pc = "count" THEN samples # 0 /\ fired_count = (samples - 1) % COUNT_VALUES
                     ELSE fired_count = samples % COUNT_VALUES
  /\ lates = {} => min_late_ns = INFINITE /\ max_late_ns = 0
  /\ pc \in {"count", "minmax"} =>
       /\ late_ns \in lates
       /\ \/ lates = {late_ns} /\ min_late_ns = INFINITE /\ max_late_ns = 0
          \/ Bounded(min_late_ns, max_late_ns, lates \ {late_ns})
          \/ Bounded(min_late_ns, max_late_ns, lates)
  /\ pc \notin {"count", "minmax"} /\ lates # {} =>
       Bounded(min_late_ns, max_late_ns, lates)

\* And so may the total.
Sums == sum_ns = IF pc = "count" THEN total_late_ns + late_ns ELSE total_late_ns

IInv == TypeOK /\ History /\ Phases /\ Pace /\ Grid /\ Extremes /\ Sums /\ StatisticsAreTrue

-----------------------------------------------------------------------------
(* Lemmas about numbers *)

\* The sum of two naturals is one.
LEMMA SumIsNatural == \A a, b \in Nat : a + b \in Nat
  OBVIOUS


\* The distributive law.
LEMMA SumProduct ==
  ASSUME NEW a \in Int, NEW b \in Int, NEW n \in Int
  PROVE  n * (a + b) = n * a + n * b /\ n * a \in Int
  OBVIOUS

\* A product with a natural number grows with its other factor.
LEMMA Greater ==
  ASSUME NEW n \in Nat, NEW a \in Int, NEW b \in Int, a <= b
  PROVE  n * a <= n * b
<1>1. b - a \in Nat
  OBVIOUS
<1>2. n * (b - a) \in Nat
  BY <1>1
<1>3. n * b = n * a + n * (b - a)
  BY SumProduct
<1> QED
  BY <1>2, <1>3

\* Division with remainder.
LEMMA Division ==
  ASSUME NEW a \in Int, NEW n \in Nat \ {0}
  PROVE  /\ a \div n \in Int /\ a % n \in 0..(n - 1)
         /\ a = n * (a \div n) + (a % n)
  OBVIOUS

\* Quotient and remainder are unique.
LEMMA Quotient ==
  ASSUME NEW n \in Nat \ {0}, NEW q \in Int, NEW r \in 0..(n - 1)
  PROVE  (n * q + r) % n = r /\ (n * q + r) \div n = q
<1> DEFINE a == n * q + r
           p == a \div n
           s == a % n
<1>1. a \in Int /\ p \in Int /\ s \in 0..(n - 1) /\ a = n * p + s
  BY Division
<1> HIDE DEF a, p, s
<1>2. n * q + r = n * p + s
  BY <1>1 DEF a
<1>3. ASSUME p < q PROVE FALSE
  <2>1. n * (p + 1) <= n * q
    BY <1>1, <1>3, Greater
  <2>2. n * (p + 1) = n * p + n
    BY <1>1, SumProduct
  <2> QED
    BY <1>1, <1>2, <2>1, <2>2
<1>4. ASSUME p > q PROVE FALSE
  <2>1. n * (q + 1) <= n * p
    BY <1>1, <1>4, Greater
  <2>2. n * (q + 1) = n * q + n
    BY <1>1, SumProduct
  <2> QED
    BY <1>1, <1>2, <2>1, <2>2
<1>5. p = q
  BY <1>1, <1>3, <1>4
<1>6. s = r
  BY <1>1, <1>2, <1>5, SumProduct
<1> QED
  BY <1>5, <1>6 DEF a, p, s

\* A whole number of steps from a multiple of n is one.
LEMMA Multiples ==
  ASSUME NEW a \in Int, NEW n \in Nat \ {0}, NEW q \in Int, a % n = 0
  PROVE  (a + n * q) % n = 0
<1>1. a \div n \in Int /\ a = n * (a \div n)
  BY Division
<1>2. a + n * q = n * ((a \div n) + q) + 0
  BY <1>1, SumProduct
<1>3. (a \div n) + q \in Int /\ 0 \in 0..(n - 1)
  BY <1>1
<1>4. (n * ((a \div n) + q) + 0) % n = 0
  BY <1>3, Quotient
<1> QED
  BY <1>2, <1>4

\* A counter of n values, after one more step.
LEMMA OneMore ==
  ASSUME NEW a \in Nat, NEW n \in Nat \ {0}
  PROVE  ((a % n) + 1) % n = (a + 1) % n
<1> DEFINE q == a \div n
           r == a % n
<1>1. q \in Int /\ r \in 0..(n - 1) /\ a = n * q + r
  BY Division
<1> HIDE DEF q, r
<1>2. CASE r = n - 1
  <2>1. r + 1 = n * 1 + 0 /\ n * (q + 1) = n * q + n * 1
    BY <1>1, <1>2, SumProduct
  <2>2. a + 1 = n * (q + 1) + 0
    BY <1>1, <2>1
  <2>3. (n * 1 + 0) % n = 0 /\ (n * (q + 1) + 0) % n = 0
    BY <1>1, Quotient
  <2> QED
    BY <2>1, <2>2, <2>3 DEF r
<1>3. CASE r + 1 \in 0..(n - 1)
  <2>1. r + 1 = n * 0 + (r + 1) /\ a + 1 = n * q + (r + 1)
    BY <1>1
  <2>2. \A k \in Int : (n * k + (r + 1)) % n = r + 1
    BY <1>3, Quotient
  <2>3. (n * 0 + (r + 1)) % n = r + 1 /\ (n * q + (r + 1)) % n = r + 1
    BY <1>1, <2>2
  <2> QED
    BY <2>1, <2>3 DEF r
<1> QED
  BY <1>1, <1>2, <1>3

\* An average of natural numbers is one.
LEMMA Average ==
  ASSUME NEW n \in Nat \ {0}, NEW t \in Nat
  PROVE  t \div n \in Nat
<1> DEFINE q == t \div n
           r == t % n
<1>1. q \in Int /\ r \in 0..(n - 1) /\ t = n * q + r
  BY Division
<1> HIDE DEF q, r
<1> SUFFICES ASSUME q + 1 <= 0 PROVE FALSE
  BY <1>1 DEF q
<1>2. n * (q + 1) <= n * 0 /\ n * (q + 1) = n * q + n * 1
  BY <1>1, Greater, SumProduct
<1>3. n * q \in Int /\ n * 0 = 0 /\ n * 1 = n
  BY <1>1, SumProduct
<1> QED
  BY <1>1, <1>2, <1>3

\* A period that is not 0 takes some time.
LEMMA DurationFacts ==
  /\ \A p \in Nat : Duration(p) \in Nat /\ (p # 0 => Duration(p) # 0)
  /\ \A p \in Nat : AtLeastOne(p) \in Nat \ {0} /\ (p # 0 => AtLeastOne(p) = p)
<1>1. ASSUME NEW p \in Nat PROVE Duration(p) \in Nat /\ (p # 0 => Duration(p) # 0)
  <2>1. p * MS \in Nat
    BY NumberAssumption
  <2>2. p # 0 => p * MS # 0
    BY NumberAssumption
  <2> QED
    BY <2>1, <2>2 DEF Duration
<1> QED
  BY <1>1 DEF AtLeastOne

\* The interval of the moment.
LEMMA IntervalFacts ==
  ASSUME TypeOK
  PROVE  /\ period_ms \in Nat /\ Interval \in Nat \ {0}
         /\ Duration(period_ms) \in Nat
         /\ period_ms # 0 => Duration(period_ms) = Interval
<1>1. period_ms \in Nat
  BY NumberAssumption DEF TypeOK
<1> QED
  BY <1>1, DurationFacts DEF Interval

\* The bounds of a set that has them.
LEMMA MinAndMax ==
  ASSUME NEW S \in SUBSET Int, NEW a \in Int, NEW b \in Int, Bounded(a, b, S)
  PROVE  a = Min(S) /\ b = Max(S)
<1>1. a = Min(S)
  <2>1. Min(S) \in S /\ \A y \in S : Min(S) <= y
    BY DEF Bounded, Min
  <2>2. a \in S /\ \A y \in S : a <= y
    BY DEF Bounded
  <2>3. Min(S) <= a /\ a <= Min(S) /\ Min(S) \in Int
    BY <2>1, <2>2
  <2> QED
    BY <2>3
<1>2. b = Max(S)
  <2>1. Max(S) \in S /\ \A y \in S : Max(S) >= y
    BY DEF Bounded, Max
  <2>2. b \in S /\ \A y \in S : y <= b
    BY DEF Bounded
  <2>3. Max(S) <= b /\ b <= Max(S) /\ Max(S) \in Int
    BY <2>1, <2>2
  <2> QED
    BY <2>3
<1> QED
  BY <1>1, <1>2

-----------------------------------------------------------------------------
(* The invariant is inductive *)

\* The invariant holds when init is called.
LEMMA InitIInv == Init => IInv
<1> SUFFICES ASSUME Init PROVE IInv
  OBVIOUS
<1> USE NumberAssumption
<1>1. period_ms \in Nat /\ INFINITE \in Nat /\ 0 \in 0..(COUNT_VALUES - 1) /\ 0 \in 0..MAX_NOW
  BY DEF Init, INFINITE
<1>2. TypeOK
  <2>1. report \in [samples : 0..(COUNT_VALUES - 1), min : 0..INFINITE, avg : Nat, max : Nat]
    BY <1>1 DEF Init, NoReport
  <2>2. min_late_ns \in 0..INFINITE /\ now \in 0..MAX_NOW /\ late_ns \in 0..MAX_NOW
        /\ max_late_ns \in 0..MAX_NOW /\ fired_count \in 0..(COUNT_VALUES - 1)
    BY <1>1 DEF Init
  <2> QED
    BY <1>1, <2>1, <2>2 DEF Init, TypeOK
<1>3. History /\ Phases
  BY <1>1 DEF Init, History, Phases, CallbackPlaces, Never
<1>4. Pace /\ Grid
  BY <1>1 DEF Init, Pace, CallbackPlaces, OncePerPeriod, Grid, NoDrift, Never
<1>5. 0 % COUNT_VALUES = 0
  <2>1. COUNT_VALUES * 0 + 0 = 0 /\ 0 \in Int
    OBVIOUS
  <2> QED
    BY <1>1, <2>1, Quotient
<1>6. Extremes
  BY <1>5 DEF Init, Extremes, Bounded
<1>7. Sums /\ StatisticsAreTrue
  BY DEF Init, Sums, StatisticsAreTrue
<1> QED
  BY <1>2, <1>3, <1>4, <1>6, <1>7 DEF IInv

\* Every step keeps it.
LEMMA NextIInv == IInv /\ Next => IInv'
<1> SUFFICES ASSUME TypeOK, History, Phases, Pace, Grid, Extremes, Sums, StatisticsAreTrue,
                    Next
             PROVE  IInv'
  BY DEF IInv
<1> USE DEF thread, statistics, timer, prints, measured, history, Never
<1>0. /\ period_ms \in Nat /\ Interval \in Nat \ {0} /\ Duration(period_ms) \in Nat
      /\ period_ms # 0 => Duration(period_ms) = Interval
      /\ now \in Nat /\ INFINITE \in Nat /\ MAX_NOW \in Nat
  BY IntervalFacts, NumberAssumption DEF TypeOK, INFINITE
<1>1. CASE Tick
  <2>1. TypeOK'
    BY <1>0, <1>1 DEF Tick, TypeOK
  <2>2. History'
    BY <1>0, <1>1 DEF Tick, History, TypeOK
  <2>3. Phases'
    BY <1>0, <1>1 DEF Tick, Phases, CallbackPlaces, TypeOK, History
  <2>4. Pace'
    BY <1>0, <1>1
       DEF Tick, Pace, OncePerPeriod, CallbackPlaces, TypeOK, History, Phases, Interval
  <2>5. Grid'
    BY <1>0, <1>1 DEF Tick, Grid, NoDrift, TypeOK, History, Phases, CallbackPlaces, Interval
  <2>6. Extremes'
    BY <1>0, <1>1 DEF Tick, Extremes, Bounded, TypeOK, History, Phases, CallbackPlaces
  <2>7. Sums'
    BY <1>0, <1>1 DEF Tick, Sums, Phases, CallbackPlaces
  <2>8. StatisticsAreTrue'
    BY <1>0, <1>1 DEF Tick, StatisticsAreTrue, Phases, CallbackPlaces
  <2> QED
    BY <2>1, <2>2, <2>3, <2>4, <2>5, <2>6, <2>7, <2>8 DEF IInv
<1>2. CASE SetPeriod
  <2>1. TypeOK'
    BY <1>0, <1>2 DEF SetPeriod, TypeOK
  <2>2. History'
    BY <1>0, <1>2 DEF SetPeriod, History, TypeOK
  <2>3. Phases'
    BY <1>0, <1>2 DEF SetPeriod, Phases, CallbackPlaces, TypeOK, History
  <2>4. Pace'
    BY <1>0, <1>2 DEF SetPeriod, Pace, OncePerPeriod, CallbackPlaces, TypeOK, History,
       Phases, Interval
  <2>5. Grid'
    BY <1>0, <1>2
       DEF SetPeriod, Grid, NoDrift, TypeOK, History, Phases, CallbackPlaces, Interval
  <2>6. Extremes'
    BY <1>0, <1>2 DEF SetPeriod, Extremes, Bounded, TypeOK, History, Phases, CallbackPlaces
  <2>7. Sums'
    BY <1>0, <1>2 DEF SetPeriod, Sums, Phases, CallbackPlaces
  <2>8. StatisticsAreTrue'
    BY <1>0, <1>2 DEF SetPeriod, StatisticsAreTrue, Phases, CallbackPlaces
  <2> QED
    BY <2>1, <2>2, <2>3, <2>4, <2>5, <2>6, <2>7, <2>8 DEF IInv
<1>3. CASE Rmmod
  <2>1. TypeOK'
    BY <1>0, <1>3 DEF Rmmod, TypeOK
  <2>2. History'
    BY <1>0, <1>3 DEF Rmmod, History, TypeOK
  <2>3. Phases'
    BY <1>0, <1>3 DEF Rmmod, Phases, CallbackPlaces, TypeOK, History
  <2>4. Pace'
    BY <1>0, <1>3
       DEF Rmmod, Pace, OncePerPeriod, CallbackPlaces, TypeOK, History, Phases, Interval
  <2>5. Grid'
    BY <1>0, <1>3
       DEF Rmmod, Grid, NoDrift, TypeOK, History, Phases, CallbackPlaces, Interval
  <2>6. Extremes'
    BY <1>0, <1>3 DEF Rmmod, Extremes, Bounded, TypeOK, History, Phases, CallbackPlaces
  <2>7. Sums'
    BY <1>0, <1>3 DEF Rmmod, Sums, Phases, CallbackPlaces
  <2>8. StatisticsAreTrue'
    BY <1>0, <1>3 DEF Rmmod, StatisticsAreTrue, Phases, CallbackPlaces
  <2> QED
    BY <2>1, <2>2, <2>3, <2>4, <2>5, <2>6, <2>7, <2>8 DEF IInv
<1>4. CASE InitClamp
  <2>1. TypeOK'
    BY <1>0, <1>4 DEF InitClamp, AtLeastOne, TypeOK
  <2>2. History'
    BY <1>0, <1>4 DEF InitClamp, AtLeastOne, History, TypeOK
  <2>3. Phases'
    BY <1>0, <1>4 DEF InitClamp, AtLeastOne, Phases, CallbackPlaces, TypeOK, History
  <2>4. Pace'
    BY <1>0, <1>4 DEF InitClamp, AtLeastOne, Pace, OncePerPeriod, CallbackPlaces, TypeOK,
       History, Phases, Interval
  <2>5. Grid'
    BY <1>0, <1>4 DEF InitClamp, AtLeastOne, Grid, NoDrift, TypeOK, History, Phases,
       CallbackPlaces, Interval
  <2>6. Extremes'
    BY <1>0, <1>4 DEF InitClamp, AtLeastOne, Extremes, Bounded, TypeOK, History, Phases,
       CallbackPlaces
  <2>7. Sums'
    BY <1>0, <1>4 DEF InitClamp, AtLeastOne, Sums, Phases, CallbackPlaces
  <2>8. StatisticsAreTrue'
    BY <1>0, <1>4 DEF InitClamp, AtLeastOne, StatisticsAreTrue, Phases, CallbackPlaces
  <2> QED
    BY <2>1, <2>2, <2>3, <2>4, <2>5, <2>6, <2>7, <2>8 DEF IInv
<1>5. CASE InitThread
  <2>1. TypeOK'
    BY <1>0, <1>5 DEF InitThread, TypeOK
  <2>2. History'
    BY <1>0, <1>5 DEF InitThread, History, TypeOK
  <2>3. Phases'
    BY <1>0, <1>5 DEF InitThread, Phases, CallbackPlaces, TypeOK, History
  <2>4. Pace'
    BY <1>0, <1>5 DEF InitThread, Pace, OncePerPeriod, CallbackPlaces, TypeOK, History,
       Phases, Interval
  <2>5. Grid'
    BY <1>0, <1>5
       DEF InitThread, Grid, NoDrift, TypeOK, History, Phases, CallbackPlaces, Interval
  <2>6. Extremes'
    BY <1>0, <1>5 DEF InitThread, Extremes, Bounded, TypeOK, History, Phases, CallbackPlaces
  <2>7. Sums'
    BY <1>0, <1>5 DEF InitThread, Sums, Phases, CallbackPlaces
  <2>8. StatisticsAreTrue'
    BY <1>0, <1>5 DEF InitThread, StatisticsAreTrue, Phases, CallbackPlaces
  <2> QED
    BY <2>1, <2>2, <2>3, <2>4, <2>5, <2>6, <2>7, <2>8 DEF IInv
<1>6. CASE InitTimer
  <2>0. (now + Interval - (now + Interval)) % Interval = 0
    <3>1. Interval * 0 + 0 = now + Interval - (now + Interval) /\ 0 \in 0..(Interval - 1)
      BY <1>0
    <3> QED
      BY <1>0, <3>1, Quotient
  <2>1. TypeOK'
    BY <1>0, <1>6 DEF InitTimer, TypeOK
  <2>2. History'
    BY <1>0, <1>6 DEF InitTimer, History, TypeOK
  <2>3. Phases'
    BY <1>0, <1>6 DEF InitTimer, Phases, CallbackPlaces, TypeOK, History
  <2>4. Pace'
    BY <1>0, <1>6
       DEF InitTimer, Pace, OncePerPeriod, CallbackPlaces, TypeOK, History, Phases
  <2>5. Grid'
    <3>1. lesson = "18" /\ sets' = sets /\ cpu' = "loaded" /\ pc = "none"
      BY <1>6 DEF InitTimer, Phases
    <3>2. first' = now + Duration(period_ms) /\ expires' = first' /\ now' = now
          /\ period_ms' = period_ms /\ pc' = pc
      BY <1>6 DEF InitTimer
    <3>3. sets = 0 => Duration(period_ms) = Interval
      BY <1>0, <1>6 DEF InitTimer, Phases
    <3> QED
      BY <1>0, <2>0, <3>1, <3>2, <3>3 DEF Grid, NoDrift, Interval
  <2>6. Extremes'
    BY <1>0, <1>6 DEF InitTimer, Extremes, Bounded, TypeOK, History, Phases, CallbackPlaces
  <2>7. Sums'
    BY <1>0, <1>6 DEF InitTimer, Sums, Phases, CallbackPlaces
  <2>8. StatisticsAreTrue'
    BY <1>0, <1>6 DEF InitTimer, StatisticsAreTrue, Phases, CallbackPlaces
  <2> QED
    BY <2>1, <2>2, <2>3, <2>4, <2>5, <2>6, <2>7, <2>8 DEF IInv
<1>7. CASE SetShouldStop
  <2>1. TypeOK'
    BY <1>0, <1>7 DEF SetShouldStop, Stop, TypeOK
  <2>2. History'
    BY <1>0, <1>7 DEF SetShouldStop, Stop, History, TypeOK
  <2>3. Phases'
    BY <1>0, <1>7 DEF SetShouldStop, Stop, Phases, CallbackPlaces, TypeOK, History
  <2>4. Pace'
    BY <1>0, <1>7 DEF SetShouldStop, Stop, Pace, OncePerPeriod, CallbackPlaces, TypeOK,
       History, Phases, Interval
  <2>5. Grid'
    BY <1>0, <1>7 DEF SetShouldStop, Stop, Grid, NoDrift, TypeOK, History, Phases,
       CallbackPlaces, Interval
  <2>6. Extremes'
    BY <1>0, <1>7
       DEF SetShouldStop, Stop, Extremes, Bounded, TypeOK, History, Phases, CallbackPlaces
  <2>7. Sums'
    BY <1>0, <1>7 DEF SetShouldStop, Stop, Sums, Phases, CallbackPlaces
  <2>8. StatisticsAreTrue'
    BY <1>0, <1>7 DEF SetShouldStop, Stop, StatisticsAreTrue, Phases, CallbackPlaces
  <2> QED
    BY <2>1, <2>2, <2>3, <2>4, <2>5, <2>6, <2>7, <2>8 DEF IInv
<1>8. CASE WakeThread
  <2>1. TypeOK'
    BY <1>0, <1>8 DEF WakeThread, Stop, TypeOK
  <2>2. History'
    BY <1>0, <1>8 DEF WakeThread, Stop, History, TypeOK
  <2>3. Phases'
    BY <1>0, <1>8 DEF WakeThread, Stop, Phases, CallbackPlaces, TypeOK, History
  <2>4. Pace'
    BY <1>0, <1>8 DEF WakeThread, Stop, Pace, OncePerPeriod, CallbackPlaces, TypeOK,
       History, Phases, Interval
  <2>5. Grid'
    BY <1>0, <1>8 DEF WakeThread, Stop, Grid, NoDrift, TypeOK, History, Phases,
       CallbackPlaces, Interval
  <2>6. Extremes'
    BY <1>0, <1>8
       DEF WakeThread, Stop, Extremes, Bounded, TypeOK, History, Phases, CallbackPlaces
  <2>7. Sums'
    BY <1>0, <1>8 DEF WakeThread, Stop, Sums, Phases, CallbackPlaces
  <2>8. StatisticsAreTrue'
    BY <1>0, <1>8 DEF WakeThread, Stop, StatisticsAreTrue, Phases, CallbackPlaces
  <2> QED
    BY <2>1, <2>2, <2>3, <2>4, <2>5, <2>6, <2>7, <2>8 DEF IInv
<1>9. CASE ThreadExited
  <2>1. TypeOK'
    BY <1>0, <1>9 DEF ThreadExited, Stop, TypeOK
  <2>2. History'
    BY <1>0, <1>9 DEF ThreadExited, Stop, History, TypeOK
  <2>3. Phases'
    BY <1>0, <1>9 DEF ThreadExited, Stop, Phases, CallbackPlaces, TypeOK, History
  <2>4. Pace'
    BY <1>0, <1>9 DEF ThreadExited, Stop, Pace, OncePerPeriod, CallbackPlaces, TypeOK,
       History, Phases, Interval
  <2>5. Grid'
    BY <1>0, <1>9 DEF ThreadExited, Stop, Grid, NoDrift, TypeOK, History, Phases,
       CallbackPlaces, Interval
  <2>6. Extremes'
    BY <1>0, <1>9
       DEF ThreadExited, Stop, Extremes, Bounded, TypeOK, History, Phases, CallbackPlaces
  <2>7. Sums'
    BY <1>0, <1>9 DEF ThreadExited, Stop, Sums, Phases, CallbackPlaces
  <2>8. StatisticsAreTrue'
    BY <1>0, <1>9 DEF ThreadExited, Stop, StatisticsAreTrue, Phases, CallbackPlaces
  <2> QED
    BY <2>1, <2>2, <2>3, <2>4, <2>5, <2>6, <2>7, <2>8 DEF IInv
<1>10. CASE Cancel
  <2>1. TypeOK'
    BY <1>0, <1>10 DEF Cancel, TypeOK
  <2>2. History'
    BY <1>0, <1>10 DEF Cancel, History, TypeOK
  <2>3. Phases'
    BY <1>0, <1>10 DEF Cancel, Phases, CallbackPlaces, TypeOK, History
  <2>4. Pace'
    BY <1>0, <1>10
       DEF Cancel, Pace, OncePerPeriod, CallbackPlaces, TypeOK, History, Phases, Interval
  <2>5. Grid'
    BY <1>0, <1>10
       DEF Cancel, Grid, NoDrift, TypeOK, History, Phases, CallbackPlaces, Interval
  <2>6. Extremes'
    BY <1>0, <1>10 DEF Cancel, Extremes, Bounded, TypeOK, History, Phases, CallbackPlaces
  <2>7. Sums'
    BY <1>0, <1>10 DEF Cancel, Sums, Phases, CallbackPlaces
  <2>8. StatisticsAreTrue'
    BY <1>0, <1>10 DEF Cancel, StatisticsAreTrue, Phases, CallbackPlaces
  <2> QED
    BY <2>1, <2>2, <2>3, <2>4, <2>5, <2>6, <2>7, <2>8 DEF IInv
<1>11. CASE Report
  <2>1. TypeOK'
    <3>1. ASSUME fired_count # 0
          PROVE  total_late_ns \div fired_count \in Nat
      BY <3>1, NumberAssumption, Average DEF TypeOK
    <3>2. NoReport \in [samples : 0..(COUNT_VALUES - 1), min : 0..INFINITE, avg : Nat, max : Nat]
      BY <1>0, NumberAssumption DEF NoReport
    <3>3. report' \in [samples : 0..(COUNT_VALUES - 1), min : 0..INFINITE, avg : Nat, max : Nat]
      BY <1>0, <1>11, <3>1, <3>2 DEF Report, TypeOK
    <3> QED
      BY <1>11, <3>3 DEF Report, TypeOK
  <2>2. History'
    BY <1>0, <1>11 DEF Report, History, TypeOK
  <2>3. Phases'
    BY <1>0, <1>11 DEF Report, Phases, CallbackPlaces, TypeOK, History
  <2>4. Pace'
    BY <1>0, <1>11
       DEF Report, Pace, OncePerPeriod, CallbackPlaces, TypeOK, History, Phases, Interval
  <2>5. Grid'
    BY <1>0, <1>11
       DEF Report, Grid, NoDrift, TypeOK, History, Phases, CallbackPlaces, Interval
  <2>6. Extremes'
    BY <1>0, <1>11 DEF Report, Extremes, Bounded, TypeOK, History, Phases, CallbackPlaces
  <2>7. Sums'
    BY <1>0, <1>11 DEF Report, Sums, Phases, CallbackPlaces
  <2>8. StatisticsAreTrue'
    <3>1. /\ report' = IF fired_count = 0 THEN NoReport
                      ELSE [samples |-> fired_count, min |-> min_late_ns,
                            avg |-> total_late_ns \div fired_count, max |-> max_late_ns]
          /\ lesson' = lesson /\ UNCHANGED measured
      BY <1>11 DEF Report
    <3>2. pc = "none"
      <4>1. lesson = "18"
        BY <1>11, LessonAssumption DEF Report, Phases, TypeOK
      <4> QED
        BY <1>11, <4>1 DEF Report, Phases
    <3>3. /\ fired_count = samples % COUNT_VALUES /\ samples \in Nat
          /\ sum_ns = total_late_ns
      BY <3>2 DEF Extremes, Sums, History
    <3>4. report'.samples = samples % COUNT_VALUES
      BY <3>1, <3>3 DEF NoReport
    <3>5. samples < COUNT_VALUES => samples % COUNT_VALUES = samples
      <4>1. COUNT_VALUES * 0 + samples = samples
        BY <3>3, NumberAssumption
      <4> QED
        BY <3>3, <4>1, NumberAssumption, Quotient
    <3>6. ASSUME fired_count # 0
          PROVE  report'.min = Min(lates) /\ report'.max = Max(lates)
      <4>1. samples # 0
        BY <3>3, <3>5, <3>6, NumberAssumption
      <4>2. Bounded(min_late_ns, max_late_ns, lates)
        BY <3>2, <4>1 DEF Extremes
      <4>3. lates \subseteq Nat /\ min_late_ns \in Nat /\ max_late_ns \in Nat
        BY <1>0 DEF History, TypeOK
      <4>4. min_late_ns = Min(lates) /\ max_late_ns = Max(lates)
        BY <4>2, <4>3, MinAndMax
      <4> QED
        BY <3>1, <3>6, <4>4
    <3>7. ASSUME samples \in 1..(COUNT_VALUES - 1) PROVE report'.avg = sum_ns \div samples
      <4>1. fired_count = samples /\ fired_count # 0
        BY <3>3, <3>5, <3>7, NumberAssumption
      <4> QED
        BY <3>1, <3>3, <4>1
    <3> QED
      BY <3>1, <3>3, <3>4, <3>6, <3>7 DEF StatisticsAreTrue
  <2> QED
    BY <2>1, <2>2, <2>3, <2>4, <2>5, <2>6, <2>7, <2>8 DEF IInv
<1>12. CASE ThreadStarts
  <2>1. TypeOK'
    BY <1>0, <1>12 DEF ThreadStarts, Thread, TypeOK
  <2>2. History'
    BY <1>0, <1>12 DEF ThreadStarts, Thread, History, TypeOK
  <2>3. Phases'
    BY <1>0, <1>12 DEF ThreadStarts, Thread, Phases, CallbackPlaces, TypeOK, History
  <2>4. Pace'
    BY <1>0, <1>12 DEF ThreadStarts, Thread, Pace, OncePerPeriod, CallbackPlaces, TypeOK,
       History, Phases, Interval
  <2>5. Grid'
    BY <1>0, <1>12 DEF ThreadStarts, Thread, Grid, NoDrift, TypeOK, History, Phases,
       CallbackPlaces, Interval
  <2>6. Extremes'
    BY <1>0, <1>12
       DEF ThreadStarts, Thread, Extremes, Bounded, TypeOK, History, Phases, CallbackPlaces
  <2>7. Sums'
    BY <1>0, <1>12 DEF ThreadStarts, Thread, Sums, Phases, CallbackPlaces
  <2>8. StatisticsAreTrue'
    BY <1>0, <1>12 DEF ThreadStarts, Thread, StatisticsAreTrue, Phases, CallbackPlaces
  <2> QED
    BY <2>1, <2>2, <2>3, <2>4, <2>5, <2>6, <2>7, <2>8 DEF IInv
<1>13. CASE ThreadLoop
  <2>1. TypeOK'
    BY <1>0, <1>13 DEF ThreadLoop, Thread, TypeOK
  <2>2. History'
    BY <1>0, <1>13 DEF ThreadLoop, Thread, Pace, History, TypeOK
  <2>3. Phases'
    BY <1>0, <1>13 DEF ThreadLoop, Thread, Phases, CallbackPlaces, TypeOK, History
  <2>4. Pace'
    BY <1>0, <1>13 DEF ThreadLoop, Thread, Pace, OncePerPeriod, CallbackPlaces, TypeOK,
       History, Phases, Interval
  <2>5. Grid'
    BY <1>0, <1>13 DEF ThreadLoop, Thread, Grid, NoDrift, TypeOK, History, Phases,
       CallbackPlaces, Interval
  <2>6. Extremes'
    BY <1>0, <1>13
       DEF ThreadLoop, Thread, Extremes, Bounded, TypeOK, History, Phases, CallbackPlaces
  <2>7. Sums'
    BY <1>0, <1>13 DEF ThreadLoop, Thread, Sums, Phases, CallbackPlaces
  <2>8. StatisticsAreTrue'
    BY <1>0, <1>13 DEF ThreadLoop, Thread, StatisticsAreTrue, Phases, CallbackPlaces
  <2> QED
    BY <2>1, <2>2, <2>3, <2>4, <2>5, <2>6, <2>7, <2>8 DEF IInv
<1>14. CASE ThreadWaits
  <2>1. TypeOK'
    BY <1>0, <1>14 DEF ThreadWaits, Thread, TypeOK
  <2>2. History'
    BY <1>0, <1>14 DEF ThreadWaits, Thread, History, TypeOK
  <2>3. Phases'
    BY <1>0, <1>14 DEF ThreadWaits, Thread, Phases, CallbackPlaces, TypeOK, History
  <2>4. Pace'
    BY <1>0, <1>14 DEF ThreadWaits, Thread, Pace, OncePerPeriod, CallbackPlaces, TypeOK,
       History, Phases, Interval
  <2>5. Grid'
    BY <1>0, <1>14 DEF ThreadWaits, Thread, Grid, NoDrift, TypeOK, History, Phases,
       CallbackPlaces, Interval
  <2>6. Extremes'
    BY <1>0, <1>14
       DEF ThreadWaits, Thread, Extremes, Bounded, TypeOK, History, Phases, CallbackPlaces
  <2>7. Sums'
    BY <1>0, <1>14 DEF ThreadWaits, Thread, Sums, Phases, CallbackPlaces
  <2>8. StatisticsAreTrue'
    BY <1>0, <1>14 DEF ThreadWaits, Thread, StatisticsAreTrue, Phases, CallbackPlaces
  <2> QED
    BY <2>1, <2>2, <2>3, <2>4, <2>5, <2>6, <2>7, <2>8 DEF IInv
<1>15. CASE ThreadPrepares
  <2>1. TypeOK'
    BY <1>0, <1>15 DEF ThreadPrepares, Thread, TypeOK
  <2>2. History'
    BY <1>0, <1>15 DEF ThreadPrepares, Thread, History, TypeOK
  <2>3. Phases'
    BY <1>0, <1>15 DEF ThreadPrepares, Thread, Phases, CallbackPlaces, TypeOK, History
  <2>4. Pace'
    BY <1>0, <1>15 DEF ThreadPrepares, Thread, Pace, OncePerPeriod, CallbackPlaces,
       TypeOK, History, Phases, Interval
  <2>5. Grid'
    BY <1>0, <1>15 DEF ThreadPrepares, Thread, Grid, NoDrift, TypeOK, History, Phases,
       CallbackPlaces, Interval
  <2>6. Extremes'
    BY <1>0, <1>15 DEF ThreadPrepares, Thread, Extremes, Bounded, TypeOK, History, Phases,
       CallbackPlaces
  <2>7. Sums'
    BY <1>0, <1>15 DEF ThreadPrepares, Thread, Sums, Phases, CallbackPlaces
  <2>8. StatisticsAreTrue'
    BY <1>0, <1>15 DEF ThreadPrepares, Thread, StatisticsAreTrue, Phases, CallbackPlaces
  <2> QED
    BY <2>1, <2>2, <2>3, <2>4, <2>5, <2>6, <2>7, <2>8 DEF IInv
<1>16. CASE ThreadRechecks
  <2>1. TypeOK'
    BY <1>0, <1>16 DEF ThreadRechecks, Thread, TypeOK
  <2>2. History'
    BY <1>0, <1>16 DEF ThreadRechecks, Thread, History, TypeOK
  <2>3. Phases'
    BY <1>0, <1>16 DEF ThreadRechecks, Thread, Phases, CallbackPlaces, TypeOK, History
  <2>4. Pace'
    BY <1>0, <1>16 DEF ThreadRechecks, Thread, Pace, OncePerPeriod, CallbackPlaces,
       TypeOK, History, Phases, Interval
  <2>5. Grid'
    BY <1>0, <1>16 DEF ThreadRechecks, Thread, Grid, NoDrift, TypeOK, History, Phases,
       CallbackPlaces, Interval
  <2>6. Extremes'
    BY <1>0, <1>16 DEF ThreadRechecks, Thread, Extremes, Bounded, TypeOK, History, Phases,
       CallbackPlaces
  <2>7. Sums'
    BY <1>0, <1>16 DEF ThreadRechecks, Thread, Sums, Phases, CallbackPlaces
  <2>8. StatisticsAreTrue'
    BY <1>0, <1>16 DEF ThreadRechecks, Thread, StatisticsAreTrue, Phases, CallbackPlaces
  <2> QED
    BY <2>1, <2>2, <2>3, <2>4, <2>5, <2>6, <2>7, <2>8 DEF IInv
<1>17. CASE ThreadWakes
  <2>1. TypeOK'
    BY <1>0, <1>17 DEF ThreadWakes, Thread, TypeOK
  <2>2. History'
    BY <1>0, <1>17 DEF ThreadWakes, Thread, History, TypeOK
  <2>3. Phases'
    BY <1>0, <1>17 DEF ThreadWakes, Thread, Phases, CallbackPlaces, TypeOK, History
  <2>4. Pace'
    BY <1>0, <1>17 DEF ThreadWakes, Thread, Pace, OncePerPeriod, CallbackPlaces, TypeOK,
       History, Phases, Interval
  <2>5. Grid'
    BY <1>0, <1>17 DEF ThreadWakes, Thread, Grid, NoDrift, TypeOK, History, Phases,
       CallbackPlaces, Interval
  <2>6. Extremes'
    BY <1>0, <1>17
       DEF ThreadWakes, Thread, Extremes, Bounded, TypeOK, History, Phases, CallbackPlaces
  <2>7. Sums'
    BY <1>0, <1>17 DEF ThreadWakes, Thread, Sums, Phases, CallbackPlaces
  <2>8. StatisticsAreTrue'
    BY <1>0, <1>17 DEF ThreadWakes, Thread, StatisticsAreTrue, Phases, CallbackPlaces
  <2> QED
    BY <2>1, <2>2, <2>3, <2>4, <2>5, <2>6, <2>7, <2>8 DEF IInv
<1>18. CASE ThreadTimeout
  <2>1. TypeOK'
    BY <1>0, <1>18 DEF ThreadTimeout, Thread, TypeOK
  <2>2. History'
    BY <1>0, <1>18 DEF ThreadTimeout, Thread, History, TypeOK
  <2>3. Phases'
    BY <1>0, <1>18 DEF ThreadTimeout, Thread, Phases, CallbackPlaces, TypeOK, History
  <2>4. Pace'
    BY <1>0, <1>18 DEF ThreadTimeout, Thread, Pace, OncePerPeriod, CallbackPlaces, TypeOK,
       History, Phases, Interval
  <2>5. Grid'
    BY <1>0, <1>18 DEF ThreadTimeout, Thread, Grid, NoDrift, TypeOK, History, Phases,
       CallbackPlaces, Interval
  <2>6. Extremes'
    BY <1>0, <1>18 DEF ThreadTimeout, Thread, Extremes, Bounded, TypeOK, History, Phases,
       CallbackPlaces
  <2>7. Sums'
    BY <1>0, <1>18 DEF ThreadTimeout, Thread, Sums, Phases, CallbackPlaces
  <2>8. StatisticsAreTrue'
    BY <1>0, <1>18 DEF ThreadTimeout, Thread, StatisticsAreTrue, Phases, CallbackPlaces
  <2> QED
    BY <2>1, <2>2, <2>3, <2>4, <2>5, <2>6, <2>7, <2>8 DEF IInv
<1>19. CASE TimerFires
  <2>a. /\ late_ns' \in 0..MAX_NOW
        /\ samples' = samples + 1 /\ lates' = lates \cup {late_ns'}
        /\ sum_ns' = sum_ns + late_ns' /\ pc = "none" /\ pc' = "count"
        /\ UNCHANGED <<min_late_ns, max_late_ns, fired_count, total_late_ns>>
    <3>1. PICK behind \in 0..CLOCK_SKEW :
            Measure(IF now - behind > expires THEN now - behind - expires ELSE 0)
      BY <1>19 DEF TimerFires
    <3>2. late_ns' \in 0..MAX_NOW
      BY <1>0, <3>1, NumberAssumption DEF TypeOK, Measure
    <3> QED
      BY <1>19, <3>1, <3>2 DEF TimerFires, Callback, Measure
  <2>b. samples \in Nat /\ lates \subseteq Nat /\ sum_ns \in Nat
    BY <1>0 DEF History
  <2>1. TypeOK'
    BY <1>19, <2>a DEF TimerFires, Callback, TypeOK
  <2>2. History'
    <3>1. UNCHANGED <<sets, printed, gap, first>>
      BY <1>19 DEF TimerFires, Callback
    <3>2. lates' \subseteq 0..MAX_NOW
      BY <2>a DEF History
    <3>3. samples' \in Nat /\ sum_ns' \in Nat
      <4>1. late_ns' \in Nat
        BY <1>0, <2>a
      <4>2. samples' \in Nat
        BY <2>a, <2>b
      <4>3. sum_ns' \in Nat
        BY <2>a, <2>b, <4>1, SumIsNatural
      <4> QED
        BY <4>2, <4>3
    <3> QED
      BY <3>1, <3>2, <3>3 DEF History
  <2>3. Phases'
    BY <1>0, <1>19 DEF TimerFires, Callback, Phases, CallbackPlaces, TypeOK, History
  <2>4. Pace'
    BY <1>0, <1>19 DEF TimerFires, Callback, Pace, OncePerPeriod, CallbackPlaces, TypeOK,
       History, Phases, Interval
  <2>5. Grid'
    BY <1>0, <1>19 DEF TimerFires, Callback, Grid, NoDrift, TypeOK, History, Phases,
       CallbackPlaces, Interval
  <2>6. Extremes'
    <3>1. \/ lates' = {late_ns'} /\ min_late_ns = INFINITE /\ max_late_ns = 0
          \/ Bounded(min_late_ns, max_late_ns, lates' \ {late_ns'})
          \/ Bounded(min_late_ns, max_late_ns, lates')
      <4>1. CASE lates = {}
        BY <2>a, <4>1 DEF Extremes
      <4>2. CASE lates # {} /\ late_ns' \in lates
        <5>1. lates' = lates
          BY <2>a, <4>2
        <5> QED
          BY <2>a, <4>2, <5>1 DEF Extremes
      <4>3. CASE lates # {} /\ late_ns' \notin lates
        <5>1. lates' \ {late_ns'} = lates
          BY <2>a, <4>3
        <5> QED
          BY <2>a, <4>3, <5>1 DEF Extremes
      <4> QED
        BY <4>1, <4>2, <4>3
    <3>2. samples' # 0 /\ samples' - 1 = samples /\ lates' # {}
      BY <2>a, <2>b
    <3>3. fired_count = samples % COUNT_VALUES
      BY <2>a DEF Extremes
    <3> QED
      BY <2>a, <3>1, <3>2, <3>3 DEF Extremes, Bounded
  <2>7. Sums'
    BY <1>0, <2>a, <2>b DEF Sums, TypeOK
  <2>8. StatisticsAreTrue'
    BY <1>0, <1>19 DEF TimerFires, Callback, StatisticsAreTrue, Phases, CallbackPlaces
  <2> QED
    BY <2>1, <2>2, <2>3, <2>4, <2>5, <2>6, <2>7, <2>8 DEF IInv
<1>20. CASE Count
  <2>1. TypeOK'
    <3>1. fired_count' \in 0..(COUNT_VALUES - 1)
      <4>1. fired_count + 1 \in Int
        BY NumberAssumption DEF TypeOK
      <4> QED
        BY <1>20, <4>1, NumberAssumption, Division DEF Count
    <3>2. total_late_ns' \in Nat
      BY <1>0, <1>20 DEF Count, TypeOK
    <3> QED
      BY <1>20, <3>1, <3>2 DEF Count, Callback, TypeOK
  <2>2. History'
    BY <1>0, <1>20 DEF Count, Callback, History, TypeOK
  <2>3. Phases'
    BY <1>0, <1>20 DEF Count, Callback, Phases, CallbackPlaces, TypeOK, History
  <2>4. Pace'
    BY <1>0, <1>20 DEF Count, Callback, Pace, OncePerPeriod, CallbackPlaces, TypeOK,
       History, Phases, Interval
  <2>5. Grid'
    BY <1>0, <1>20 DEF Count, Callback, Grid, NoDrift, TypeOK, History, Phases,
       CallbackPlaces, Interval
  <2>6. Extremes'
    <3>1. /\ pc = "count" /\ pc' = "minmax"
          /\ samples \in Nat /\ samples - 1 \in Nat
          /\ UNCHANGED <<lates, samples, late_ns, min_late_ns, max_late_ns>>
      BY <1>20 DEF Count, Callback, Extremes, History
    <3>2. fired_count' = samples' % COUNT_VALUES
      <4>1. fired_count' = (((samples - 1) % COUNT_VALUES) + 1) % COUNT_VALUES
        BY <1>20, <3>1 DEF Count, Extremes
      <4>2. (samples - 1) + 1 = samples
        BY <3>1
      <4> QED
        BY <3>1, <4>1, <4>2, NumberAssumption, OneMore
    <3> QED
      BY <3>1, <3>2 DEF Extremes, Bounded
  <2>7. Sums'
    BY <1>0, <1>20 DEF Count, Callback, Sums, TypeOK
  <2>8. StatisticsAreTrue'
    BY <1>0, <1>20 DEF Count, Callback, StatisticsAreTrue, Phases, CallbackPlaces
  <2> QED
    BY <2>1, <2>2, <2>3, <2>4, <2>5, <2>6, <2>7, <2>8 DEF IInv
<1>21. CASE MinMax
  <2>1. TypeOK'
    BY <1>0, <1>21 DEF MinMax, Callback, TypeOK
  <2>2. History'
    BY <1>0, <1>21 DEF MinMax, Callback, History, TypeOK
  <2>3. Phases'
    BY <1>0, <1>21 DEF MinMax, Callback, Phases, CallbackPlaces, TypeOK, History
  <2>4. Pace'
    BY <1>0, <1>21 DEF MinMax, Callback, Pace, OncePerPeriod, CallbackPlaces, TypeOK,
       History, Phases, Interval
  <2>5. Grid'
    BY <1>0, <1>21 DEF MinMax, Callback, Grid, NoDrift, TypeOK, History, Phases,
       CallbackPlaces, Interval
  <2>6. Extremes'
    <3>1. /\ min_late_ns' = IF late_ns < min_late_ns THEN late_ns ELSE min_late_ns
          /\ max_late_ns' = IF late_ns > max_late_ns THEN late_ns ELSE max_late_ns
          /\ pc = "minmax" /\ pc' = "forward" /\ UNCHANGED <<lates, samples, fired_count>>
      BY <1>21 DEF MinMax, Callback
    <3>2. /\ lates \subseteq Nat /\ late_ns \in 0..MAX_NOW /\ INFINITE = MAX_NOW + 1
          /\ min_late_ns \in Nat /\ max_late_ns \in Nat /\ late_ns \in lates
      BY <1>0, <3>1 DEF History, TypeOK, Extremes, INFINITE
    <3>3. Bounded(min_late_ns', max_late_ns', lates)
      <4>1. CASE lates = {late_ns} /\ min_late_ns = INFINITE /\ max_late_ns = 0
        BY <1>0, <3>1, <3>2, <4>1 DEF Bounded
      <4>2. CASE Bounded(min_late_ns, max_late_ns, lates \ {late_ns})
        BY <3>1, <3>2, <4>2 DEF Bounded
      <4>3. CASE Bounded(min_late_ns, max_late_ns, lates)
        BY <3>1, <3>2, <4>3 DEF Bounded
      <4> QED
        BY <3>1, <4>1, <4>2, <4>3 DEF Extremes
    <3> QED
      BY <3>1, <3>2, <3>3 DEF Extremes
  <2>7. Sums'
    BY <1>0, <1>21 DEF MinMax, Callback, Sums, Phases, CallbackPlaces
  <2>8. StatisticsAreTrue'
    BY <1>0, <1>21 DEF MinMax, Callback, StatisticsAreTrue, Phases, CallbackPlaces
  <2> QED
    BY <2>1, <2>2, <2>3, <2>4, <2>5, <2>6, <2>7, <2>8 DEF IInv
<1>22. CASE Forward
  <2> DEFINE late  == now - expires
             steps == (late \div Interval) + 1
  <2>0. expires' = expires + Interval * steps /\ pc = "forward" /\ lesson = "18"
    BY <1>22 DEF Forward, Callback, Interval
  <2>01. late \in Nat /\ expires \in Nat
    BY <1>0, <2>0 DEF Grid, TypeOK
  <2>02. /\ Interval * (late \div Interval) \in Nat /\ Interval * (late \div Interval) <= late
         /\ late \div Interval \in Int /\ steps \in Int
    <3>1. /\ late \div Interval \in Int /\ late % Interval \in 0..(Interval - 1)
          /\ late = Interval * (late \div Interval) + (late % Interval)
      BY <1>0, <2>01, Division
    <3>2. late \div Interval \in Nat
      BY <1>0, <2>01, Average
    <3>3. Interval * (late \div Interval) \in Nat
      BY <1>0, <3>2
    <3>4. Interval * (late \div Interval) <= late
      <4> DEFINE product == Interval * (late \div Interval)
                 rest    == late % Interval
      <4>1. late = product + rest /\ product \in Nat /\ rest \in Nat
        BY <1>0, <3>1, <3>3
      <4> HIDE DEF product, rest
      <4>2. product <= product + rest
        BY <4>1
      <4>3. product <= late
        BY <4>1, <4>2
      <4> QED
        BY <4>3 DEF product
    <3> QED
      BY <3>1, <3>3, <3>4
  <2>03. Interval * steps = Interval * (late \div Interval) + Interval
    BY <1>0, <2>02, SumProduct
  <2> HIDE DEF late, steps
  <2>1. TypeOK'
    <3>1. expires' \in Nat
      BY <1>0, <2>0, <2>01, <2>02, <2>03
    <3> QED
      BY <1>22, <3>1 DEF Forward, Callback, TypeOK
  <2>2. History'
    BY <1>0, <1>22 DEF Forward, Callback, History, TypeOK
  <2>3. Phases'
    BY <1>0, <1>22 DEF Forward, Callback, Phases, CallbackPlaces, TypeOK, History
  <2>4. Pace'
    BY <1>0, <1>22 DEF Forward, Callback, Pace, OncePerPeriod, CallbackPlaces, TypeOK,
       History, Phases, Interval
  <2>5. Grid'
    <3>1. pc' = "restart" /\ UNCHANGED <<now, first, sets, cpu, period_ms, lesson>>
      BY <1>22 DEF Forward, Callback
    <3>2. expires' <= now + Interval
      BY <1>0, <2>0, <2>01, <2>02, <2>03 DEF late
    <3>3. ASSUME sets = 0, cpu \notin {"clamp", "start"}
          PROVE  (expires' - first) % Interval = 0
      <4>1. (expires - first) % Interval = 0 /\ expires - first \in Int
        BY <2>0, <2>01, <3>3 DEF Grid, NoDrift, Interval, History
      <4>2. ((expires - first) + Interval * steps) % Interval = 0
        BY <1>0, <2>02, <4>1, Multiples
      <4>3. (expires - first) + Interval * steps = expires' - first
        BY <1>0, <2>0, <2>01, <2>02, <2>03 DEF History
      <4> QED
        BY <4>2, <4>3
    <3> QED
      BY <2>0, <3>1, <3>2, <3>3 DEF Grid, NoDrift, Interval
  <2>6. Extremes'
    BY <1>0, <1>22
       DEF Forward, Callback, Extremes, Bounded, TypeOK, History, Phases, CallbackPlaces
  <2>7. Sums'
    BY <1>0, <1>22 DEF Forward, Callback, Sums, Phases, CallbackPlaces
  <2>8. StatisticsAreTrue'
    BY <1>0, <1>22 DEF Forward, Callback, StatisticsAreTrue, Phases, CallbackPlaces
  <2> QED
    BY <2>1, <2>2, <2>3, <2>4, <2>5, <2>6, <2>7, <2>8 DEF IInv
<1>23. CASE Restart
  <2>1. TypeOK'
    BY <1>0, <1>23 DEF Restart, Callback, TypeOK
  <2>2. History'
    BY <1>0, <1>23 DEF Restart, Callback, History, TypeOK
  <2>3. Phases'
    BY <1>0, <1>23 DEF Restart, Callback, Phases, CallbackPlaces, TypeOK, History
  <2>4. Pace'
    BY <1>0, <1>23 DEF Restart, Callback, Pace, OncePerPeriod, CallbackPlaces, TypeOK,
       History, Phases, Interval
  <2>5. Grid'
    BY <1>0, <1>23 DEF Restart, Callback, Grid, NoDrift, TypeOK, History, Phases,
       CallbackPlaces, Interval
  <2>6. Extremes'
    BY <1>0, <1>23
       DEF Restart, Callback, Extremes, Bounded, TypeOK, History, Phases, CallbackPlaces
  <2>7. Sums'
    BY <1>0, <1>23 DEF Restart, Callback, Sums, Phases, CallbackPlaces
  <2>8. StatisticsAreTrue'
    BY <1>0, <1>23 DEF Restart, Callback, StatisticsAreTrue, Phases, CallbackPlaces
  <2> QED
    BY <2>1, <2>2, <2>3, <2>4, <2>5, <2>6, <2>7, <2>8 DEF IInv
<1> QED
  BY <1>1, <1>2, <1>3, <1>4, <1>5, <1>6, <1>7, <1>8, <1>9, <1>10, <1>11, <1>12, <1>13,
     <1>14, <1>15, <1>16, <1>17, <1>18, <1>19, <1>20, <1>21, <1>22, <1>23
  DEF Next, Insmod, Exit, ThreadRuns, CallbackRuns

-----------------------------------------------------------------------------
(* Theorems *)

\* The invariant holds in every reachable state, for any values of the
\* parameters.
THEOREM Invariance == Spec => []IInv
<1>1. IInv /\ UNCHANGED vars => IInv'
  <2> SUFFICES ASSUME IInv, UNCHANGED vars PROVE IInv'
    OBVIOUS
  <2> USE DEF vars, thread, statistics, timer, prints, measured, history, IInv
  <2>1. TypeOK' /\ History' /\ Phases'
    BY DEF TypeOK, History, Phases, CallbackPlaces
  <2>2. Pace' /\ Grid'
    BY DEF Pace, CallbackPlaces, OncePerPeriod, Grid, NoDrift, Interval
  <2>3. Extremes' /\ Sums' /\ StatisticsAreTrue'
    BY DEF Extremes, Bounded, Sums, StatisticsAreTrue
  <2> QED
    BY <2>1, <2>2, <2>3
<1> QED
  BY InitIInv, NextIInv, <1>1, PTL DEF Spec

\* All variables of the thread and of the timer have their types.
THEOREM TypeCorrect == Spec => []TypeOK
BY Invariance, PTL DEF IInv

\* Lesson 17 prints once per period at most while nobody sets period_ms.
THEOREM PrintsKeepPace == Spec => []OncePerPeriod
<1>1. IInv => OncePerPeriod
  BY DEF IInv, Pace
<1> QED
  BY Invariance, <1>1, PTL

\* The deadlines of lesson 18 stay on the grid of the first, however late the
\* callbacks are.
THEOREM DeadlinesDoNotDrift == Spec => []NoDrift
<1>1. IInv => NoDrift
  BY DEF IInv, Grid
<1> QED
  BY Invariance, <1>1, PTL

\* What lesson 18's exit prints is about all the callbacks that have run: their
\* number, the least and the greatest sample, and the average of all of them, as long
\* as the number has not wrapped.
THEOREM ReportIsTrue == Spec => []StatisticsAreTrue
BY Invariance, PTL DEF IInv
=============================================================================
