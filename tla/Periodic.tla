------------------------------ MODULE Periodic ------------------------------
(***************************************************************************)
(* Something that runs once per period until the module is unloaded: the   *)
(* kernel thread of 17-kthread, which sleeps in                            *)
(* wait_event_interruptible_timeout() between two prints, and the hrtimer  *)
(* of 18-timer, whose callback measures how late it is and forwards the    *)
(* timer by a period.  Both read period_ms, which can be set at any time.  *)
(*                                                                         *)
(* Time goes by in units of which MS make a millisecond.  The callback     *)
(* takes the time from ktime_get_mono_fast_ns(), which may be behind the   *)
(* clock that the timer is run by.                                         *)
(***************************************************************************)
EXTENDS Integers, FiniteSetsExt

CONSTANTS
  Lessons,       \* the modules that are looked at: "17", "18"
  Periods,       \* the values period_ms is given, at load and later
  MS,            \* a millisecond
  COUNT_VALUES,  \* 2^32: the number of values of fired_count
  CLOCK_SKEW,    \* how far the fast clock may be behind
  MAX_NOW,       \* bound: when time stops
  MAX_SETS       \* bound: how often period_ms is set

ASSUME LessonAssumption == Lessons \subseteq {"17", "18"}
ASSUME NumberAssumption ==
  /\ Periods \subseteq Nat
  /\ MS \in Nat \ {0} /\ COUNT_VALUES \in Nat \ {0} /\ CLOCK_SKEW \in Nat
  /\ MAX_NOW \in Nat /\ MAX_SETS \in Nat

VARIABLES
  lesson,
  now,
  period_ms,
  cpu,         \* where insmod or rmmod is
  pc,          \* where the thread, or the callback, is
  \* of lesson 17
  should_stop, \* the thread's KTHREAD_SHOULD_STOP
  state,       \* its state: "running" or "interruptible"
  remaining,   \* __ret of wait_event: what is left of the timeout
  wake_at,     \* when the timer of schedule_timeout() goes off
  \* of lesson 18
  queued,      \* whether the timer is queued
  expires, late_ns, fired_count, total_late_ns, min_late_ns, max_late_ns,
  report,      \* what exit prints
  \* history
  sets,        \* how often period_ms has been set
  printed,     \* when the thread has last printed
  gap,         \* the time between its last two prints
  first,       \* when the timer was to expire for the first time
  samples,     \* how often the callback has measured,
  lates,       \* what it has measured
  sum_ns       \* and the sum of that

thread     == <<should_stop, state, remaining, wake_at>>
statistics == <<fired_count, total_late_ns, min_late_ns, max_late_ns>>
timer      == <<queued, expires, late_ns, statistics>>
prints     == <<printed, gap>>
measured   == <<samples, lates, sum_ns>>
history    == <<sets, prints, first, measured>>
vars == <<lesson, now, period_ms, cpu, pc, thread, timer, report, history>>

\* ~0ULL, more than any sample.
INFINITE == MAX_NOW + 1

Never == -1

NoReport == [samples |-> 0, min |-> 0, avg |-> 0, max |-> 0]

Init ==
  /\ lesson \in Lessons
  /\ now = 0 /\ period_ms \in Periods
  /\ cpu = "clamp" /\ pc = "none"
  /\ should_stop = FALSE /\ state = "running" /\ remaining = 0 /\ wake_at = 0
  /\ queued = FALSE /\ expires = 0 /\ late_ns = 0
  /\ fired_count = 0 /\ total_late_ns = 0 /\ min_late_ns = INFINITE /\ max_late_ns = 0
  /\ report = NoReport
  /\ sets = 0 /\ printed = Never /\ gap = Never
  /\ first = 0 /\ samples = 0 /\ lates = {} /\ sum_ns = 0

\* msecs_to_jiffies() and ms_to_ktime()
Duration(ms) == ms * MS

AtLeastOne(ms) == IF ms = 0 THEN 1 ELSE ms

-----------------------------------------------------------------------------
(* Time, and users *)

Tick ==
  /\ now < MAX_NOW
  /\ now' = now + 1
  /\ UNCHANGED <<lesson, period_ms, cpu, pc, thread, timer, report, history>>

\* The parameter's file is there before init and after exit.
SetPeriod ==
  /\ sets < MAX_SETS /\ cpu \notin {"failed", "unloaded"}
  /\ sets' = sets + 1
  /\ period_ms' \in Periods \ {period_ms}
  /\ UNCHANGED <<lesson, now, cpu, pc, thread, timer, report, prints, first,
                 measured>>

Rmmod ==
  /\ cpu = "loaded"
  /\ cpu' = IF lesson = "17" THEN "set_stop" ELSE "cancel"
  /\ UNCHANGED <<lesson, now, period_ms, pc, thread, timer, report, history>>

-----------------------------------------------------------------------------
(* init *)

\* Mutant: init takes period_ms as it is.
InitTakesZero ==
  /\ cpu = "clamp"
  /\ cpu' = "start"
  /\ UNCHANGED <<lesson, now, period_ms, pc, thread, timer, report, history>>

InitClamp ==
  /\ cpu = "clamp"
  /\ period_ms' = AtLeastOne(period_ms)
  /\ cpu' = "start"
  /\ UNCHANGED <<lesson, now, pc, thread, timer, report, history>>

\* kthread_run(), which may fail.
InitThread ==
  /\ cpu = "start" /\ lesson = "17"
  /\ \/ cpu' = "loaded" /\ pc' = "created"
     \/ cpu' = "failed" /\ UNCHANGED pc
  /\ UNCHANGED <<lesson, now, period_ms, thread, timer, report, history>>

\* hrtimer_start()
InitTimer ==
  /\ cpu = "start" /\ lesson = "18"
  /\ queued' = TRUE /\ expires' = now + Duration(period_ms)
  /\ first' = expires'
  /\ cpu' = "loaded"
  /\ UNCHANGED <<lesson, now, period_ms, pc, thread, late_ns, statistics, report, sets,
                 prints, measured>>

-----------------------------------------------------------------------------
(* si_kthread17_fn() *)

Thread(from, to) ==
  /\ lesson = "17" /\ pc = from /\ pc' = to
  /\ UNCHANGED <<lesson, now, period_ms, cpu, timer, report>>

\* A thread that is stopped before it has run never calls its function.
ThreadStarts ==
  /\ Thread("created", IF should_stop THEN "exited" ELSE "loop")
  /\ UNCHANGED <<thread, history>>

ThreadLoop ==
  /\ Thread("loop", IF should_stop THEN "exited" ELSE "wait")
  /\ IF should_stop THEN UNCHANGED prints
     ELSE printed' = now /\ gap' = IF printed = Never THEN Never ELSE now - printed
  /\ UNCHANGED <<thread, sets, first, measured>>

\* wait_event_interruptible_timeout() evaluates the timeout once; it returns at
\* once if that is 0 or the condition holds.
ThreadWaits ==
  LET ends == should_stop \/ Duration(period_ms) = 0
  IN  /\ Thread("wait", IF ends THEN "loop" ELSE "prepare")
      /\ remaining' = IF ends THEN 0 ELSE Duration(period_ms)
      /\ UNCHANGED <<should_stop, state, wake_at, history>>

ThreadPrepares ==
  /\ Thread("prepare", "recheck")
  /\ state' = "interruptible"
  /\ UNCHANGED <<should_stop, remaining, wake_at, history>>

\* The condition is tested again, and then schedule_timeout() is called.
ThreadRechecks ==
  LET ends == should_stop \/ remaining = 0
  IN  /\ Thread("recheck", IF ends THEN "loop" ELSE "asleep")
      /\ state'     = IF ends THEN "running" ELSE state
      /\ wake_at'   = IF ends THEN 0 ELSE now + remaining
      /\ remaining' = 0
      /\ UNCHANGED <<should_stop, history>>

ThreadTimeout ==
  /\ Thread("asleep", "asleep")
  /\ state = "interruptible" /\ now >= wake_at
  /\ state' = "running"
  /\ UNCHANGED <<should_stop, remaining, wake_at, history>>

\* schedule_timeout() returns: the thread has been woken, or was before it slept.
ThreadWakes ==
  /\ Thread("asleep", "prepare") /\ state = "running"
  /\ remaining' = IF now < wake_at THEN wake_at - now ELSE 0
  /\ wake_at' = 0
  /\ UNCHANGED <<should_stop, state, history>>

-----------------------------------------------------------------------------
(* kthread_stop() *)

Stop(from, to) ==
  /\ cpu = from /\ cpu' = to
  /\ UNCHANGED <<lesson, now, period_ms, pc, remaining, wake_at, timer, report, history>>

SetShouldStop ==
  /\ Stop("set_stop", "wake")
  /\ should_stop' = TRUE
  /\ UNCHANGED state

\* Mutant: the thread is not woken.
WakeThreadNot ==
  /\ Stop("wake", "wait_exited")
  /\ UNCHANGED <<should_stop, state>>

WakeThread ==
  /\ Stop("wake", "wait_exited")
  /\ state' = "running"
  /\ UNCHANGED should_stop

ThreadExited ==
  /\ Stop("wait_exited", "unloaded") /\ pc = "exited"
  /\ UNCHANGED <<should_stop, state>>

-----------------------------------------------------------------------------
(* si_timer18_callback() *)

Callback(from, to) ==
  /\ lesson = "18" /\ pc = from /\ pc' = to
  /\ UNCHANGED <<lesson, now, period_ms, cpu, thread, report, sets, prints, first>>

Measure(late) ==
  /\ late_ns' = late
  /\ samples' = samples + 1 /\ lates' = lates \cup {late} /\ sum_ns' = sum_ns + late

\* Mutant: the lateness is a difference that may be negative.
TimerFiresUnchecked ==
  /\ Callback("none", "count")
  /\ queued /\ now >= expires
  /\ queued' = FALSE
  /\ \E behind \in 0..CLOCK_SKEW : Measure(now - behind - expires)
  /\ UNCHANGED <<expires, statistics>>

\* The interrupt comes at the deadline or later.
TimerFires ==
  /\ Callback("none", "count")
  /\ queued /\ now >= expires
  /\ queued' = FALSE
  /\ \E behind \in 0..CLOCK_SKEW :
       Measure(IF now - behind > expires THEN now - behind - expires ELSE 0)
  /\ UNCHANGED <<expires, statistics>>

\* Mutant: the total is assigned instead of added to.
CountLastOnly ==
  /\ Callback("count", "minmax")
  /\ fired_count' = (fired_count + 1) % COUNT_VALUES
  /\ total_late_ns' = late_ns
  /\ UNCHANGED <<queued, expires, late_ns, min_late_ns, max_late_ns, measured>>

Count ==
  /\ Callback("count", "minmax")
  /\ fired_count' = (fired_count + 1) % COUNT_VALUES
  /\ total_late_ns' = total_late_ns + late_ns
  /\ UNCHANGED <<queued, expires, late_ns, min_late_ns, max_late_ns, measured>>

MinMax ==
  /\ Callback("minmax", "forward")
  /\ min_late_ns' = IF late_ns < min_late_ns THEN late_ns ELSE min_late_ns
  /\ max_late_ns' = IF late_ns > max_late_ns THEN late_ns ELSE max_late_ns
  /\ UNCHANGED <<queued, expires, late_ns, fired_count, total_late_ns, measured>>

\* Mutant: the next deadline is a period from now.
ForwardFromNow ==
  /\ Callback("forward", "restart")
  /\ expires' = now + Duration(AtLeastOne(period_ms))
  /\ UNCHANGED <<queued, late_ns, statistics, measured>>

\* hrtimer_forward_now(): as many whole periods as it takes to be past now.
Forward ==
  LET interval == Duration(AtLeastOne(period_ms))
  IN  /\ Callback("forward", "restart")
      /\ expires' = expires + interval * ((now - expires) \div interval + 1)
      /\ UNCHANGED <<queued, late_ns, statistics, measured>>

Restart ==
  /\ Callback("restart", "none")
  /\ queued' = TRUE
  /\ UNCHANGED <<expires, late_ns, statistics, measured>>

-----------------------------------------------------------------------------
(* si_timer18_exit() *)

\* Mutant: hrtimer_try_to_cancel(), whose result nobody looks at.
CancelAtOnce ==
  /\ cpu = "cancel"
  /\ queued' = FALSE
  /\ cpu' = "report"
  /\ UNCHANGED <<lesson, now, period_ms, pc, thread, expires, late_ns, statistics, report,
                 history>>

\* hrtimer_cancel() goes on until the callback does not run.
Cancel ==
  /\ cpu = "cancel" /\ pc = "none"
  /\ queued' = FALSE
  /\ cpu' = "report"
  /\ UNCHANGED <<lesson, now, period_ms, pc, thread, expires, late_ns, statistics, report,
                 history>>

Report ==
  /\ cpu = "report"
  /\ report' = IF fired_count = 0 THEN NoReport
               ELSE [samples |-> fired_count, min |-> min_late_ns,
                     avg |-> total_late_ns \div fired_count, max |-> max_late_ns]
  /\ cpu' = "unloaded"
  /\ UNCHANGED <<lesson, now, period_ms, pc, thread, timer, history>>

-----------------------------------------------------------------------------
Insmod == InitClamp \/ InitThread \/ InitTimer

Exit == SetShouldStop \/ WakeThread \/ ThreadExited \/ Cancel \/ Report

ThreadRuns ==
  \/ ThreadStarts \/ ThreadLoop \/ ThreadWaits \/ ThreadPrepares \/ ThreadRechecks
  \/ ThreadWakes

CallbackRuns == Count \/ MinMax \/ Forward \/ Restart

Next ==
  \/ Tick \/ SetPeriod \/ Rmmod \/ Insmod \/ Exit
  \/ ThreadRuns \/ ThreadTimeout \/ TimerFires \/ CallbackRuns

Spec == Init /\ [][Next]_vars

\* The scheduler runs insmod, rmmod, the thread and a callback that has begun.
\* Nothing is said of the clock: no timeout need ever expire.  hrtimer_cancel()
\* finds a moment without a callback since the next one is in the future: SF.
Fairness ==
  /\ WF_vars(Insmod) /\ SF_vars(Exit)
  /\ WF_vars(ThreadRuns) /\ WF_vars(CallbackRuns)

FairSpec == Spec /\ Fairness

-----------------------------------------------------------------------------
(* Properties *)

TypeOK ==
  /\ lesson \in Lessons
  /\ now \in 0..MAX_NOW /\ period_ms \in Periods \cup {1}
  /\ cpu \in {"clamp", "start", "loaded", "failed", "set_stop", "wake", "wait_exited",
              "cancel", "report", "unloaded"}
  /\ pc \in {"none", "created", "loop", "wait", "prepare", "recheck", "asleep", "exited",
             "count", "minmax", "forward", "restart"}
  /\ should_stop \in BOOLEAN /\ state \in {"running", "interruptible"}
  /\ remaining \in Nat /\ wake_at \in Nat
  /\ queued \in BOOLEAN /\ expires \in Nat /\ late_ns \in 0..MAX_NOW
  /\ fired_count \in 0..(COUNT_VALUES - 1) /\ total_late_ns \in Nat
  /\ min_late_ns \in 0..INFINITE /\ max_late_ns \in 0..MAX_NOW
  /\ report \in [samples : 0..(COUNT_VALUES - 1), min : 0..INFINITE, avg : Nat, max : Nat]

\* While nobody sets period_ms, the thread prints once per period at most, a
\* period of 0 at load included (si_kthread17.c:80).
OncePerPeriod ==
  sets = 0 /\ gap # Never => gap >= Duration(AtLeastOne(period_ms))

\* "Forward on the basis of the current deadline, so that the time the callback
\* takes does not add up to a drift" (si_timer18.c:93-94): while nobody sets
\* period_ms every deadline is a whole number of periods after the first, however
\* late the callbacks are and however long they take, and no period is left out
\* that has not passed yet.
NoDrift ==
  lesson = "18" /\ sets = 0 /\ cpu \notin {"clamp", "start"} =>
    /\ (expires - first) % Duration(AtLeastOne(period_ms)) = 0
    /\ expires <= now + Duration(AtLeastOne(period_ms))

\* What exit prints is about all the callbacks that have run, whenever rmmod comes:
\* their number, modulo the width of fired_count, the least and the greatest of what
\* they measured and, as long as that number has not wrapped, the average: no sample
\* is dropped and none counts twice (si_timer18.c:76-81, 135-147).
StatisticsAreTrue ==
  lesson = "18" /\ cpu = "unloaded" =>
    /\ report.samples = samples % COUNT_VALUES
    /\ report.samples # 0 => report.min = Min(lates) /\ report.max = Max(lates)
    /\ samples \in 1..(COUNT_VALUES - 1) => report.avg = sum_ns \div samples

\* rmmod does not have to wait for a period to end (si_kthread17.c:66): it ends
\* although no time goes by.
StopIsPrompt == cpu \in {"set_stop", "cancel"} ~> cpu = "unloaded"

\* "Thread print period in milliseconds (minimum 1)" (si_kthread17.c:49)
MinimumIsOne == gap # Never => gap >= Duration(1)
=============================================================================
