---------------------------- MODULE DmaTransfer ----------------------------
(***************************************************************************)
(* The module of 20-dma/si_dma20.c: insmod acquires a DMA channel and two  *)
(* buffers and runs memory-to-memory transfers, waiting for each with a    *)
(* timeout; rmmod, and every failure, gives all of it back.                *)
(*                                                                         *)
(* Two actors: the thread of insmod or rmmod (cpu), and the DMA engine,    *)
(* which moves the bytes, is slow or hangs, and runs the callback.  Of the *)
(* engine the model keeps what dmaengine documents: terminate_sync() first *)
(* drops every descriptor and stops the hardware, then waits for a         *)
(* callback that is already running.                                       *)
(***************************************************************************)
EXTENDS Integers

CONSTANTS
  Sizes, Counts, Timeouts,  \* values of transfer_size, transfers, timeout_ms
  BYTE_VALUES               \* 256: how many values a byte has

ASSUME ParameterAssumption == Sizes \cup Counts \cup Timeouts \subseteq Nat
ASSUME ByteAssumption      == BYTE_VALUES \in Nat \ {0}

VARIABLES
  transfer_size, transfers, timeout_ms,  \* the parameters, read-only once loaded
  cpu,           \* where insmod or rmmod is
  dma_chan,      \* whether the pointers of this name are set
  source_cpu_addr, destination_cpu_addr,
  number,        \* the transfer that runs
  source, destination,  \* the bytes of the two buffers
  done,          \* the completion on si_dma20_run_transfer()'s stack
  desc,          \* the descriptor: its state, and the transfer it was made for
  moved          \* how many bytes the engine has moved for it

parameters == <<transfer_size, transfers, timeout_ms>>
resources  == <<dma_chan, source_cpu_addr, destination_cpu_addr>>
engine     == <<desc, moved>>
vars       == <<parameters, cpu, resources, number, source, destination, done, engine>>

Offsets == 0..(transfer_size - 1)
Byte    == 0..(BYTE_VALUES - 1)

NoDesc == [state |-> "none", number |-> 0]

Init ==
  /\ transfer_size \in Sizes /\ transfers \in Counts /\ timeout_ms \in Timeouts
  /\ cpu = "init"
  /\ dma_chan = FALSE /\ source_cpu_addr = FALSE /\ destination_cpu_addr = FALSE
  /\ number = 0
  /\ source = [i \in Offsets |-> 0] /\ destination = [i \in Offsets |-> 0]
  /\ done = FALSE
  /\ desc = NoDesc /\ moved = 0

-----------------------------------------------------------------------------
(* si_dma20_init() *)

CheckParameters ==
  /\ cpu = "init"
  /\ cpu' = IF 0 \in {transfer_size, transfers, timeout_ms} THEN "failed" ELSE "request"
  /\ UNCHANGED <<parameters, resources, number, source, destination, done, engine>>

\* Without a channel there is nothing to clean up.
RequestChannel ==
  /\ cpu = "request"
  /\ \/ dma_chan' = TRUE /\ cpu' = "source"
     \/ UNCHANGED dma_chan /\ cpu' = "failed"
  /\ UNCHANGED <<parameters, source_cpu_addr, destination_cpu_addr, number, source,
                 destination, done, engine>>

AllocSource ==
  /\ cpu = "source"
  /\ \/ source_cpu_addr' = TRUE /\ cpu' = "destination"
     \/ UNCHANGED source_cpu_addr /\ cpu' = "init_terminate"
  /\ UNCHANGED <<parameters, dma_chan, destination_cpu_addr, number, source, destination,
                 done, engine>>

\* Mutant: the failure returns instead of jumping to err_cleanup.
AllocDestinationReturns ==
  /\ cpu = "destination"
  /\ \/ destination_cpu_addr' = TRUE /\ cpu' = "loop"
     \/ UNCHANGED destination_cpu_addr /\ cpu' = "failed"
  /\ UNCHANGED <<parameters, dma_chan, source_cpu_addr, number, source, destination,
                 done, engine>>

AllocDestination ==
  /\ cpu = "destination"
  /\ \/ destination_cpu_addr' = TRUE /\ cpu' = "loop"
     \/ UNCHANGED destination_cpu_addr /\ cpu' = "init_terminate"
  /\ UNCHANGED <<parameters, dma_chan, source_cpu_addr, number, source, destination,
                 done, engine>>

Loop ==
  /\ cpu = "loop"
  /\ IF number < transfers THEN number' = number + 1 /\ cpu' = "fill"
                           ELSE UNCHANGED number /\ cpu' = "loaded"
  /\ UNCHANGED <<parameters, resources, source, destination, done, engine>>

-----------------------------------------------------------------------------
(* si_dma20_run_transfer() *)

\* The bytes of transfer n.
Pattern(n) == [i \in Offsets |-> (i + n) % BYTE_VALUES]

Fill ==
  /\ cpu = "fill"
  /\ source' = Pattern(number)
  /\ destination' = [i \in Offsets |-> 0]
  /\ done' = FALSE
  /\ cpu' = "prep"
  /\ UNCHANGED <<parameters, resources, number, engine>>

Prep ==
  /\ cpu = "prep"
  /\ \/ desc' = [state |-> "prepared", number |-> number] /\ moved' = 0
        /\ cpu' = "submit"
     \/ UNCHANGED engine /\ cpu' = "init_terminate"
  /\ UNCHANGED <<parameters, resources, number, source, destination, done>>

\* When dmaengine_submit() fails the descriptor stays with the channel.
Submit ==
  /\ cpu = "submit"
  /\ \/ desc' = [desc EXCEPT !.state = "submitted"] /\ cpu' = "issue"
     \/ UNCHANGED desc /\ cpu' = "init_terminate"
  /\ UNCHANGED <<parameters, resources, number, source, destination, done, moved>>

Issue ==
  /\ cpu = "issue"
  /\ desc' = [desc EXCEPT !.state = "active"]
  /\ cpu' = "wait"
  /\ UNCHANGED <<parameters, resources, number, source, destination, done, moved>>

WaitCompleted ==
  /\ cpu = "wait" /\ done
  /\ cpu' = "compare"
  /\ UNCHANGED <<parameters, resources, number, source, destination, done, engine>>

\* Mutant: wait_for_completion(), which has no timeout.
WaitNeverTimesOut ==
  /\ cpu = "wait" /\ done
  /\ cpu' = "terminate"
  /\ UNCHANGED <<parameters, resources, number, source, destination, done, engine>>

\* Mutant: after a timeout the next transfer is tried.
WaitTimesOutContinues ==
  /\ cpu = "wait" /\ ~done
  /\ cpu' = "loop"
  /\ UNCHANGED <<parameters, resources, number, source, destination, done, engine>>

\* wait_for_completion_timeout() returns 0 only if the transfer is not done yet.
WaitTimesOut ==
  /\ cpu = "wait" /\ ~done
  /\ cpu' = "terminate"
  /\ UNCHANGED <<parameters, resources, number, source, destination, done, engine>>

\* Mutant: dmaengine_synchronize(), which stops nothing.
DropNothing == UNCHANGED engine

\* dmaengine_terminate_sync(): first every descriptor the channel still has is
\* dropped and the hardware stopped; only a running callback is left.
Drop ==
  /\ desc' = IF desc.state = "callback" THEN desc ELSE NoDesc
  /\ moved' = 0

\* Then that callback is waited for.
CallbacksEnded == desc.state # "callback"

TimeoutTerminate ==
  /\ cpu = "terminate"
  /\ Drop
  /\ cpu' = "synchronize"
  /\ UNCHANGED <<parameters, resources, number, source, destination, done>>

\* Mutant: dmaengine_terminate_async(), which does not wait.
TimeoutSynchronizeAtOnce ==
  /\ cpu = "synchronize"
  /\ cpu' = "init_terminate"
  /\ UNCHANGED <<parameters, resources, number, source, destination, done, engine>>

TimeoutSynchronize ==
  /\ cpu = "synchronize" /\ CallbacksEnded
  /\ cpu' = "init_terminate"
  /\ UNCHANGED <<parameters, resources, number, source, destination, done, engine>>

Compare ==
  /\ cpu = "compare"
  /\ cpu' = IF source = destination THEN "loop" ELSE "init_terminate"
  /\ UNCHANGED <<parameters, resources, number, source, destination, done, engine>>

-----------------------------------------------------------------------------
(* si_dma20_cleanup(), called by init when something has failed and by exit.  *)
(* cpu is "init_..." or "exit_...", for the caller it returns to.             *)

Exit ==
  /\ cpu = "loaded"
  /\ cpu' = "exit_terminate"
  /\ UNCHANGED <<parameters, resources, number, source, destination, done, engine>>

Callers == {"init", "exit"}

Terminating   == [init |-> "init_terminate",   exit |-> "exit_terminate"]
Synchronizing == [init |-> "init_synchronize", exit |-> "exit_synchronize"]
Freeing       == [init |-> "init_free",        exit |-> "exit_free"]
Releasing     == [init |-> "init_release",     exit |-> "exit_release"]
CleanedUp     == [init |-> "failed",           exit |-> "unloaded"]

CleanupTerminate(c) ==
  /\ cpu = Terminating[c]
  /\ IF dma_chan THEN Drop ELSE UNCHANGED engine
  /\ cpu' = Synchronizing[c]
  /\ UNCHANGED <<parameters, resources, number, source, destination, done>>

CleanupSynchronize(c) ==
  /\ cpu = Synchronizing[c] /\ (dma_chan => CallbacksEnded)
  /\ cpu' = Freeing[c]
  /\ UNCHANGED <<parameters, resources, number, source, destination, done, engine>>

CleanupFree(c) ==
  /\ cpu = Freeing[c]
  /\ source_cpu_addr' = FALSE /\ destination_cpu_addr' = FALSE
  /\ cpu' = Releasing[c]
  /\ UNCHANGED <<parameters, dma_chan, number, source, destination, done, engine>>

CleanupRelease(c) ==
  /\ cpu = Releasing[c]
  /\ dma_chan' = FALSE
  /\ cpu' = CleanedUp[c]
  /\ UNCHANGED <<parameters, source_cpu_addr, destination_cpu_addr, number, source,
                 destination, done, engine>>

-----------------------------------------------------------------------------
(* The DMA engine *)

EngineMoves ==
  /\ desc.state = "active" /\ moved < transfer_size
  /\ moved' = moved + 1
  /\ destination' = [i \in Offsets |-> IF i = moved THEN source[i] ELSE destination[i]]
  /\ UNCHANGED <<parameters, cpu, resources, number, source, done, desc>>

\* The interrupt: all bytes are moved, or the engine gives up on an error.
EngineInterrupt ==
  /\ desc.state = "active"
  /\ desc' = [desc EXCEPT !.state = "completed"]
  /\ UNCHANGED <<parameters, cpu, resources, number, source, destination, done, moved>>

\* The tasklet takes the descriptor off the channel ...
EngineTasklet ==
  /\ desc.state = "completed"
  /\ desc' = [desc EXCEPT !.state = "callback"]
  /\ UNCHANGED <<parameters, cpu, resources, number, source, destination, done, moved>>

\* ... and calls si_dma20_complete(), which completes the done it was given.
Callback ==
  /\ desc.state = "callback"
  /\ done' = TRUE
  /\ desc' = NoDesc
  /\ UNCHANGED <<parameters, cpu, resources, number, source, destination, moved>>

-----------------------------------------------------------------------------
InitStep ==
  \/ CheckParameters \/ RequestChannel \/ AllocSource \/ AllocDestination \/ Loop
  \/ Fill \/ Prep \/ Submit \/ Issue \/ WaitCompleted \/ WaitTimesOut
  \/ TimeoutTerminate \/ TimeoutSynchronize \/ Compare

Cleanup(c) ==
  CleanupTerminate(c) \/ CleanupSynchronize(c) \/ CleanupFree(c) \/ CleanupRelease(c)

Next ==
  \/ InitStep \/ Exit
  \/ \E c \in Callers : Cleanup(c)
  \/ EngineMoves \/ EngineInterrupt \/ EngineTasklet \/ Callback

Spec == Init /\ [][Next]_vars

\* insmod and rmmod run; a callback that has begun ends.  The engine need not
\* move a byte, nor raise its interrupt.
Fairness ==
  /\ WF_vars(InitStep) /\ \A c \in Callers : WF_vars(Cleanup(c))
  /\ WF_vars(Callback)

FairSpec == Spec /\ Fairness

-----------------------------------------------------------------------------
(* Properties *)

InTransfer == {"fill", "prep", "submit", "issue", "wait", "terminate", "synchronize",
               "compare"}

TypeOK ==
  /\ transfer_size \in Sizes /\ transfers \in Counts /\ timeout_ms \in Timeouts
  /\ cpu \in InTransfer \cup
             {"init", "request", "source", "destination", "loop", "loaded", "failed",
              "init_terminate", "init_synchronize", "init_free", "init_release",
              "exit_terminate", "exit_synchronize", "exit_free", "exit_release",
              "unloaded"}
  /\ dma_chan \in BOOLEAN /\ source_cpu_addr \in BOOLEAN
  /\ destination_cpu_addr \in BOOLEAN
  /\ number \in 0..transfers
  /\ source \in [Offsets -> Byte] /\ destination \in [Offsets -> Byte]
  /\ done \in BOOLEAN
  /\ desc \in [state : {"none", "prepared", "submitted", "active", "completed",
                        "callback"},
               number : 0..transfers]
  /\ moved \in 0..transfer_size

\* Whatever the timing of timeout, completion and failures, the engine never
\* works on a buffer that has been freed, nor for a channel that has been
\* released (si_dma20.c:114).
NoDmaAfterFree ==
  /\ desc.state # "none" => dma_chan
  /\ desc.state = "active" => source_cpu_addr /\ destination_cpu_addr

\* The callback completes a completion on the stack of the transfer it belongs
\* to, which must not have returned (si_dma20.c:139, 163).
CompletionIsAlive ==
  desc.state = "callback" => cpu \in InTransfer /\ desc.number = number

\* The CPU fills, clears and compares the buffers only while the engine leaves
\* them alone.
BuffersHaveOneUser == cpu \in {"fill", "compare"} => desc.state = "none"

\* insmod succeeds only after it has compared every transfer, and fails or rmmod
\* ends with nothing left: no buffer, no channel, no descriptor.  The comparison
\* is what "verifies that the hardware transfer did complete" (si_dma20.c:4-6):
\* after it the engine has moved every byte, but for bytes at the end that are 0
\* in the pattern, as the destination is before (si_dma20.c:149-150).
AllOrNothing ==
  /\ cpu = "loaded" => number = transfers /\ destination = Pattern(transfers)
  /\ cpu \in {"loop", "loaded"} /\ number > 0 =>
       \A i \in Offsets : Pattern(number)[i] # 0 => i < moved
  /\ cpu \in {"failed", "unloaded"} =>
       /\ ~dma_chan /\ ~source_cpu_addr /\ ~destination_cpu_addr
       /\ desc.state = "none"

\* insmod does not hang on an engine that hangs.
InsmodReturns == (cpu = "request") ~> (cpu \in {"loaded", "failed"})
=============================================================================
