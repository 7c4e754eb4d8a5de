-------------------------- MODULE DmaTransferProofs --------------------------
(***************************************************************************)
(* Proofs about DmaTransfer: the safety of its buffers, its channel and    *)
(* its completion, for any values of the parameters and any width of a     *)
(* byte.  Where insmod or rmmod is determines what there is (Holdings) and *)
(* what the channel may be doing (Channel); the rest is about bytes.       *)
(***************************************************************************)
EXTENDS DmaTransfer, TLAPS

\* Where the channel has no descriptor.
Quiet == {"init", "request", "source", "destination", "loop", "fill", "prep", "compare",
          "loaded", "failed", "unloaded", "init_synchronize", "init_free",
          "init_release", "exit_terminate", "exit_synchronize", "exit_free",
          "exit_release"}

\* What the channel has elsewhere.  The callback of the transfer is the only one
\* that there can be, and it has run when done is seen to be true.
Channel ==
  /\ cpu \in Quiet => desc.state = "none"
  /\ cpu = "submit" => desc.state = "prepared"
  /\ cpu = "issue"  => desc.state = "submitted"
  /\ cpu = "wait"   => IF done THEN desc.state = "none"
                               ELSE desc.state \in {"active", "completed", "callback"}
  /\ cpu = "terminate"      => desc.state \in {"none", "active", "completed", "callback"}
  /\ cpu = "synchronize"    => desc.state \in {"none", "callback"}
  /\ cpu = "init_terminate" => desc.state \in {"none", "prepared"}
  /\ cpu \in {"prep", "submit", "issue"} => ~done
  /\ desc.state # "none" => desc.number = number

\* The channel, and then the buffers, are there from their request to their
\* release.
Holdings ==
  /\ dma_chan <=> cpu \notin {"init", "request", "failed", "unloaded"}
  /\ cpu \in InTransfer \cup {"destination", "loop", "loaded"} => source_cpu_addr
  /\ cpu \in InTransfer \cup {"loop", "loaded"} => destination_cpu_addr
  /\ cpu \in {"init", "request", "source", "failed", "unloaded", "init_release",
              "exit_release"} => ~source_cpu_addr
  /\ cpu \in {"init", "request", "source", "destination", "failed", "unloaded",
              "init_release", "exit_release"} => ~destination_cpu_addr

\* The bytes of source and destination.
Bytes ==
  /\ cpu \in InTransfer \ {"fill"} => source = Pattern(number)
  /\ cpu = "prep" => \A i \in Offsets : destination[i] = 0
  /\ cpu \in {"submit", "issue", "wait", "compare", "loop", "loaded"} =>
       \A i \in Offsets : destination[i] # 0 => i < moved
  /\ cpu \in {"init", "request", "source", "destination"} =>
       number = 0 /\ \A i \in Offsets : destination[i] = 0
  /\ cpu \in {"loop", "loaded"} /\ number > 0 => destination = Pattern(number)
  /\ cpu = "loaded" => number = transfers
  /\ cpu \notin {"init", "failed"} => transfers > 0

IInv == TypeOK /\ Channel /\ Holdings /\ Bytes

-----------------------------------------------------------------------------
\* A pattern consists of bytes.
LEMMA PatternIsBytes ==
  ASSUME TypeOK
  PROVE  \A n \in Nat : Pattern(n) \in [Offsets -> Byte]
<1> SUFFICES ASSUME NEW n \in Nat, NEW i \in Offsets
             PROVE  (i + n) % BYTE_VALUES \in Byte
  BY DEF Pattern
<1>1. transfer_size \in Nat
  BY ParameterAssumption DEF TypeOK
<1>2. i + n \in Nat
  BY <1>1 DEF Offsets
<1> QED
  BY <1>2, ByteAssumption DEF Byte

\* The parameters are numbers.
LEMMA ParametersAreNumbers ==
  ASSUME TypeOK
  PROVE  transfer_size \in Nat /\ transfers \in Nat /\ number \in Nat /\ moved \in Nat
<1>1. transfer_size \in Nat /\ transfers \in Nat
  BY ParameterAssumption DEF TypeOK
<1> QED
  BY <1>1 DEF TypeOK

LEMMA InitIInv == Init => IInv
<1> SUFFICES ASSUME Init PROVE IInv
  OBVIOUS
<1>1. transfer_size \in Nat /\ transfers \in Nat
  BY ParameterAssumption DEF Init
<1>2. TypeOK
  <2>1. 0 \in Byte
    BY ByteAssumption DEF Byte
  <2>2. source \in [Offsets -> Byte] /\ destination \in [Offsets -> Byte]
    BY <2>1 DEF Init
  <2>3. 0 \in 0..transfers /\ moved \in 0..transfer_size
    BY <1>1 DEF Init
  <2>4. desc \in [state : {"none", "prepared", "submitted", "active", "completed",
                          "callback"}, number : 0..transfers]
    BY <2>3 DEF Init, NoDesc
  <2> QED
    BY <2>2, <2>3, <2>4 DEF Init, TypeOK, InTransfer
<1>3. Channel
  BY DEF Init, Channel, NoDesc
<1>4. Holdings
  BY DEF Init, Holdings, InTransfer
<1>5. Bytes
  BY DEF Init, Bytes, InTransfer, Offsets
<1> QED
  BY <1>2, <1>3, <1>4, <1>5 DEF IInv

\* The steps of insmod before and between the transfers.
LEMMA SetupSteps ==
  ASSUME IInv, CheckParameters \/ RequestChannel \/ AllocSource \/ AllocDestination
               \/ Loop \/ Exit
  PROVE  IInv'
<1> USE ParametersAreNumbers DEF IInv
<1>1. CASE CheckParameters
  <2>1. TypeOK'
    BY <1>1 DEF CheckParameters, TypeOK, parameters, resources, engine, InTransfer, Offsets
  <2>2. Channel' /\ Holdings'
    BY <1>1 DEF CheckParameters, Channel, Holdings, Quiet, resources, engine, InTransfer
  <2>3. cpu' = "request" => transfers > 0
    BY <1>1 DEF CheckParameters
  <2>4. Bytes'
    BY <1>1, <2>3 DEF CheckParameters, Bytes, parameters, engine, InTransfer, Offsets
  <2> QED
    BY <2>1, <2>2, <2>4
<1>2. CASE RequestChannel \/ AllocSource \/ AllocDestination
  <2> USE DEF RequestChannel, AllocSource, AllocDestination, resources, engine
  <2>1. TypeOK'
    BY <1>2 DEF TypeOK, parameters, InTransfer, Offsets
  <2>2. Channel'
    BY <1>2 DEF Channel, Quiet
  <2>3. Holdings'
    <3>1. CASE RequestChannel
      BY <3>1 DEF Holdings, InTransfer
    <3>2. CASE AllocSource
      BY <3>2 DEF Holdings, InTransfer
    <3>3. CASE AllocDestination
      BY <3>3 DEF Holdings, InTransfer
    <3> QED
      BY <1>2, <3>1, <3>2, <3>3
  <2>4. Bytes'
    BY <1>2 DEF Bytes, parameters, InTransfer, Offsets, Pattern
  <2> QED
    BY <2>1, <2>2, <2>3, <2>4
<1>3. CASE Loop
  <2>1. number' \in 0..transfers' /\ desc' = desc
    BY <1>3 DEF Loop, parameters, engine, TypeOK
  <2>2. TypeOK'
    BY <1>3, <2>1 DEF Loop, TypeOK, parameters, resources, engine, InTransfer, Offsets
  <2>3. Channel' /\ Holdings'
    BY <1>3 DEF Loop, Channel, Holdings, Quiet, resources, engine, InTransfer
  <2>4. cpu' = "loaded" => number' = transfers' /\ number' = number
    BY <1>3 DEF Loop, parameters, TypeOK
  <2>5. Bytes'
    BY <1>3, <2>4 DEF Loop, Bytes, parameters, engine, InTransfer, Offsets, Pattern
  <2> QED
    BY <2>2, <2>3, <2>5
<1>4. CASE Exit
  <2>1. TypeOK'
    BY <1>4 DEF Exit, TypeOK, parameters, resources, engine, InTransfer, Offsets
  <2>2. Channel' /\ Holdings'
    BY <1>4 DEF Exit, Channel, Holdings, Quiet, resources, engine, InTransfer
  <2>3. Bytes'
    BY <1>4 DEF Exit, Bytes, parameters, InTransfer
  <2> QED
    BY <2>1, <2>2, <2>3
<1> QED
  BY <1>1, <1>2, <1>3, <1>4

\* The steps of a transfer.
LEMMA TransferSteps ==
  ASSUME IInv, Fill \/ Prep \/ Submit \/ Issue \/ WaitCompleted \/ WaitTimesOut
               \/ TimeoutTerminate \/ TimeoutSynchronize \/ Compare
  PROVE  IInv'
<1> USE ParametersAreNumbers DEF IInv
<1>1. CASE Fill
  <2>1. Pattern(number) \in [Offsets -> Byte]
    BY PatternIsBytes
  <2>2. TypeOK'
    <3>1. 0 \in Byte
      BY ByteAssumption DEF Byte
    <3>2. source' \in [Offsets -> Byte] /\ destination' \in [Offsets -> Byte]
      BY <1>1, <2>1, <3>1 DEF Fill
    <3>3. Offsets' = Offsets
      BY <1>1 DEF Fill, parameters, Offsets
    <3> QED
      BY <1>1, <3>2, <3>3 DEF Fill, TypeOK, parameters, resources, engine, InTransfer
  <2>3. Channel' /\ Holdings'
    BY <1>1 DEF Fill, Channel, Holdings, Quiet, resources, engine, InTransfer
  <2>4. Bytes'
    BY <1>1 DEF Fill, Bytes, parameters, InTransfer, Offsets, Pattern
  <2> QED
    BY <2>2, <2>3, <2>4
<1>2. CASE Prep
  <2>1. TypeOK'
    BY <1>2 DEF Prep, TypeOK, parameters, resources, engine, InTransfer, Offsets
  <2>2. Channel' /\ Holdings'
    BY <1>2 DEF Prep, Channel, Holdings, Quiet, resources, engine, InTransfer, TypeOK
  <2>3. Bytes'
    BY <1>2 DEF Prep, Bytes, parameters, InTransfer, Offsets, Pattern, TypeOK, engine
  <2> QED
    BY <2>1, <2>2, <2>3
<1>3. CASE Submit \/ Issue
  <2>1. TypeOK'
    BY <1>3 DEF Submit, Issue, TypeOK, parameters, resources, InTransfer, Offsets
  <2>2. Channel' /\ Holdings'
    BY <1>3 DEF Submit, Issue, Channel, Holdings, Quiet, resources, InTransfer, TypeOK
  <2>3. Bytes'
    BY <1>3 DEF Submit, Issue, Bytes, parameters, InTransfer, Offsets, Pattern
  <2> QED
    BY <2>1, <2>2, <2>3
<1>4. CASE WaitCompleted \/ WaitTimesOut \/ TimeoutSynchronize \/ Compare
  <2> USE DEF WaitCompleted, WaitTimesOut, TimeoutSynchronize, CallbacksEnded, Compare
  <2>1. TypeOK'
    BY <1>4 DEF TypeOK, parameters, resources, engine, InTransfer, Offsets
  <2>2. Channel' /\ Holdings'
    BY <1>4 DEF Channel, Holdings, Quiet, resources, engine, InTransfer, TypeOK
  <2>3. Bytes'
    BY <1>4 DEF Bytes, parameters, engine, InTransfer, Offsets, Pattern
  <2> QED
    BY <2>1, <2>2, <2>3
<1>5. CASE TimeoutTerminate
  <2>1. TypeOK'
    BY <1>5 DEF TimeoutTerminate, Drop, NoDesc, TypeOK, parameters, resources,
                InTransfer, Offsets
  <2>2. Channel' /\ Holdings'
    BY <1>5 DEF TimeoutTerminate, Drop, NoDesc, Channel, Holdings, Quiet, resources,
                InTransfer, TypeOK
  <2>3. Bytes'
    BY <1>5 DEF TimeoutTerminate, Drop, Bytes, parameters, InTransfer, Offsets, Pattern
  <2> QED
    BY <2>1, <2>2, <2>3
<1> QED
  BY <1>1, <1>2, <1>3, <1>4, <1>5

\* Cleaning up, for init and for exit.
LEMMA CleanupSteps ==
  ASSUME IInv, NEW c \in Callers, Cleanup(c)
  PROVE  IInv'
<1> USE ParametersAreNumbers DEF IInv, Callers
<1> USE DEF Terminating, Synchronizing, Freeing, Releasing, CleanedUp
<1>1. CASE CleanupTerminate(c)
  <2>1. TypeOK'
    BY <1>1 DEF CleanupTerminate, Drop, NoDesc, TypeOK, parameters, resources, engine,
                InTransfer, Offsets
  <2>2. Channel' /\ Holdings'
    BY <1>1 DEF CleanupTerminate, Drop, NoDesc, Channel, Holdings, Quiet, resources,
                engine, InTransfer, TypeOK
  <2>3. Bytes'
    BY <1>1 DEF CleanupTerminate, Bytes, parameters, InTransfer, Offsets, Pattern
  <2> QED
    BY <2>1, <2>2, <2>3
<1>2. CASE CleanupSynchronize(c) \/ CleanupFree(c) \/ CleanupRelease(c)
  <2> USE DEF CleanupSynchronize, CleanupFree, CleanupRelease
  <2>a. UNCHANGED <<parameters, number, source, destination, done, engine>>
    BY <1>2 DEF resources
  <2>b. UNCHANGED Offsets
    BY <2>a DEF parameters, Offsets
  <2>c. dma_chan' \in BOOLEAN /\ source_cpu_addr' \in BOOLEAN
        /\ destination_cpu_addr' \in BOOLEAN
    BY <1>2 DEF TypeOK, resources
  <2>d. cpu' \in {"init_free", "exit_free", "init_release", "exit_release", "failed",
                 "unloaded"}
    BY <1>2
  <2>1. TypeOK'
    BY <2>a, <2>b, <2>c, <2>d DEF TypeOK, parameters, engine
  <2>2. Channel'
    BY <1>2 DEF Channel, Quiet, engine, TypeOK
  <2>3. Holdings'
    BY <1>2 DEF Holdings, resources, InTransfer
  <2>4. Bytes'
    BY <1>2 DEF Bytes, parameters, engine, InTransfer, Offsets, Pattern
  <2> QED
    BY <2>1, <2>2, <2>3, <2>4
<1> QED
  BY <1>1, <1>2 DEF Cleanup

\* The engine's steps.
LEMMA EngineSteps ==
  ASSUME IInv, EngineMoves \/ EngineInterrupt \/ EngineTasklet \/ Callback
  PROVE  IInv'
<1> USE ParametersAreNumbers DEF IInv
<1>1. CASE EngineMoves
  <2>1. cpu \in {"wait", "terminate"}
    BY <1>1 DEF EngineMoves, Channel, Quiet, TypeOK, InTransfer
  <2>2. TypeOK'
    BY <1>1 DEF EngineMoves, TypeOK, parameters, resources, InTransfer, Offsets
  <2>3. Channel' /\ Holdings'
    BY <1>1 DEF EngineMoves, Channel, Holdings, Quiet, resources, InTransfer
  <2>4. Bytes'
    BY <1>1, <2>1 DEF EngineMoves, Bytes, parameters, InTransfer, Offsets, Pattern, TypeOK
  <2> QED
    BY <2>2, <2>3, <2>4
<1>2. CASE EngineInterrupt \/ EngineTasklet \/ Callback
  <2> USE DEF EngineInterrupt, EngineTasklet, Callback, NoDesc
  <2>a. desc' \in [state : {"none", "prepared", "submitted", "active", "completed",
                           "callback"}, number : 0..transfers]
    BY <1>2 DEF TypeOK
  <2>b. UNCHANGED <<parameters, cpu, resources, number, source, destination, moved>>
        /\ done' \in BOOLEAN
    BY <1>2 DEF TypeOK
  <2>c. UNCHANGED Offsets
    BY <2>b DEF parameters, Offsets
  <2>1. TypeOK'
    BY <2>a, <2>b, <2>c DEF TypeOK, parameters, resources
  <2>2. Channel'
    BY <1>2 DEF Channel, Quiet, TypeOK, InTransfer
  <2>3. Holdings'
    BY <1>2 DEF Holdings, resources, InTransfer
  <2>4. Bytes'
    BY <1>2 DEF Bytes, parameters, InTransfer, Offsets, Pattern
  <2> QED
    BY <2>1, <2>2, <2>3, <2>4
<1> QED
  BY <1>1, <1>2

LEMMA NextIInv == IInv /\ [Next]_vars => IInv'
<1> SUFFICES ASSUME IInv, [Next]_vars PROVE IInv'
  OBVIOUS
<1>1. CASE InitStep \/ Exit
  BY <1>1, SetupSteps, TransferSteps DEF InitStep
<1>2. ASSUME NEW c \in Callers, Cleanup(c) PROVE IInv'
  BY <1>2, CleanupSteps
<1>3. CASE EngineMoves \/ EngineInterrupt \/ EngineTasklet \/ Callback
  BY <1>3, EngineSteps
<1>4. CASE UNCHANGED vars
  BY <1>4 DEF IInv, TypeOK, Channel, Holdings, Bytes, vars, parameters, resources, engine,
              InTransfer, Offsets, Pattern
<1> QED
  BY <1>1, <1>2, <1>3, <1>4 DEF Next

-----------------------------------------------------------------------------
\* The inductive invariant of lesson 20 holds in every reachable state.
THEOREM Invariance == Spec => []IInv
BY InitIInv, NextIInv, PTL DEF Spec

\* The variables of si_dma20.c have their types throughout: TypeOK.
THEOREM TypeCorrect == Spec => []TypeOK
<1>1. IInv => TypeOK
  BY DEF IInv
<1> QED
  BY Invariance, <1>1, PTL

\* The engine never works on freed buffers or for a released channel
\* (si_dma20.c:114): NoDmaAfterFree.
THEOREM EngineIsSafe == Spec => []NoDmaAfterFree
<1>1. IInv => NoDmaAfterFree
  BY DEF IInv, TypeOK, Channel, Holdings, Quiet, InTransfer, NoDmaAfterFree
<1> QED
  BY Invariance, <1>1, PTL

\* A callback finds the completion on the stack of its own transfer
\* (si_dma20.c:139, 163): CompletionIsAlive.
THEOREM CallbackIsSafe == Spec => []CompletionIsAlive
<1>1. IInv => CompletionIsAlive
  BY DEF IInv, TypeOK, Channel, Quiet, InTransfer, CompletionIsAlive
<1> QED
  BY Invariance, <1>1, PTL

\* CPU and engine do not use the buffers at the same time: BuffersHaveOneUser.
THEOREM BuffersAreHandedOver == Spec => []BuffersHaveOneUser
<1>1. IInv => BuffersHaveOneUser
  BY DEF IInv, Channel, Quiet, BuffersHaveOneUser
<1> QED
  BY Invariance, <1>1, PTL

\* insmod has verified every transfer, or nothing is left: AllOrNothing.
THEOREM InsmodIsAtomic == Spec => []AllOrNothing
<1>1. ASSUME IInv PROVE AllOrNothing
  BY <1>1 DEF IInv, Channel, Quiet, Holdings, Bytes, AllOrNothing
<1> QED
  BY Invariance, <1>1, PTL
=============================================================================
