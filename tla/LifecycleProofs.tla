-------------------------- MODULE LifecycleProofs --------------------------
(***************************************************************************)
(* What Lifecycle guarantees for every tick range, wait, attempt limit and *)
(* mainline delay: the safety properties its run checks on one instance.   *)
(*                                                                         *)
(* They are proved from one inductive invariant, LifecycleInv.  None of    *)
(* them is inductive alone: that a latched node is safe, for instance,     *)
(* depends on the communication reset never running latched (ResetShape),  *)
(* and that a node reporting RUNNING is served depends on what each point  *)
(* of the reset has already established (ResetProgress).                   *)
(***************************************************************************)
EXTENDS Lifecycle, TLAPS

ResetPoints == {"rc_safe", "rc_stop", "rc_build", "rc_profiles", "rc_timer",
                "rc_normal", "rc_done"}

PassPoints == {"loop", "tick", "process", "uds", "command"}

\* Where the CANopen objects exist, and for whom the reset runs.
ResetShape ==
  /\ pc \in ResetPoints \cup {"tick", "process", "uds", "command"} => co
  /\ pc \in ResetPoints => ~safeFault /\ (attemptActive <=> caller = "recovery")
  /\ pc = "init" => runtime # "RUNNING" /\ ~co /\ caller # "recovery"

\* What has been established at each point of the communication reset.
ResetProgress ==
  /\ pc \in ResetPoints \ {"rc_safe"} => runtime = "REINITIALIZING"
  /\ pc \in {"rc_build", "rc_profiles", "rc_timer", "rc_normal"} => ~canNormal
  /\ pc \in {"rc_profiles", "rc_timer", "rc_normal"} => rpdo = "none"
  /\ pc \in {"rc_timer", "rc_normal"} => ~od /\ ~hw
  /\ pc \in {"rc_normal", "rc_done"} => timer
  /\ pc = "rc_done" => canNormal

\* NoLimbo holds through the whole pass of the superloop.
PassShape ==
  pc \in PassPoints =>
    IF safeFault THEN rec.state # "WAIT_RECOVERY" \/ ~co
    ELSE runtime = "RUNNING" \/ rec.state = "WAIT_RECOVERY"

LifecycleInv ==
  /\ TypeOK
  /\ SafeFaultIsSafe
  /\ RunningIsServed
  /\ AttemptsBounded
  /\ ResetShape
  /\ ResetProgress
  /\ PassShape

-----------------------------------------------------------------------------
(* The clock and the recovery policy *)

\* Adding to a tick and subtracting two ticks stay within the tick's range.
LEMMA TickArithmetic ==
  /\ \A t \in Ticks, ms \in Nat : After(t, ms) \in Ticks
  /\ \A t, e \in Ticks : Since(t, e) \in Ticks
  /\ 0 \in Ticks
<1>1. \A n \in Nat : n % TickMod \in Ticks
  BY TickModAssumption DEF Ticks
<1>2. \A t, e \in Ticks : t + TickMod - e \in Nat
  BY TickModAssumption DEF Ticks
<1>3. \A t \in Ticks, ms \in Nat : t + ms \in Nat
  BY DEF Ticks
<1> QED
  BY <1>1, <1>2, <1>3, TickModAssumption DEF After, Since, Ticks

\* Each operation of the recovery policy keeps its record well formed, and
\* a failed attempt faults exactly when it is the last one allowed.
LEMMA RecoveryOperations ==
  ASSUME NEW r \in Recoveries, NEW t \in Ticks, r.state # "FAULT",
         r.attempts < MaxAttempts
  PROVE  /\ Request(r, t) \in Recoveries
         /\ Request(r, t).state = "WAIT_RECOVERY"
         /\ Request(r, t).attempts = r.attempts
         /\ Succeeded(r) \in Recoveries
         /\ Succeeded(r).state = "RUNNING"
         /\ Succeeded(r).attempts = r.attempts
         /\ Failed(r, t) \in Recoveries
         /\ Failed(r, t).state \in {"FAULT", "WAIT_RECOVERY"}
         /\ Failed(r, t).attempts = MaxAttempts <=> Failed(r, t).state = "FAULT"
<1>1. After(t, WaitMs) \in Ticks /\ 0 \in Ticks
  BY TickArithmetic, RecoveryAssumption
<1>2. r.attempts \in Nat /\ r.attempts + 1 \in 0 .. MaxAttempts
  BY RecoveryAssumption DEF Recoveries
<1>3. /\ Request(r, t) \in Recoveries
      /\ Request(r, t).state = "WAIT_RECOVERY"
      /\ Request(r, t).attempts = r.attempts
  BY <1>1 DEF Request, Recoveries, RecoveryStates
<1>4. /\ Succeeded(r) \in Recoveries
      /\ Succeeded(r).state = "RUNNING"
      /\ Succeeded(r).attempts = r.attempts
  BY <1>1 DEF Succeeded, Recoveries, RecoveryStates
<1>5. /\ Failed(r, t) \in Recoveries
      /\ Failed(r, t).state \in {"FAULT", "WAIT_RECOVERY"}
      /\ Failed(r, t).attempts = MaxAttempts <=> Failed(r, t).state = "FAULT"
  <2>1. CASE r.attempts + 1 >= MaxAttempts
    <3>1. r.attempts + 1 = MaxAttempts
      BY <1>2, <2>1, RecoveryAssumption
    <3>2. Failed(r, t) = [state |-> "FAULT", due |-> r.due, attempts |-> MaxAttempts]
      BY <2>1, <3>1 DEF Failed, Recoveries
    <3>3. r.due \in Ticks /\ MaxAttempts \in 0 .. MaxAttempts
      BY RecoveryAssumption DEF Recoveries
    <3> QED
      BY <3>2, <3>3 DEF Recoveries, RecoveryStates
  <2>2. CASE ~(r.attempts + 1 >= MaxAttempts)
    <3> DEFINE n == r.attempts + 1
    <3>1. n \in 0 .. MaxAttempts /\ n # MaxAttempts
      BY <1>2, <2>2, RecoveryAssumption
    <3>2. Failed(r, t) = [state |-> "WAIT_RECOVERY", due |-> After(t, WaitMs),
                          attempts |-> n]
      BY <2>2 DEF Failed, Recoveries
    <3> HIDE DEF n
    <3> QED
      BY <1>1, <3>1, <3>2 DEF Recoveries, RecoveryStates
  <2> QED
    BY <2>1, <2>2
<1> QED
  BY <1>3, <1>4, <1>5

\* The record the node starts with is well formed.
LEMMA RecoveryStart ==
  RecoveryInit \in Recoveries /\ RecoveryInit.state = "RUNNING" /\ RecoveryInit.attempts = 0
BY TickArithmetic, RecoveryAssumption DEF RecoveryInit, Recoveries, RecoveryStates

-----------------------------------------------------------------------------
(* The inductive invariant *)

\* Out of reset the invariant holds.
LEMMA LifecycleInit == Init => LifecycleInv
<1> SUFFICES ASSUME Init PROVE LifecycleInv
  OBVIOUS
<1>1. RecoveryInit \in Recoveries /\ RecoveryInit.state = "RUNNING"
      /\ RecoveryInit.attempts = 0 /\ 0 \in Ticks
  BY RecoveryStart, TickArithmetic
<1>2. TypeOK
  BY <1>1 DEF Init, AtReset, TypeOK, Points, RuntimeStates
<1>3. AttemptsBounded
  BY <1>1, RecoveryAssumption DEF Init, AtReset, AttemptsBounded
<1> QED
  BY <1>2, <1>3
  DEF Init, AtReset, LifecycleInv, SafeFaultIsSafe, RunningIsServed, ResetShape,
      ResetProgress, PassShape, ResetPoints, PassPoints

\* Every step of the mainline and of the interrupts preserves it.
LEMMA LifecycleStep == LifecycleInv /\ [Next]_vars => LifecycleInv'
<1> SUFFICES ASSUME LifecycleInv, [Next]_vars PROVE LifecycleInv'
  OBVIOUS
<1> USE DEF LifecycleInv, TypeOK, Points, RuntimeStates, SafeFaultIsSafe,
            RunningIsServed, AttemptsBounded, ResetShape, ResetProgress, PassShape,
            ResetPoints, PassPoints, clockVars, flagVars, rxVars, outVars
<1>a. RecoveryInit \in Recoveries /\ RecoveryInit.state = "RUNNING"
      /\ RecoveryInit.attempts = 0 /\ RecoveryInit.attempts # MaxAttempts
  BY RecoveryStart, RecoveryAssumption
<1>b. 0 \in Ticks /\ Since(tick, lastTick) \in Ticks /\ After(now, 1) \in Ticks
  BY TickArithmetic
<1>1. CASE AppInit
  BY <1>1, <1>a DEF AppInit, InitStart, ForceSafeApplication
<1>2. CASE AppInitNoMemory
  <2>1. CASE caller = "boot"
    BY <1>2, <1>a, <2>1 DEF AppInitNoMemory, InitStart, ForceSafeApplication
  <2>2. CASE caller # "boot"
    BY <1>2, <1>a, <2>2 DEF AppInitNoMemory, InitFailed, FailRuntime, Shutdown,
                            ForceSafeApplication
  <2> QED
    BY <2>1, <2>2
<1>3. CASE ResetCommSafe
  BY <1>3 DEF ResetCommSafe, ForceSafeApplication
<1>4. CASE ResetCommStop
  BY <1>4 DEF ResetCommStop
<1>5. CASE ResetCommBuild
  BY <1>5 DEF ResetCommBuild
<1>6. CASE ResetCommProfiles
  BY <1>6 DEF ResetCommProfiles, ForceSafeApplication
<1>7. CASE ResetCommTimer
  BY <1>7 DEF ResetCommTimer
<1>8. CASE ResetCommNormal
  BY <1>8 DEF ResetCommNormal
<1>9. CASE SysTick
  BY <1>9, <1>b DEF SysTick
<1>10. CASE SameTick
  BY <1>10 DEF SameTick
<1>11. CASE NewTick
  BY <1>11, <1>b DEF NewTick
<1>12. CASE Process
  BY <1>12 DEF Process
<1>13. CASE UdsProcess
  BY <1>13 DEF UdsProcess
<1>14. CASE EcuReset \/ ResetApplication
  BY <1>14, <1>a, <1>b DEF EcuReset, ResetApplication, SystemReset
<1>15. CASE NoCommand
  BY <1>15 DEF NoCommand
<1>16. CASE ResetCommand
  BY <1>16 DEF ResetCommand
<1>17. CASE Tim7Isr
  BY <1>17 DEF Tim7Isr
<1>18. CASE CanRxRpdo \/ CanRxNmt
  BY <1>18 DEF CanRxRpdo, CanRxNmt
<1>19. CASE CanBusOff
  BY <1>19 DEF CanBusOff
<1>20. CASE Loop
  <2>1. rec \in Recoveries /\ now \in Ticks /\ rec.state # "FAULT" /\ ~safeFault
    BY <1>20 DEF Loop
  <2>2. rec.attempts < MaxAttempts
    BY <2>1, RecoveryAssumption DEF Recoveries
  <2>3. /\ AfterRequest \in Recoveries
        /\ AfterRequest.attempts = rec.attempts
        /\ AfterRequest = rec \/ AfterRequest.state = "WAIT_RECOVERY"
    BY <2>1, <2>2, RecoveryOperations DEF AfterRequest
  <2>4. AfterRequest.attempts # MaxAttempts /\ AfterRequest.state # "FAULT"
    BY <2>1, <2>2, <2>3, RecoveryAssumption DEF Recoveries
  <2>5. CASE Ready(AfterRequest, now)
    BY <1>20, <2>3, <2>4, <2>5 DEF Loop
  <2>6. CASE ~Ready(AfterRequest, now)
    BY <1>20, <2>1, <2>3, <2>4, <2>6 DEF Loop
  <2> QED
    BY <2>5, <2>6
<1>21. CASE ResetCommDone
  <2>1. rec \in Recoveries /\ rec.state # "FAULT"
    BY <1>21 DEF ResetCommDone
  <2>2. rec.attempts < MaxAttempts /\ now \in Ticks
    BY <2>1, RecoveryAssumption DEF Recoveries
  <2>3. /\ Succeeded(rec) \in Recoveries /\ Succeeded(rec).state = "RUNNING"
        /\ Succeeded(rec).attempts = rec.attempts /\ rec.attempts # MaxAttempts
    BY <2>1, <2>2, RecoveryOperations, RecoveryAssumption DEF Recoveries
  <2> QED
    BY <1>21, <2>3 DEF ResetCommDone
<1>22. CASE ResetCommFailsInit
  BY <1>22 DEF ResetCommFailsInit, BuildFails, InitFailed, FailRuntime, Shutdown,
               ForceSafeApplication
<1>23. CASE ResetCommFailsRetry \/ ResetCommFailsFault
  <2>1. rec \in Recoveries /\ rec.state # "FAULT" /\ attemptActive
    BY <1>23 DEF ResetCommFailsRetry, ResetCommFailsFault, BuildFails
  <2>2. rec.attempts < MaxAttempts /\ tick \in Ticks
    BY <2>1, RecoveryAssumption DEF Recoveries
  <2>3. /\ Failed(rec, tick) \in Recoveries
        /\ Failed(rec, tick).state \in {"FAULT", "WAIT_RECOVERY"}
        /\ Failed(rec, tick).attempts = MaxAttempts <=> Failed(rec, tick).state = "FAULT"
    BY <2>1, <2>2, RecoveryOperations
  <2>4. CASE ResetCommFailsRetry
    BY <2>1, <2>3, <2>4 DEF ResetCommFailsRetry, BuildFails, FailRuntime, Shutdown,
                            ForceSafeApplication
  <2>5. CASE ResetCommFailsFault
    BY <2>3, <2>5 DEF ResetCommFailsFault, BuildFails, FailRuntime, Shutdown,
                      ForceSafeApplication
  <2> QED
    BY <1>23, <2>4, <2>5
<1>24. CASE Halted \/ UNCHANGED vars
  BY <1>24 DEF Halted, vars
<1> QED
  BY <1>1, <1>2, <1>3, <1>4, <1>5, <1>6, <1>7, <1>8, <1>9, <1>10, <1>11, <1>12, <1>13,
     <1>14, <1>15, <1>16, <1>17, <1>18, <1>19, <1>20, <1>21, <1>22, <1>23, <1>24
  DEF Next, Mainline, Interrupt, ResetComm

\* The invariant holds in every reachable state.
THEOREM LifecycleInvariant == Spec => []LifecycleInv
<1>1. LifecycleInv /\ [Next]_vars => LifecycleInv'
  BY LifecycleStep
<1> QED
  BY LifecycleInit, <1>1, PTL DEF Spec

-----------------------------------------------------------------------------
(* What it guarantees *)

\* Type correctness: in particular the attempt counter never exceeds its
\* limit, and every deadline is a value of the tick.
THEOREM LifecycleTyping == Spec => []TypeOK
<1>1. LifecycleInv => TypeOK
  BY DEF LifecycleInv
<1> QED
  BY LifecycleInvariant, <1>1, PTL

\* A latched safe fault has outputs, TIM7 and CAN down
\* (CANopenReference_FailRuntime and every caller of it).
THEOREM LatchedNodeIsSafe == Spec => []SafeFaultIsSafe
<1>1. LifecycleInv => SafeFaultIsSafe
  BY DEF LifecycleInv
<1> QED
  BY LifecycleInvariant, <1>1, PTL

\* RUNNING is reported only while CAN and TIM7 serve the node.
THEOREM RunningNodeIsServed == Spec => []RunningIsServed
<1>1. LifecycleInv => RunningIsServed
  BY DEF LifecycleInv
<1> QED
  BY LifecycleInvariant, <1>1, PTL

\* The superloop is never entered by a node that waits for nothing.
THEOREM NodeIsNeverInLimbo == Spec => []NoLimbo
<1>1. LifecycleInv => NoLimbo
  BY DEF LifecycleInv, PassShape, PassPoints, NoLimbo
<1> QED
  BY LifecycleInvariant, <1>1, PTL

\* The attempt limit faults the policy and latches the node.
THEOREM RecoveryAttemptsAreBounded == Spec => []AttemptsBounded
<1>1. LifecycleInv => AttemptsBounded
  BY DEF LifecycleInv
<1> QED
  BY LifecycleInvariant, <1>1, PTL

\* CAN is brought up with no output command left from before the reset.
THEOREM CommunicationRestartsClean == Spec => RestartsClean
<1>1. LifecycleInv /\ [Next]_vars => [CanStartsClean]_vars
  <2> SUFFICES ASSUME LifecycleInv, Next, ~canNormal, canNormal'
               PROVE  ~od' /\ ~hw' /\ rpdo' = "none"
    BY DEF CanStartsClean, vars, clockVars, flagVars, rxVars, outVars
  <2>1. ResetCommNormal
    BY DEF Next, Mainline, Interrupt, ResetComm, AppInit, AppInitNoMemory, InitStart,
           InitFailed, FailRuntime, Shutdown, ResetCommSafe, ResetCommStop,
           ResetCommBuild, ResetCommProfiles, ResetCommTimer, ResetCommDone,
           ResetCommFailsInit, ResetCommFailsRetry, ResetCommFailsFault, Loop,
           SameTick, NewTick, Process, UdsProcess, EcuReset, SystemReset, NoCommand,
           ResetCommand, ResetApplication, SysTick, Tim7Isr, CanRxRpdo, CanRxNmt,
           CanBusOff, Halted, vars, clockVars, flagVars, rxVars, outVars
  <2> QED
    BY <2>1 DEF ResetCommNormal, LifecycleInv, ResetProgress, rxVars, outVars
<1> QED
  BY LifecycleInvariant, <1>1, PTL DEF Spec, RestartsClean
=============================================================================
