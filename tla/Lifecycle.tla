----------------------------- MODULE Lifecycle -----------------------------
(***************************************************************************)
(* The runtime lifecycle of the node (CO_app_STM32_reference.c, main.c):   *)
(* the superloop that runs CANopen, recovers from bus-off and serves reset *)
(* commands, against the interrupts that share its state.                  *)
(*                                                                         *)
(* An interrupt preempts the mainline between any two of its steps and     *)
(* runs to completion, so each handler is one action; the mainline is cut  *)
(* where another context reads or writes what it is changing.  `pc' is the *)
(* place the mainline has reached, named after the function it is in:      *)
(*   init                 canopen_app_init                                 *)
(*   rc_*                 canopen_app_resetCommunication, `caller' says    *)
(*                        for whom                                         *)
(*   loop tick process    canopen_app_process, in the order of its body    *)
(*   uds command                                                           *)
(*   halted               Error_Handler, interrupts disabled               *)
(***************************************************************************)
EXTENDS CanRecovery

CONSTANT MaxLag  \* longest the mainline goes without reading the tick

ASSUME LagAssumption == MaxLag \in Nat \ {0}

VARIABLES
  now,            \* HAL_GetTick()
  lastTick,       \* canopenReferenceLastTick
  tick,           \* the local `now' of canopen_app_process
  elapsed,        \* the elapsed time last passed to CO_process, in ticks
  pc, caller,
  command,        \* the local resetCommand of canopen_app_process
  runtime,        \* canopenReferenceRuntimeState
  safeFault,      \* canopenReferenceSafeFault
  pending,        \* canopenReferenceCanRecoveryPending, set by the error ISR
  attemptActive,  \* canopenReferenceRecoveryAttemptActive
  rec,            \* canopenReferenceCanRecovery
  co,             \* CO # NULL
  canNormal,      \* CO->CANmodule->CANnormal
  timer,          \* TIM7 started
  rpdo,           \* output command received by the CAN ISR, not yet applied
  nmt,            \* reset command received by the CAN ISR, not yet served
  od,             \* OD_APP output objects command an energised output
  hw              \* the board's outputs are energised

clockVars == <<now, lastTick, tick, elapsed>>
flagVars  == <<safeFault, pending, attemptActive>>
rxVars    == <<rpdo, nmt>>
outVars   == <<od, hw>>
vars == <<clockVars, pc, caller, command, runtime, flagVars, rec, co, canNormal, timer,
          rxVars, outVars>>

Points == {"init", "rc_safe", "rc_stop", "rc_build", "rc_profiles", "rc_timer",
           "rc_normal", "rc_done", "loop", "tick", "process", "uds", "command",
           "halted"}

RuntimeStates == {"INIT", "RUNNING", "RESET_REQUESTED", "REINITIALIZING",
                  "SAFE_FAULT"}

TypeOK ==
  /\ {now, lastTick, tick, elapsed} \subseteq Ticks
  /\ pc \in Points /\ caller \in {"boot", "reset", "recovery"}
  /\ runtime \in RuntimeStates
  /\ {safeFault, pending, attemptActive} \subseteq BOOLEAN
  /\ rec \in Recoveries
  /\ {co, canNormal, timer, od, hw} \subseteq BOOLEAN
  /\ rpdo \in {"none", "off", "on"}
  /\ {nmt, command} \subseteq {"none", "comm", "app"}

\* Out of reset: statics are zero, main() has put the board into its safe
\* state and calls canopen_app_init.
AtReset ==
  /\ now = 0 /\ lastTick = 0 /\ tick = 0 /\ elapsed = 0
  /\ pc = "init" /\ caller = "boot" /\ command = "none" /\ runtime = "INIT"
  /\ safeFault = FALSE /\ pending = FALSE /\ attemptActive = FALSE
  /\ rec = RecoveryInit
  /\ co = FALSE /\ canNormal = FALSE /\ timer = FALSE
  /\ rpdo = "none" /\ nmt = "none" /\ od = FALSE /\ hw = FALSE

Init == AtReset

-----------------------------------------------------------------------------
(* Pieces the mainline functions share *)

ForceSafeApplication == od' = FALSE /\ hw' = FALSE

\* Mutant of Shutdown: TIM7 is left running.
ShutdownKeepsTimer ==
  ForceSafeApplication /\ canNormal' = FALSE /\ UNCHANGED timer

Shutdown == ForceSafeApplication /\ timer' = FALSE /\ canNormal' = FALSE

\* CANopenReference_FailRuntime: during a recovery attempt the node is only
\* shut down, otherwise the safe fault is latched too.  Every call is made
\* with CANnormal false or CO NULL, so no interrupt can see it half done.
FailRuntime(latch) ==
  /\ safeFault' = latch
  /\ runtime' = IF latch THEN "SAFE_FAULT" ELSE "REINITIALIZING"
  /\ Shutdown

\* HAL_NVIC_SystemReset: the chip restarts at AtReset.
SystemReset ==
  /\ now' = 0 /\ lastTick' = 0 /\ tick' = 0 /\ elapsed' = 0
  /\ pc' = "init" /\ caller' = "boot" /\ command' = "none" /\ runtime' = "INIT"
  /\ safeFault' = FALSE /\ pending' = FALSE /\ attemptActive' = FALSE
  /\ rec' = RecoveryInit
  /\ co' = FALSE /\ canNormal' = FALSE /\ timer' = FALSE
  /\ rpdo' = "none" /\ nmt' = "none" /\ od' = FALSE /\ hw' = FALSE

\* canopen_app_init returns an error: main() stops in Error_Handler, which
\* forces the board safe again; canopen_app_process goes on with a latched node.
InitFailed ==
  /\ FailRuntime(TRUE)
  /\ co' = FALSE
  /\ pc' = IF caller = "boot" THEN "halted" ELSE "loop"

-----------------------------------------------------------------------------
(* canopen_app_init *)

InitStart ==
  /\ safeFault' = FALSE /\ pending' = FALSE /\ attemptActive' = FALSE
  /\ rec' = RecoveryInit
  /\ runtime' = "INIT" /\ ForceSafeApplication

AppInit ==
  /\ pc = "init"
  /\ InitStart
  /\ co' = TRUE /\ canNormal' = FALSE /\ rpdo' = "none" /\ nmt' = "none"
  /\ pc' = "rc_safe"
  /\ UNCHANGED <<clockVars, caller, command, timer>>

\* CO_new finds no memory: nothing has been latched yet when main() stops.
AppInitNoMemory ==
  /\ pc = "init"
  /\ IF caller = "boot" THEN InitStart /\ pc' = "halted" /\ UNCHANGED <<co, canNormal, timer>>
     ELSE /\ InitFailed
          /\ pending' = FALSE /\ attemptActive' = FALSE /\ rec' = RecoveryInit
  /\ UNCHANGED <<clockVars, caller, command, rxVars>>

-----------------------------------------------------------------------------
(* canopen_app_resetCommunication *)

\* Mutant of ResetCommSafe: the node goes on reporting RUNNING.
ResetCommSafeSilent ==
  /\ pc = "rc_safe"
  /\ ForceSafeApplication
  /\ pc' = "rc_stop"
  /\ UNCHANGED <<clockVars, caller, command, runtime, flagVars, rec, co, canNormal,
                 timer, rxVars>>

ResetCommSafe ==
  /\ pc = "rc_safe"
  /\ runtime' = "REINITIALIZING" /\ ForceSafeApplication
  /\ pc' = "rc_stop"
  /\ UNCHANGED <<clockVars, caller, command, flagVars, rec, co, canNormal, timer, rxVars>>

\* CANnormal is cleared, the controller stopped and put into configuration.
ResetCommStop ==
  /\ pc = "rc_stop"
  /\ canNormal' = FALSE
  /\ pc' = "rc_build"
  /\ UNCHANGED <<clockVars, caller, command, runtime, flagVars, rec, co, timer, rxVars,
                 outVars>>

\* CO_CANinit to UDS_Init: the rebuilt objects hold no received command.
ResetCommBuild ==
  /\ pc = "rc_build"
  /\ rpdo' = "none" /\ nmt' = "none"
  /\ pc' = "rc_profiles"
  /\ UNCHANGED <<clockVars, caller, command, runtime, flagVars, rec, co, canNormal,
                 timer, outVars>>

\* Mutant of ResetCommProfiles: the output objects keep their last command.
ResetCommProfilesKeepsOutputs ==
  /\ pc = "rc_profiles"
  /\ hw' = FALSE
  /\ pc' = "rc_timer"
  /\ UNCHANGED <<clockVars, caller, command, runtime, flagVars, rec, co,
                 canNormal, timer, rxVars, od>>

\* Cia401Reference_Init, Cia402Reference_Init
ResetCommProfiles ==
  /\ pc = "rc_profiles"
  /\ ForceSafeApplication
  /\ pc' = "rc_timer"
  /\ UNCHANGED <<clockVars, caller, command, runtime, flagVars, rec, co, canNormal,
                 timer, rxVars>>

ResetCommTimer ==
  /\ pc = "rc_timer"
  /\ timer' = TRUE
  /\ pc' = "rc_normal"
  /\ UNCHANGED <<clockVars, caller, command, runtime, flagVars, rec, co, canNormal,
                 rxVars, outVars>>

ResetCommNormal ==
  /\ pc = "rc_normal"
  /\ canNormal' = TRUE
  /\ pc' = "rc_done"
  /\ UNCHANGED <<clockVars, caller, command, runtime, flagVars, rec, co, timer, rxVars,
                 outVars>>

\* Success, and the return to the caller.
ResetCommDone ==
  /\ pc = "rc_done"
  /\ lastTick' = now
  /\ safeFault' = FALSE /\ runtime' = "RUNNING"
  /\ rec' = Succeeded(rec)
  /\ attemptActive' = FALSE
  /\ pc' = IF caller = "recovery" THEN "tick" ELSE "loop"
  /\ UNCHANGED <<now, tick, elapsed, caller, command, pending, co, canNormal, timer,
                 rxVars, outVars>>

\* One of the calls fails.  The objects that hold received commands have been
\* rebuilt by then or not.
BuildFails ==
  /\ pc \in {"rc_build", "rc_timer"}
  /\ rpdo' \in {rpdo, "none"} /\ nmt' \in {nmt, "none"}

\* ... on behalf of canopen_app_init, which deletes the CANopen objects ...
ResetCommFailsInit ==
  /\ BuildFails /\ caller # "recovery"
  /\ InitFailed
  /\ UNCHANGED <<clockVars, caller, command, pending, attemptActive, rec>>

\* ... or of CANopenReference_ProcessCanRecovery, which retries later ...
ResetCommFailsRetry ==
  /\ BuildFails /\ caller = "recovery"
  /\ rec' = Failed(rec, tick) /\ rec'.state # "FAULT"
  /\ FailRuntime(~attemptActive)
  /\ attemptActive' = FALSE
  /\ pc' = "tick"
  /\ UNCHANGED <<clockVars, caller, command, pending, co>>

\* ... until the attempts are used up: a second FailRuntime, after the attempt,
\* latches.
ResetCommFailsFault ==
  /\ BuildFails /\ caller = "recovery"
  /\ rec' = Failed(rec, tick) /\ rec'.state = "FAULT"
  /\ attemptActive' = FALSE
  /\ FailRuntime(TRUE)
  /\ pc' = "tick"
  /\ UNCHANGED <<clockVars, caller, command, pending, co>>

-----------------------------------------------------------------------------
(* canopen_app_process *)

AfterRequest == IF pending THEN Request(rec, now) ELSE rec

\* Entry: the tick is read, a bus-off reported by the ISR starts the wait.
Loop ==
  /\ pc = "loop" /\ co /\ ~safeFault
  /\ tick' = now
  /\ pending' = FALSE
  /\ rec' = AfterRequest
  /\ IF Ready(AfterRequest, now)
     THEN attemptActive' = TRUE /\ caller' = "recovery" /\ pc' = "rc_safe"
     ELSE UNCHANGED <<attemptActive, caller>> /\ pc' = "tick"
  /\ UNCHANGED <<now, lastTick, elapsed, command, runtime, safeFault, co,
                 canNormal, timer, rxVars, outVars>>

SameTick ==
  /\ pc = "tick" /\ tick = lastTick
  /\ pc' = "loop"
  /\ UNCHANGED <<clockVars, caller, command, runtime, flagVars, rec, co, canNormal,
                 timer, rxVars, outVars>>

NewTick ==
  /\ pc = "tick" /\ tick # lastTick
  /\ elapsed' = Since(tick, lastTick)
  /\ lastTick' = tick
  /\ pc' = "process"
  /\ UNCHANGED <<now, tick, caller, command, runtime, flagVars, rec, co, canNormal,
                 timer, rxVars, outVars>>

\* CO_process: takes the received NMT command; an SDO download may write the
\* output objects.
Process ==
  /\ pc = "process"
  /\ command' = nmt /\ nmt' = "none"
  /\ od' \in BOOLEAN
  /\ pc' = "uds"
  /\ UNCHANGED <<clockVars, caller, runtime, flagVars, rec, co, canNormal,
                 timer, rpdo, hw>>

\* CANopenReference_UDS_Process leaves no ECU reset pending ...
UdsProcess ==
  /\ pc = "uds"
  /\ pc' = "command"
  /\ UNCHANGED <<clockVars, caller, command, runtime, flagVars, rec, co, canNormal,
                 timer, rxVars, outVars>>

\* ... or it does.
EcuReset == pc = "uds" /\ SystemReset

NoCommand ==
  /\ pc = "command" /\ command = "none"
  /\ pc' = "loop"
  /\ UNCHANGED <<clockVars, caller, command, runtime, flagVars, rec, co, canNormal,
                 timer, rxVars, outVars>>

ResetCommand ==
  /\ pc = "command" /\ command = "comm"
  /\ runtime' = "RESET_REQUESTED"
  /\ timer' = FALSE
  /\ co' = FALSE /\ canNormal' = FALSE /\ rpdo' = "none" /\ nmt' = "none"
  /\ caller' = "reset" /\ pc' = "init" /\ command' = "none"
  /\ UNCHANGED <<clockVars, flagVars, rec, outVars>>

ResetApplication == pc = "command" /\ command = "app" /\ SystemReset

\* Error_Handler never returns.
Halted == pc = "halted" /\ UNCHANGED vars

ResetComm ==
  \/ ResetCommSafe \/ ResetCommStop \/ ResetCommBuild \/ ResetCommProfiles
  \/ ResetCommTimer \/ ResetCommNormal \/ ResetCommDone
  \/ ResetCommFailsInit \/ ResetCommFailsRetry \/ ResetCommFailsFault

Mainline ==
  \/ AppInit \/ AppInitNoMemory
  \/ ResetComm
  \/ Loop \/ SameTick \/ NewTick \/ Process \/ UdsProcess \/ EcuReset
  \/ NoCommand \/ ResetCommand \/ ResetApplication

-----------------------------------------------------------------------------
(* Interrupts *)

\* SysTick, no further ahead of the mainline than MaxLag; a latched node no
\* longer looks at the tick.
SysTick ==
  /\ pc # "halted"
  /\ safeFault \/ Since(now, lastTick) < MaxLag
  /\ now' = After(now, 1)
  /\ UNCHANGED <<lastTick, tick, elapsed, pc, caller, command, runtime, flagVars, rec,
                 co, canNormal, timer, rxVars, outVars>>

\* canopen_app_interrupt: RPDO into the OD, OD onto the outputs.
Tim7Isr ==
  /\ timer /\ co /\ canNormal
  /\ od' = IF rpdo = "none" THEN od ELSE (rpdo = "on")
  /\ hw' = od'
  /\ rpdo' = "none"
  /\ UNCHANGED <<clockVars, pc, caller, command, runtime, flagVars, rec, co, canNormal,
                 timer, nmt>>

CanRxRpdo ==
  /\ co /\ canNormal
  /\ rpdo' \in {"off", "on"}
  /\ UNCHANGED <<clockVars, pc, caller, command, runtime, flagVars, rec, co, canNormal,
                 timer, nmt, outVars>>

CanRxNmt ==
  /\ co /\ canNormal
  /\ nmt' \in {"comm", "app"}
  /\ UNCHANGED <<clockVars, pc, caller, command, runtime, flagVars, rec, co, canNormal,
                 timer, rpdo, outVars>>

\* HAL_CAN_ErrorCallback with the bus-off bit.
CanBusOff ==
  /\ co /\ canNormal
  /\ pending' = TRUE
  /\ UNCHANGED <<clockVars, pc, caller, command, runtime, safeFault, attemptActive, rec,
                 co, canNormal, timer, rxVars, outVars>>

Interrupt == SysTick \/ Tim7Isr \/ CanRxRpdo \/ CanRxNmt \/ CanBusOff

Next == Mainline \/ Interrupt \/ Halted

\* The superloop never blocks and SysTick never stops; nothing obliges the
\* bus to deliver frames or errors.
Fairness == WF_vars(Mainline) /\ WF_vars(SysTick)

Spec == Init /\ [][Next]_vars /\ Fairness

-----------------------------------------------------------------------------
(* What the lifecycle promises *)

\* A latched safe fault (FailRuntime) leaves nothing that could energise an
\* output again: outputs off, no TIM7, CAN down, and the state says so.
SafeFaultIsSafe ==
  safeFault /\ pc # "init" =>
    ~hw /\ ~timer /\ ~(co /\ canNormal) /\ runtime = "SAFE_FAULT"

\* The node only reports RUNNING while its CANopen objects exist, CAN is in
\* normal mode and TIM7 serves PDOs, through every failed or repeated
\* communication reset.
RunningIsServed == runtime = "RUNNING" => co /\ canNormal /\ timer

\* Whenever the superloop is entered the node runs, has a retry scheduled, or
\* is latched: no failure path of the reset leaves it waiting for nothing.
NoLimbo ==
  pc = "loop" =>
    IF safeFault THEN rec.state # "WAIT_RECOVERY" \/ ~co
    ELSE runtime = "RUNNING" \/ rec.state = "WAIT_RECOVERY"

\* The attempt limit is respected: the last failed attempt allowed faults the
\* policy, and latches the node before the superloop goes on.
AttemptsBounded ==
  /\ rec.attempts = MaxAttempts => rec.state = "FAULT"
  /\ rec.state = "FAULT" => safeFault \/ pc = "init"

\* CAN comes up with no output command pending anywhere: nothing received, or
\* written, before a communication reset drives an output after it.
CanStartsClean == ~canNormal /\ canNormal' => ~od' /\ ~hw' /\ rpdo' = "none"

RestartsClean == [][CanStartsClean]_vars

\* Once the bus reports no further bus-off, a recovery ends: the node runs
\* again, restarts or latches the fault.
RecoveryConcludes ==
  <>[](~pending) => (rec.state = "WAIT_RECOVERY" ~> rec.state # "WAIT_RECOVERY")

\* A latched safe fault is left only through a system reset
\* (canopen_reference_config.h:70-72, "enter a latched safe fault").  The code
\* lets a reset command received before the fault clear the latch.
LatchHolds == [][safeFault => safeFault' \/ SystemReset]_vars

\* CO_process is told the time since its last call, never a difference that
\* wrapped (execution_model_and_timing_analysis.md:43).  The code wraps it after
\* a recovery that took longer than the millisecond it started in.
ElapsedIsPast == elapsed < TickMod \div 2
=============================================================================
