----------------------------- MODULE DriveNode -----------------------------
(***************************************************************************)
(* The drive personality with the watchdog: TIM7 runs the drive state      *)
(* machine, the superloop takes the node down and rebuilds it after a      *)
(* bus-off or a reset command, and the watchdog looks after both.  The     *)
(* lifecycle is that of Lifecycle, cut to what the drive and the watchdog  *)
(* see of it, with the three writes of ForceDisable apart and with time:   *)
(* SysTick counts milliseconds, in each of which the superloop and TIM7    *)
(* have their turn unless one of them has stalled.                         *)
(***************************************************************************)
EXTENDS Cia402Drive, Watchdog

CONSTANTS
  Controls,     \* the controlwords that the network sends
  WaitMs,       \* CANOPEN_REFERENCE_CAN_RECOVERY_WAIT_MS
  MaxAttempts,  \* CANOPEN_REFERENCE_CAN_RECOVERY_MAX_ATTEMPTS
  MaxWraps      \* bound on wraps of the tick during a stall; they are 49 days apart

ASSUME NodeAssumption ==
  /\ \A c \in Controls : c \subseteq ControlBits
  /\ WaitMs \in Nat \ {0} /\ MaxAttempts \in Nat \ {0} /\ MaxWraps \in Nat

VARIABLES
  pc, caller,
  canNormal, timer,  \* CANnormal with CO not NULL, and TIM7 enabled
  wait,              \* ms until the recovery is due, 0 when none is scheduled
  attempts,          \* failed attempts
  safeFault,
  passed, ticked,    \* the superloop, and TIM7, had their turn this millisecond
  stalled,           \* who no longer gets it: "none", "mainline" or "timer"
  stallMs,           \* for how long, up to MaxStall
  wraps,             \* how often the tick wrapped meanwhile
  starving           \* history: a rebuild has failed, and since TIM7 runs again
                     \* the watchdog has not been refreshed

downVars == <<wait, attempts, safeFault, starving>>
turnVars == <<passed, ticked>>
stallVars == <<stalled, stallMs, wraps>>
nodeVars == <<canNormal, timer>>
driveVars == <<drive, control, mode, healthy>>
vars == <<pc, caller, nodeVars, downVars, turnVars, stallVars, driveVars, wd>>

\* When a stall must have been answered that saw n wraps: a grace time and the
\* watchdog's time, and the two again after every wrap.
AnsweredIn(n) == (1 + n) * (GraceMs + IwdgMs)

MaxStall == AnsweredIn(MaxWraps)

Init ==
  /\ pc = "init" /\ caller = "boot" /\ canNormal = FALSE /\ timer = FALSE
  /\ wait = 0 /\ attempts = 0 /\ safeFault = FALSE /\ starving = FALSE
  /\ passed = FALSE /\ ticked = FALSE
  /\ stalled = "none" /\ stallMs = 0 /\ wraps = 0
  /\ drive = DriveOff("SWITCH_ON_DISABLED") /\ control = {} /\ mode = FALSE
  /\ healthy = TRUE /\ wd = WdInit

-----------------------------------------------------------------------------
(* The superloop *)

Mainline(at) == pc = at /\ stalled # "mainline"

\* canopen_app_init, up to resetCommunication: no interrupt reaches the drive.
AppInit ==
  /\ Mainline("init") /\ pc' = "safe_enable"
  /\ ForceDisable
  /\ wait' = 0 /\ attempts' = 0 /\ safeFault' = FALSE
  /\ UNCHANGED <<caller, starving, nodeVars, turnVars, stallVars, control, mode, healthy, wd>>

\* Cia402Reference_ForceDisable at the head of resetCommunication, TIM7 and CAN
\* still running: the enable, the statusword, the display.
SafeEnable ==
  /\ Mainline("safe_enable") /\ pc' = "safe_status"
  /\ drive' = [drive EXCEPT !.enable = FALSE]
  /\ UNCHANGED <<caller, nodeVars, downVars, turnVars, stallVars, control, mode, healthy, wd>>

SafeStatus ==
  /\ Mainline("safe_status") /\ pc' = "safe_display"
  /\ drive' = [drive EXCEPT !.status = "SWITCH_ON_DISABLED"]
  /\ UNCHANGED <<caller, nodeVars, downVars, turnVars, stallVars, control, mode, healthy, wd>>

SafeDisplay ==
  /\ Mainline("safe_display") /\ pc' = "stop"
  /\ drive' = [drive EXCEPT !.display = FALSE]
  /\ UNCHANGED <<caller, nodeVars, downVars, turnVars, stallVars, control, mode, healthy, wd>>

\* CANnormal is cleared; TIM7 goes on ticking and no longer sees the drive.
CanDown ==
  /\ Mainline("stop") /\ pc' = "build"
  /\ canNormal' = FALSE
  /\ UNCHANGED <<caller, timer, downVars, turnVars, stallVars, driveVars, wd>>

\* Mutant of ProfilesInit: the drive personality is not initialised.
ProfilesInitSkipped ==
  /\ Mainline("build") /\ pc' = "start"
  /\ UNCHANGED <<caller, nodeVars, downVars, turnVars, stallVars, driveVars, wd>>

\* Everything from CO_CANinit to Cia402Reference_Init.
ProfilesInit ==
  /\ Mainline("build") /\ pc' = "start"
  /\ DriveInit
  /\ UNCHANGED <<caller, nodeVars, downVars, turnVars, stallVars, healthy, wd>>

\* TIM7 is started, then CAN enters normal mode.
Start ==
  /\ Mainline("start") /\ pc' = "normal"
  /\ timer' = TRUE
  /\ UNCHANGED <<caller, canNormal, downVars, turnVars, stallVars, driveVars, wd>>

CanUp ==
  /\ Mainline("normal") /\ pc' = "watchdog"
  /\ canNormal' = TRUE
  /\ wait' = 0 /\ safeFault' = FALSE
  /\ UNCHANGED <<caller, timer, attempts, starving, turnVars, stallVars, driveVars, wd>>

\* Mutant of FailRuntime: the drive is left as it is.
FailRuntimeDriveLeft(latch) ==
  /\ safeFault' = latch /\ starving' = TRUE /\ timer' = FALSE /\ canNormal' = FALSE
  /\ UNCHANGED drive

\* CANopenReference_FailRuntime
FailRuntime(latch) ==
  /\ safeFault' = latch /\ starving' = TRUE /\ timer' = FALSE /\ canNormal' = FALSE
  /\ ForceDisable

\* A step of the rebuild fails for canopen_app_init: main() stops for good, or
\* the node is left without CANopen after a reset command.
BuildFailsInit ==
  /\ Mainline("build") \/ Mainline("start")
  /\ caller # "recovery"
  /\ FailRuntime(TRUE)
  /\ pc' = IF caller = "boot" THEN "halted" ELSE "watchdog"
  /\ UNCHANGED <<caller, wait, attempts, turnVars, stallVars, control, mode, healthy, wd>>

\* The pass goes on after a failed recovery, although the fault be latched, and
\* may find a reset-communication command that was received before it.
GoesOn ==
  \/ pc' = "watchdog" /\ UNCHANGED caller
  \/ pc' = "init" /\ caller' = "reset"

\* Mutant of BuildFailsRecovery: one attempt more.
BuildFailsRecoveryOnceMore ==
  /\ Mainline("build") \/ Mainline("start")
  /\ caller = "recovery"
  /\ attempts' = attempts + 1
  /\ wait' = IF attempts' <= MaxAttempts THEN WaitMs ELSE 0
  /\ FailRuntime(attempts' > MaxAttempts)
  /\ GoesOn
  /\ UNCHANGED <<turnVars, stallVars, control, mode, healthy, wd>>

\* ... or for a recovery, which waits for the next attempt, or latches.
BuildFailsRecovery ==
  /\ Mainline("build") \/ Mainline("start")
  /\ caller = "recovery"
  /\ attempts' = attempts + 1
  /\ wait' = IF attempts' < MaxAttempts THEN WaitMs ELSE 0
  /\ FailRuntime(attempts' = MaxAttempts)
  /\ GoesOn
  /\ UNCHANGED <<turnVars, stallVars, control, mode, healthy, wd>>

\* canopen_app_process with no recovery due, or with nothing to do.
Pass ==
  /\ Mainline("loop") /\ wait # 1 /\ pc' = "watchdog"
  /\ UNCHANGED <<caller, nodeVars, downVars, turnVars, stallVars, driveVars, wd>>

Recover ==
  /\ Mainline("loop") /\ wait = 1 /\ ~safeFault
  /\ caller' = "recovery" /\ pc' = "safe_enable"
  /\ UNCHANGED <<nodeVars, downVars, turnVars, stallVars, driveVars, wd>>

\* A reset-communication command, perhaps from before CAN went down, stops TIM7
\* and CAN before anything else.
ResetCommand ==
  /\ Mainline("loop") /\ ~safeFault
  /\ caller' = "reset" /\ pc' = "init"
  /\ timer' = FALSE /\ canNormal' = FALSE
  /\ UNCHANGED <<downVars, turnVars, stallVars, driveVars, wd>>

\* The superloop's last call; it is the superloop's turn once a millisecond.
WatchdogProcess ==
  /\ Mainline("watchdog") /\ pc' = "loop"
  /\ WdProcess
  /\ starving' = (starving /\ ~(timer /\ wd'.left = IwdgMs))
  /\ passed' = TRUE
  /\ UNCHANGED <<caller, nodeVars, wait, attempts, safeFault, ticked, stallVars, driveVars>>

-----------------------------------------------------------------------------
(* Interrupts and the world *)

\* HAL_TIM_PeriodElapsedCallback: the watchdog first, then canopen_app_interrupt.
Tim7Isr ==
  /\ timer /\ stalled # "timer" /\ pc # "halted"
  /\ ticked' = TRUE
  /\ WdTick
  /\ IF canNormal THEN DriveProcess ELSE UNCHANGED driveVars
  /\ UNCHANGED <<pc, caller, nodeVars, downVars, passed, stallVars>>

\* An RPDO or an SDO.
Command ==
  /\ canNormal
  /\ control' \in Controls /\ mode' \in BOOLEAN
  /\ UNCHANGED <<pc, caller, nodeVars, downVars, turnVars, stallVars, drive, healthy, wd>>

Hardware ==
  /\ healthy' = ~healthy
  /\ UNCHANGED <<pc, caller, nodeVars, downVars, turnVars, stallVars, drive, control, mode, wd>>

\* The error interrupt, and the request that the next pass makes of it.
BusOff ==
  /\ canNormal /\ ~safeFault
  /\ wait' = WaitMs
  /\ UNCHANGED <<pc, caller, nodeVars, attempts, safeFault, starving, turnVars, stallVars, driveVars, wd>>

Stall(who) ==
  /\ stalled = "none" /\ stalled' = who
  /\ UNCHANGED <<pc, caller, nodeVars, downVars, turnVars, stallMs, wraps, driveVars, wd>>

TickWraps ==
  /\ \/ stalled = "none" /\ UNCHANGED wraps
     \/ stalled # "none" /\ wraps < MaxWraps /\ wraps' = wraps + 1
  /\ WdTickWraps
  /\ UNCHANGED <<pc, caller, nodeVars, downVars, turnVars, stalled, stallMs, driveVars>>

\* A stop of TIM7 for a rebuild costs no tick, unless the rebuild fails.
TurnsTaken ==
  /\ passed \/ stalled = "mainline" \/ pc = "halted"
  /\ ticked \/ stalled = "timer" \/ (~timer /\ (starving \/ stalled = "mainline"))

\* A millisecond; the recovery falls due when one is left.
SysTick ==
  /\ TurnsTaken /\ ~WdBites
  /\ passed' = FALSE /\ ticked' = FALSE
  /\ wait' = IF wait > 1 THEN wait - 1 ELSE wait
  /\ stallMs' = IF stalled # "none" /\ stallMs < MaxStall THEN stallMs + 1 ELSE stallMs
  /\ WdMs
  /\ UNCHANGED <<pc, caller, nodeVars, attempts, safeFault, starving, stalled, wraps, driveVars>>

\* The independent watchdog resets the chip, and with it the power stage.
WatchdogReset ==
  /\ TurnsTaken /\ WdBites
  /\ pc' = "init" /\ caller' = "boot" /\ canNormal' = FALSE /\ timer' = FALSE
  /\ wait' = 0 /\ attempts' = 0 /\ safeFault' = FALSE /\ starving' = FALSE
  /\ passed' = FALSE /\ ticked' = FALSE
  /\ stalled' = "none" /\ stallMs' = 0 /\ wraps' = 0
  /\ drive' = DriveOff("SWITCH_ON_DISABLED") /\ control' = {} /\ mode' = FALSE
  /\ wd' = WdInit
  /\ UNCHANGED healthy

Next ==
  \/ AppInit \/ SafeEnable \/ SafeStatus \/ SafeDisplay \/ CanDown \/ ProfilesInit
  \/ Start \/ CanUp \/ BuildFailsInit \/ BuildFailsRecovery
  \/ Pass \/ Recover \/ ResetCommand \/ WatchdogProcess
  \/ Tim7Isr \/ Command \/ Hardware \/ BusOff
  \/ \E who \in {"mainline", "timer"} : Stall(who)
  \/ TickWraps \/ SysTick \/ WatchdogReset

Spec == Init /\ [][Next]_vars

-----------------------------------------------------------------------------
(* Properties *)

Places == {"init", "safe_enable", "safe_status", "safe_display", "stop", "build", "start",
           "normal", "watchdog", "loop", "halted"}

\* The types of everything, the bounds on the counters included.
TypeOK ==
  /\ pc \in Places /\ caller \in {"boot", "reset", "recovery"}
  /\ canNormal \in BOOLEAN /\ timer \in BOOLEAN /\ safeFault \in BOOLEAN
  /\ starving \in BOOLEAN /\ passed \in BOOLEAN /\ ticked \in BOOLEAN
  /\ mode \in BOOLEAN /\ healthy \in BOOLEAN
  /\ wait \in 0 .. WaitMs /\ attempts \in 0 .. MaxAttempts
  /\ stalled \in {"none", "mainline", "timer"} /\ stallMs \in 0 .. MaxStall
  /\ wraps \in 0 .. MaxWraps
  /\ drive \in Drives /\ control \in SUBSET ControlBits /\ wd \in Watchdogs

\* The power stage is enabled only in OPERATION_ENABLED with a mode on display,
\* but for a rebuild: there TIM7 may enable it between two writes of
\* ForceDisable, and it stays so until Cia402Reference_Init.
EnableIsAccounted ==
  drive.enable =>
    \/ drive.status = "OPERATION_ENABLED" /\ drive.display
    \/ pc \in {"safe_status", "safe_display", "stop", "build"}

\* The superloop does not go on with CAN down and the drive enabled: whatever
\* failed, FailRuntime or the rebuild has disabled it.
DownIsDisabled == pc \in {"loop", "watchdog", "halted"} /\ ~canNormal => ~drive.enable

\* When CAN comes up, the drive is disabled and holds no command from before.
StartsDisabled ==
  [][~canNormal /\ canNormal' => ~drive'.enable /\ control' = {}
                                   /\ drive'.status = "SWITCH_ON_DISABLED"]_vars

\* An enabled drive is a supervised one: once the superloop or TIM7 stalls, the
\* watchdog has reset the node within a grace time and its own time, and within
\* as much again for every wrap of the tick meanwhile.
StallEndsEnable == drive.enable => stallMs < AnsweredIn(wraps)

\* And nothing else makes the watchdog bite, not a rebuild that succeeds and not
\* a reset command: only a rebuild that failed does, since it leaves TIM7 stopped.
OnlyStallsBite == [][WatchdogReset => stalled # "none" \/ starving]_vars
=============================================================================
