-------------------------- MODULE DriveNodeProofs --------------------------
(***************************************************************************)
(* What DriveNode guarantees for every set of controlwords, wait, attempt  *)
(* limit, watchdog time and grace time: its types, that the power stage is *)
(* enabled only where the code accounts for it, and that the watchdog      *)
(* answers every stall in time and nothing else.                           *)
(*                                                                         *)
(* The types need that a rebuild never runs with all attempts used up      *)
(* (AttemptsLeft), and that CAN comes up disabled needs what each point of *)
(* the rebuild has established (RebuildProgress): from the stop of CAN on  *)
(* neither TIM7 nor a command reaches the drive.                           *)
(***************************************************************************)
EXTENDS DriveNode, TLAPS

RebuildPlaces == {"safe_enable", "safe_status", "safe_display", "stop", "build",
                  "start", "normal"}

\* A rebuild has an attempt left, and so has a node that is not latched.
AttemptsLeft == ~safeFault \/ pc \in RebuildPlaces => attempts < MaxAttempts

\* What has been established at each point of the rebuild.
RebuildProgress ==
  /\ pc \in {"build", "start", "normal"} => ~canNormal
  /\ pc \in {"start", "normal"} => drive = DriveOff("SWITCH_ON_DISABLED") /\ control = {}

DriveInv ==
  TypeOK /\ EnableIsAccounted /\ DownIsDisabled /\ AttemptsLeft /\ RebuildProgress

-----------------------------------------------------------------------------
(* The drive and the watchdog *)

\* A drive that is off is a drive, disabled, and with no mode on display.
LEMMA DriveOffIsOff ==
  ASSUME NEW s \in Statuses
  PROVE  /\ DriveOff(s) \in Drives
         /\ DriveOff(s).status = s /\ ~DriveOff(s).enable /\ ~DriveOff(s).display
BY DEF DriveOff, Drives

\* The transitions lead to statuses.
LEMMA NextStatusIsStatus == drive \in Drives => NextStatus \in Statuses
BY DEF NextStatus, Drives

\* A tick of TIM7 leaves a drive that is enabled in OPERATION_ENABLED with its
\* mode on display, or not at all.
LEMMA DriveProcessAccounts ==
  ASSUME drive \in Drives, DriveProcess
  PROVE  /\ drive' \in Drives
         /\ drive'.enable => drive'.status = "OPERATION_ENABLED" /\ drive'.display
<1>1. CASE DriveFault
  BY <1>1, DriveOffIsOff DEF DriveFault, Statuses
<1>2. CASE DriveFaultReset
  BY <1>2, DriveOffIsOff DEF DriveFaultReset, Statuses
<1>3. CASE DriveRuns
  BY <1>3 DEF DriveRuns, Drives, Statuses
<1>4. CASE DriveModeUnknown
  BY <1>4, DriveOffIsOff DEF DriveModeUnknown, ForceDisable, Statuses
<1>5. CASE DriveIdles
  BY <1>5, DriveOffIsOff, NextStatusIsStatus DEF DriveIdles
<1> QED
  BY <1>1, <1>2, <1>3, <1>4, <1>5 DEF DriveProcess

\* The watchdog's record stays one, whatever its three operations do.
LEMMA WatchdogTyping ==
  ASSUME wd \in Watchdogs,
         WdProcess \/ WdTick \/ (WdMs /\ ~WdBites) \/ WdTickWraps
  PROVE  wd' \in Watchdogs
<1> USE WatchdogAssumption
<1>1. IwdgMs \in 1 .. IwdgMs /\ 0 \in 0 .. GraceMs
  OBVIOUS
<1>2. CASE WdProcess
  BY <1>1, <1>2 DEF WdProcess, WdGrace, WdStarved, WdRefresh, Watchdogs
<1>3. CASE WdTick
  BY <1>3 DEF WdTick, Watchdogs
<1>4. CASE WdMs /\ ~WdBites
  <2>1. wd.left - 1 \in 1 .. IwdgMs
    BY <1>4 DEF WdBites, Watchdogs
  <2>2. (IF wd.age < GraceMs THEN wd.age + 1 ELSE wd.age) \in 0 .. GraceMs
    BY DEF Watchdogs
  <2> QED
    BY <1>4, <2>1, <2>2 DEF WdMs, Watchdogs
<1>5. CASE WdTickWraps
  BY <1>1, <1>5 DEF WdTickWraps, Watchdogs
<1> QED
  BY <1>2, <1>3, <1>4, <1>5

-----------------------------------------------------------------------------
(* The answer to a stall *)

\* The time in which a stall must be answered is a number, and every wrap adds
\* a grace time and the watchdog's time to it.
LEMMA AnsweredInSteps ==
  ASSUME NEW n \in Nat
  PROVE  /\ AnsweredIn(n) \in Nat
         /\ AnsweredIn(n) >= GraceMs + IwdgMs
         /\ AnsweredIn(n + 1) = AnsweredIn(n) + (GraceMs + IwdgMs)
<1> DEFINE k == GraceMs + IwdgMs
<1>1. k \in Nat
  BY WatchdogAssumption
<1>2. AnsweredIn(n) = n * k + k /\ AnsweredIn(n + 1) = (n * k + k) + k
  <2>1. \A i, j \in Nat : (1 + i) * j = i * j + j
    OBVIOUS
  <2>2. AnsweredIn(n) = n * k + k
    BY <1>1, <2>1 DEF AnsweredIn
  <2>3. (1 + (n + 1)) * k = (n + 1) * k + k /\ (1 + n) * k = n * k + k
    BY <1>1, <2>1
  <2> HIDE DEF k
  <2>4. (n + 1) * k = (1 + n) * k
    OBVIOUS
  <2> USE DEF k
  <2> QED
    BY <2>2, <2>3, <2>4 DEF AnsweredIn
<1>3. n * k \in Nat
  <2> HIDE DEF k
  <2> QED
    BY <1>1
<1> QED
  <2>1. \A i \in Nat : i + k \in Nat /\ i + k >= k
    BY <1>1
  <2> QED
    BY <1>2, <1>3, <2>1

LEMMA MaxStallIsNat == MaxStall \in Nat
BY AnsweredInSteps, NodeAssumption DEF MaxStall

-----------------------------------------------------------------------------
(* The invariant *)

\* The node starts disabled and with all its attempts.
LEMMA DriveStarts == Init => DriveInv
<1> SUFFICES ASSUME Init PROVE DriveInv
  OBVIOUS
<1>1. TypeOK
  <2>1. wd \in Watchdogs
    BY WatchdogAssumption DEF Init, WdInit, Watchdogs
  <2>2. drive \in Drives
    BY DriveOffIsOff DEF Init, Statuses
  <2>3. 0 \in 0 .. WaitMs /\ 0 \in 0 .. MaxAttempts /\ 0 \in 0 .. MaxStall /\ 0 \in 0 .. MaxWraps
    BY MaxStallIsNat, NodeAssumption
  <2> QED
    BY <2>1, <2>2, <2>3 DEF Init, TypeOK, Places
<1>2. ~drive.enable
  BY DriveOffIsOff DEF Init, Statuses
<1>3. AttemptsLeft
  BY NodeAssumption DEF Init, AttemptsLeft
<1> QED
  BY <1>1, <1>2, <1>3
  DEF Init, DriveInv, EnableIsAccounted, DownIsDisabled, RebuildProgress

\* Where the drive is left alone, or disabled, what is said of the enable needs
\* to be looked at only where the superloop leaves the places that excuse it.
LEMMA DriveStep == DriveInv /\ [Next]_vars => DriveInv'
<1> SUFFICES ASSUME DriveInv, [Next]_vars PROVE DriveInv'
  OBVIOUS
<1> USE DEF DriveInv
<1>0. /\ WaitMs \in Nat \ {0} /\ MaxAttempts \in Nat \ {0} /\ MaxWraps \in Nat
      /\ MaxStall \in Nat
      /\ "SWITCH_ON_DISABLED" \in Statuses /\ {} \in SUBSET ControlBits
  BY NodeAssumption, MaxStallIsNat DEF Statuses
<1>zero. /\ 0 \in 0 .. WaitMs /\ WaitMs \in 0 .. WaitMs
         /\ 0 \in 0 .. MaxAttempts /\ 0 \in 0 .. MaxStall
         /\ {} \in SUBSET ControlBits
  BY <1>0
<1>off. /\ DriveOff("SWITCH_ON_DISABLED") \in Drives
        /\ ~DriveOff("SWITCH_ON_DISABLED").enable
        /\ DriveOff("SWITCH_ON_DISABLED").status = "SWITCH_ON_DISABLED"
  BY <1>0, DriveOffIsOff
<1>1. CASE AppInit
  <2>1. TypeOK'
    BY <1>zero, <1>1, <1>off
    DEF TypeOK, AppInit, ForceDisable, Mainline, Places, nodeVars, turnVars, stallVars
  <2>2. ~drive'.enable /\ pc' = "safe_enable" /\ attempts' = 0
    BY <1>1, <1>off DEF AppInit, ForceDisable
  <2> QED
    BY <1>0, <2>1, <2>2
    DEF EnableIsAccounted, DownIsDisabled, AttemptsLeft, RebuildProgress
<1>2. CASE SafeEnable \/ SafeStatus \/ SafeDisplay
  <2>1. drive' \in Drives
    BY <1>0, <1>2 DEF TypeOK, SafeEnable, SafeStatus, SafeDisplay, Drives
  <2>2. TypeOK'
    BY <1>2, <2>1
    DEF TypeOK, SafeEnable, SafeStatus, SafeDisplay, Places, nodeVars, downVars, turnVars,
        stallVars
  <2>3. EnableIsAccounted'
    BY <1>2 DEF EnableIsAccounted, TypeOK, Drives, SafeEnable, SafeStatus, SafeDisplay
  <2> QED
    BY <1>2, <2>2, <2>3
    DEF DownIsDisabled, AttemptsLeft, RebuildProgress, RebuildPlaces,
        SafeEnable, SafeStatus, SafeDisplay, Mainline, downVars
<1>3. CASE CanDown
  BY <1>3
  DEF TypeOK, EnableIsAccounted, DownIsDisabled, AttemptsLeft, RebuildProgress,
      RebuildPlaces, Places, CanDown, Mainline, downVars, turnVars, stallVars, driveVars
<1>4. CASE ProfilesInit
  <2>1. TypeOK'
    BY <1>0, <1>4, <1>off
    DEF TypeOK, ProfilesInit, DriveInit, ForceDisable, Places, nodeVars, downVars, turnVars,
        stallVars
  <2> QED
    BY <1>0, <1>4, <2>1, <1>off
    DEF EnableIsAccounted, DownIsDisabled, AttemptsLeft, RebuildProgress, RebuildPlaces,
        ProfilesInit, DriveInit, ForceDisable, Mainline, nodeVars, downVars
<1>5. CASE Start \/ CanUp
  <2>1. TypeOK'
    <3>1. /\ pc' \in Places /\ canNormal' \in BOOLEAN /\ timer' \in BOOLEAN
          /\ safeFault' \in BOOLEAN /\ wait' \in 0 .. WaitMs
      BY <1>zero, <1>5 DEF TypeOK, Start, CanUp, Places, downVars
    <3>2. UNCHANGED <<caller, attempts, starving, turnVars, stallVars, driveVars, wd>>
      BY <1>5 DEF Start, CanUp, downVars
    <3> QED
      BY <3>1, <3>2 DEF TypeOK, turnVars, stallVars, driveVars
  <2>2. ~drive.enable
    BY <1>0, <1>5, <1>off DEF RebuildProgress, Start, CanUp, Mainline
  <2> QED
    BY <1>5, <2>1, <2>2
    DEF EnableIsAccounted, DownIsDisabled, AttemptsLeft, RebuildProgress, RebuildPlaces,
        Start, CanUp, Mainline, downVars, driveVars
<1>6. CASE BuildFailsInit \/ BuildFailsRecovery
  <2>1. attempts < MaxAttempts
    BY <1>6 DEF AttemptsLeft, RebuildPlaces, BuildFailsInit, BuildFailsRecovery, Mainline
  <2>2. /\ attempts' \in 0 .. MaxAttempts
        /\ ~safeFault' => attempts' < MaxAttempts
        /\ safeFault' \in BOOLEAN
    <3>1. CASE BuildFailsInit
      BY <2>1, <3>1 DEF TypeOK, BuildFailsInit, FailRuntime
    <3>2. CASE BuildFailsRecovery
      <4>1. attempts' \in 0 .. MaxAttempts /\ attempts' <= MaxAttempts
        BY <1>0, <2>1, <3>2 DEF TypeOK, BuildFailsRecovery
      <4>2. attempts' # MaxAttempts => attempts' < MaxAttempts
        BY <1>0, <4>1
      <4>3. safeFault' = (attempts' = MaxAttempts)
        BY <3>2, Zenon DEF BuildFailsRecovery, FailRuntime
      <4> QED
        BY <4>1, <4>2, <4>3, Zenon
    <3> QED
      BY <1>6, <3>1, <3>2
  <2>3. /\ wait' \in 0 .. WaitMs /\ pc' \in {"halted", "watchdog", "init"}
        /\ caller' \in {"boot", "reset", "recovery"}
    <3>1. CASE BuildFailsInit
      BY <3>1 DEF TypeOK, BuildFailsInit
    <3>2. CASE BuildFailsRecovery
      <4>1. wait' \in 0 .. WaitMs
        BY <1>zero, <3>2 DEF BuildFailsRecovery
      <4>2. GoesOn
        BY <3>2 DEF BuildFailsRecovery
      <4> QED
        BY <4>1, <4>2 DEF GoesOn, TypeOK
    <3> QED
      BY <1>6, <3>1, <3>2
  <2>4. drive' \in Drives /\ ~drive'.enable
    BY <1>6, <1>off
    DEF BuildFailsInit, BuildFailsRecovery, FailRuntime, ForceDisable
  <2>5. TypeOK'
    <3>1. /\ canNormal' \in BOOLEAN /\ timer' \in BOOLEAN /\ starving' \in BOOLEAN
          /\ UNCHANGED <<turnVars, stallVars, control, mode, healthy, wd>>
      BY <1>6 DEF BuildFailsInit, BuildFailsRecovery, FailRuntime
    <3>2. pc' \in Places
      BY <2>3 DEF Places
    <3>3. attempts' \in 0 .. MaxAttempts /\ safeFault' \in BOOLEAN
          /\ wait' \in 0 .. WaitMs /\ drive' \in Drives
          /\ caller' \in {"boot", "reset", "recovery"}
      BY <2>2, <2>3, <2>4
    <3>4. /\ passed' = passed /\ ticked' = ticked /\ stalled' = stalled /\ wraps' = wraps
          /\ stallMs' = stallMs /\ control' = control
          /\ mode' = mode /\ healthy' = healthy /\ wd' = wd
      BY <3>1 DEF turnVars, stallVars
    <3> HIDE DEF DriveInv
    <3>5. TypeOK
      BY DEF DriveInv
    <3> QED
      BY <3>1, <3>2, <3>3, <3>4, <3>5 DEF TypeOK
  <2> QED
    BY <2>2, <2>3, <2>4, <2>5
    DEF EnableIsAccounted, DownIsDisabled, AttemptsLeft, RebuildProgress, RebuildPlaces
<1>7. CASE Pass \/ Recover \/ ResetCommand
  <2>1. TypeOK'
    <3>1. UNCHANGED <<downVars, turnVars, stallVars, driveVars, wd>>
      BY <1>7 DEF Pass, Recover, ResetCommand
    <3>2. /\ pc' \in Places /\ caller' \in {"boot", "reset", "recovery"}
          /\ canNormal' \in BOOLEAN /\ timer' \in BOOLEAN
      BY <1>7 DEF TypeOK, Pass, Recover, ResetCommand, Places, nodeVars
    <3> QED
      BY <3>1, <3>2 DEF TypeOK, downVars, turnVars, stallVars, driveVars
  <2> QED
    BY <1>7, <2>1
    DEF EnableIsAccounted, DownIsDisabled, AttemptsLeft, RebuildProgress, RebuildPlaces,
        Pass, Recover, ResetCommand, Mainline, nodeVars, downVars, driveVars
<1>8. CASE WatchdogProcess
  <2>1. wd' \in Watchdogs
    BY <1>8, WatchdogTyping DEF TypeOK, WatchdogProcess
  <2>2. TypeOK'
    BY <1>8, <2>1
    DEF TypeOK, WatchdogProcess, Places, nodeVars, stallVars, driveVars
  <2> QED
    BY <1>8, <2>2
    DEF EnableIsAccounted, DownIsDisabled, AttemptsLeft, RebuildProgress, RebuildPlaces,
        WatchdogProcess, Mainline, nodeVars, driveVars
<1>9. CASE Tim7Isr
  <2>1. wd' \in Watchdogs
    BY <1>9, WatchdogTyping DEF TypeOK, Tim7Isr
  <2>2. /\ drive' \in Drives
        /\ \/ drive' = drive
           \/ drive'.enable => drive'.status = "OPERATION_ENABLED" /\ drive'.display
        /\ control' = control /\ mode' = mode /\ healthy' = healthy
        /\ ~canNormal => drive' = drive
    BY <1>9, DriveProcessAccounts DEF TypeOK, Tim7Isr, DriveProcess, driveVars
  <2>3. TypeOK'
    BY <1>9, <2>1, <2>2
    DEF TypeOK, Tim7Isr, nodeVars, downVars, stallVars
  <2> QED
    BY <1>9, <2>2, <2>3
    DEF EnableIsAccounted, DownIsDisabled, AttemptsLeft, RebuildProgress, RebuildPlaces,
        Tim7Isr, nodeVars, downVars
<1>10. CASE Command \/ Hardware \/ BusOff
  <2>1. control' \in SUBSET ControlBits
    BY <1>10, NodeAssumption DEF TypeOK, Command, Hardware, BusOff, driveVars
  <2>2. mode' \in BOOLEAN /\ healthy' \in BOOLEAN
    BY <1>10 DEF TypeOK, Command, Hardware, BusOff, driveVars
  <2>3. TypeOK'
    BY <1>0, <1>10, <2>1, <2>2
    DEF TypeOK, Command, Hardware, BusOff, nodeVars, downVars, turnVars, stallVars, driveVars
  <2> QED
    BY <1>10, <2>3
    DEF EnableIsAccounted, DownIsDisabled, AttemptsLeft, RebuildProgress, RebuildPlaces,
        Command, Hardware, BusOff, nodeVars, downVars, driveVars
<1>11. ASSUME NEW who \in {"mainline", "timer"}, Stall(who) PROVE DriveInv'
  BY <1>11
  DEF TypeOK, EnableIsAccounted, DownIsDisabled, AttemptsLeft, RebuildProgress,
      RebuildPlaces, Stall, nodeVars, downVars, turnVars, driveVars
<1>12. CASE TickWraps
  <2>1. wd' \in Watchdogs
    BY <1>12, WatchdogTyping DEF TypeOK, TickWraps
  <2> QED
    BY <1>0, <1>12, <2>1
    DEF TypeOK, EnableIsAccounted, DownIsDisabled, AttemptsLeft, RebuildProgress,
        RebuildPlaces, TickWraps, nodeVars, downVars, turnVars, driveVars
<1>13. CASE SysTick
  <2>1. wd' \in Watchdogs
    BY <1>13, WatchdogTyping DEF TypeOK, SysTick
  <2>2. wait' \in 0 .. WaitMs /\ stallMs' \in 0 .. MaxStall
    BY <1>0, <1>13 DEF TypeOK, SysTick
  <2>3. TypeOK'
    BY <1>13, <2>1, <2>2 DEF TypeOK, SysTick, nodeVars, driveVars
  <2> QED
    BY <1>13, <2>3
    DEF EnableIsAccounted, DownIsDisabled, AttemptsLeft, RebuildProgress, RebuildPlaces,
        SysTick, nodeVars, driveVars
<1>14. CASE WatchdogReset
  <2>1. wd' \in Watchdogs
    BY <1>14, WatchdogAssumption DEF WatchdogReset, WdInit, Watchdogs
  <2>2. drive' \in Drives /\ ~drive'.enable
    BY <1>0, <1>14, <1>off DEF WatchdogReset
  <2>3. TypeOK'
    <3>1. 0 \in 0 .. MaxWraps
      BY <1>0
    <3> QED
      BY <1>zero, <1>14, <2>1, <2>2, <3>1 DEF TypeOK, WatchdogReset, Places
  <2>4. pc' = "init" /\ attempts' = 0
    BY <1>14 DEF WatchdogReset
  <2> QED
    BY <1>0, <2>2, <2>3, <2>4
    DEF EnableIsAccounted, DownIsDisabled, AttemptsLeft, RebuildProgress
<1>15. CASE UNCHANGED vars
  BY <1>15
  DEF TypeOK, EnableIsAccounted, DownIsDisabled, AttemptsLeft, RebuildProgress, vars,
      nodeVars, downVars, turnVars, stallVars, driveVars
<1> QED
  BY <1>1, <1>2, <1>3, <1>4, <1>5, <1>6, <1>7, <1>8, <1>9, <1>10, <1>11, <1>12, <1>13,
     <1>14, <1>15
  DEF Next

-----------------------------------------------------------------------------
(* The theorems *)

\* DriveInv holds in every reachable state.
THEOREM DriveInvariant == Spec => []DriveInv
BY DriveStarts, DriveStep, PTL DEF Spec

\* Everything keeps its type; the failed attempts never exceed their limit.
THEOREM DriveTyping == Spec => []TypeOK
<1>1. DriveInv => TypeOK
  BY DEF DriveInv
<1> QED
  BY <1>1, DriveInvariant, PTL

\* The power stage is enabled only in OPERATION_ENABLED with the mode on
\* display, or in the window of a rebuild that EnableIsAccounted names.
THEOREM EnabledDriveIsAccounted == Spec => []EnableIsAccounted
<1>1. DriveInv => EnableIsAccounted
  BY DEF DriveInv
<1> QED
  BY <1>1, DriveInvariant, PTL

\* The superloop never goes on with CAN down and the drive enabled.
THEOREM DownDriveIsDisabled == Spec => []DownIsDisabled
<1>1. DriveInv => DownIsDisabled
  BY DEF DriveInv
<1> QED
  BY <1>1, DriveInvariant, PTL

\* CAN comes up with a drive that is disabled and holds no old command.
THEOREM DriveStartsDisabled == Spec => StartsDisabled
<1>1. ASSUME DriveInv, [Next]_vars, ~canNormal, canNormal'
      PROVE  ~drive'.enable /\ control' = {} /\ drive'.status = "SWITCH_ON_DISABLED"
  <2>1. CanUp
    BY <1>1
    DEF Next, AppInit, SafeEnable, SafeStatus, SafeDisplay, CanDown, ProfilesInit, Start,
        BuildFailsInit, BuildFailsRecovery, FailRuntime, Pass, Recover, ResetCommand,
        WatchdogProcess, Tim7Isr, Command, Hardware, BusOff, Stall, TickWraps, SysTick,
        WatchdogReset, vars, nodeVars
  <2>2. drive' = DriveOff("SWITCH_ON_DISABLED") /\ control' = {}
    BY <1>1, <2>1 DEF DriveInv, RebuildProgress, CanUp, Mainline, driveVars
  <2> QED
    BY <2>2, DriveOffIsOff DEF Statuses
<1>2. DriveInv /\ [Next]_vars
        => [~canNormal /\ canNormal' => ~drive'.enable /\ control' = {}
                                         /\ drive'.status = "SWITCH_ON_DISABLED"]_vars
  BY <1>1
<1> QED
  BY <1>2, DriveInvariant, PTL DEF Spec, StartsDisabled

-----------------------------------------------------------------------------
(* The watchdog *)

\* While nothing has stalled and no rebuild has failed, the watchdog is at most
\* two milliseconds short: a tick of TIM7 that comes after the superloop's turn
\* counts in the next one.
Fed ==
  stalled = "none" /\ ~starving =>
    /\ pc # "halted"
    /\ wd.left >= IwdgMs - 2
    /\ wd.left < IwdgMs /\ ticked => wd.moved
    /\ wd.left = IwdgMs - 2 => wd.moved /\ ~passed

\* No step lets the watchdog fall further short while it is fed.
LEMMA FedStep == TypeOK /\ Fed /\ [Next]_vars => Fed'
<1> SUFFICES ASSUME TypeOK, Fed, [Next]_vars, stalled' = "none", ~starving'
             PROVE  /\ pc' # "halted"
                    /\ wd'.left >= IwdgMs - 2
                    /\ wd'.left < IwdgMs /\ ticked' => wd'.moved
                    /\ wd'.left = IwdgMs - 2 => wd'.moved /\ ~passed'
  BY DEF Fed
<1>0. /\ IwdgMs \in Nat /\ IwdgMs > 2
      /\ wd \in Watchdogs /\ wd.left \in 1 .. IwdgMs
  BY WatchdogAssumption DEF TypeOK, Watchdogs
<1>1. CASE AppInit \/ SafeEnable \/ SafeStatus \/ SafeDisplay \/ CanDown \/ ProfilesInit
           \/ Start \/ CanUp \/ Pass \/ Recover \/ ResetCommand
  BY <1>1
  DEF Fed, AppInit, SafeEnable, SafeStatus, SafeDisplay, CanDown, ProfilesInit, Start,
      CanUp, Pass, Recover, ResetCommand, nodeVars, downVars, turnVars, stallVars, driveVars
<1>2. CASE Command \/ Hardware \/ BusOff
  BY <1>2
  DEF Fed, Command, Hardware, BusOff, nodeVars, downVars, turnVars, stallVars, driveVars
<1>3. CASE BuildFailsInit \/ BuildFailsRecovery
  BY <1>3 DEF BuildFailsInit, BuildFailsRecovery, FailRuntime
<1>4. CASE WatchdogProcess
  <2>1. pc' = "loop" /\ ticked' = ticked /\ stalled = "none"
    BY <1>4 DEF WatchdogProcess, stallVars
  <2>2. CASE wd'.left = IwdgMs
    BY <1>0, <2>1, <2>2
  <2>3. CASE wd'.left # IwdgMs
    <3>1. WdStarved
      BY <1>0, <1>4, <2>3
      DEF WatchdogProcess, WdProcess, WdGrace, WdRefresh, Watchdogs
    <3>2. wd' = wd /\ ~wd.moved /\ ~starving
      BY <1>4, <2>3, <3>1 DEF WdStarved, WatchdogProcess
    <3> QED
      BY <2>1, <3>2 DEF Fed
  <2> QED
    BY <2>2, <2>3
<1>5. CASE Tim7Isr
  <2>1. wd'.moved /\ wd'.left = wd.left /\ passed' = passed /\ pc' = pc
    BY <1>0, <1>5 DEF Tim7Isr, WdTick, Watchdogs
  <2>2. stalled = "none" /\ ~starving
    BY <1>5 DEF Tim7Isr, stallVars, downVars
  <2> QED
    BY <2>1, <2>2 DEF Fed
<1>6. ASSUME NEW who \in {"mainline", "timer"}, Stall(who) PROVE FALSE
  BY <1>6 DEF Stall
<1>7. CASE TickWraps
  <2>1. wd'.moved = wd.moved /\ wd'.left = wd.left /\ UNCHANGED <<passed, ticked, pc>>
    BY <1>0, <1>7 DEF TickWraps, WdTickWraps, Watchdogs, turnVars
  <2>2. stalled = "none" /\ ~starving
    BY <1>7 DEF TickWraps, downVars
  <2> QED
    BY <2>1, <2>2 DEF Fed
<1>8. CASE SysTick
  <2>1. stalled = "none" /\ ~starving /\ pc' = pc
    BY <1>8 DEF SysTick
  <2>2. passed /\ ticked
    BY <1>8, <2>1 DEF Fed, SysTick, TurnsTaken
  <2>3. wd'.left = wd.left - 1 /\ wd'.moved = wd.moved /\ ~passed' /\ ~ticked'
    BY <1>0, <1>8 DEF SysTick, WdMs, Watchdogs
  <2>4. wd.left >= IwdgMs - 1 /\ (wd.left = IwdgMs - 1 => wd.moved)
    BY <1>0, <2>1, <2>2 DEF Fed
  <2> QED
    BY <1>0, <2>1, <2>3, <2>4 DEF Fed
<1>9. CASE WatchdogReset
  BY <1>0, <1>9 DEF WatchdogReset, WdInit
<1>10. CASE UNCHANGED vars
  BY <1>10 DEF Fed, vars, downVars, turnVars, stallVars
<1> QED
  BY <1>1, <1>2, <1>3, <1>4, <1>5, <1>6, <1>7, <1>8, <1>9, <1>10 DEF Next

\* The watchdog resets a node only after a stall or a rebuild that failed,
\* whatever its time is beyond two milliseconds.
THEOREM WatchdogBitesOnlyStalls == Spec => OnlyStallsBite
<1>1. Init => Fed
  BY WatchdogAssumption DEF Init, Fed, WdInit
<1>2. ASSUME TypeOK, Fed, WatchdogReset, stalled = "none", ~starving PROVE FALSE
  <2>1. passed /\ wd.left = 1
    BY <1>2 DEF Fed, WatchdogReset, TurnsTaken, WdBites
  <2> QED
    BY <1>2, <2>1, WatchdogAssumption DEF Fed
<1>3. TypeOK /\ Fed /\ [Next]_vars => [WatchdogReset => stalled # "none" \/ starving]_vars
  BY <1>2
<1> QED
  BY <1>1, <1>3, FedStep, DriveTyping, PTL DEF Spec, OnlyStallsBite

\* How long the watchdog still lets a stall of TIM7 last: to the end of the
\* grace time it is refreshed by every pass, and once more if TIM7 had ticked
\* since the last refresh; a pass already made puts that off to the next
\* millisecond.
StallLeft ==
  IF wd.age < GraceMs THEN (GraceMs - wd.age) + IwdgMs
  ELSE IF ~wd.moved THEN wd.left
  ELSE IF passed THEN IwdgMs + 1 ELSE IwdgMs

\* A stall of the superloop leaves what the watchdog had left; one of TIM7 never
\* has more to last than the time in which it must be answered.  A node that
\* halted has no CAN, and with it no enabled drive, to answer for.
Supervised ==
  /\ stalled = "none" => stallMs = 0 /\ wraps = 0
  /\ stalled = "mainline" => stallMs + wd.left <= IwdgMs
  /\ stalled = "timer" /\ pc # "halted" => stallMs + StallLeft <= AnsweredIn(wraps)
  /\ pc = "halted" => ~canNormal

\* A stall always has something left to last, and at most the grace time and
\* the watchdog's time.
LEMMA StallLeftBounds ==
  ASSUME TypeOK
  PROVE  StallLeft \in 1 .. GraceMs + IwdgMs
<1>1. /\ IwdgMs \in Nat /\ IwdgMs > 2 /\ GraceMs \in Nat /\ GraceMs > 0
      /\ wd.age \in 0 .. GraceMs /\ wd.left \in 1 .. IwdgMs
  BY WatchdogAssumption DEF TypeOK, Watchdogs
<1>2. CASE wd.age < GraceMs
  BY <1>1, <1>2 DEF StallLeft
<1>3. CASE ~(wd.age < GraceMs) /\ ~wd.moved
  BY <1>1, <1>3 DEF StallLeft
<1>4. CASE ~(wd.age < GraceMs) /\ wd.moved
  BY <1>1, <1>4 DEF StallLeft
<1> QED
  BY <1>2, <1>3, <1>4

\* A pass of the superloop gives a stall no time that it did not have.
LEMMA PassKeepsStallLeft ==
  ASSUME TypeOK, WatchdogProcess
  PROVE  StallLeft' <= StallLeft
<1>1. /\ IwdgMs \in Nat /\ GraceMs \in Nat /\ wd \in Watchdogs
      /\ wd.age \in 0 .. GraceMs /\ wd.left \in 1 .. IwdgMs
  BY WatchdogAssumption DEF TypeOK, Watchdogs
<1>2. wd'.age = wd.age
  BY <1>1 DEF WatchdogProcess, WdProcess, WdGrace, WdStarved, WdRefresh, Watchdogs
<1>3. CASE wd.age < GraceMs
  BY <1>1, <1>2, <1>3 DEF StallLeft
<1>4. CASE ~(wd.age < GraceMs) /\ ~wd.moved
  <2>1. wd' = wd
    BY <1>1, <1>4 DEF WatchdogProcess, WdProcess, WdGrace, WdStarved, WdRefresh
  <2> QED
    BY <1>1, <1>4, <2>1 DEF StallLeft
<1>5. CASE ~(wd.age < GraceMs) /\ wd.moved
  <2>1. ~wd'.moved /\ wd'.left = IwdgMs
    BY <1>1, <1>5
    DEF WatchdogProcess, WdProcess, WdGrace, WdStarved, WdRefresh, Watchdogs
  <2>2. StallLeft' = IwdgMs
    BY <1>2, <1>5, <2>1 DEF StallLeft
  <2>3. StallLeft \in {IwdgMs, IwdgMs + 1}
    BY <1>5 DEF StallLeft
  <2> QED
    BY <1>1, <2>2, <2>3
<1> QED
  BY <1>3, <1>4, <1>5

\* A millisecond in which the superloop has had its turn takes one away.
LEMMA SysTickTakesOne ==
  ASSUME TypeOK, SysTick, passed
  PROVE  StallLeft' <= StallLeft - 1
<1>1. /\ IwdgMs \in Nat /\ GraceMs \in Nat /\ wd \in Watchdogs
      /\ wd.age \in 0 .. GraceMs /\ wd.left \in 1 .. IwdgMs
  BY WatchdogAssumption DEF TypeOK, Watchdogs
<1>2. /\ wd'.moved = wd.moved /\ wd'.left = wd.left - 1 /\ ~passed'
      /\ wd'.age = IF wd.age < GraceMs THEN wd.age + 1 ELSE wd.age
  BY <1>1 DEF SysTick, WdMs, Watchdogs
<1>3. CASE wd.age < GraceMs
  <2>1. StallLeft = (GraceMs - wd.age) + IwdgMs /\ wd'.age = wd.age + 1
    BY <1>2, <1>3 DEF StallLeft
  <2>2. CASE wd'.age < GraceMs
    <3>1. StallLeft' = (GraceMs - wd'.age) + IwdgMs
      BY <2>2 DEF StallLeft
    <3> QED
      BY <1>1, <2>1, <3>1
  <2>3. CASE ~(wd'.age < GraceMs)
    <3>1. StallLeft' \in {wd'.left, IwdgMs}
      BY <1>2, <2>3 DEF StallLeft
    <3> QED
      BY <1>1, <1>2, <1>3, <2>1, <3>1
  <2> QED
    BY <2>2, <2>3
<1>4. CASE ~(wd.age < GraceMs) /\ ~wd.moved
  <2>1. StallLeft = wd.left /\ StallLeft' = wd'.left
    BY <1>2, <1>4 DEF StallLeft
  <2> QED
    BY <1>1, <1>2, <2>1
<1>5. CASE ~(wd.age < GraceMs) /\ wd.moved
  <2>1. StallLeft = IwdgMs + 1 /\ StallLeft' = IwdgMs
    BY <1>2, <1>5 DEF StallLeft
  <2> QED
    BY <1>1, <2>1
<1> QED
  BY <1>3, <1>4, <1>5

\* The node starts with nothing stalled, and each step keeps to the account: a
\* pass adds nothing, a millisecond moves one from what is left to what has
\* passed, and a wrap adds what it is allowed for.
LEMMA SupervisedStarts == Init => Supervised
BY DEF Init, Supervised

LEMMA SupervisedStep == TypeOK /\ TypeOK' /\ Supervised /\ [Next]_vars => Supervised'
<1> SUFFICES ASSUME TypeOK, TypeOK', Supervised, [Next]_vars PROVE Supervised'
  OBVIOUS
<1>0. /\ IwdgMs \in Nat /\ GraceMs \in Nat /\ GraceMs > 0 /\ wd \in Watchdogs
      /\ wd.left \in 1 .. IwdgMs /\ stallMs \in Nat /\ wraps \in Nat /\ MaxWraps \in Nat
  BY WatchdogAssumption, NodeAssumption, MaxStallIsNat DEF TypeOK, Watchdogs
<1>left. StallLeft \in Nat /\ StallLeft >= 1 /\ StallLeft <= GraceMs + IwdgMs
  BY <1>0, StallLeftBounds
<1>left2. StallLeft' \in Nat
  <2>1. wd'.age \in 0 .. GraceMs /\ wd'.left \in 1 .. IwdgMs
    BY <1>0 DEF TypeOK, Watchdogs
  <2> QED
    BY <1>0, <2>1 DEF StallLeft
<1>bound. AnsweredIn(wraps) \in Nat /\ AnsweredIn(wraps) >= GraceMs + IwdgMs
  BY <1>0, AnsweredInSteps
<1>1. CASE AppInit \/ SafeEnable \/ SafeStatus \/ SafeDisplay \/ CanDown \/ ProfilesInit
           \/ Start \/ CanUp \/ Pass \/ Recover \/ ResetCommand
  <2>1. UNCHANGED <<stalled, stallMs, wraps, wd, passed>>
    BY <1>1
    DEF AppInit, SafeEnable, SafeStatus, SafeDisplay, CanDown, ProfilesInit, Start, CanUp,
        Pass, Recover, ResetCommand, turnVars, stallVars
  <2>2. pc # "halted" /\ pc' # "halted"
    BY <1>1
    DEF AppInit, SafeEnable, SafeStatus, SafeDisplay, CanDown, ProfilesInit, Start, CanUp,
        Pass, Recover, ResetCommand, Mainline
  <2> QED
    BY <2>1, <2>2 DEF Supervised, StallLeft
<1>2. CASE Command \/ Hardware \/ BusOff
  <2>1. UNCHANGED <<stalled, stallMs, wraps, wd, passed, pc, canNormal>>
    BY <1>2 DEF Command, Hardware, BusOff, nodeVars, turnVars, stallVars
  <2> QED
    BY <2>1 DEF Supervised, StallLeft
<1>3. CASE BuildFailsInit \/ BuildFailsRecovery
  <2>1. UNCHANGED <<stalled, stallMs, wraps, wd, passed>> /\ ~canNormal' /\ pc # "halted"
    BY <1>3
    DEF BuildFailsInit, BuildFailsRecovery, FailRuntime, Mainline, turnVars, stallVars
  <2> QED
    BY <2>1 DEF Supervised, StallLeft
<1>4. CASE WatchdogProcess
  <2>1. /\ UNCHANGED <<stalled, stallMs, wraps>> /\ stalled # "mainline"
        /\ pc # "halted" /\ pc' # "halted"
    BY <1>4 DEF WatchdogProcess, Mainline, stallVars
  <2>2. CASE stalled = "timer"
    <3>1. stallMs + StallLeft <= AnsweredIn(wraps)
      BY <2>1, <2>2 DEF Supervised
    <3>2. StallLeft' <= StallLeft
      BY <1>4, PassKeepsStallLeft
    <3> HIDE DEF StallLeft
    <3>3. stallMs + StallLeft' <= AnsweredIn(wraps)
      BY <1>0, <1>left, <1>left2, <1>bound, <3>1, <3>2
    <3> QED
      BY <2>1, <2>2, <3>3 DEF Supervised
  <2>3. CASE stalled = "none"
    BY <2>1, <2>3 DEF Supervised
  <2> QED
    BY <2>1, <2>2, <2>3 DEF TypeOK
<1>5. CASE Tim7Isr
  <2>1. /\ UNCHANGED <<stalled, stallMs, wraps, canNormal, pc>>
        /\ stalled # "timer" /\ wd'.left = wd.left
    BY <1>0, <1>5 DEF Tim7Isr, WdTick, Watchdogs, nodeVars, stallVars
  <2> QED
    BY <2>1 DEF Supervised
<1>6. ASSUME NEW who \in {"mainline", "timer"}, Stall(who) PROVE Supervised'
  <2>1. /\ stallMs' = 0 /\ wraps' = 0 /\ stallMs = 0 /\ wraps = 0
        /\ UNCHANGED <<wd, passed, pc, canNormal>>
    BY <1>6 DEF Stall, Supervised, nodeVars, turnVars
  <2>2. wd'.left <= IwdgMs /\ StallLeft' = StallLeft
    BY <1>0, <2>1 DEF StallLeft
  <2>3. 0 + wd'.left <= IwdgMs
    BY <1>0, <2>1, <2>2
  <2>4. 0 + StallLeft' <= AnsweredIn(wraps)
    BY <1>0, <1>left, <1>bound, <2>2
  <2>5. stalled' = who
    BY <1>6 DEF Stall
  <2> QED
    BY <1>6, <2>1, <2>3, <2>4, <2>5 DEF Supervised
<1>7. CASE TickWraps
  <2>1. /\ UNCHANGED <<stalled, stallMs, pc, canNormal>>
        /\ wd'.left = wd.left /\ wd'.age = 0
    BY <1>0, <1>7 DEF TickWraps, WdTickWraps, Watchdogs, nodeVars
  <2>2. CASE stalled = "timer" /\ pc # "halted"
    <3>1. wraps' = wraps + 1 /\ AnsweredIn(wraps + 1) = AnsweredIn(wraps) + (GraceMs + IwdgMs)
      BY <1>0, <1>7, <2>2, AnsweredInSteps DEF TickWraps
    <3>2. StallLeft' = GraceMs + IwdgMs
      BY <1>0, <2>1 DEF StallLeft
    <3>3. stallMs + StallLeft <= AnsweredIn(wraps)
      BY <2>2 DEF Supervised
    <3>4. AnsweredIn(wraps)' = AnsweredIn(wraps) + (GraceMs + IwdgMs)
      BY <3>1 DEF AnsweredIn
    <3>5. stallMs + (GraceMs + IwdgMs) <= AnsweredIn(wraps) + (GraceMs + IwdgMs)
      BY <1>0, <1>left, <1>bound, <3>3
    <3> QED
      BY <2>1, <2>2, <3>2, <3>4, <3>5 DEF Supervised
  <2>3. CASE stalled # "timer" \/ pc = "halted"
    <3>1. stalled = "none" => wraps' = wraps
      BY <1>7 DEF TickWraps
    <3> QED
      BY <2>1, <2>3, <3>1 DEF Supervised
  <2> QED
    BY <2>2, <2>3
<1>8. CASE SysTick
  <2>1. /\ UNCHANGED <<stalled, wraps, pc, canNormal>> /\ stallMs' \in {stallMs, stallMs + 1}
        /\ stalled = "none" => stallMs' = stallMs
    BY <1>8 DEF SysTick, nodeVars
  <2>2. wd'.left = wd.left - 1
    BY <1>0, <1>8 DEF SysTick, WdMs, Watchdogs
  <2>3. CASE stalled = "none"
    BY <2>1, <2>3 DEF Supervised
  <2>4. CASE stalled = "mainline"
    <3>1. stallMs + wd.left <= IwdgMs
      BY <2>4 DEF Supervised
    <3>2. stallMs' + wd'.left <= IwdgMs
      BY <1>0, <2>1, <2>2, <3>1
    <3> QED
      BY <2>1, <2>4, <3>2 DEF Supervised
  <2>5. CASE stalled = "timer" /\ pc = "halted"
    BY <2>1, <2>5 DEF Supervised
  <2>6. CASE stalled = "timer" /\ pc # "halted"
    <3>1. passed /\ stallMs + StallLeft <= AnsweredIn(wraps)
      BY <1>8, <2>6 DEF Supervised, SysTick, TurnsTaken
    <3>2. StallLeft' <= StallLeft - 1
      BY <1>8, <3>1, SysTickTakesOne
    <3>3. stallMs' + StallLeft' <= AnsweredIn(wraps)
      BY <1>0, <1>left, <1>left2, <1>bound, <2>1, <3>1, <3>2
    <3> QED
      BY <2>1, <2>6, <3>3 DEF Supervised
  <2> QED
    BY <2>3, <2>4, <2>5, <2>6 DEF TypeOK
<1>9. CASE WatchdogReset
  BY <1>9 DEF WatchdogReset, Supervised
<1>10. CASE UNCHANGED vars
  <2>1. UNCHANGED <<stalled, stallMs, wraps, wd, passed, pc, canNormal>>
    BY <1>10 DEF vars, nodeVars, turnVars, stallVars
  <2> QED
    BY <2>1 DEF Supervised, StallLeft
<1> QED
  BY <1>1, <1>2, <1>3, <1>4, <1>5, <1>6, <1>7, <1>8, <1>9, <1>10 DEF Next

\* No enabled drive outlives a stall, of the superloop or of TIM7, by more than
\* the grace time and the watchdog's time, once for the stall and once for every
\* wrap of the tick in it, whatever these times are.
THEOREM StallsEndEnable == Spec => []StallEndsEnable
<1>1. ASSUME TypeOK, Supervised, DownIsDisabled PROVE StallEndsEnable
  <2> SUFFICES ASSUME drive.enable PROVE stallMs < AnsweredIn(wraps)
    BY DEF StallEndsEnable
  <2>0. /\ IwdgMs \in Nat /\ IwdgMs > 2 /\ GraceMs \in Nat /\ GraceMs > 0
        /\ wd.left \in 1 .. IwdgMs /\ stallMs \in Nat /\ wraps \in Nat
    BY <1>1, WatchdogAssumption, NodeAssumption, MaxStallIsNat DEF TypeOK, Watchdogs
  <2>1. AnsweredIn(wraps) \in Nat /\ AnsweredIn(wraps) >= GraceMs + IwdgMs
    BY <2>0, AnsweredInSteps
  <2>2. pc # "halted"
    BY <1>1 DEF DownIsDisabled, Supervised
  <2>3. CASE stalled = "none"
    <3>1. stallMs = 0
      BY <1>1, <2>3 DEF Supervised
    <3> QED
      BY <2>0, <2>1, <3>1
  <2>4. CASE stalled = "mainline"
    <3>1. stallMs + wd.left <= IwdgMs
      BY <1>1, <2>4 DEF Supervised
    <3> QED
      BY <2>0, <2>1, <3>1
  <2>5. CASE stalled = "timer"
    <3>1. stallMs + StallLeft <= AnsweredIn(wraps)
      BY <1>1, <2>2, <2>5 DEF Supervised
    <3>2. StallLeft \in Nat /\ StallLeft >= 1
      BY <1>1, <2>0, StallLeftBounds
    <3> QED
      BY <2>0, <2>1, <3>1, <3>2
  <2> QED
    BY <1>1, <2>3, <2>4, <2>5 DEF TypeOK
<1>2. TypeOK /\ Supervised /\ DownIsDisabled => StallEndsEnable
  BY <1>1
<1>3. Spec => []Supervised
  BY SupervisedStarts, SupervisedStep, DriveTyping, PTL DEF Spec
<1> QED
  BY <1>2, <1>3, DriveTyping, DownDriveIsDisabled, PTL
=============================================================================
