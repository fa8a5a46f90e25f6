------------------------------ MODULE Watchdog ------------------------------
(***************************************************************************)
(* The independent watchdog of the IWDG personality                        *)
(* (canopen_reference_watchdog.c): the mainline refreshes it only if TIM7  *)
(* has ticked since it last did, except within the grace time after the    *)
(* start.  The 32-bit count of TIM7 ticks matters only by having moved.    *)
(***************************************************************************)
EXTENDS Naturals

CONSTANTS
  IwdgMs,  \* CANOPEN_REFERENCE_IWDG_TIMEOUT_MS
  GraceMs  \* CANOPEN_REFERENCE_IWDG_STARTUP_GRACE_MS

ASSUME WatchdogAssumption ==
  IwdgMs \in Nat /\ IwdgMs > 2 /\ GraceMs \in Nat \ {0} /\ GraceMs < IwdgMs

VARIABLE wd

Watchdogs == [moved : BOOLEAN, age : 0 .. GraceMs, left : 1 .. IwdgMs]

\* CANopenReferenceWatchdog_Init
WdInit == [moved |-> FALSE, age |-> 0, left |-> IwdgMs]

\* CANopenReferenceWatchdog_TickISR
WdTick == wd' = [wd EXCEPT !.moved = TRUE]

\* CANopenReferenceWatchdog_Process
WdGrace == wd.age < GraceMs /\ wd' = [wd EXCEPT !.left = IwdgMs]

\* Mutant of WdStarved: refreshed although TIM7 stands still.
WdStarvedRefreshed == wd.age >= GraceMs /\ ~wd.moved /\ wd' = [wd EXCEPT !.left = IwdgMs]

WdStarved == wd.age >= GraceMs /\ ~wd.moved /\ UNCHANGED wd

\* Mutant of WdRefresh: only the count is kept.
WdRefreshForgotten == wd.age >= GraceMs /\ wd.moved /\ wd' = [wd EXCEPT !.moved = FALSE]

WdRefresh ==
  wd.age >= GraceMs /\ wd.moved /\ wd' = [wd EXCEPT !.moved = FALSE, !.left = IwdgMs]

WdProcess == WdGrace \/ WdStarved \/ WdRefresh

\* A millisecond of the watchdog's own oscillator; with the last one left the
\* chip is reset.
WdBites == wd.left = 1

WdMs == wd' = [wd EXCEPT !.left = @ - 1,
                         !.age = IF @ < GraceMs THEN @ + 1 ELSE @]

\* The tick has gone all the way round since the start: the grace time begins
\* once more.
WdTickWraps == wd.age = GraceMs /\ wd' = [wd EXCEPT !.age = 0]
=============================================================================
