---------------------------- MODULE CanRecovery ----------------------------
(***************************************************************************)
(* The bus-off recovery policy of canopen_reference_can_recovery.c: a      *)
(* record of state, due tick and failed attempts, and the operations the   *)
(* mainline applies to it.  The enumerator REINITIALIZING of the header is *)
(* never assigned by the code and has no counterpart here.                 *)
(***************************************************************************)
EXTENDS TickClock

CONSTANTS WaitMs,      \* CANOPEN_REFERENCE_CAN_RECOVERY_WAIT_MS
          MaxAttempts  \* CANOPEN_REFERENCE_CAN_RECOVERY_MAX_ATTEMPTS

\* The wait must be shorter than half the tick's range for the wrapped
\* comparison to tell a future deadline from a past one.  MaxAttempts = 0
\* (never give up) is accepted by the code but no configuration uses it.
ASSUME RecoveryAssumption ==
  /\ WaitMs \in Nat \ {0} /\ WaitMs < TickMod \div 2
  /\ MaxAttempts \in Nat \ {0}

RecoveryStates == {"RUNNING", "WAIT_RECOVERY", "FAULT"}

Recoveries == [state: RecoveryStates, due: Ticks, attempts: 0 .. MaxAttempts]

RecoveryInit == [state |-> "RUNNING", due |-> 0, attempts |-> 0]

\* A request always re-arms the wait, also when one is already running.
Request(r, now) ==
  IF r.state = "FAULT" THEN r
  ELSE [r EXCEPT !.state = "WAIT_RECOVERY", !.due = After(now, WaitMs)]

\* Mutant of Ready: due only in the very millisecond.
ReadyExactly(r, now) == r.state = "WAIT_RECOVERY" /\ now = r.due

Ready(r, now) == r.state = "WAIT_RECOVERY" /\ Expired(now, r.due)

Succeeded(r) == [r EXCEPT !.state = "RUNNING", !.due = 0]

\* Mutants of Failed: no limit, and a failure taken for a success.
FailedNoLimit(r, now) ==
  [r EXCEPT !.attempts = @ + 1, !.state = "WAIT_RECOVERY", !.due = After(now, WaitMs)]

FailedRunning(r, now) ==
  IF r.attempts + 1 >= MaxAttempts
  THEN [r EXCEPT !.attempts = @ + 1, !.state = "FAULT"]
  ELSE [r EXCEPT !.attempts = @ + 1, !.state = "RUNNING"]

Failed(r, now) ==
  IF r.attempts + 1 >= MaxAttempts
  THEN [r EXCEPT !.attempts = @ + 1, !.state = "FAULT"]
  ELSE [r EXCEPT !.attempts = @ + 1, !.state = "WAIT_RECOVERY",
                 !.due = After(now, WaitMs)]
=============================================================================
