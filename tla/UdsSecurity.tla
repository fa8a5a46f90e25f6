---------------------------- MODULE UdsSecurity ----------------------------
(***************************************************************************)
(* The security provider of uds_security_provider.c: when it hands out a   *)
(* seed, what it does of a key, and how it locks after too many wrong      *)
(* ones.  Whether a key is right is a fact of the request.  Its own copy   *)
(* of the security level, which nothing reads, is left out.                *)
(***************************************************************************)
EXTENDS TickClock

CONSTANTS
  MaxAttempts,  \* provider->maximum_attempts
  LockoutMs     \* provider->lockout_ms

ASSUME SecurityAssumption ==
  /\ MaxAttempts \in Nat \ {0}
  /\ LockoutMs \in Nat \ {0} /\ LockoutMs < TickMod \div 2

VARIABLE sec

Securities == [attempts : 0 .. MaxAttempts - 1, until : Ticks, seedValid : BOOLEAN]

\* lockout_until_ms starts at 0 whatever the tick is.
SecInit == [attempts |-> 0, until |-> 0, seedValid |-> FALSE]

IsLocked(now) == ~Expired(now, sec.until)

\* uds_security_provider_generate_seed
SecSeedDelayed(now) == IsLocked(now) /\ UNCHANGED sec

SecSeed(now) == ~IsLocked(now) /\ sec' = [sec EXCEPT !.seedValid = TRUE]

\* uds_security_provider_verify_key
SecKeyRefused(now) == IsLocked(now) /\ UNCHANGED sec

\* No seed was handed out, or the key has the wrong length.
SecKeyOutOfSequence(now) == ~IsLocked(now) /\ UNCHANGED sec

Attempts == sec.attempts + 1

\* Mutant of SecKeyWrong: one wrong key more.
SecKeyWrongOnceMore(now) ==
  /\ ~IsLocked(now) /\ sec.seedValid /\ Attempts <= MaxAttempts
  /\ sec' = [sec EXCEPT !.seedValid = FALSE, !.attempts = Attempts]

SecKeyWrong(now) ==
  /\ ~IsLocked(now) /\ sec.seedValid /\ Attempts < MaxAttempts
  /\ sec' = [sec EXCEPT !.seedValid = FALSE, !.attempts = Attempts]

\* Mutant of SecKeyLocks: the deadline is the moment itself.
SecKeyLocksNot(now) ==
  /\ ~IsLocked(now) /\ sec.seedValid /\ Attempts >= MaxAttempts
  /\ sec' = [attempts |-> 0, until |-> now, seedValid |-> FALSE]

SecKeyLocks(now) ==
  /\ ~IsLocked(now) /\ sec.seedValid /\ Attempts >= MaxAttempts
  /\ sec' = [attempts |-> 0, until |-> After(now, LockoutMs), seedValid |-> FALSE]

SecKeyRight(now) ==
  /\ ~IsLocked(now) /\ sec.seedValid
  /\ sec' = [sec EXCEPT !.attempts = 0, !.seedValid = FALSE]
=============================================================================
