----------------------------- MODULE TickClock -----------------------------
(***************************************************************************)
(* The millisecond tick every timeout of the firmware is measured with:    *)
(* HAL_GetTick() is an unsigned counter that wraps, and a deadline is      *)
(* compared through the sign of a wrapped difference.  The code has 32     *)
(* bits; here the counter has TickMod values, any even number.             *)
(***************************************************************************)
EXTENDS Naturals

CONSTANT TickMod

ASSUME TickModAssumption == TickMod \in Nat \ {0} /\ TickMod % 2 = 0

Ticks == 0 .. TickMod - 1

After(tick, ms) == (tick + ms) % TickMod

Since(tick, earlier) == (tick + TickMod - earlier) % TickMod

\* (int32_t)(now - deadline) >= 0
Expired(now, deadline) == Since(now, deadline) < TickMod \div 2
=============================================================================
