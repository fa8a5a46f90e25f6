------------------------- MODULE PersistentRegister -------------------------
(***************************************************************************)
(* What parameter storage promises: a register that survives power losses. *)
(* A store takes effect as a whole or not at all; one that is reported as  *)
(* done has taken effect, one that fails or is cut off may have.           *)
(***************************************************************************)
CONSTANTS Values, NoValue

VARIABLES value,    \* what a power-up finds
          storing,  \* the value being stored
          answer    \* the outcome last reported

vars == <<value, storing, answer>>

Init == value = NoValue /\ storing = NoValue /\ answer = "none"

Begin == /\ storing = NoValue
         /\ storing' \in Values
         /\ UNCHANGED <<value, answer>>

Succeed == /\ storing # NoValue
           /\ value' = storing /\ storing' = NoValue /\ answer' = "ok"

\* The store is refused before it begins, fails or is cut off.
Fail == /\ value' = value \/ (storing # NoValue /\ value' = storing)
        /\ storing' = NoValue /\ answer' \in {"error", "none"}

Next == Begin \/ Succeed \/ Fail

Spec == Init /\ [][Next]_vars
=============================================================================
