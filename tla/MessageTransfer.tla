-------------------------- MODULE MessageTransfer --------------------------
(***************************************************************************)
(* What a transport of messages over an unreliable line promises: what the *)
(* receiver is handed is a message the sender offered, whole and at most   *)
(* once.  A message may be given up at any time.                           *)
(***************************************************************************)
CONSTANTS Messages, NoMessage

VARIABLES offered,   \* the message under way
          delivered  \* the message handed over last

vars == <<offered, delivered>>

Init == offered = NoMessage /\ delivered = NoMessage

Offer == /\ \E m \in Messages : offered' = m
         /\ UNCHANGED delivered

Deliver == /\ offered # NoMessage
           /\ delivered' = offered
           /\ offered' = NoMessage

GiveUp == offered' = NoMessage /\ UNCHANGED delivered

Next == Offer \/ Deliver \/ GiveUp

Spec == Init /\ [][Next]_vars
=============================================================================
