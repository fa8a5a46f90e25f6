----------------------------- MODULE FrameFifo -----------------------------
(***************************************************************************)
(* What a CAN frame queue between two contexts promises: frames come out   *)
(* whole, once and in the order they went in; a frame is lost only when    *)
(* the queue holds its capacity, and is then counted.                      *)
(***************************************************************************)
EXTENDS Naturals, Sequences

CONSTANTS Frames,      \* what can be put
          Capacity,    \* most frames the queue holds
          CounterMod   \* the loss counter wraps

VARIABLES queue,  \* the frames in it, oldest first
          taken,  \* the frame taken last
          lost    \* the loss counter

vars == <<queue, taken, lost>>

\* `taken' starts with whatever the consumer finds there.
Init == queue = <<>> /\ lost = 0

Put == /\ Len(queue) < Capacity
       /\ \E f \in Frames : queue' = Append(queue, f)
       /\ UNCHANGED <<taken, lost>>

Lose == /\ Len(queue) = Capacity
        /\ lost' = (lost + 1) % CounterMod
        /\ UNCHANGED <<queue, taken>>

Get == /\ queue # <<>>
       /\ taken' = Head(queue)
       /\ queue' = Tail(queue)
       /\ UNCHANGED lost

\* The queue is set up anew.
Flush == queue' = <<>> /\ lost' = 0 /\ UNCHANGED taken

Next == Put \/ Lose \/ Get \/ Flush

Spec == Init /\ [][Next]_vars
=============================================================================
