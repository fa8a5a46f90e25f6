---------------------------- MODULE IsoTpFrames ----------------------------
(***************************************************************************)
(* The frames of the ISO-TP transport (isotp.c), with as many bytes in     *)
(* each as the constants say.  A payload is a sequence of bytes of any     *)
(* kind; a frame carries a piece of one, and the padding the code ignores  *)
(* is left out.                                                            *)
(***************************************************************************)
EXTENDS TickClock, Sequences

CONSTANTS
  SfBytes, FfBytes, CfBytes,  \* payload bytes in a single, first and
                              \* consecutive frame: 7, 6 and 7
  MaxPayload,                 \* ISOTP_MAX_PAYLOAD
  SeqMod                      \* consecutive frames are numbered modulo 16

ASSUME FramesAssumption ==
  /\ {SfBytes, FfBytes, CfBytes, MaxPayload} \subseteq Nat \ {0}
  /\ FfBytes <= SfBytes /\ SfBytes < MaxPayload
  /\ SeqMod \in Nat /\ SeqMod > 1

SingleFrame(payload) == [type |-> "SF", data |-> payload]

FirstFrame(payload) ==
  [type |-> "FF", length |-> Len(payload), data |-> SubSeq(payload, 1, FfBytes)]

ConsecutiveFrame(sequence, data) == [type |-> "CF", sequence |-> sequence, data |-> data]

FlowControl(status, blockSize, stMin) ==
  [type |-> "FC", status |-> status, blockSize |-> blockSize, stMin |-> stMin]

AtMost(n, limit) == IF n < limit THEN n ELSE limit

\* The separation times a flow control may announce: a number of milliseconds,
\* some hundreds of microseconds, or a reserved code.
CONSTANT StMinMs
StMins == {"none", "micros", "millis"}

\* st_min_to_ms: the millisecond clock rounds microseconds up.
StMinToMs(stMin) ==
  [none |-> 0, micros |-> 1, millis |-> StMinMs][stMin]

ASSUME StMinAssumption == StMinMs \in Nat
=============================================================================
