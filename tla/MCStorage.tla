----------------------------- MODULE MCStorage -----------------------------
(* Storage with two values of a word. *)
EXTENDS Storage

CONSTANTS h1, h2

MCDefaults == <<h1, h1>>
=============================================================================
