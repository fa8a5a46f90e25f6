---------------------------- MODULE MCUdsRuntime ----------------------------
(* UdsRuntime with a server that has a short and a long response. *)
EXTENDS UdsRuntime

MCResponses == {<<"r1">>, <<"r1", "r2", "r3", "r4", "r5">>}
=============================================================================
