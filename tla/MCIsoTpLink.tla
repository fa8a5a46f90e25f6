---------------------------- MODULE MCIsoTpLink ----------------------------
(***************************************************************************)
(* IsoTpLink on small messages: one that takes as many consecutive frames  *)
(* as there are sequence numbers, the last one short; one that takes a     *)
(* single consecutive frame; and one that fits a single frame.             *)
(***************************************************************************)
EXTENDS IsoTpLink

MCPayloads == {<<"a1", "a2", "a3", "a4", "a5", "a6">>,
               <<"b1", "b2", "b3">>,
               <<"c1", "c2">>}
=============================================================================
