---------------------------- MODULE MCUdsServer ----------------------------
(***************************************************************************)
(* UdsServer on two builds, one with the services of sessions, security    *)
(* and resets and one with the download, and on a memory of eight units:   *)
(* the bootloader, the active application, two units of staging, the       *)
(* diagnostic storage, the parameters, and two that belong to nobody.      *)
(***************************************************************************)
EXTENDS UdsServer

MCBuilds == {{"10", "11", "27", "85"}, {"10", "34", "36", "37"}}

MCProtected == {<<0, 1>>, <<1, 2>>, <<4, 5>>, <<5, 6>>}

MCImages == {<<1, 1>>, <<2, 0>>, <<2, 1>>, <<2, 2>>, <<3, 2>>, <<5, 1>>, <<6, 1>>}
=============================================================================
