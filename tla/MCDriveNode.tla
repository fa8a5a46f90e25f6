---------------------------- MODULE MCDriveNode ----------------------------
(***************************************************************************)
(* DriveNode with the controlwords that lead through its state machine:    *)
(* none, shutdown, switch on, enable operation, quick stop, fault reset.   *)
(***************************************************************************)
EXTENDS DriveNode

MCControls ==
  {{}, {"enable_voltage", "quick_stop"}, {"enable_voltage", "quick_stop", "switch_on"},
   {"enable_voltage", "quick_stop", "switch_on", "enable_operation"},
   {"enable_voltage"}, {"fault_reset"}}
=============================================================================
