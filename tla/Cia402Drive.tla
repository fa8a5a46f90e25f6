---------------------------- MODULE Cia402Drive ----------------------------
(***************************************************************************)
(* The drive state machine of cia402_reference.c: the bits of the          *)
(* controlword that it looks at, the states of the statusword, and the     *)
(* enable of the power stage.  The feedback values, the set-points and the *)
(* error code 0x603F are left out; a fault and an open interlock of the    *)
(* hardware are one input.                                                 *)
(***************************************************************************)

VARIABLES
  drive,    \* status 0x6041, display 0x6061 and the enable of the hardware
  control,  \* 0x6040, as the set of the bits that are 1
  mode,     \* 0x6060 is a mode of operation that is supported
  healthy   \* external: no hardware fault, and the interlocks are closed

ControlBits == {"switch_on", "enable_voltage", "quick_stop", "enable_operation",
                "fault_reset"}

Statuses == {"SWITCH_ON_DISABLED", "READY_TO_SWITCH_ON", "SWITCHED_ON",
             "OPERATION_ENABLED", "QUICK_STOP_ACTIVE", "FAULT"}

Drives == [status : Statuses, display : BOOLEAN, enable : BOOLEAN]

DriveOff(status) == [status |-> status, display |-> FALSE, enable |-> FALSE]

\* Cia402Reference_ForceDisable, when nothing can interrupt it.
ForceDisable == drive' = DriveOff("SWITCH_ON_DISABLED")

\* Cia402Reference_Init
DriveInit == ForceDisable /\ control' = {} /\ mode' = FALSE

-----------------------------------------------------------------------------
(* Cia402Reference_Process1ms *)

Voltage == "enable_voltage" \in control
NoQuickStop == "quick_stop" \in control
Powered == Voltage /\ NoQuickStop
AllFour == ControlBits \ {"fault_reset"} \subseteq control

\* The transitions; where no line applies the status stays.
Goes(from, to) ==
  \/ from = "SWITCH_ON_DISABLED" /\ Powered /\ to = "READY_TO_SWITCH_ON"
  \/ from = "READY_TO_SWITCH_ON" /\ ~Powered /\ to = "SWITCH_ON_DISABLED"
  \/ from = "READY_TO_SWITCH_ON" /\ Powered /\ "switch_on" \in control /\ to = "SWITCHED_ON"
  \/ from \in {"SWITCHED_ON", "OPERATION_ENABLED", "QUICK_STOP_ACTIVE"}
       /\ \/ ~Voltage /\ to = "SWITCH_ON_DISABLED"
          \/ Voltage /\ ~NoQuickStop /\ to = "QUICK_STOP_ACTIVE"
  \/ from = "SWITCHED_ON" /\ Powered /\ "switch_on" \notin control
       /\ to = "READY_TO_SWITCH_ON"
  \/ from \in {"SWITCHED_ON", "QUICK_STOP_ACTIVE"} /\ AllFour /\ to = "OPERATION_ENABLED"
  \/ from = "OPERATION_ENABLED" /\ Powered /\ "enable_operation" \notin control
       /\ to = "SWITCHED_ON"
  \/ from = "QUICK_STOP_ACTIVE" /\ Powered /\ ~AllFour /\ to = "SWITCHED_ON"

NextStatus ==
  IF \E to \in Statuses : Goes(drive.status, to)
  THEN CHOOSE to \in Statuses : Goes(drive.status, to)
  ELSE drive.status

DriveFault == ~healthy /\ drive' = DriveOff("FAULT")

\* Taken by the level of the bit, not by its edge.
DriveFaultReset ==
  /\ healthy /\ drive.status = "FAULT"
  /\ drive' = DriveOff(IF "fault_reset" \in control THEN "SWITCH_ON_DISABLED" ELSE "FAULT")

DriveRuns ==
  /\ healthy /\ drive.status # "FAULT" /\ NextStatus = "OPERATION_ENABLED" /\ mode
  /\ drive' = [status |-> "OPERATION_ENABLED", display |-> TRUE, enable |-> TRUE]

\* Mutant of DriveModeUnknown: only the display is withdrawn.
DriveModeUnknownRuns ==
  /\ healthy /\ drive.status # "FAULT" /\ NextStatus = "OPERATION_ENABLED" /\ ~mode
  /\ drive' = [drive EXCEPT !.display = FALSE]

DriveModeUnknown ==
  /\ healthy /\ drive.status # "FAULT" /\ NextStatus = "OPERATION_ENABLED" /\ ~mode
  /\ ForceDisable

DriveIdles ==
  /\ healthy /\ drive.status # "FAULT" /\ NextStatus # "OPERATION_ENABLED"
  /\ drive' = DriveOff(NextStatus)

DriveProcess ==
  /\ DriveFault \/ DriveFaultReset \/ DriveRuns \/ DriveModeUnknown \/ DriveIdles
  /\ UNCHANGED <<control, mode, healthy>>
=============================================================================
