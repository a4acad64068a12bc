---------------------------- MODULE GripperNode ----------------------------
(***************************************************************************)
(* What DriverNode and GripperBridge do with one gripper arm.  Gripper     *)
(* commands and the gripper timer share one mutually exclusive callback    *)
(* group, so the timer callback is never interrupted by a command; the     *)
(* emergency stop runs in the control group, on the executor's other       *)
(* thread, and meets the timer callback between any two of its steps.      *)
(* Three plain flags, cleared in this order, tell the timer to leave the   *)
(* arm alone.                                                              *)
(***************************************************************************)
EXTENDS Integers

VARIABLES
  enabled,   \* DriverNode::gripper_enabled_
  bridge,    \* GripperBridge::started_
  started,   \* the arm backend's started_
  tick,      \* where the timer callback is; "idle" when it is not running
  stop       \* where the emergency stop is; "run" before it, "off" after it

nodeVars == <<enabled, bridge, started, tick, stop>>

StopPhase == {"run", "frame", "reset", "bridge", "node", "off"}

\* After a successful start(): the node is constructed with the grippers on.
NodeInit ==
  /\ enabled = TRUE /\ bridge = TRUE /\ started = TRUE
  /\ tick = "idle" /\ stop = "run"

\* A gripper command is handled: the group is free and the grippers are on.
Commandable == tick = "idle" /\ enabled

\* The timer fires.
TickBegins ==
  /\ tick = "idle" /\ enabled
  /\ tick' = "bridge"
  /\ UNCHANGED <<enabled, bridge, started, stop>>

\* GripperBridge::tick_control: goes to the arm, whose first step is "arm".
TickEntersArm ==
  /\ tick = "bridge"
  /\ tick' = IF bridge THEN "arm" ELSE "feedback"
  /\ UNCHANGED <<enabled, bridge, started, stop>>

TickGoes(from, to) ==
  /\ tick = from
  /\ tick' = to
  /\ UNCHANGED <<enabled, bridge, started, stop>>

\* handle_emergency_stop finds the grippers on and both started_ flags set:
\* the arm is about to be told to stop.
StopBegins ==
  /\ stop = "run" /\ enabled
  /\ stop' = IF bridge /\ started THEN "frame" ELSE "node"
  /\ UNCHANGED <<enabled, bridge, started, tick>>

\* The arm's stop frame has been sent, with or without success.
StopSent ==
  /\ stop = "frame"
  /\ stop' = "reset"
  /\ UNCHANGED <<enabled, bridge, started, tick>>

\* Mutant of StopResets: a stop frame that may have failed leaves the arm on.
StopLeavesArmOn ==
  /\ stop = "reset"
  /\ stop' = "bridge"
  /\ UNCHANGED <<enabled, bridge, started, tick>>

StopResets ==
  /\ stop = "reset"
  /\ started' = FALSE
  /\ stop' = "bridge"
  /\ UNCHANGED <<enabled, bridge, tick>>

StopBridge ==
  /\ stop = "bridge"
  /\ bridge' = FALSE
  /\ stop' = "node"
  /\ UNCHANGED <<enabled, started, tick>>

StopNode ==
  /\ stop = "node"
  /\ enabled' = FALSE
  /\ stop' = "off"
  /\ UNCHANGED <<bridge, started, tick>>
=============================================================================
