----------------------------- MODULE UiCommands -----------------------------
(***************************************************************************)
(* The rules of the operator UI, without state: which command a session    *)
(* allows (commands.py), where a command is sent (dispatch_plan), which    *)
(* step the page recommends (hints.py) and when a command counts as        *)
(* confirmed (api_app.py).                                                 *)
(*   m == [teleop, align, hitl, flag]  the mailbox                         *)
(*   g == [left, right, locked]        the leader arm gate                 *)
(***************************************************************************)
CONSTANTS None, Teleop, Dagger   \* no value; the two UiModes
ASSUME ModeAssumption == Teleop # Dagger /\ None \notin {Teleop, Dagger}

LeaderScriptOps ==
  {"leader_left_off", "leader_left_on", "leader_right_off", "leader_right_on"}
TeleopOps ==
  {"switch_sync", "switch_teleop", "switch_stop", "align_start", "align_cancel"}
  \cup LeaderScriptOps
DaggerOps == {"takeover", "enter_teleop", "return"}
RecorderOps == {"recorder_start", "recorder_stop"}
DriverOps == {"hold_current", "stop_motion", "emergency_stop"}
AllowedOps == TeleopOps \cup DaggerOps \cup RecorderOps \cup DriverOps

Operational == {"READY", "RUNNING", "DEGRADED"}
AlignDone == {"ALIGNED", "TIMEOUT_WARN"}
LockStates == {"TELEOP_SYNCING", "SYNCED", "TELEOP"}
Cleared == [teleop |-> None, align |-> None, hitl |-> None, flag |-> FALSE]

NoGate == [left |-> TRUE, right |-> TRUE, locked |-> FALSE]
AnyEnabled(g) == g.left \/ g.right

\* The condition on the mailbox and the gate that command_allowed adds for op.
Condition(op, state, m, g) ==
  CASE op \in LeaderScriptOps -> ~g.locked
    [] op = "return" -> m.hitl \in {"HUMAN", "HANDOVER_SYNC"}
    [] op = "takeover" -> m.hitl = "AUTONOMOUS"
    [] op = "enter_teleop" -> m.hitl = "HANDOVER_SYNC" /\ m.teleop = "SYNCED"
    [] op = "switch_teleop" -> m.teleop = "SYNCED" \/ m.align \in AlignDone
    [] op = "align_start" -> AnyEnabled(g) /\ m.align # "ALIGNING" /\ m.teleop = "SYNCED"
    [] op = "align_cancel" -> m.align = "ALIGNING"
    [] op = "switch_sync" -> AnyEnabled(g) /\ m.teleop \notin LockStates
    [] op = "recorder_start" -> state # "DEGRADED"
    [] OTHER -> TRUE

CommandAllowed(op, state, mode, m, g) ==
  /\ op \in AllowedOps
  /\ \/ op = "emergency_stop"
     \/ /\ state \in Operational /\ mode # None
        /\ op \in TeleopOps => mode = Teleop
        /\ op \in DaggerOps => mode = Dagger
        /\ Condition(op, state, m, g)

\* dispatch_plan: a string to a topic, a Trigger service, the script or nothing.
Kind(op, uiMode) ==
  CASE op \in LeaderScriptOps -> "script"
    [] op \in DriverOps -> "trigger"
    [] op \in RecorderOps -> IF uiMode = None THEN "none" ELSE "trigger"
    [] OTHER -> "string"

\* align_payload: which arms the alignment takes, from the leader arms left on.
AlignPayload(g) ==
  CASE g.left /\ g.right -> "align_follower"
    [] g.left /\ ~g.right -> "align_follower_left"
    [] ~g.left /\ g.right -> "align_follower_right"
    [] OTHER -> None

\* Mutant of NextHint: an alignment that timed out is offered again.
NextHintAgain(state, mode, m) ==
  IF state \in {"READY", "RUNNING"} /\ mode = Teleop /\ m.teleop = "SYNCED"
  THEN IF m.align # "ALIGNED" THEN {"align_start"} ELSE {"switch_teleop"}
  ELSE {}

\* next_hint: the commands its sentence tells the operator to give next.
NextHint(state, mode, m) ==
  CASE state \notin {"READY", "RUNNING"} -> {}
    [] state \in {"READY", "RUNNING"} /\ mode = Dagger ->
         CASE m.hitl = "AUTONOMOUS" -> {"takeover"}
           [] m.hitl = "HUMAN" -> {"return", "recorder_start", "recorder_stop"}
           [] m.hitl = "HANDOVER_SYNC" ->
                IF m.teleop = "SYNCED" THEN {"enter_teleop"} ELSE {}
           [] OTHER -> {}
    [] state \in {"READY", "RUNNING"} /\ mode = Teleop ->
         CASE m.teleop \in {None, "IDLE"} -> {"switch_sync"}
           [] m.teleop = "SYNCED" ->
                CASE m.align \in {None, "IDLE"} -> {"align_start"}
                  [] m.align \in AlignDone -> {"switch_teleop"}
                  [] OTHER -> {}
           [] m.teleop = "TELEOP" -> {"recorder_start", "recorder_stop"}
           [] OTHER -> {}
    [] OTHER -> {}

\* _PENDING_CONFIRMERS: what the mailbox shows once op has had its effect.
Confirmed(op, m) ==
  CASE op = "switch_sync" -> m.teleop \in {"TELEOP_SYNCING", "SYNCED"}
    [] op = "switch_teleop" -> m.teleop = "TELEOP"
    [] op = "switch_stop" -> m.teleop \notin {"TELEOP", "TELEOP_SYNCING"}
    [] op = "align_start" -> m.align \in {"ALIGNING"} \cup AlignDone
    [] op = "align_cancel" -> m.align # "ALIGNING"
    [] op = "takeover" -> m.hitl = "HANDOVER_SYNC"
    [] op = "enter_teleop" -> m.hitl = "HUMAN"
    [] op = "return" -> m.hitl = "AUTONOMOUS"
    [] op = "recorder_start" -> m.flag
    [] op = "recorder_stop" -> ~m.flag
    [] OTHER -> TRUE
=============================================================================
