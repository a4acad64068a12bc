-------------------------- MODULE SessionLifecycle --------------------------
(***************************************************************************)
(* What the operator is promised of a session: its life cycle, one start   *)
(* and one end at a time, and a mode that is fixed between them.           *)
(***************************************************************************)
CONSTANTS None, Modes
VARIABLES state, mode

Operational == {"READY", "RUNNING", "DEGRADED"}

Init == state = "IDLE" /\ mode = None

Begin ==
  /\ state = "IDLE"
  /\ \E m \in Modes : mode' = m
  /\ state' = "PRECHECK"

\* What may follow what while the session goes on.
Follows(s) ==
  CASE s = "PRECHECK" -> {"STARTING", "FAILED"}
    [] s = "STARTING" -> {"READY", "FAILED"}
    [] s = "FAILED" -> {"STARTING"}
    [] s = "READY" -> {"RUNNING", "DEGRADED"}
    [] s = "RUNNING" -> {"DEGRADED"}
    [] OTHER -> {}

Proceed == state' \in Follows(state) /\ UNCHANGED mode

End ==
  /\ state \notin {"IDLE", "STOPPING"}
  /\ state' = "STOPPING"
  /\ UNCHANGED mode

Ended ==
  /\ state = "STOPPING"
  /\ state' = "IDLE" /\ mode' = None

Next == Begin \/ Proceed \/ End \/ Ended
Spec == Init /\ [][Next]_<<state, mode>>
=============================================================================
