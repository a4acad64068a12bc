------------------------------ MODULE Handover ------------------------------
(***************************************************************************)
(* What the arbiter promises the operator about who moves the arms: the    *)
(* policy, nobody (a hold), or the operator.  The operator gets the arms   *)
(* only after asking twice (takeover, enter_teleop) and after the leader   *)
(* reported, since the takeover, first that it is aligned with the         *)
(* follower and then that it teleoperates.                                 *)
(***************************************************************************)
VARIABLES
  source,    \* "policy", "hold" or "teleop", as in /skye/control_mode
  asked,     \* the operator confirmed that the handover may complete
  reported   \* since the takeover: "nothing", "synced", then "teleop"

handoverVars == <<source, asked, reported>>

Init == source = "policy" /\ asked = FALSE /\ reported = "nothing"

Takeover ==
  /\ source = "policy"
  /\ source' = "hold" /\ asked' = FALSE /\ reported' = "nothing"

Ask == source = "hold" /\ asked' = TRUE /\ UNCHANGED <<source, reported>>

Report ==
  /\ \/ reported = "nothing" /\ reported' = "synced"
     \/ reported = "synced" /\ reported' = "teleop"
  /\ UNCHANGED <<source, asked>>

Complete ==
  /\ source = "hold" /\ asked /\ reported = "teleop"
  /\ source' = "teleop" /\ asked' = FALSE /\ UNCHANGED reported

Return ==
  /\ source # "policy"
  /\ source' = "policy" /\ asked' = FALSE /\ UNCHANGED reported

Next == Takeover \/ Ask \/ Report \/ Complete \/ Return

Spec == Init /\ [][Next]_handoverVars
=============================================================================
