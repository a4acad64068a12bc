------------------------------ MODULE MCRobotiq ------------------------------
(* Instances of RobotiqGripper. *)
EXTENDS RobotiqProps

\* HeldTargetReached says nothing of behaviours with an emergency stop: they
\* are left out where it is checked.
RunningSpec == Init /\ [][Next /\ stop' = "run"]_vars /\ Fairness
=============================================================================
