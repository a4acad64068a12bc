---------------------------- MODULE RobotiqProps ----------------------------
(* What RobotiqGripper must keep to. *)
EXTENDS RobotiqGripper

Writing == {"pos", "speed", "go"}

\* The types of all variables: flags, places in the code, numbers, the device.
FlagsOK ==
  /\ enabled \in BOOLEAN /\ bridge \in BOOLEAN /\ started \in BOOLEAN
  /\ dirty \in BOOLEAN /\ force \in BOOLEAN /\ reassert \in BOOLEAN
  /\ speedSent \in BOOLEAN /\ wrote \in BOOLEAN /\ stray \in BOOLEAN
PlacesOK ==
  /\ tick \in {"idle", "bridge", "arm", "take", "feedback"} \cup Writing
  /\ stop \in StopPhase
NumbersOK ==
  /\ target \in 0..CloseLimit /\ reg \in 0..CloseLimit
  /\ last \in -1..CloseLimit
  /\ lag \in 0..(ResendEvery - 1)
  /\ fbTicks \in 0..(FeedbackEvery - 1)
  /\ fb \in Pos
DevOK == dev \in [reg : Pos, go : BOOLEAN, pos : Pos, stalled : BOOLEAN]
TypeOK == FlagsOK /\ PlacesOK /\ NumbersOK /\ DevOK

\* No command is forgotten: as long as nobody stops the gripper, a target that
\* is not marked dirty outside write_pending is the last one whose motion was
\* started, whichever of the writes failed on the way.
CleanMeansSent ==
  stop = "run" /\ tick \notin {"take"} \cup Writing /\ ~dirty => last = target

\* When the emergency stop has returned, the timer turns to no further write:
\* at most the one it had decided on is carried out, even if the stop frame
\* failed and however far the timer had come past the first two flags.
NoWriteBeginsAfterStop ==
  [][stop = "off" /\ tick' \in {"take"} \cup Writing
       => tick \in {"take"} \cup Writing]_vars

\* A target that is held is reached up to ResendGap and kept, through lost
\* writes, answers that acknowledge the wrong write, reads that fail (and say
\* "open"), coalesced steps and objects that stop the gripper on its way.
HeldTargetReached ==
  <>[](stop = "run") /\ <>[][target' = target]_vars
    => <>[](Dist(dev.pos, target) <= ResendGap)
=============================================================================
