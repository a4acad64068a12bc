----------------------------- MODULE AlignProps -----------------------------
EXTENDS FollowerAlign

Kinds == {"hold", "slow", "normal"}

TypeOK ==
  /\ phase \in [Arm -> Phases] /\ frames \in [Arm -> 0..HoldFrames]
  /\ expired \in BOOLEAN /\ streaming \in BOOLEAN
  /\ active \subseteq Arm /\ status \in Phases
  /\ leaders \in BOOLEAN /\ big \in Ages
  /\ pc \in [at : {"free", "align", "undo", "hold", "restore"},
             arms : SUBSET Arm, end : Phases]
  /\ call \in {"none", "sent", "ok", "failed"}
  /\ queue \in Seq([what : Kinds, arms : SUBSET Arm, owned : BOOLEAN])
  /\ slow \subseteq Arm /\ following \subseteq Arm
  /\ unmet \subseteq {"hold", "rates"}
  /\ exit \in {"no", "idle", "aligning", "closing"}

\* While absolute commands are streamed, the arms that follow them are at the
\* speed of an alignment, whatever request was given up before
\* (_align_callback streams only after the driver's answer).
SlowWhileStreaming == streaming => active \subseteq slow

\* When an alignment is over, however it ended, and the driver has served what
\* was sent, the arms hold and have their speed back, unless the driver was not
\* there or refused; the one other way is an interrupt while the node was
\* already holding or restoring (_shutdown_cleanup).  The status that stays
\* latched says so too.
RestoredAfterAlign ==
  pc = Free /\ ~streaming =>
    /\ status # "ALIGNING"
    /\ queue = <<>> /\ exit # "closing" =>
         /\ "rates" \notin unmet => slow = {}
         /\ "hold" \notin unmet => following = {}

\* An alignment that has seen the big arms ends, because its time passes even
\* when their feedback goes stale (follower_align_node.py:324).
AlignEnds == (streaming /\ big # "none" /\ exit = "no") ~> ~streaming
=============================================================================
