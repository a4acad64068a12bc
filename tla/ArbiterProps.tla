---------------------------- MODULE ArbiterProps ----------------------------
(***************************************************************************)
(* The properties of the arbiter: what it guarantees the operator.         *)
(***************************************************************************)
EXTENDS ControlArbiter

Age(bound) == 0..bound \cup {None}
Target == {"cur", "old", None}

\* Types, and the couplings of the node's flags that its callbacks rely on but
\* never check: a handshake is under way exactly during a handover, only a
\* confirmed one waits for TELEOP, and the absolute path is silent exactly while
\* a confirmed handover is under way.
ArbiterTypeOK ==
  /\ phase \in {"IDLE", "WAIT_ALIGNED", "WAIT_TELEOP"}
  /\ state \in LeaderState \cup {None} /\ seen \in BOOLEAN /\ aligned \in Age(MinSyncHold)
  /\ mode \in {"AUTONOMOUS", "HANDOVER_SYNC", "HUMAN"}
  /\ requested \in BOOLEAN /\ absOff \in BOOLEAN
  /\ since \in Age(SyncTimeout) /\ returning \in Age(Fallback)
  /\ hold \in Target /\ last \in Target /\ chunk \in Target /\ fb \in Target
  /\ recent \in BOOLEAN /\ holdCall \in BOOLEAN
  /\ leader \in LeaderState /\ stateMsg \in LeaderState \cup {None}
  /\ commands \in [ModeCommand -> 0..Depth] /\ meddled \in 0..MaxMeddle
  /\ reported \in {"nothing", "synced", "teleop"}

HandshakeFollowsMode ==
  /\ mode = "HANDOVER_SYNC" <=> phase # "IDLE"
  /\ phase = "WAIT_TELEOP" => requested
  /\ absOff = requested
  /\ requested => mode = "HANDOVER_SYNC"

\* What FACTR's messages tell the handshake, however late they come: a SYNCED
\* heard or on its way after some other state, and a TELEOP after that, were
\* published since the takeover.
HeardIsReported ==
  /\ phase = "WAIT_ALIGNED" /\ seen /\ stateMsg = "SYNCED" => reported # "nothing"
  /\ phase # "IDLE" /\ aligned # None => reported # "nothing"
  /\ phase = "WAIT_TELEOP" => aligned # None
  /\ phase # "IDLE" /\ aligned # None /\ stateMsg = "TELEOP" => reported = "teleop"
  /\ TeleopReady => reported = "teleop"

\* The inductive invariant behind the refinement of Handover.
HandoverInv == ArbiterTypeOK /\ HandshakeFollowsMode /\ HeardIsReported

\* active_source
sourceBar ==
  IF mode = "AUTONOMOUS" THEN "policy"
  ELSE IF mode = "HANDOVER_SYNC" THEN "hold" ELSE "teleop"

Promise == INSTANCE Handover WITH source <- sourceBar, asked <- requested

\* The operator gets the arms only after both requests and only on reports that
\* FACTR published since the takeover, in their order: whatever /teleop/state was
\* latched before, however late commands and states are, and whoever else
\* commands FACTR.
ImplementsHandover == Promise!Spec

\* While feedback lives, the arbiter never commands a pose from before the
\* operator last moved the arms: neither the chunk nor the hold of an earlier
\* turn of the policy survives the operator's.
FreshTargets == Published # "old"

\* What the node keeps while feedback lives: only the operator's turn leaves
\* outdated poses behind, and the return that ends it drops them all.
FreshInv ==
  /\ fb = "cur"
  /\ mode # "HUMAN" => "old" \notin {hold, last, chunk}

\* A confirmed handover does not get stuck: commands and reports that cross each
\* other, or are lost because FACTR was commanded by somebody else, are made good
\* by sending the pending command again.
HandoverCompletes == requested ~> ~requested

\* After a return the policy gets the arms again, even if its clock is behind so
\* that no chunk is ever stamped after the return.
ReturnGateOpens == returning # None ~> returning = None \/ mode # "AUTONOMOUS"
=============================================================================
