--------------------------- MODULE ControlArbiter ---------------------------
(***************************************************************************)
(* skye_hitl_dagger's ControlArbiterNode: who moves the arms, policy or    *)
(* operator, and what pose the arms are told to keep in between.  The node *)
(* has one thread, so each callback is one step.  Around it: the topics it *)
(* shares with FACTR, the leader arms' controller (external), whose own    *)
(* state and messages run late and out of order, and the operator UI and   *)
(* keyboard, which command FACTR behind the arbiter's back.                *)
(*                                                                         *)
(* A joint target is one value, its provenance: "cur" if it was measured   *)
(* or planned since the operator last moved the arms, else "old".          *)
(***************************************************************************)
EXTENDS TeleopHandshake

CONSTANTS
  SyncTimeout,     \* sync_timeout_s, in clock ticks
  Fallback,        \* chunk_freshness_fallback_s, in clock ticks
  ReturnCommand,   \* return_mode_command
  PolicyStamp,     \* how the policy stamps its chunks; see PolicyCallback
  FeedbackMayStop, \* joint_states may fall silent for feedback_stale_s
  Resyncs,         \* whether FACTR aligns anew on switch_sync when SYNCED
  Depth,           \* how many commands of a topic may be under way
  MaxMeddle,       \* how often others command FACTR, or it restarts
  Timely           \* messages and alignment take less than a clock tick

ModeCommand == {"switch_sync", "switch_teleop", "switch_stop"}

ASSUME ArbiterAssumption ==
  /\ SyncTimeout \in Nat /\ Fallback \in Nat /\ MaxMeddle \in Nat
  /\ Depth \in Nat \ {0}
  /\ ReturnCommand \in {"switch_sync", "switch_stop"}
  /\ PolicyStamp \subseteq {"none", "before", "after"}
  /\ FeedbackMayStop \in BOOLEAN /\ Timely \in BOOLEAN
  /\ Resyncs \subseteq BOOLEAN /\ Resyncs # {}
  /\ None \notin {"cur", "old"}

VARIABLES
  mode,       \* _logic._mode
  requested,  \* _logic._teleop_requested
  since,      \* how long ago _sync_started was, up to SyncTimeout
  absOff,     \* _abs_hold_after_teleop_request
  returning,  \* how long ago _return_time was, up to Fallback
  hold,       \* _hold_target
  last,       \* _last_target
  chunk,      \* _player's chunk
  fb,         \* _joint_feedback
  recent,     \* _feedback_is_recent()
  holdCall    \* a call of hold_current is under way to the driver

VARIABLES
  leader,     \* FACTR: its state
  stateMsg,   \* /teleop/state: the last publication, until it is taken
  commands,   \* /mode/*: how many messages of each topic are under way
  meddled,    \* how often somebody else than the arbiter touched FACTR
  reported    \* history: what FACTR published since the takeover, see Handover

targetVars  == <<returning, hold, last, chunk, fb, recent>>
arbiterVars == <<handshakeVars, mode, requested, since, absOff, targetVars, holdCall>>
factrVars   == <<leader, stateMsg, reported>>
vars        == <<arbiterVars, factrVars, commands, meddled>>

Init ==
  /\ phase = "IDLE" /\ state = None /\ seen = FALSE /\ aligned = None
  /\ mode = "AUTONOMOUS" /\ requested = FALSE /\ since = None /\ absOff = FALSE
  /\ returning = None /\ hold = None /\ last = None /\ chunk = None
  /\ \/ fb = "cur" /\ recent = TRUE
     \/ FeedbackMayStop /\ fb = None /\ recent = FALSE
  /\ holdCall = FALSE
  /\ leader \in LeaderState /\ stateMsg = leader
  /\ commands = [c \in ModeCommand |-> 0]
  /\ meddled = 0 /\ reported = "nothing"

\* _publish_mode_command.  Messages of a topic are alike; a full queue drops one.
Publish(c) == commands' = [commands EXCEPT ![c] = IF @ = Depth THEN @ ELSE @ + 1]

\* A target that was taken before the operator moved the arms.
Outdated(t) == IF t = None THEN None ELSE "old"

----------------------------------------------------------------------------
(* The policy's chunks and the follower's feedback.                        *)

\* Mutant of ChunkIsFresh: no fallback for stamps that stay behind.
ChunkIsFreshNoFallback(stamp) == returning = None \/ stamp # "before"

\* chunk_is_fresh, for a chunk stamped before or after the last return, or not
\* at all: an unstamped chunk goes by the time it is received, now.
ChunkIsFresh(stamp) ==
  returning = None \/ stamp # "before" \/ returning = Fallback

\* _policy_callback.  A chunk stamped after the return was planned after it; one
\* that was not may have been planned before.  With recent feedback its start is
\* at the measured pose or is moved there.
PolicyCallback(stamp, plan) ==
  /\ stamp = "after" => plan = "cur"
  /\ mode = "AUTONOMOUS"
  /\ ChunkIsFresh(stamp)
  /\ chunk' = IF recent THEN fb ELSE plan
  /\ returning' = None /\ hold' = None
  /\ UNCHANGED <<handshakeVars, mode, requested, since, absOff, last, fb, recent,
                 holdCall, factrVars, commands, meddled>>

\* _joint_states_callback
JointStatesCallback ==
  /\ fb' = "cur" /\ recent' = TRUE
  /\ IF mode = "AUTONOMOUS" /\ returning # None
     THEN hold' = "cur" /\ last' = "cur" ELSE UNCHANGED <<hold, last>>
  /\ UNCHANGED <<handshakeVars, mode, requested, since, absOff, returning, chunk,
                 holdCall, factrVars, commands, meddled>>

\* Nothing on joint_states for feedback_stale_s; meanwhile an operator who has
\* the arms moves on.
FeedbackStops ==
  /\ FeedbackMayStop /\ recent
  /\ recent' = FALSE
  /\ fb' = IF mode = "HUMAN" THEN "old" ELSE fb
  /\ UNCHANGED <<handshakeVars, mode, requested, since, absOff, returning, hold, last,
                 chunk, holdCall, factrVars, commands, meddled>>

\* What _joint_timer_callback sends on the absolute path.
Published ==
  IF mode = "HUMAN" \/ absOff THEN None
  ELSE IF mode = "HANDOVER_SYNC" THEN hold
  ELSE IF returning # None /\ hold = None THEN None
  ELSE IF chunk # None THEN chunk
  ELSE last

JointTimerCallback ==
  /\ mode = "AUTONOMOUS" /\ chunk # None /\ Published = chunk
  /\ last' = chunk
  /\ UNCHANGED <<handshakeVars, mode, requested, since, absOff, returning, hold, chunk,
                 fb, recent, holdCall, factrVars, commands, meddled>>

----------------------------------------------------------------------------
(* The operator: _intervention_callback.                                   *)

Takeover ==
  /\ mode = "AUTONOMOUS"
  /\ mode' = "HANDOVER_SYNC" /\ requested' = FALSE
  /\ absOff' = FALSE /\ since' = 0
  /\ last' = IF chunk # None THEN chunk ELSE last
  /\ hold' = IF last' # None THEN last' ELSE fb
  /\ chunk' = None
  /\ Publish("switch_sync") /\ StartSync
  /\ reported' = "nothing"
  /\ UNCHANGED <<returning, fb, recent, holdCall, leader, stateMsg, meddled>>

\* hold_current is called without waiting for its answer, if the service is up.
EnterTeleop ==
  /\ mode = "HANDOVER_SYNC" /\ ~requested
  /\ requested' = TRUE
  /\ holdCall' \in {holdCall, TRUE}
  /\ absOff' = TRUE /\ since' = 0
  /\ \/ AlignedReady /\ Publish("switch_teleop") /\ StartTeleop
     \/ ~AlignedReady /\ UNCHANGED <<commands, handshakeVars>>
  /\ UNCHANGED <<mode, targetVars, factrVars, meddled>>

\* Mutant of Return: the pose kept is the last one the arbiter commanded.
ReturnToLast ==
  /\ mode # "AUTONOMOUS"
  /\ mode' = "AUTONOMOUS" /\ requested' = FALSE
  /\ absOff' = FALSE /\ since' = None
  /\ Reset
  /\ chunk' = None /\ returning' = 0
  /\ hold' = last /\ last' = last
  /\ Publish(ReturnCommand)
  /\ UNCHANGED <<fb, recent, holdCall, factrVars, meddled>>

Return ==
  /\ mode # "AUTONOMOUS"
  /\ mode' = "AUTONOMOUS" /\ requested' = FALSE
  /\ absOff' = FALSE /\ since' = None
  /\ Reset
  /\ chunk' = None /\ returning' = 0
  /\ hold' = (IF recent THEN fb ELSE None) /\ last' = hold'
  /\ Publish(ReturnCommand)
  /\ UNCHANGED <<fb, recent, holdCall, factrVars, meddled>>

----------------------------------------------------------------------------
(* The handshake: _state_callback and _sync_timer_callback.                *)

StateCallback ==
  /\ stateMsg # None
  /\ OnState(stateMsg)
  /\ stateMsg' = None
  /\ UNCHANGED <<mode, requested, since, absOff, targetVars, holdCall, leader, reported,
                 commands, meddled>>

\* Before enter_teleop: while no answer came for SyncTimeout, and aligned or
\* not, switch_sync is sent again.
RepeatSync ==
  /\ mode = "HANDOVER_SYNC" /\ ~requested
  /\ since = SyncTimeout /\ PendingCommand = "switch_sync"
  /\ Publish("switch_sync") /\ since' = 0
  /\ UNCHANGED <<handshakeVars, mode, requested, absOff, targetVars, holdCall, factrVars, meddled>>

\* The operator gets the arms; every pose the arbiter keeps will be outdated.
CompleteSync ==
  /\ mode = "HANDOVER_SYNC" /\ requested /\ TeleopReady
  /\ mode' = "HUMAN" /\ requested' = FALSE
  /\ absOff' = FALSE /\ since' = None
  /\ Reset
  /\ hold' = Outdated(hold) /\ last' = Outdated(last) /\ chunk' = Outdated(chunk)
  /\ fb' = IF recent THEN fb ELSE Outdated(fb)
  /\ UNCHANGED <<returning, recent, holdCall, factrVars, commands, meddled>>

FireTeleop ==
  /\ mode = "HANDOVER_SYNC" /\ requested /\ AlignedReady
  /\ Publish("switch_teleop") /\ StartTeleop
  /\ since' = 0
  /\ UNCHANGED <<mode, requested, absOff, targetVars, holdCall, factrVars, meddled>>

\* Mutant of RepeatPending: after switch_teleop nothing is sent again.
RepeatPendingSyncOnly ==
  /\ mode = "HANDOVER_SYNC" /\ requested /\ ~TeleopReady /\ ~AlignedReady
  /\ since = SyncTimeout /\ PendingCommand = "switch_sync"
  /\ Publish(PendingCommand) /\ since' = 0
  /\ UNCHANGED <<handshakeVars, mode, requested, absOff, targetVars, holdCall, factrVars, meddled>>

RepeatPending ==
  /\ mode = "HANDOVER_SYNC" /\ requested /\ ~TeleopReady /\ ~AlignedReady
  /\ since = SyncTimeout
  /\ Publish(PendingCommand) /\ since' = 0
  /\ UNCHANGED <<handshakeVars, mode, requested, absOff, targetVars, holdCall, factrVars, meddled>>

SyncTimerCallback == RepeatSync \/ CompleteSync \/ FireTeleop \/ RepeatPending

----------------------------------------------------------------------------
(* The surroundings.                                                       *)

\* The driver answers hold_current.
HoldServed ==
  /\ holdCall
  /\ holdCall' = FALSE
  /\ UNCHANGED <<handshakeVars, mode, requested, since, absOff, targetVars, factrVars,
                 commands, meddled>>

\* FACTR changes state and publishes it; reported follows what matters to a
\* handover.
Becomes(s) ==
  /\ leader' = s /\ stateMsg' = s
  /\ reported' = IF reported = "nothing" /\ s = "SYNCED" THEN "synced"
                 ELSE IF reported = "synced" /\ s = "TELEOP" THEN "teleop"
                 ELSE reported

\* A command that asks FACTR for the state it is in, or is entering, changes
\* nothing and publishes nothing.
Enter(s) == IF leader = s THEN UNCHANGED factrVars ELSE Becomes(s)

TakesCommand(c) ==
  \/ c = "switch_stop" /\ Enter("IDLE")
  \/ c = "switch_teleop" /\ Enter("TELEOP")
  \/ c = "switch_sync" /\ (leader # "SYNCED" \/ TRUE \in Resyncs) /\ Enter("TELEOP_SYNCING")
  \/ c = "switch_sync" /\ leader = "SYNCED" /\ FALSE \in Resyncs /\ UNCHANGED factrVars

FactrCommand(c) ==
  /\ commands[c] > 0
  /\ commands' = [commands EXCEPT ![c] = @ - 1]
  /\ TakesCommand(c)
  /\ UNCHANGED <<arbiterVars, meddled>>

FactrSynced ==
  /\ leader = "TELEOP_SYNCING" /\ (Timely => stateMsg = None)
  /\ Becomes("SYNCED")
  /\ UNCHANGED <<arbiterVars, commands, meddled>>

\* The UI or the keyboard sends FACTR a command, or FACTR restarts.
Meddle ==
  /\ meddled < MaxMeddle /\ meddled' = meddled + 1
  /\ \/ \E c \in ModeCommand : Publish(c) /\ UNCHANGED factrVars
     \/ Becomes("IDLE") /\ UNCHANGED commands
  /\ UNCHANGED arbiterVars

Tick ==
  /\ Timely => /\ stateMsg = None /\ leader # "TELEOP_SYNCING"
               /\ \A c \in ModeCommand : commands[c] = 0
  /\ aligned' = Older(aligned, MinSyncHold)
  /\ since' = Older(since, SyncTimeout)
  /\ returning' = Older(returning, Fallback)
  /\ UNCHANGED <<phase, state, seen, mode, requested, absOff, hold, last, chunk, fb,
                 recent, holdCall, factrVars, commands, meddled>>

Next ==
  \/ \E stamp \in PolicyStamp, plan \in {"cur", "old"} : PolicyCallback(stamp, plan)
  \/ JointStatesCallback \/ FeedbackStops \/ JointTimerCallback
  \/ Takeover \/ EnterTeleop \/ Return
  \/ StateCallback \/ SyncTimerCallback
  \/ HoldServed
  \/ \E c \in ModeCommand : FactrCommand(c)
  \/ FactrSynced \/ Meddle \/ Tick

\* Timers and subscriptions of the arbiter are served; the policy keeps sending;
\* FACTR takes its commands and completes an alignment; time goes on.
Fairness ==
  /\ WF_vars(SyncTimerCallback) /\ WF_vars(StateCallback)
  /\ \A stamp \in PolicyStamp : WF_vars(PolicyCallback(stamp, "cur"))
  /\ \A c \in ModeCommand : WF_vars(FactrCommand(c))
  /\ WF_vars(FactrSynced) /\ WF_vars(Tick)

Spec == Init /\ [][Next]_vars /\ Fairness
=============================================================================
