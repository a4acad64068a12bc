-------------------------- MODULE TeleopHandshake ---------------------------
(***************************************************************************)
(* skye_hitl_dagger's TeleopHandshake: the two phases in which the arbiter *)
(* waits for the leader arms to follow a takeover.  Phase 1 waits for a    *)
(* SYNCED that comes after some other state and stands for MinSyncHold,    *)
(* phase 2 for a TELEOP that comes after switch_teleop.                    *)
(***************************************************************************)
EXTENDS Naturals

CONSTANTS
  None,         \* Python's None
  MinSyncHold   \* min_sync_hold_s, in clock ticks

\* What FACTR publishes on /teleop/state.
LeaderState == {"IDLE", "TELEOP_SYNCING", "SYNCED", "TELEOP"}

ASSUME HandshakeAssumption ==
  /\ MinSyncHold \in Nat
  /\ None \notin Nat /\ None \notin LeaderState

VARIABLES
  phase,     \* _phase
  state,     \* _state: the last state heard in this phase
  seen,      \* _seen_unaligned
  aligned    \* how long ago _aligned_since was, up to MinSyncHold; None as there

handshakeVars == <<phase, state, seen, aligned>>

Cleared == state' = None /\ seen' = FALSE /\ aligned' = None

Reset == phase' = "IDLE" /\ Cleared

StartSync == phase' = "WAIT_ALIGNED" /\ Cleared

StartTeleop == phase' = "WAIT_TELEOP" /\ state' = None /\ UNCHANGED <<seen, aligned>>

\* Mutant of OnState: a SYNCED counts whatever was heard before it.
OnStateLatched(s) ==
  /\ state' = s
  /\ \/ phase = "WAIT_ALIGNED" /\ s = "SYNCED" /\ seen' = TRUE
        /\ aligned' = IF aligned = None THEN 0 ELSE aligned
     \/ phase = "WAIT_ALIGNED" /\ s # "SYNCED" /\ seen' = TRUE /\ aligned' = None
     \/ phase # "WAIT_ALIGNED" /\ UNCHANGED <<seen, aligned>>
  /\ UNCHANGED phase

\* on_state
OnState(s) ==
  /\ state' = s
  /\ \/ phase = "WAIT_ALIGNED" /\ s = "SYNCED" /\ UNCHANGED seen
        /\ aligned' = IF seen /\ aligned = None THEN 0 ELSE aligned
     \/ phase = "WAIT_ALIGNED" /\ s # "SYNCED" /\ seen' = TRUE /\ aligned' = None
     \/ phase # "WAIT_ALIGNED" /\ UNCHANGED <<seen, aligned>>
  /\ UNCHANGED phase

AlignedReady ==
  /\ phase = "WAIT_ALIGNED" /\ seen
  /\ state = "SYNCED"
  /\ aligned # None /\ aligned = MinSyncHold

\* Mutant of TeleopReady: a TELEOP counts before switch_teleop was sent.
TeleopReadyAnyPhase == state = "TELEOP"

TeleopReady == phase = "WAIT_TELEOP" /\ state = "TELEOP"

\* pending_command, while a handover is under way.
PendingCommand == IF phase = "WAIT_ALIGNED" THEN "switch_sync" ELSE "switch_teleop"

\* A clock tick, for an age that is counted up to a bound.
Older(age, bound) == IF age = None \/ age = bound THEN age ELSE age + 1
=============================================================================
