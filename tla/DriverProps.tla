---------------------------- MODULE DriverProps -----------------------------
(***************************************************************************)
(* The properties of the driver: what DriverNode guarantees the arms and   *)
(* the nodes that command them.                                            *)
(***************************************************************************)
EXTENDS DriverNode

Session == [streaming : BOOLEAN, last : (Lo..Hi) \cup {None}, age : 0..(Timeout + 1)]

CoreTypeOK ==
  /\ linked \in BOOLEAN /\ ready \in BOOLEAN
  /\ mode \in Mode
  /\ config \in [Arm -> Rate] /\ rate \in [Arm -> Rate]
  /\ arm \in [Arm -> Mode]
  /\ target \in [Arm -> Int \cup {None}]

\* Types.  last \in Lo..Hi says that whatever is sent from a frame lies within
\* the joint limits: the last clamp of handle_command and
\* handle_absolute_command comes after the slew limit.
TypeOK ==
  /\ CoreTypeOK
  /\ sess \in [Arm -> [Path -> Session]]
  /\ check \in 0..4
  /\ stopped \in BOOLEAN

\* An arm never has two streaming sessions, so the branch of
\* check_command_timeout that skips a hold because "other command path is
\* streaming" is never needed, and a hold never fights a live stream.
OneOwner == \A a \in Arm : ~(sess[a]["rel"].streaming /\ sess[a]["abs"].streaming)

\* limit_delta dereferences last_command of a path that streams: no sequence of
\* resets, refused frames and takeovers leaves a streaming session without one.
SessionSeeded == \A a \in Arm, p \in Path : sess[a][p].streaming => sess[a][p].last # None

\* control_ready_ is a promise about the controller: whatever switches failed
\* half way before, when commands are let through both arms are in mode_.
ReadyMeansInMode == ready => linked /\ mode # Idle /\ \A a \in Arm : arm[a] = mode

\* After stop_motion, emergency_stop or set_mode(idle) the driver stays idle and
\* no stream survives, whatever frames, holds and timer checks follow.
StoppedStaysIdle ==
  stopped => mode = Idle /\ ~ready /\ \A a \in Arm, p \in Path : ~sess[a][p].streaming

\* What a streaming session slews from is what the controller tracks, so
\* bounding the step from the one bounds the step of the other.
LastIsTarget ==
  \A a \in Arm, p \in Path : ready /\ sess[a][p].streaming => sess[a][p].last = target[a]

\* A frame of a continuing session moves the controller's target by at most
\* max_delta_per_cycle.
FrameStepBounded ==
  [][\A a \in Arm, p \in Path :
       sess[a][p].streaming /\ sess'[a][p].streaming /\ sess'[a][p] # sess[a][p]
       => \A from \in {target[a]} \cap Int, to \in {target'[a]} \cap Int :
            to - from \in -MaxDelta..MaxDelta]_vars

\* When commands are let through, each arm runs at the configured ratio: the
\* operator's or the align node's last accepted set_motion_rates.
RateFollowsConfig == ready => rate = config

\* A stream that has been silent for longer than the timeout does not keep its
\* session: the timer ends it, or frames come again.
SilentStreamEnds == \A a \in Arm, p \in Path : Expired(a, p) ~> ~Expired(a, p)

\* Nothing is left of the sessions of a node that is down.
OffIsQuiet == ~linked => sess = NoSessions /\ ~stopped /\ check = 0

\* The inductive invariant: the parts lean on each other.  A frame is let
\* through only when ready, and then the driver is not stopped; a restarted
\* node starts from no session.
IInv ==
  /\ TypeOK /\ OneOwner /\ SessionSeeded
  /\ ReadyMeansInMode /\ StoppedStaysIdle /\ OffIsQuiet

\* What makes LastIsTarget inductive while no mode switch is refused: a driver
\* that is not ready is idle, so no hold re-enters a mode and moves both arms.
IdleUnlessReady == ~ready => mode = Idle
SlewInv == IInv /\ IdleUnlessReady /\ LastIsTarget

\* The ownership promise, with the sessions as the driver's implementation of it.
OwnerOf(s) == IF s["abs"].streaming THEN "abs" ELSE IF s["rel"].streaming THEN "rel" ELSE "none"
ownerBar == [a \in Arm |-> OwnerOf(sess[a])]
quietBar == [a \in Arm |-> Expired(a, "abs")]

Owners == INSTANCE ArmOwner WITH owner <- ownerBar, quiet <- quietBar, halted <- stopped

ImplementsArmOwner == Owners!Spec
=============================================================================
