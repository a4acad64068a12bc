---------------------------- MODULE ArbiterProofs ---------------------------
(***************************************************************************)
(* The arbiter keeps its handover promise for every hold time, timeout,    *)
(* queue depth, return command, and whatever FACTR and the policy do; and  *)
(* what it makes of a policy's chunk is right for every number of joints   *)
(* and steps, every chunk and every configuration of the joint mapping.    *)
(***************************************************************************)
EXTENDS ArbiterProps, PolicyChunk, TLAPS

----------------------------------------------------------------------------
(* The policy's path.                                                      *)

\* A pose goes through the arbiter's inverse mapping and the driver's mapping
\* unchanged if both nodes are configured alike and no leader joint is the
\* source of two follower joints (policy_abs.py:3).
THEOREM MappingInverts ==
  ASSUME NEW pose \in Pose, NEW offsets \in Pose, NEW signs \in Signs, NEW order \in Orders,
         \A a, b \in Joint : order[a] = order[b] => a = b
  PROVE  FollowerAbs(LeaderAbs(pose, signs, order, offsets), signs, order, offsets) = pose
<1> DEFINE mapped == LeaderAbs(pose, signs, order, offsets)
<1>1. ASSUME NEW out \in Joint
      PROVE  mapped[order[out]] = (pose[out] - offsets[out]) * signs[out]
  <2> DEFINE sources == {o \in Joint : order[o] = order[out]}
  <2>1. sources = {out}
    BY <1>1
  <2>2. (CHOOSE o \in sources : \A p \in sources : p <= o) = out
    <3>1. \A p \in sources : p <= out
      BY <2>1, <1>1 DEF Joint
    <3> HIDE DEF sources
    <3> QED
      BY <2>1, <3>1
  <2>3. order[out] \in Joint
    BY <1>1 DEF Orders
  <2> QED
    BY <2>1, <2>2, <2>3 DEF LeaderAbs
<1>2. ASSUME NEW out \in Joint
      PROVE  mapped[order[out]] * signs[out] + offsets[out] = pose[out]
  <2>1. signs[out] \in {-1, 1} /\ pose[out] \in Int /\ offsets[out] \in Int
    BY <1>2 DEF Signs, Pose
  <2> QED
    BY <1>1, <1>2, <2>1
<1>3. FollowerAbs(mapped, signs, order, offsets) = [out \in Joint |-> pose[out]]
  <2> HIDE DEF mapped
  <2> QED
    BY <1>2 DEF FollowerAbs
<1> QED
  BY <1>3 DEF Pose

\* Moving a chunk onto the measured pose puts its first step there and keeps
\* every motion within the chunk (chunk_continuity.py:26).
THEOREM RebaseKeepsMoves ==
  ASSUME NEW steps \in [Step -> Pose], NEW pose \in Pose, 0 \in Step,
         NEW s \in Step, NEW t \in Step, NEW j \in Joint
  PROVE  /\ Rebase(steps, pose)[0][j] = pose[j]
         /\ Rebase(steps, pose)[t][j] - Rebase(steps, pose)[s][j] = steps[t][j] - steps[s][j]
<1>1. /\ steps[0][j] \in Int /\ steps[s][j] \in Int /\ steps[t][j] \in Int
      /\ pose[j] \in Int
  BY DEF Pose
<1>2. \A u \in Step : Rebase(steps, pose)[u][j] = steps[u][j] + (pose[j] - steps[0][j])
  BY DEF Rebase
<1> QED
  BY <1>1, <1>2

LEMMA TimesMonotone ==
  ASSUME NEW a \in Int, NEW b \in Int, a <= b, NEW d \in Nat
  PROVE  a * d <= b * d
<1>1. (b - a) * d >= 0
  <2> DEFINE k == b - a
  <2>1. k \in Nat
    OBVIOUS
  <2>2. \A m, n \in Nat : m * n >= 0
    BY Z3
  <2> HIDE DEF k
  <2>3. k * d >= 0
    BY <2>1, <2>2
  <2> QED
    BY <2>3 DEF k
<1>2. (b - a) * d = b * d - a * d
  BY Z3
<1>3. a * d \in Int /\ b * d \in Int
  BY Z3
<1> QED
  BY <1>1, <1>2, <1>3

\* Between its begin and its end a chunk is at the step whose time it is
\* (chunk_player.py:65).
THEOREM SampleInTime ==
  ASSUME Steps \in Nat \ {0}, NEW plan, Loads(plan),
         NEW now \in Int, plan.t0 < now, now < Ends(plan)
  PROVE  /\ Current(plan, now) \in Step
         /\ Begins(plan, Current(plan, now)) <= now
         /\ now < Begins(plan, Current(plan, now) + 1)
<1> DEFINE d == plan.dt
           t0 == plan.t0
           q == (now - t0) \div d
           Is(s) == /\ Begins(plan, s) <= now
                    /\ \A t \in Step : t > s => now < Begins(plan, t)
<1>1. d \in Nat \ {0} /\ t0 \in Int
  BY DEF Loads, Play
<1>2. q \in Int /\ q * d <= now - t0 /\ now - t0 < (q + 1) * d
  BY <1>1, Z3
<1>3. q \in Step
  <2>1. q >= 0
    BY <1>1, <1>2, Z3
  <2>2. q < Steps
    BY <1>1, <1>2, Z3 DEF Ends
  <2> QED
    BY <1>2, <2>1, <2>2 DEF Step
<1> HIDE DEF q
<1>4. ASSUME NEW s \in Int
      PROVE  Begins(plan, s) = t0 + s * d /\ s * d \in Int
  BY <1>1, Z3 DEF Begins
<1>5. ASSUME NEW t \in Step, t > q
      PROVE  now < Begins(plan, t)
  <2>1. t \in Int /\ q + 1 \in Int /\ q + 1 <= t
    BY <1>2, <1>5 DEF Step
  <2>2. (q + 1) * d <= t * d
    BY <1>1, <2>1, TimesMonotone
  <2>3. Begins(plan, t) = t0 + t * d /\ t * d \in Int /\ (q + 1) * d \in Int
    BY <1>4, <2>1, <1>1, Z3
  <2> HIDE DEF d, t0
  <2> QED
    BY <1>1, <1>2, <2>2, <2>3
<1>6. Is(q)
  <2>1. Begins(plan, q) = t0 + q * d /\ q * d \in Int
    BY <1>2, <1>4
  <2>2. Begins(plan, q) <= now
    <3> HIDE DEF d, t0
    <3> QED
      BY <1>1, <1>2, <2>1
  <2> QED
    BY <1>5, <2>2
<1>7. Current(plan, now) = CHOOSE s \in Step : Is(s)
  <2>1. ~(now <= plan.t0) /\ ~(now > plan.t0 /\ now >= Ends(plan))
    <3>1. Ends(plan) \in Int
      BY <1>1, Z3 DEF Ends
    <3> QED
      BY <1>1, <3>1
  <2> QED
    BY <2>1 DEF Current
<1>8. PICK c \in Step : Current(plan, now) = c /\ Is(c)
  BY <1>3, <1>6, <1>7
<1>9. now < Begins(plan, c + 1)
  <2>1. CASE c + 1 \in Step
    BY <1>8, <2>1 DEF Step
  <2>2. CASE c + 1 \notin Step
    <3>1. c + 1 = Steps
      BY <2>2 DEF Step
    <3> QED
      BY <3>1 DEF Begins, Ends
  <2> QED
    BY <2>1, <2>2
<1> QED
  BY <1>8, <1>9

LEMMA Near ==
  ASSUME NEW a \in Int, NEW first \in Int, NEW pose \in Int, NEW bound \in Nat
  PROVE  /\ Distance(a + (pose - first), pose) <= bound + Distance(a, first)
         /\ Distance(first, pose) <= bound => Distance(a, pose) <= bound + Distance(a, first)
BY DEF Distance

\* A chunk that is loaded while the measured pose is recent starts close to it:
\* the pose first sent differs from the measured one by no more than MaxJump and
\* what the chunk itself moves up to the step the clock is in.  A stamp in the
\* past does start the arms at a later step than the one that was compared
\* (control_arbiter_node.py:219).
THEOREM FirstTargetNear ==
  ASSUME Steps \in Nat \ {0}, MaxJump \in Nat, NEW plan, Loads(plan),
         NEW measured \in [Arm -> Pose], NEW now \in Int,
         NEW arm \in Arm, NEW j \in Joint
  PROVE  LET s == Current(plan, now) IN
         Distance(Sample(Loaded(plan, TRUE, measured), now)[arm][j], measured[arm][j])
           <= MaxJump + Distance(plan.poses[arm][s][j], plan.poses[arm][0][j])
<1> DEFINE s == Current(plan, now)
           p == plan.poses
           loaded == Loaded(plan, TRUE, measured)
<1>1. /\ plan.t0 \in Int /\ plan.dt \in Nat \ {0}
      /\ p \in [Arm -> [Step -> Pose]]
  BY DEF Loads, Play
<1>2. s \in Step /\ 0 \in Step
  <2>1. 0 \in Step /\ Steps - 1 \in Step
    BY DEF Step
  <2>2. CASE now <= plan.t0
    BY <2>1, <2>2 DEF Current
  <2>3. CASE now > plan.t0 /\ now >= Ends(plan)
    BY <1>1, <2>1, <2>3 DEF Current
  <2>4. CASE plan.t0 < now /\ now < Ends(plan)
    BY <2>1, <2>4, SampleInTime
  <2>5. Ends(plan) \in Int
    BY <1>1, Z3 DEF Ends
  <2> QED
    BY <1>1, <2>2, <2>3, <2>4, <2>5
<1>3. p[arm][s][j] \in Int /\ p[arm][0][j] \in Int /\ measured[arm][j] \in Int
  <2> HIDE DEF s, p
  <2>1. p[arm] \in [Step -> Pose] /\ measured[arm] \in Pose
    BY <1>1
  <2>2. p[arm][s] \in Pose /\ p[arm][0] \in Pose
    BY <1>2, <2>1
  <2> QED
    BY <2>1, <2>2 DEF Pose
<1>4. loaded.t0 = plan.t0 /\ loaded.dt = plan.dt
  BY DEF Loaded, Loads, Play
<1>5. Current(loaded, now) = s
  BY <1>4 DEF Current, Begins, Ends
<1>6. Sample(loaded, now)[arm][j] = loaded.poses[arm][s][j]
  BY <1>5 DEF Sample
<1>7. CASE Jumps(p, measured)
  <2>1. loaded.poses[arm] = Rebase(p[arm], measured[arm])
    BY <1>7 DEF Loaded, Loads, Play
  <2>2. Rebase(p[arm], measured[arm])[s][j]
          = p[arm][s][j] + (measured[arm][j] - p[arm][0][j])
    BY <1>2 DEF Rebase
  <2>3. Sample(loaded, now)[arm][j] = p[arm][s][j] + (measured[arm][j] - p[arm][0][j])
    <3> HIDE DEF s, p, loaded
    <3> QED
      BY <1>6, <2>1, <2>2
  <2> QED
    BY <1>3, <2>3, Near
<1>8. CASE ~Jumps(p, measured)
  <2>1. loaded = plan
    BY <1>8 DEF Loaded
  <2>2. Distance(p[arm][0][j], measured[arm][j]) <= MaxJump
    <3>1. ~(Distance(p[arm][0][j], measured[arm][j]) > MaxJump)
      BY <1>8 DEF Jumps
    <3>2. Distance(p[arm][0][j], measured[arm][j]) \in Int
      BY <1>3 DEF Distance
    <3> QED
      BY <3>1, <3>2
  <2>3. Sample(loaded, now)[arm][j] = p[arm][s][j]
    <3> HIDE DEF s, p, loaded
    <3> QED
      BY <1>6, <2>1 DEF p
  <2> QED
    BY <1>3, <2>2, <2>3, Near
<1> QED
  BY <1>7, <1>8

----------------------------------------------------------------------------
(* The handover.                                                           *)

USE HandshakeAssumption, ArbiterAssumption

----------------------------------------------------------------------------
(* Lemmas about the operators of the model.                                *)

\* An age that is counted up to a bound stays within it, and stays known.
LEMMA OlderAge ==
  ASSUME NEW bound \in Nat, NEW age \in Age(bound)
  PROVE  Older(age, bound) \in Age(bound) /\ (Older(age, bound) = None <=> age = None)
  BY DEF Older, Age

\* A publication fills a queue at most to its depth.
LEMMA PublishType ==
  ASSUME commands \in [ModeCommand -> 0..Depth], NEW c, Publish(c)
  PROVE  commands' \in [ModeCommand -> 0..Depth]
  <1>1. ASSUME NEW n \in 0..Depth PROVE (IF n = Depth THEN n ELSE n + 1) \in 0..Depth
    OBVIOUS
  <1>2. CASE c \in ModeCommand
    BY <1>1, <1>2 DEF Publish
  <1>3. CASE c \notin ModeCommand
    BY <1>3 DEF Publish
  <1>4. QED
    BY <1>2, <1>3

\* What FACTR does on a command or on its own: it changes nothing, or it
\* publishes a state and reported follows.
LEMMA FactrStep ==
  ASSUME TRUE
  PROVE  /\ \A c \in ModeCommand : FactrCommand(c)
              => UNCHANGED factrVars \/ \E s \in LeaderState : Becomes(s)
         /\ FactrSynced => \E s \in LeaderState : Becomes(s)
         /\ Meddle => UNCHANGED factrVars \/ \E s \in LeaderState : Becomes(s)
  BY DEF FactrCommand, TakesCommand, Enter, FactrSynced, Meddle, LeaderState, ModeCommand

----------------------------------------------------------------------------
(* Types.                                                                  *)

LEMMA TypeStep ==
  ASSUME ArbiterTypeOK, [Next]_vars PROVE ArbiterTypeOK'
  <1> USE DEF ArbiterTypeOK, Age, Target, LeaderState
  <1>1. ASSUME NEW stamp \in PolicyStamp, NEW plan \in {"cur", "old"}, PolicyCallback(stamp, plan)
        PROVE  ArbiterTypeOK'
    BY <1>1 DEF PolicyCallback, handshakeVars, factrVars
  <1>2. CASE JointStatesCallback
    BY <1>2 DEF JointStatesCallback, handshakeVars, factrVars
  <1>3. CASE FeedbackStops
    <2>1. recent' \in BOOLEAN
      BY <1>3 DEF FeedbackStops
    <2>2. QED
      BY <2>1, <1>3 DEF FeedbackStops, handshakeVars, factrVars
  <1>4. CASE JointTimerCallback
    BY <1>4 DEF JointTimerCallback, handshakeVars, factrVars
  <1>5. CASE Takeover
    <2>1. seen' \in BOOLEAN /\ requested' \in BOOLEAN /\ absOff' \in BOOLEAN
      BY <1>5 DEF Takeover, StartSync, Cleared
    <2>2. QED
      BY <2>1, <1>5, PublishType DEF Takeover, StartSync, Cleared
  <1>6. CASE EnterTeleop
    <2>1. requested' \in BOOLEAN /\ absOff' \in BOOLEAN /\ holdCall' \in BOOLEAN
      BY <1>6 DEF EnterTeleop
    <2>2. QED
      BY <2>1, <1>6, PublishType DEF EnterTeleop, StartTeleop, targetVars, factrVars, handshakeVars
  <1>7. CASE Return
    <2>1. seen' \in BOOLEAN /\ requested' \in BOOLEAN /\ absOff' \in BOOLEAN
      BY <1>7 DEF Return, Reset, Cleared
    <2>2. QED
      BY <2>1, <1>7, PublishType DEF Return, Reset, Cleared, factrVars
  <1>8. CASE StateCallback
    <2>1. seen' \in BOOLEAN
      BY <1>8 DEF StateCallback, OnState
    <2>2. QED
      BY <2>1, <1>8 DEF StateCallback, OnState, targetVars
  <1>9. CASE RepeatSync
    BY <1>9, PublishType DEF RepeatSync, handshakeVars, targetVars, factrVars
  <1>10. CASE CompleteSync
    BY <1>10 DEF CompleteSync, Reset, Cleared, Outdated, factrVars
  <1>11. CASE FireTeleop
    BY <1>11, PublishType DEF FireTeleop, StartTeleop, targetVars, factrVars
  <1>12. CASE RepeatPending
    BY <1>12, PublishType DEF RepeatPending, handshakeVars, targetVars, factrVars
  <1>13. CASE HoldServed
    <2>1. holdCall' \in BOOLEAN
      BY ONLY <1>13 DEF HoldServed
    <2>2. QED
      BY <1>13, <2>1 DEF HoldServed, handshakeVars, targetVars, factrVars
  <1>14. ASSUME UNCHANGED factrVars \/ \E s \in LeaderState : Becomes(s),
                UNCHANGED arbiterVars, commands' \in [ModeCommand -> 0..Depth],
                meddled' \in 0..MaxMeddle
         PROVE  ArbiterTypeOK'
    BY <1>14 DEF Becomes, factrVars, arbiterVars, handshakeVars, targetVars
  <1>15. ASSUME NEW c \in ModeCommand, FactrCommand(c) PROVE ArbiterTypeOK'
    <2>1. commands' \in [ModeCommand -> 0..Depth]
      BY <1>15 DEF FactrCommand
    <2>2. QED
      BY <1>15, <2>1, <1>14, FactrStep DEF FactrCommand
  <1>16. CASE FactrSynced
    BY <1>16, <1>14, FactrStep DEF FactrSynced
  <1>17. CASE Meddle
    <2>1. commands' \in [ModeCommand -> 0..Depth]
      BY <1>17, PublishType DEF Meddle
    <2>2. QED
      BY <1>17, <2>1, <1>14, FactrStep DEF Meddle
  <1>18. CASE Tick
    <2>1. /\ aligned' \in Age(MinSyncHold) /\ since' \in Age(SyncTimeout)
          /\ returning' \in Age(Fallback)
      BY <1>18, OlderAge DEF Tick
    <2>2. QED
      BY <1>18, <2>1 DEF Tick, factrVars
  <1>19. CASE UNCHANGED vars
    BY <1>19 DEF vars, arbiterVars, handshakeVars, targetVars, factrVars
  <1>20. QED
    BY <1>1, <1>2, <1>3, <1>4, <1>5, <1>6, <1>7, <1>8, <1>9, <1>10, <1>11, <1>12, <1>13,
       <1>15, <1>16, <1>17, <1>18, <1>19 DEF Next, SyncTimerCallback

----------------------------------------------------------------------------
(* The node's flags follow its mode.                                       *)

LEMMA FollowsStep ==
  ASSUME ArbiterTypeOK, HandshakeFollowsMode, [Next]_vars PROVE HandshakeFollowsMode'
  <1> USE DEF ArbiterTypeOK, HandshakeFollowsMode
  <1>1. CASE UNCHANGED <<phase, mode, requested, absOff>>
    BY <1>1
  <1>2. CASE Takeover
    BY <1>2 DEF Takeover, StartSync
  <1>3. CASE EnterTeleop
    BY <1>3 DEF EnterTeleop, StartTeleop, handshakeVars
  <1>4. CASE Return
    BY <1>4 DEF Return, Reset
  <1>5. CASE CompleteSync
    BY <1>5 DEF CompleteSync, Reset
  <1>6. CASE FireTeleop
    BY <1>6 DEF FireTeleop, StartTeleop
  <1>7. ASSUME NEW stamp \in PolicyStamp, NEW plan \in {"cur", "old"}, PolicyCallback(stamp, plan)
        PROVE  UNCHANGED <<phase, mode, requested, absOff>>
    BY <1>7 DEF PolicyCallback, handshakeVars
  <1>8. JointStatesCallback \/ FeedbackStops \/ JointTimerCallback
          => UNCHANGED <<phase, mode, requested, absOff>>
    BY DEF JointStatesCallback, FeedbackStops, JointTimerCallback, handshakeVars
  <1>9. StateCallback \/ RepeatSync \/ RepeatPending \/ HoldServed \/ Tick
          => UNCHANGED <<phase, mode, requested, absOff>>
    BY DEF StateCallback, OnState, RepeatSync, RepeatPending, HoldServed, Tick, handshakeVars
  <1>10. ASSUME FactrSynced \/ Meddle \/ \E c \in ModeCommand : FactrCommand(c)
         PROVE  UNCHANGED <<phase, mode, requested, absOff>>
    BY <1>10 DEF FactrSynced, Meddle, FactrCommand, arbiterVars, handshakeVars
  <1>11. UNCHANGED vars => UNCHANGED <<phase, mode, requested, absOff>>
    BY DEF vars, arbiterVars, handshakeVars
  <1>12. QED
    BY <1>1, <1>2, <1>3, <1>4, <1>5, <1>6, <1>7, <1>8, <1>9, <1>10, <1>11
       DEF Next, SyncTimerCallback

----------------------------------------------------------------------------
(* What was heard was reported since the takeover.                         *)

\* A publication keeps HeardIsReported: reported has followed it.
LEMMA BecomesHeard ==
  ASSUME HandoverInv, NEW s \in LeaderState, Becomes(s), UNCHANGED handshakeVars
  PROVE  HeardIsReported'
  BY DEF HandoverInv, ArbiterTypeOK, HeardIsReported, Becomes, handshakeVars, TeleopReady

LEMMA HeardStep ==
  ASSUME HandoverInv, [Next]_vars PROVE HeardIsReported'
  <1> USE DEF HandoverInv, ArbiterTypeOK, HandshakeFollowsMode, HeardIsReported
  <1>1. CASE UNCHANGED <<handshakeVars, stateMsg, reported>>
    BY <1>1 DEF handshakeVars, TeleopReady
  <1>2. CASE Takeover
    BY <1>2 DEF Takeover, StartSync, Cleared, TeleopReady
  <1>3. CASE EnterTeleop \/ FireTeleop
    <2>1. CASE UNCHANGED handshakeVars
      BY <1>3, <2>1, <1>1 DEF EnterTeleop, FireTeleop, factrVars
    <2>2. CASE AlignedReady /\ StartTeleop
      BY <1>3, <2>2
         DEF EnterTeleop, FireTeleop, AlignedReady, StartTeleop, factrVars, TeleopReady, LeaderState
    <2>3. QED
      BY <1>3, <2>1, <2>2 DEF EnterTeleop, FireTeleop
  <1>4. CASE Return \/ CompleteSync
    BY <1>4 DEF Return, CompleteSync, Reset, Cleared, TeleopReady, factrVars
  <1>5. CASE StateCallback
    <2>1. CASE phase = "WAIT_ALIGNED" /\ stateMsg = "SYNCED"
      BY <1>5, <2>1 DEF StateCallback, OnState, TeleopReady, LeaderState
    <2>2. CASE phase = "WAIT_ALIGNED" /\ stateMsg # "SYNCED"
      BY <1>5, <2>2 DEF StateCallback, OnState, TeleopReady, LeaderState
    <2>3. CASE phase # "WAIT_ALIGNED"
      BY <1>5, <2>3 DEF StateCallback, OnState, TeleopReady, LeaderState
    <2>4. QED
      BY <2>1, <2>2, <2>3
  <1>6. ASSUME FactrSynced \/ Meddle \/ \E c \in ModeCommand : FactrCommand(c)
        PROVE  HeardIsReported'
    <2>1. UNCHANGED handshakeVars
      BY <1>6 DEF FactrSynced, Meddle, FactrCommand, arbiterVars, handshakeVars
    <2>2. UNCHANGED factrVars \/ \E s \in LeaderState : Becomes(s)
      BY <1>6, FactrStep
    <2>3. QED
      BY <2>1, <2>2, <1>1, BecomesHeard DEF factrVars
  <1>7. CASE Tick
    <2>1. aligned' = None <=> aligned = None
      BY <1>7, OlderAge DEF Tick
    <2>2. QED
      BY <1>7, <2>1 DEF Tick, factrVars, TeleopReady
  <1>8. ASSUME NEW stamp \in PolicyStamp, NEW plan \in {"cur", "old"}, PolicyCallback(stamp, plan)
        PROVE  UNCHANGED <<handshakeVars, stateMsg, reported>>
    BY <1>8 DEF PolicyCallback, factrVars
  <1>9. JointStatesCallback \/ FeedbackStops \/ JointTimerCallback \/ RepeatSync
          \/ RepeatPending \/ HoldServed \/ UNCHANGED vars
          => UNCHANGED <<handshakeVars, stateMsg, reported>>
    BY DEF JointStatesCallback, FeedbackStops, JointTimerCallback, RepeatSync, RepeatPending,
           HoldServed, vars, arbiterVars, factrVars
  <1>10. QED
    BY <1>1, <1>2, <1>3, <1>4, <1>5, <1>6, <1>7, <1>8, <1>9 DEF Next, SyncTimerCallback

----------------------------------------------------------------------------
(* The theorems.                                                           *)

LEMMA InitInv == Init => HandoverInv
  <1> SUFFICES ASSUME Init PROVE HandoverInv
    OBVIOUS
  <1>1. /\ seen \in BOOLEAN /\ requested \in BOOLEAN /\ absOff \in BOOLEAN
        /\ recent \in BOOLEAN /\ holdCall \in BOOLEAN
    BY DEF Init
  <1>2. ArbiterTypeOK
    BY <1>1 DEF Init, ArbiterTypeOK, Age, Target, LeaderState
  <1>3. HandshakeFollowsMode /\ HeardIsReported
    BY DEF Init, HandshakeFollowsMode, HeardIsReported, TeleopReady
  <1>4. QED
    BY <1>2, <1>3 DEF HandoverInv

\* The handshake's flags follow the arbiter's mode, and what it has heard was
\* published since the takeover, whatever was latched on /teleop/state before it.
THEOREM HandoverInvHolds == Spec => []HandoverInv
  <1>1. HandoverInv /\ [Next]_vars => HandoverInv'
    BY TypeStep, FollowsStep, HeardStep DEF HandoverInv
  <1>2. QED
    BY InitInv, <1>1, PTL DEF Spec

\* A step of the arbiter, FACTR or the operator is a step of Handover or changes
\* nothing in it.
LEMMA HandoverStep == HandoverInv /\ [Next]_vars => [Promise!Next]_(Promise!handoverVars)
  <1> SUFFICES ASSUME HandoverInv, [Next]_vars
               PROVE  [Promise!Next]_(Promise!handoverVars)
    OBVIOUS
  <1> USE DEF HandoverInv, ArbiterTypeOK, HandshakeFollowsMode, sourceBar, Promise!handoverVars
  <1>1. CASE UNCHANGED <<mode, requested, reported>>
    BY <1>1
  <1>2. CASE Takeover
    BY <1>2 DEF Takeover, Promise!Next, Promise!Takeover
  <1>3. CASE EnterTeleop
    BY <1>3 DEF EnterTeleop, factrVars, Promise!Next, Promise!Ask
  <1>4. CASE Return
    BY <1>4 DEF Return, factrVars, Promise!Next, Promise!Return
  <1>5. CASE CompleteSync
    BY <1>5 DEF CompleteSync, factrVars, HeardIsReported, Promise!Next, Promise!Complete
  <1>6. ASSUME FactrSynced \/ Meddle \/ \E c \in ModeCommand : FactrCommand(c)
        PROVE  [Promise!Next]_(Promise!handoverVars)
    <2>1. UNCHANGED <<mode, requested>>
      BY <1>6 DEF FactrSynced, Meddle, FactrCommand, arbiterVars
    <2>2. ASSUME NEW s \in LeaderState, Becomes(s)
          PROVE  [Promise!Next]_(Promise!handoverVars)
      BY <2>1, <2>2 DEF Becomes, Promise!Next, Promise!Report
    <2>3. QED
      BY <1>6, <2>1, <2>2, <1>1, FactrStep DEF factrVars
  <1>7. ASSUME NEW stamp \in PolicyStamp, NEW plan \in {"cur", "old"}, PolicyCallback(stamp, plan)
        PROVE  UNCHANGED <<mode, requested, reported>>
    BY <1>7 DEF PolicyCallback, factrVars
  <1>8. JointStatesCallback \/ FeedbackStops \/ JointTimerCallback \/ StateCallback
          \/ RepeatSync \/ FireTeleop \/ RepeatPending \/ HoldServed \/ Tick \/ UNCHANGED vars
          => UNCHANGED <<mode, requested, reported>>
    BY DEF JointStatesCallback, FeedbackStops, JointTimerCallback, StateCallback, RepeatSync,
           FireTeleop, RepeatPending, HoldServed, Tick, vars, arbiterVars, factrVars
  <1>9. QED
    BY <1>1, <1>2, <1>3, <1>4, <1>5, <1>6, <1>7, <1>8 DEF Next, SyncTimerCallback

\* The arbiter gives the operator the arms only as Handover allows: after both
\* requests, and on FACTR's reports of this takeover, in their order.
THEOREM ImplementsHandoverHolds == Spec => ImplementsHandover
  <1>1. Init => Promise!Init
    BY DEF Init, Promise!Init, sourceBar
  <1>2. QED
    BY <1>1, HandoverInvHolds, HandoverStep, PTL DEF Spec, ImplementsHandover, Promise!Spec

----------------------------------------------------------------------------
(* Nothing outdated is commanded while feedback lives.                     *)

\* A chunk is moved to the measured pose, and a return keeps that pose.
LEMMA FreshStep ==
  ASSUME HandoverInv, FreshInv, recent, recent', [Next]_vars
  PROVE  FreshInv'
  <1> USE DEF FreshInv
  <1>1. CASE UNCHANGED <<mode, hold, last, chunk, fb>>
    BY <1>1
  <1>2. ASSUME NEW stamp \in PolicyStamp, NEW plan \in {"cur", "old"}, PolicyCallback(stamp, plan)
        PROVE  FreshInv'
    <2>1. chunk' = fb
      BY <1>2 DEF PolicyCallback
    <2>2. QED
      BY <2>1, <1>2 DEF PolicyCallback
  <1>3. CASE JointStatesCallback
    BY <1>3 DEF JointStatesCallback
  <1>4. CASE FeedbackStops
    <2>1. recent' = FALSE
      BY <1>4 DEF FeedbackStops
    <2>2. QED
      BY <2>1
  <1>5. CASE JointTimerCallback
    BY <1>5 DEF JointTimerCallback
  <1>6. CASE Takeover
    BY <1>6 DEF Takeover
  <1>7. CASE EnterTeleop
    BY <1>7 DEF EnterTeleop, targetVars
  <1>8. CASE Return
    BY <1>8 DEF Return
  <1>9. CASE CompleteSync
    BY <1>9 DEF CompleteSync
  <1>10. ASSUME StateCallback \/ RepeatSync \/ FireTeleop \/ RepeatPending \/ HoldServed \/ Tick
                \/ UNCHANGED vars
         PROVE  UNCHANGED <<mode, hold, last, chunk, fb>>
    BY <1>10 DEF StateCallback, RepeatSync, FireTeleop, RepeatPending, HoldServed, Tick, vars,
                arbiterVars, targetVars
  <1>11. ASSUME FactrSynced \/ Meddle \/ \E c \in ModeCommand : FactrCommand(c)
         PROVE  UNCHANGED <<mode, hold, last, chunk, fb>>
    BY <1>11 DEF FactrSynced, Meddle, FactrCommand, arbiterVars, targetVars
  <1>12. QED
    BY <1>1, <1>2, <1>3, <1>4, <1>5, <1>6, <1>7, <1>8, <1>9, <1>10, <1>11
       DEF Next, SyncTimerCallback

\* While feedback keeps coming, no pose from before the operator last moved the
\* arms is published, neither by the hold of a takeover nor by the policy's chunk
\* nor by the hold of a return, however the policy stamps and plans its chunks.
THEOREM FreshTargetsHolds == Spec /\ []recent => []FreshTargets
  <1>1. Init /\ recent => FreshInv
    BY DEF Init, FreshInv
  <1>2. HandoverInv /\ FreshInv /\ recent /\ recent' /\ [Next]_vars => FreshInv'
    BY FreshStep
  <1>3. FreshInv => FreshTargets
    BY DEF FreshInv, FreshTargets, Published
  <1>4. QED
    BY HandoverInvHolds, <1>1, <1>2, <1>3, PTL DEF Spec
=============================================================================
