---------------------------- MODULE DriverProofs ----------------------------
(***************************************************************************)
(* The driver's safety properties for every timeout, joint range, frame    *)
(* set, mode set and fault set.                                            *)
(***************************************************************************)
EXTENDS DriverProps, TLAPS

USE CoreAssumption, NodeAssumption DEF Arm, Path, Mode

----------------------------------------------------------------------------
(* Lemmas about the pure operators.                                        *)

\* clamp_to_limits ends within the limits.
LEMMA ClampInLimits == ASSUME NEW x \in Int PROVE Clamp(x) \in Lo..Hi
  BY DEF Clamp

\* limit_delta of integers is an integer.
LEMMA LimitDeltaInt ==
  ASSUME NEW x \in Int, NEW y \in Int PROVE LimitDelta(x, y) \in Int
  BY DEF LimitDelta

\* Clamping after the slew limit stays within reach of a previous command that
\* was itself within the limits.
LEMMA StepBounded ==
  ASSUME NEW x \in Int, NEW y \in Lo..Hi
  PROVE  Clamp(LimitDelta(Clamp(x), y)) - y \in -MaxDelta..MaxDelta
  BY DEF Clamp, LimitDelta

\* A seed is a command within the limits, or the last command of the session.
LEMMA SeedInLimits ==
  ASSUME TypeOK, SessionSeeded, NEW a \in Arm, NEW p \in Path, NEW seed \in Seeds(a, p)
  PROVE  seed \in Lo..Hi
  <1>1. CASE sess[a][p].streaming
    BY <1>1 DEF TypeOK, SessionSeeded, Seeds, Session
  <1>2. CASE ~sess[a][p].streaming
    BY <1>2, ClampInLimits DEF Seeds, Reach
  <1>3. QED
    BY <1>1, <1>2

\* A tick ages a session and changes nothing else of it.
LEMMA AgedSession ==
  ASSUME NEW s \in Session
  PROVE  /\ Aged(s) \in Session
         /\ Aged(s).streaming = s.streaming /\ Aged(s).last = s.last
         /\ s.age > Timeout => Aged(s).age > Timeout
  <1>1. CASE s.streaming /\ s.age <= Timeout
    <2>1. Aged(s) = [streaming |-> TRUE, last |-> s.last, age |-> s.age + 1]
      BY <1>1 DEF Aged
    <2>2. s.streaming = TRUE /\ s.last \in (Lo..Hi) \cup {None} /\ s.age + 1 \in 0..(Timeout + 1)
      BY <1>1 DEF Session
    <2>3. [streaming |-> TRUE, last |-> s.last, age |-> s.age + 1] \in Session
      BY <2>2 DEF Session
    <2>4. Aged(s) \in Session /\ Aged(s).streaming = TRUE /\ Aged(s).last = s.last
      BY <2>1, <2>3
    <2>5. ~(s.age > Timeout)
      BY <1>1 DEF Session
    <2>6. QED
      BY <2>2, <2>4, <2>5
  <1>2. CASE ~(s.streaming /\ s.age <= Timeout)
    BY <1>2 DEF Aged
  <1>3. QED
    BY <1>1, <1>2

LEMMA EmptySession == NoSession \in Session /\ NoSessions \in [Arm -> [Path -> Session]]
  BY DEF NoSession, NoSessions, Session

----------------------------------------------------------------------------
(* The operations of DriverCore.  Each keeps the types, and ends with      *)
(* control_ready_ set only when both arms are in mode_.                    *)

LEMMA SettleType ==
  ASSUME Settle PROVE target' \in [Arm -> Int \cup {None}]
  BY DEF Settle, Pose

LEMMA ParkedType ==
  ASSUME CoreTypeOK PROVE Parked \subseteq [Arm -> Mode]
  BY DEF CoreTypeOK, Parked

LEMMA EnterSucceedsCore ==
  ASSUME CoreTypeOK, linked, NEW m \in ControlMode, EnterSucceeds(m),
         target' \in [Arm -> Int \cup {None}], UNCHANGED <<linked, config>>
  PROVE  CoreTypeOK' /\ ReadyMeansInMode'
  BY DEF CoreTypeOK, EnterSucceeds, ReadyMeansInMode

LEMMA EnterFailsCore ==
  ASSUME CoreTypeOK, NEW m \in ControlMode, EnterFails(m),
         target' \in [Arm -> Int \cup {None}], UNCHANGED <<linked, config>>
  PROVE  CoreTypeOK' /\ ReadyMeansInMode'
  <1>1. arm' \in [Arm -> Mode] /\ rate' \in [Arm -> Rate]
    BY ParkedType DEF CoreTypeOK, EnterFails
  <1>2. QED
    BY <1>1 DEF CoreTypeOK, EnterFails, ReadyMeansInMode

LEMMA SwitchCore ==
  ASSUME CoreTypeOK, linked, NEW m \in Mode, NEW ok \in BOOLEAN, SwitchControlMode(m, ok)
  PROVE  CoreTypeOK' /\ ReadyMeansInMode'
  <1>1. target' \in [Arm -> Int \cup {None}] /\ UNCHANGED <<linked, config>>
    BY SettleType DEF SwitchControlMode
  <1>2. CASE m = Idle
    BY <1>1, <1>2, ParkedType DEF SwitchControlMode, EnterIdle, CoreTypeOK, ReadyMeansInMode
  <1>3. CASE m # Idle /\ ok
    BY <1>1, <1>3, EnterSucceedsCore DEF SwitchControlMode
  <1>4. CASE m # Idle /\ ~ok
    BY <1>1, <1>4, EnterFailsCore DEF SwitchControlMode
  <1>5. QED
    BY <1>2, <1>3, <1>4

LEMMA HoldCore ==
  ASSUME CoreTypeOK, ReadyMeansInMode, linked, NEW A \in SUBSET Arm, NEW ok \in BOOLEAN,
         HoldCurrent(A, ok)
  PROVE  CoreTypeOK' /\ ReadyMeansInMode'
  <1>1. UNCHANGED <<linked, config>>
    BY DEF HoldCurrent
  <1>2. CASE mode = Idle
    BY <1>1, <1>2 DEF HoldCurrent, CoreTypeOK, ReadyMeansInMode
  <1>3. CASE mode # Idle /\ ready
    <2>1. target' \in [Arm -> Int \cup {None}]
      BY <1>3 DEF HoldCurrent, Pose, CoreTypeOK
    <2>2. UNCHANGED <<mode, ready, arm, rate>>
      BY <1>3 DEF HoldCurrent
    <2>3. QED
      BY <1>1, <2>1, <2>2 DEF CoreTypeOK, ReadyMeansInMode
  <1>4. CASE mode # Idle /\ ~ready
    <2>1. target' \in [Arm -> Int \cup {None}]
      BY <1>4, SettleType DEF HoldCurrent
    <2>2. mode \in ControlMode /\ (EnterSucceeds(mode) \/ EnterFails(mode))
      BY <1>4 DEF HoldCurrent, CoreTypeOK
    <2>3. QED
      BY <1>1, <2>1, <2>2, EnterSucceedsCore, EnterFailsCore
  <1>5. QED
    BY <1>2, <1>3, <1>4

LEMMA SendCore ==
  ASSUME CoreTypeOK, ReadyMeansInMode, NEW a \in Arm, NEW q \in Int, NEW ok \in BOOLEAN,
         SendPosition(a, q, ok)
  PROVE  CoreTypeOK' /\ ReadyMeansInMode'
  BY DEF SendPosition, CoreTypeOK, ReadyMeansInMode

LEMMA StopCore ==
  ASSUME CoreTypeOK, StopMotion PROVE CoreTypeOK' /\ ReadyMeansInMode'
  BY SettleType, ParkedType DEF StopMotion, CoreTypeOK, ReadyMeansInMode

LEMMA EmergencyStopCore ==
  ASSUME CoreTypeOK, NEW ok \in BOOLEAN, EmergencyStop(ok)
  PROVE  CoreTypeOK' /\ ReadyMeansInMode'
  <1>1. arm' \in [Arm -> Mode] /\ target' \in [Arm -> Int \cup {None}]
    BY SettleType DEF EmergencyStop, CoreTypeOK
  <1>2. QED
    BY <1>1 DEF EmergencyStop, CoreTypeOK, ReadyMeansInMode

LEMMA RatesCore ==
  ASSUME CoreTypeOK, ReadyMeansInMode, NEW r \in [Arm -> Rate], SetSpeedRates(r)
  PROVE  CoreTypeOK' /\ ReadyMeansInMode'
  <1>1. rate' \in [Arm -> Rate] /\ config' \in [Arm -> Rate]
    BY DEF SetSpeedRates, CoreTypeOK
  <1>2. QED
    BY <1>1 DEF SetSpeedRates, CoreTypeOK, ReadyMeansInMode

LEMMA ConnectCore ==
  ASSUME CoreTypeOK, NEW m \in Mode, NEW r \in [Arm -> Rate],
         ConnectAndEnable(m, r) \/ (ConnectFails(m, r) /\ ~ready)
  PROVE  CoreTypeOK' /\ ReadyMeansInMode'
  <1>1. CASE ConnectAndEnable(m, r)
    BY <1>1, SettleType, ParkedType
    DEF ConnectAndEnable, EnterIdle, CoreTypeOK, ReadyMeansInMode
  <1>2. CASE ConnectFails(m, r) /\ ~ready
    BY <1>2, SettleType DEF ConnectFails, CoreTypeOK, ReadyMeansInMode
  <1>3. QED
    BY <1>1, <1>2

LEMMA ShutdownCore ==
  ASSUME CoreTypeOK, Shutdown PROVE CoreTypeOK' /\ ReadyMeansInMode'
  BY SettleType, ParkedType DEF Shutdown, CoreTypeOK, ReadyMeansInMode

----------------------------------------------------------------------------
(* Sessions.  SessionsOK is the part of IInv about sess alone.             *)

SessionsOK == sess \in [Arm -> [Path -> Session]] /\ OneOwner /\ SessionSeeded

LEMMA NoSessionsOK == ASSUME sess' = NoSessions PROVE SessionsOK'
  BY EmptySession DEF SessionsOK, OneOwner, SessionSeeded, NoSessions, NoSession

\* Ending one session is always safe.
LEMMA EndSessionOK ==
  ASSUME SessionsOK, NEW a \in Arm, NEW p \in Path,
         sess' = [sess EXCEPT ![a][p] = NoSession]
  PROVE  SessionsOK'
  <1>1. sess' \in [Arm -> [Path -> Session]]
    BY EmptySession DEF SessionsOK
  <1>2. \A b \in Arm, q \in Path : sess'[b][q] \in {sess[b][q], NoSession}
    BY DEF SessionsOK
  <1>3. QED
    BY <1>1, <1>2 DEF SessionsOK, OneOwner, SessionSeeded, NoSession

\* A frame's three outcomes: only an applied one makes the path stream, and it
\* needs control_ready_.
LEMMA HandleFrameOK ==
  ASSUME IInv, linked, NEW a \in Arm, NEW p \in Path, HandleFrame(a, p)
  PROVE  /\ CoreTypeOK' /\ ReadyMeansInMode' /\ SessionsOK'
         /\ UNCHANGED <<linked, mode, ready>>
         /\ ready \/ \A b \in Arm, q \in Path : sess'[b][q].streaming => sess[b][q].streaming
  <1> USE DEF IInv, TypeOK
  <1>1. PICK seed \in Seeds(a, p) :
          DropFrame(a, p, seed) \/ RefuseFrame(a, p, seed) \/ ApplyFrame(a, p, seed)
    BY DEF HandleFrame
  <1>2. seed \in Lo..Hi /\ seed \in Int /\ seed # None
    BY SeedInLimits
  <1>3. CASE DropFrame(a, p, seed)
    <2>1. sess' \in [Arm -> [Path -> Session]]
      BY <1>2, <1>3 DEF DropFrame, Session
    <2>2. \A b \in Arm, q \in Path : sess'[b][q] = sess[b][q] \/ ~sess'[b][q].streaming
      BY <1>3 DEF DropFrame
    <2>3. SessionsOK'
      BY <2>1, <2>2 DEF SessionsOK, OneOwner, SessionSeeded
    <2>4. UNCHANGED coreVars
      BY <1>3 DEF DropFrame
    <2>5. QED
      BY <2>2, <2>3, <2>4 DEF coreVars, CoreTypeOK, ReadyMeansInMode
  <1>4. CASE RefuseFrame(a, p, seed)
    <2>1. sess' \in [Arm -> [Path -> Session]]
      BY <1>2, <1>4 DEF RefuseFrame, Session
    <2>2. \A b \in Arm, q \in Path :
            /\ sess'[b][q].streaming = sess[b][q].streaming
            /\ sess'[b][q].last \in {sess[b][q].last, seed}
      BY <1>4 DEF RefuseFrame, Session
    <2>3. SessionsOK'
      BY <1>2, <2>1, <2>2 DEF SessionsOK, OneOwner, SessionSeeded
    <2>4. CoreTypeOK' /\ ReadyMeansInMode'
      BY <1>2, <1>4, SendCore DEF RefuseFrame
    <2>5. UNCHANGED <<linked, mode, ready>>
      BY <1>4 DEF RefuseFrame, SendPosition
    <2>6. QED
      BY <2>2, <2>3, <2>4, <2>5
  <1>5. CASE ApplyFrame(a, p, seed)
    <2> DEFINE Q(x) == Clamp(LimitDelta(Clamp(x), seed))
    <2>1. PICK x \in Frame :
            /\ SendPosition(a, Q(x), TRUE)
            /\ sess' = [sess EXCEPT
                          ![a][p] = [streaming |-> TRUE, last |-> Q(x), age |-> 0],
                          ![a][Other(p)] = IF @.streaming THEN NoSession ELSE @]
      BY <1>5 DEF ApplyFrame
    <2>2. Q(x) \in Lo..Hi /\ Q(x) \in Int
      <3>1. Clamp(x) \in Int
        BY ClampInLimits
      <3>2. LimitDelta(Clamp(x), seed) \in Int
        BY <1>2, <3>1, LimitDeltaInt
      <3>3. QED
        BY <3>2, ClampInLimits
    <2> HIDE DEF Q
    <2>3. Other(p) \in Path /\ Other(p) # p
      BY DEF Other
    <2>4. sess' \in [Arm -> [Path -> Session]]
      <3>1. [streaming |-> TRUE, last |-> Q(x), age |-> 0] \in Session
        BY <2>2 DEF Session
      <3>2. (IF sess[a][Other(p)].streaming THEN NoSession ELSE sess[a][Other(p)]) \in Session
        BY <2>3, EmptySession
      <3>3. sess' = [sess EXCEPT
                       ![a] = [q \in Path |->
                                 IF q = p THEN [streaming |-> TRUE, last |-> Q(x), age |-> 0]
                                 ELSE IF sess[a][Other(p)].streaming THEN NoSession
                                 ELSE sess[a][Other(p)]]]
        BY <2>1, <2>3 DEF Other
      <3>4. QED
        BY <3>1, <3>2, <3>3
    <2>5. /\ sess'[a][p].streaming /\ sess'[a][p].last = Q(x)
          /\ ~sess'[a][Other(p)].streaming
          /\ \A b \in Arm \ {a} : sess'[b] = sess[b]
      BY <2>1, <2>3, EmptySession DEF NoSession
    <2>6. SessionsOK'
      BY <2>2, <2>3, <2>4, <2>5 DEF SessionsOK, OneOwner, SessionSeeded, Other
    <2>7. CoreTypeOK' /\ ReadyMeansInMode'
      BY <2>1, <2>2, SendCore
    <2>8. ready /\ UNCHANGED <<linked, mode, ready>>
      BY <2>1 DEF SendPosition
    <2>9. QED
      BY <2>6, <2>7, <2>8
  <1>6. QED
    BY <1>1, <1>3, <1>4, <1>5

----------------------------------------------------------------------------
(* Each action keeps the inductive invariant.                              *)

\* A relative frame, which only an applied command can turn into a stream, and
\* a stopped driver is not ready to apply one.
LEMMA CommandStep ==
  ASSUME IInv, NEW a \in Arm, HandleCommand(a) \/ HandleAbsoluteCommand(a)
  PROVE  IInv'
  <1>1. PICK p \in Path : HandleFrame(a, p)
    BY DEF HandleCommand, HandleAbsoluteCommand
  <1>2. linked /\ UNCHANGED <<check, stopped>>
    BY DEF HandleCommand, HandleAbsoluteCommand, GroupFree
  <1>3. /\ CoreTypeOK' /\ ReadyMeansInMode' /\ SessionsOK'
        /\ UNCHANGED <<linked, mode, ready>>
        /\ ready \/ \A b \in Arm, q \in Path : sess'[b][q].streaming => sess[b][q].streaming
    BY <1>1, <1>2, HandleFrameOK
  <1>4. StoppedStaysIdle'
    BY <1>2, <1>3 DEF IInv, StoppedStaysIdle
  <1>5. QED
    BY <1>2, <1>3, <1>4 DEF IInv, TypeOK, SessionsOK, OffIsQuiet

\* After a refused switch mode_ is still what it was.
LEMMA SetModeStep ==
  ASSUME IInv, NEW m \in Mode, HandleSetMode(m)
  PROVE  IInv'
  <1>1. PICK ok \in BOOLEAN :
          /\ SwitchControlMode(m, ok)
          /\ sess' = IF ok THEN NoSessions ELSE sess
          /\ stopped' = IF ok THEN m = Idle ELSE stopped
    BY DEF HandleSetMode
  <1>2. linked /\ linked' /\ UNCHANGED check
    BY <1>1 DEF HandleSetMode, GroupFree, SwitchControlMode
  <1>3. CoreTypeOK' /\ ReadyMeansInMode'
    BY <1>1, <1>2, SwitchCore DEF IInv, TypeOK
  <1>4. SessionsOK' /\ stopped' \in BOOLEAN
    BY <1>1, NoSessionsOK DEF IInv, TypeOK, SessionsOK, OneOwner, SessionSeeded
  <1>5. StoppedStaysIdle'
    <2>1. CASE ok
      BY <1>1, <2>1 DEF StoppedStaysIdle, SwitchControlMode, EnterIdle, NoSessions, NoSession
    <2>2. CASE ~ok
      BY <1>1, <2>2 DEF IInv, StoppedStaysIdle, SwitchControlMode, EnterFails
    <2>3. QED
      BY <2>1, <2>2
  <1>6. QED
    BY <1>2, <1>3, <1>4, <1>5 DEF IInv, TypeOK, SessionsOK, OffIsQuiet

\* hold_current never takes the driver out of idle.
LEMMA HoldKeepsIdle ==
  ASSUME NEW A \in SUBSET Arm, NEW ok \in BOOLEAN, HoldCurrent(A, ok)
  PROVE  linked' = linked /\ mode' = mode /\ (mode = Idle => ready' = ready)
  BY DEF HoldCurrent, EnterSucceeds, EnterFails

LEMMA HoldCurrentStep ==
  ASSUME IInv, HandleHoldCurrent
  PROVE  IInv'
  <1>1. PICK ok \in BOOLEAN :
          HoldCurrent(Arm, ok) /\ sess' = IF ok THEN NoSessions ELSE sess
    BY DEF HandleHoldCurrent
  <1>2. linked /\ UNCHANGED <<check, stopped>>
    BY DEF HandleHoldCurrent, GroupFree
  <1>3. CoreTypeOK' /\ ReadyMeansInMode'
    BY <1>1, <1>2, HoldCore DEF IInv, TypeOK
  <1>4. linked' = linked /\ mode' = mode /\ (mode = Idle => ready' = ready)
    BY <1>1, HoldKeepsIdle
  <1>5. SessionsOK'
    BY <1>1, NoSessionsOK DEF IInv, TypeOK, SessionsOK, OneOwner, SessionSeeded
  <1>6. StoppedStaysIdle'
    BY <1>1, <1>2, <1>4 DEF IInv, StoppedStaysIdle, NoSessions, NoSession
  <1>7. QED
    BY <1>2, <1>3, <1>4, <1>5, <1>6 DEF IInv, TypeOK, SessionsOK, OffIsQuiet

LEMMA StopMotionStep ==
  ASSUME IInv, HandleStopMotion
  PROVE  IInv'
  <1>1. CoreTypeOK' /\ ReadyMeansInMode'
    BY StopCore DEF HandleStopMotion, IInv, TypeOK
  <1>2. SessionsOK'
    BY NoSessionsOK DEF HandleStopMotion
  <1>3. StoppedStaysIdle'
    BY DEF HandleStopMotion, StopMotion, StoppedStaysIdle, NoSessions, NoSession
  <1>4. linked' /\ check' = check /\ stopped'
    BY DEF HandleStopMotion, StopMotion, GroupFree
  <1>5. QED
    BY <1>1, <1>2, <1>3, <1>4 DEF IInv, TypeOK, SessionsOK, OffIsQuiet

LEMMA EmergencyStopStep ==
  ASSUME IInv, HandleEmergencyStop
  PROVE  IInv'
  <1>1. PICK ok \in BOOLEAN : EmergencyStop(ok)
    BY DEF HandleEmergencyStop
  <1>2. CoreTypeOK' /\ ReadyMeansInMode'
    BY <1>1, EmergencyStopCore DEF IInv, TypeOK
  <1>3. SessionsOK'
    BY NoSessionsOK DEF HandleEmergencyStop
  <1>4. StoppedStaysIdle'
    BY <1>1 DEF HandleEmergencyStop, EmergencyStop, StoppedStaysIdle, NoSessions, NoSession
  <1>5. linked' /\ check' = check /\ stopped'
    BY <1>1 DEF HandleEmergencyStop, EmergencyStop, GroupFree
  <1>6. QED
    BY <1>2, <1>3, <1>4, <1>5 DEF IInv, TypeOK, SessionsOK, OffIsQuiet

LEMMA RatesStep ==
  ASSUME IInv, NEW r \in [Arm -> Rate], HandleSetMotionRates(r)
  PROVE  IInv'
  <1>1. SetSpeedRates(r) /\ UNCHANGED <<sess, check, stopped>>
    BY DEF HandleSetMotionRates
  <1>2. CoreTypeOK' /\ ReadyMeansInMode'
    BY <1>1, RatesCore DEF IInv, TypeOK
  <1>3. UNCHANGED <<linked, mode, ready>>
    BY <1>1 DEF SetSpeedRates
  <1>4. QED
    BY <1>1, <1>2, <1>3
    DEF IInv, TypeOK, OneOwner, SessionSeeded, StoppedStaysIdle, OffIsQuiet

LEMMA StartCheckStep ==
  ASSUME IInv, StartCheck
  PROVE  IInv'
  <1>1. UNCHANGED <<coreVars, sess, stopped>> /\ linked /\ check' = 1
    BY DEF StartCheck, GroupFree
  <1>2. UNCHANGED <<linked, mode, ready, config, arm, rate, target>>
    BY <1>1 DEF coreVars
  <1>3. QED
    BY <1>1, <1>2
    DEF IInv, TypeOK, CoreTypeOK, OneOwner, SessionSeeded, ReadyMeansInMode,
        StoppedStaysIdle, OffIsQuiet

\* An expired session ends, whether the hold is skipped, accepted or refused.
LEMMA CheckStep ==
  ASSUME IInv, CheckCommandTimeout
  PROVE  IInv'
  <1> DEFINE a == TurnArm(check)
             p == TurnPath(check)
  <1>1. a \in Arm /\ p \in Path
    BY DEF TurnArm, TurnPath
  <1>2. linked /\ stopped' = stopped /\ check' = (check + 1) % 5 /\ MaybeHold(a, p)
    BY DEF CheckCommandTimeout
  <1>3. check' \in 0..4
    BY <1>2 DEF IInv, TypeOK
  <1> HIDE DEF a, p
  <1>4. /\ UNCHANGED coreVars \/ \E ok \in BOOLEAN : HoldCurrent({a}, ok)
        /\ sess' = sess \/ sess' = [sess EXCEPT ![a][p] = NoSession]
    BY <1>2 DEF MaybeHold
  <1>5. /\ CoreTypeOK' /\ ReadyMeansInMode'
        /\ linked' = linked /\ mode' = mode /\ (mode = Idle => ready' = ready)
    <2>1. CASE UNCHANGED coreVars
      BY <2>1 DEF coreVars, IInv, TypeOK, CoreTypeOK, ReadyMeansInMode
    <2>2. CASE \E ok \in BOOLEAN : HoldCurrent({a}, ok)
      <3>1. {a} \in SUBSET Arm
        BY <1>1
      <3>2. QED
        BY <1>2, <2>2, <3>1, HoldCore, HoldKeepsIdle DEF IInv, TypeOK
    <2>3. QED
      BY <1>4, <2>1, <2>2
  <1>6. SessionsOK' /\ \A b \in Arm, q \in Path : sess'[b][q].streaming => sess[b][q].streaming
    <2>1. SessionsOK
      BY DEF IInv, TypeOK, SessionsOK
    <2>2. CASE sess' = sess
      BY <2>1, <2>2 DEF SessionsOK, OneOwner, SessionSeeded
    <2>3. CASE sess' = [sess EXCEPT ![a][p] = NoSession]
      <3>1. SessionsOK'
        BY <1>1, <2>1, <2>3, EndSessionOK
      <3>2. \A b \in Arm, q \in Path : sess'[b][q] \in {sess[b][q], NoSession}
        BY <2>1, <2>3 DEF SessionsOK
      <3>3. QED
        BY <3>1, <3>2 DEF NoSession
    <2>4. QED
      BY <1>4, <2>2, <2>3
  <1>7. StoppedStaysIdle'
    BY <1>2, <1>5, <1>6 DEF IInv, StoppedStaysIdle
  <1>8. QED
    BY <1>2, <1>3, <1>5, <1>6, <1>7 DEF IInv, TypeOK, SessionsOK, OffIsQuiet

\* A node that starts has no session, and one that cannot connect is not ready.
LEMMA StartStep ==
  ASSUME IInv, NEW m \in Mode, NEW r \in [Arm -> Rate], Start(m, r)
  PROVE  IInv'
  <1>1. linked = FALSE /\ UNCHANGED <<sess, check, stopped>>
    BY DEF Start, ConnectAndEnable, ConnectFails
  <1>2. ~ready /\ ~stopped /\ sess = NoSessions /\ check = 0
    BY <1>1 DEF IInv, ReadyMeansInMode, OffIsQuiet
  <1>3. CoreTypeOK' /\ ReadyMeansInMode'
    BY <1>2, ConnectCore DEF Start, IInv, TypeOK
  <1>4. QED
    BY <1>1, <1>2, <1>3
    DEF IInv, TypeOK, OneOwner, SessionSeeded, StoppedStaysIdle, OffIsQuiet

LEMMA EndStep ==
  ASSUME IInv, Stop \/ Crash
  PROVE  IInv'
  <1>1. CoreTypeOK' /\ ReadyMeansInMode'
    <2>1. CASE Stop
      BY <2>1, ShutdownCore DEF Stop, IInv, TypeOK
    <2>2. CASE Crash
      BY <2>2 DEF Crash, IInv, TypeOK, CoreTypeOK, ReadyMeansInMode
    <2>3. QED
      BY <2>1, <2>2
  <1>2. sess' = NoSessions /\ check' = 0
    BY DEF Stop, Crash, GroupFree
  <1>3. stopped' \in BOOLEAN /\ ~stopped'
    BY Zenon DEF Stop, Crash
  <1>4. SessionsOK'
    BY <1>2, NoSessionsOK
  <1>5. QED
    BY <1>1, <1>2, <1>3, <1>4 DEF IInv, TypeOK, SessionsOK, StoppedStaysIdle, OffIsQuiet

\* Time changes nothing but the age of streaming sessions.
LEMMA TickStep ==
  ASSUME IInv, Tick
  PROVE  IInv'
  <1>1. UNCHANGED <<coreVars, check, stopped>>
    BY DEF Tick
  <1>2. UNCHANGED <<linked, mode, ready, config, arm, rate, target>>
    BY <1>1 DEF coreVars
  <1>3. \A s \in Session :
          /\ Aged(s) \in Session
          /\ Aged(s).streaming = s.streaming /\ Aged(s).last = s.last
    BY AgedSession
  <1>4. sess' = [b \in Arm |-> [q \in Path |-> Aged(sess[b][q])]]
    BY DEF Tick
  <1>5. sess \in [Arm -> [Path -> Session]]
    BY DEF IInv, TypeOK
  <1>6. SessionsOK'
    BY <1>3, <1>4, <1>5 DEF IInv, SessionsOK, OneOwner, SessionSeeded
  <1>7. \A b \in Arm, q \in Path : sess'[b][q].streaming = sess[b][q].streaming
    BY <1>3, <1>4, <1>5
  <1>8. OffIsQuiet'
    <2>1. CASE linked
      BY <1>2, <2>1 DEF OffIsQuiet
    <2>2. CASE ~linked
      <3>1. sess = NoSessions
        BY <2>2 DEF IInv, OffIsQuiet
      <3>2. sess' = NoSessions
        BY <1>4, <3>1 DEF NoSessions, NoSession, Aged
      <3>3. QED
        BY <1>1, <2>2, <3>2 DEF IInv, OffIsQuiet
    <2>3. QED
      BY <2>1, <2>2
  <1>9. QED
    BY <1>1, <1>2, <1>6, <1>7, <1>8
    DEF IInv, TypeOK, CoreTypeOK, SessionsOK, ReadyMeansInMode, StoppedStaysIdle

LEMMA InitIInv == Init => IInv
  <1> SUFFICES ASSUME Init PROVE IInv
    OBVIOUS
  <1>1. sess = NoSessions /\ NoSessions \in [Arm -> [Path -> Session]]
    BY EmptySession DEF Init
  <1>2. OneOwner /\ SessionSeeded /\ StoppedStaysIdle /\ OffIsQuiet /\ ReadyMeansInMode
    BY <1>1 DEF Init, CoreInit, OneOwner, SessionSeeded, StoppedStaysIdle, OffIsQuiet,
                ReadyMeansInMode, NoSessions, NoSession
  <1>3. TypeOK
    <2>1. CoreTypeOK
      BY DEF Init, CoreInit, CoreTypeOK
    <2>2. check \in 0..4
      BY DEF Init
    <2>3. stopped \in BOOLEAN
      BY Zenon DEF Init
    <2>4. sess \in [Arm -> [Path -> Session]]
      BY <1>1, Zenon
    <2>5. QED
      BY <2>1, <2>2, <2>3, <2>4 DEF TypeOK
  <1>4. QED
    BY <1>2, <1>3 DEF IInv

LEMMA NextIInv == IInv /\ [Next]_vars => IInv'
  <1> SUFFICES ASSUME IInv, [Next]_vars PROVE IInv'
    OBVIOUS
  <1>1. CASE \E a \in Streamed : HandleCommand(a) \/ HandleAbsoluteCommand(a)
    BY <1>1, CommandStep
  <1>2. CASE \E m \in Mode : HandleSetMode(m)
    BY <1>2, SetModeStep
  <1>3. CASE HandleHoldCurrent
    BY <1>3, HoldCurrentStep
  <1>4. CASE HandleStopMotion \/ HandleEmergencyStop
    BY <1>4, StopMotionStep, EmergencyStopStep
  <1>5. CASE \E r \in [Arm -> Rate] : HandleSetMotionRates(r)
    BY <1>5, RatesStep
  <1>6. CASE StartCheck \/ CheckCommandTimeout
    BY <1>6, StartCheckStep, CheckStep
  <1>7. CASE \E m \in Mode, r \in [Arm -> Rate] : Start(m, r)
    BY <1>7, StartStep
  <1>8. CASE Stop \/ Crash
    BY <1>8, EndStep
  <1>9. CASE Tick
    BY <1>9, TickStep
  <1>10. CASE UNCHANGED vars
    BY <1>10
    DEF vars, coreVars, IInv, TypeOK, CoreTypeOK, OneOwner, SessionSeeded,
        ReadyMeansInMode, StoppedStaysIdle, OffIsQuiet
  <1>11. QED
    BY <1>1, <1>2, <1>3, <1>4, <1>5, <1>6, <1>7, <1>8, <1>9, <1>10 DEF Next

----------------------------------------------------------------------------
(* Speed ratios.                                                           *)

LEMMA HoldKeepsRates ==
  ASSUME RateFollowsConfig, NEW A \in SUBSET Arm, NEW ok \in BOOLEAN, HoldCurrent(A, ok)
  PROVE  RateFollowsConfig'
  BY DEF HoldCurrent, EnterSucceeds, EnterFails, RateFollowsConfig

\* Whatever makes the driver ready sets the arms' ratios to config_, and config_
\* moves with them.
LEMMA RatesFollow ==
  ASSUME "speed" \notin MayFail, IInv, RateFollowsConfig, [Next]_vars
  PROVE  RateFollowsConfig'
  <1>1. CASE UNCHANGED coreVars
    BY <1>1 DEF coreVars, RateFollowsConfig
  <1>2. CASE \E a \in Streamed : HandleCommand(a) \/ HandleAbsoluteCommand(a)
    <2>1. UNCHANGED <<ready, config, rate>>
      BY <1>2 DEF HandleCommand, HandleAbsoluteCommand, HandleFrame, DropFrame, RefuseFrame,
        ApplyFrame, SendPosition, coreVars
    <2>2. QED
      BY <2>1 DEF RateFollowsConfig
  <1>3. CASE \E m \in Mode : HandleSetMode(m)
    BY <1>3 DEF HandleSetMode, SwitchControlMode, EnterIdle, EnterSucceeds, EnterFails,
      RateFollowsConfig
  <1>4. CASE HandleHoldCurrent
    BY <1>4, HoldKeepsRates DEF HandleHoldCurrent
  <1>5. CASE HandleStopMotion \/ HandleEmergencyStop \/ Stop \/ Crash
    BY <1>5 DEF HandleStopMotion, HandleEmergencyStop, Stop, Crash, StopMotion, EmergencyStop,
      Shutdown, RateFollowsConfig
  <1>6. CASE \E r \in [Arm -> Rate] : HandleSetMotionRates(r)
    BY <1>6 DEF HandleSetMotionRates, SetSpeedRates, RateFollowsConfig
  <1>7. CASE CheckCommandTimeout
    <2>1. PICK a \in Arm : UNCHANGED coreVars \/ \E ok \in BOOLEAN : HoldCurrent({a}, ok)
      BY <1>7 DEF CheckCommandTimeout, MaybeHold, TurnArm
    <2>2. {a} \in SUBSET Arm
      OBVIOUS
    <2>3. QED
      BY <1>1, <2>1, <2>2, HoldKeepsRates
  <1>8. CASE \E m \in Mode, r \in [Arm -> Rate] : Start(m, r)
    <2>1. ASSUME NEW m \in Mode, NEW r \in [Arm -> Rate], ConnectAndEnable(m, r)
          PROVE  RateFollowsConfig'
      BY <2>1 DEF ConnectAndEnable, EnterIdle, RateFollowsConfig
    <2>2. ASSUME NEW m \in Mode, NEW r \in [Arm -> Rate], ConnectFails(m, r)
          PROVE  RateFollowsConfig'
      BY <2>2 DEF ConnectFails, RateFollowsConfig, IInv, ReadyMeansInMode
    <2>3. QED
      BY <1>8, <2>1, <2>2 DEF Start
  <1>9. QED
    BY <1>1, <1>2, <1>3, <1>4, <1>5, <1>6, <1>7, <1>8 DEF Next, vars, StartCheck, Tick

----------------------------------------------------------------------------
(* The theorems.                                                           *)

\* The inductive invariant holds in every reachable state.
THEOREM InvariantHolds == Spec => []IInv
  BY InitIInv, NextIInv, PTL DEF Spec

\* What the driver sends from a frame is always an integer within the joint
\* limits, and every variable keeps its type (handle_command's last clamp).
THEOREM TypeCorrect == Spec => []TypeOK
  <1>1. IInv => TypeOK
    BY DEF IInv
  <1>2. QED
    BY <1>1, InvariantHolds, PTL

\* Never do both command paths of an arm stream (the takeovers of
\* handle_command and handle_absolute_command).
THEOREM OneOwnerAlways == Spec => []OneOwner
  <1>1. IInv => OneOwner
    BY DEF IInv
  <1>2. QED
    BY <1>1, InvariantHolds, PTL

\* A streaming path always has the last command limit_delta starts from.
THEOREM SessionSeededAlways == Spec => []SessionSeeded
  <1>1. IInv => SessionSeeded
    BY DEF IInv
  <1>2. QED
    BY <1>1, InvariantHolds, PTL

\* control_ready_ implies that both arms are in mode_, whatever SDK calls were
\* refused before (enter_mode_unlocked).
THEOREM ReadyMeansInModeAlways == Spec => []ReadyMeansInMode
  <1>1. IInv => ReadyMeansInMode
    BY DEF IInv
  <1>2. QED
    BY <1>1, InvariantHolds, PTL

\* A stopped driver stays idle until a client leaves idle with set_mode.
THEOREM StoppedStaysIdleAlways == Spec => []StoppedStaysIdle
  <1>1. IInv => StoppedStaysIdle
    BY DEF IInv
  <1>2. QED
    BY <1>1, InvariantHolds, PTL

\* A driver that lets commands through runs both arms at the configured ratios, for
\* any ratios and modes, if the controller takes the ratios it is given
\* (set_speed_rates, enter_mode_unlocked).
THEOREM RateFollowsConfigAlways ==
  ASSUME "speed" \notin MayFail
  PROVE  Spec => []RateFollowsConfig
  <1>1. Init => RateFollowsConfig
    BY DEF Init, CoreInit, RateFollowsConfig
  <1>2. QED
    BY <1>1, InitIInv, NextIInv, RatesFollow, PTL DEF Spec

----------------------------------------------------------------------------
(* The driver implements ArmOwner: each step of DriverNode is a step of    *)
(* the ownership protocol or leaves the owners alone.                      *)

\* No change of an abstract variable.
Stutters == ownerBar' = ownerBar /\ quietBar' = quietBar /\ stopped' = stopped

LEMMA StutterIfSame ==
  ASSUME UNCHANGED <<sess, stopped>>
  PROVE  Stutters
  BY DEF Stutters, ownerBar, quietBar, Expired

\* Clearing every session is a release of both arms, or a halt.
LEMMA NoSessionsReleases ==
  ASSUME sess' = NoSessions
  PROVE  /\ ownerBar' = [a \in Arm |-> "none"] /\ quietBar' = [a \in Arm |-> FALSE]
         /\ stopped' = stopped => Owners!Release(Arm)
         /\ stopped' \in BOOLEAN => \E h \in BOOLEAN : Owners!Halt(h)
  <1>1. ownerBar' = [a \in Arm |-> "none"]
    BY DEF ownerBar, OwnerOf, NoSessions, NoSession
  <1>2. quietBar' = [a \in Arm |-> FALSE]
    BY DEF quietBar, Expired, NoSessions, NoSession
  <1>3. ASSUME stopped' = stopped PROVE Owners!Release(Arm)
    BY <1>1, <1>2, <1>3 DEF Owners!Release
  <1>4. stopped' \in BOOLEAN => \E h \in BOOLEAN : Owners!Halt(h)
    BY <1>1, <1>2 DEF Owners!Halt
  <1>5. QED
    BY <1>1, <1>2, <1>3, <1>4

\* Ending the session of the arm's owner releases that arm.
LEMMA EndSessionReleases ==
  ASSUME IInv, NEW a \in Arm, NEW p \in Path, NEW s \in Session, ~s.streaming,
         sess' = [sess EXCEPT ![a][p] = s], stopped' = stopped
  PROVE  Stutters \/ Owners!Release({a})
  <1>1. sess \in [Arm -> [Path -> Session]]
    BY DEF IInv, TypeOK
  <1>2. /\ ~sess'[a][p].streaming /\ sess'[a][Other(p)] = sess[a][Other(p)]
        /\ \A b \in Arm \ {a} : sess'[b] = sess[b]
    BY <1>1 DEF Other
  <1>3. \A b \in Arm \ {a} : OwnerOf(sess'[b]) = OwnerOf(sess[b]) /\ Expired(b, "abs")' = Expired(b, "abs")
    BY <1>2 DEF Expired
  <1>4. CASE sess[a][p].streaming
    <2>1. ~sess'[a]["abs"].streaming /\ ~sess'[a]["rel"].streaming
      BY <1>2, <1>4 DEF Other, IInv, OneOwner
    <2>2. ownerBar' = [b \in Arm |-> IF b \in {a} THEN "none" ELSE ownerBar[b]]
      BY <1>3, <2>1 DEF ownerBar, OwnerOf
    <2>3. quietBar' = [b \in Arm |-> b \notin {a} /\ quietBar[b]]
      BY <1>3, <2>1 DEF quietBar, Expired
    <2>4. QED
      BY <2>2, <2>3 DEF Owners!Release
  <1>5. CASE ~sess[a][p].streaming
    <2>1. \A q \in Path : sess'[a][q].streaming = sess[a][q].streaming
      BY <1>2, <1>5 DEF Other, IInv, TypeOK, Session
    <2>2. OwnerOf(sess'[a]) = OwnerOf(sess[a]) /\ Expired(a, "abs")' = Expired(a, "abs")
      BY <1>2, <2>1, <1>5 DEF OwnerOf, Expired, Other
    <2>3. QED
      BY <1>3, <2>2 DEF Stutters, ownerBar, quietBar
  <1>6. QED
    BY <1>4, <1>5

\* Whatever releases some arms, or halts, is a step of the protocol.
LEMMA ReleaseIsStep ==
  ASSUME Stutters \/ (\E S \in SUBSET Arm : Owners!Release(S)) \/ \E h \in BOOLEAN : Owners!Halt(h)
  PROVE  [Owners!Next]_(Owners!ownerVars)
  BY DEF Stutters, Owners!Next, Owners!ownerVars

\* An applied frame takes its arm: the absolute path at once, the relative path
\* only when handle_command let it pass, the absolute stream being silent.
LEMMA ApplyTakes ==
  ASSUME IInv, NEW a \in Arm, NEW p \in Path, NEW seed \in Seeds(a, p),
         ApplyFrame(a, p, seed), stopped' = stopped,
         p = "rel" => ~PathActive(a, "abs")
  PROVE  IF p = "abs" THEN Owners!TakeAbsolute(a) ELSE Owners!TakeRelative(a)
  <1>1. sess \in [Arm -> [Path -> Session]]
    BY DEF IInv, TypeOK
  <1>2. PICK q : sess' = [sess EXCEPT
                            ![a][p] = [streaming |-> TRUE, last |-> q, age |-> 0],
                            ![a][Other(p)] = IF @.streaming THEN NoSession ELSE @]
    BY DEF ApplyFrame
  <1>3. ready /\ ~stopped
    BY DEF ApplyFrame, SendPosition, IInv, StoppedStaysIdle
  <1>4. /\ sess'[a][p].streaming /\ sess'[a][p].age = 0
        /\ ~sess'[a][Other(p)].streaming
        /\ \A b \in Arm \ {a} : sess'[b] = sess[b]
    BY <1>1, <1>2 DEF Other, NoSession
  <1>5. OwnerOf(sess'[a]) = p /\ ~Expired(a, "abs")'
    BY <1>4, NodeAssumption DEF OwnerOf, Expired, Other
  <1>6. ownerBar' = [ownerBar EXCEPT ![a] = p]
    BY <1>4, <1>5 DEF ownerBar
  <1>7. quietBar' = [quietBar EXCEPT ![a] = FALSE]
    BY <1>4, <1>5 DEF quietBar, Expired
  <1>8. Owners!Own(a, p)
    BY <1>3, <1>6, <1>7 DEF Owners!Own
  <1>9. ASSUME p = "rel", ownerBar[a] = "abs" PROVE quietBar[a]
    <2>1. sess[a]["abs"].streaming
      BY <1>9 DEF ownerBar, OwnerOf
    <2>2. ~PathActive(a, "abs") /\ sess[a]["abs"].age \in Int
      BY <1>1, <1>9, NodeAssumption DEF Session
    <2>3. Expired(a, "abs")
      BY <2>1, <2>2, NodeAssumption DEF PathActive, Expired
    <2>4. QED
      BY <2>3, Zenon DEF quietBar
  <1>10. QED
    BY <1>8, <1>9 DEF Owners!TakeAbsolute, Owners!TakeRelative

LEMMA FrameIsStep ==
  ASSUME IInv, NEW a \in Arm, HandleCommand(a) \/ HandleAbsoluteCommand(a)
  PROVE  [Owners!Next]_(Owners!ownerVars)
  <1>1. PICK p \in Path : HandleFrame(a, p) /\ (p = "rel" => ~PathActive(a, "abs"))
    BY DEF HandleCommand, HandleAbsoluteCommand
  <1>2. stopped' = stopped
    BY DEF HandleCommand, HandleAbsoluteCommand
  <1>3. PICK seed \in Seeds(a, p) :
          DropFrame(a, p, seed) \/ RefuseFrame(a, p, seed) \/ ApplyFrame(a, p, seed)
    BY <1>1 DEF HandleFrame
  <1>4. seed \in Lo..Hi
    BY SeedInLimits DEF IInv
  <1>5. CASE DropFrame(a, p, seed)
    <2> DEFINE s == [streaming |-> FALSE, last |-> seed, age |-> 0]
    <2>1. s \in Session /\ ~s.streaming
      BY <1>4, NodeAssumption DEF Session
    <2>2. sess' = [sess EXCEPT ![a][p] = s]
      BY <1>5 DEF DropFrame
    <2> HIDE DEF s
    <2>3. Stutters \/ Owners!Release({a})
      BY <1>2, <2>1, <2>2, EndSessionReleases
    <2>4. QED
      BY <2>3, ReleaseIsStep
  <1>6. CASE RefuseFrame(a, p, seed)
    <2>1. sess \in [Arm -> [Path -> Session]]
      BY DEF IInv, TypeOK
    <2>2. \A b \in Arm, q \in Path :
            sess'[b][q].streaming = sess[b][q].streaming /\ sess'[b][q].age = sess[b][q].age
      BY <1>6, <2>1 DEF RefuseFrame, Session
    <2>3. Stutters
      BY <1>2, <2>2 DEF Stutters, ownerBar, quietBar, OwnerOf, Expired
    <2>4. QED
      BY <2>3, ReleaseIsStep
  <1>7. CASE ApplyFrame(a, p, seed)
    BY <1>1, <1>2, <1>7, ApplyTakes DEF Owners!Next
  <1>8. QED
    BY <1>3, <1>5, <1>6, <1>7

LEMMA CheckIsStep ==
  ASSUME IInv, CheckCommandTimeout
  PROVE  [Owners!Next]_(Owners!ownerVars)
  <1> DEFINE a == TurnArm(check)
             p == TurnPath(check)
  <1>1. a \in Arm /\ p \in Path
    BY DEF TurnArm, TurnPath
  <1>2. stopped' = stopped /\ MaybeHold(a, p)
    BY DEF CheckCommandTimeout
  <1> HIDE DEF a, p
  <1>3. sess' = sess \/ sess' = [sess EXCEPT ![a][p] = NoSession]
    BY <1>2 DEF MaybeHold
  <1>4. CASE sess' = sess
    BY <1>2, <1>4, StutterIfSame, ReleaseIsStep
  <1>5. CASE sess' = [sess EXCEPT ![a][p] = NoSession]
    <2>1. NoSession \in Session /\ ~NoSession.streaming
      BY EmptySession DEF NoSession
    <2>2. Stutters \/ Owners!Release({a})
      BY <1>1, <1>2, <1>5, <2>1, EndSessionReleases
    <2>3. QED
      BY <1>1, <2>2, ReleaseIsStep
  <1>6. QED
    BY <1>3, <1>4, <1>5

\* The absolute streams that time out are the ones that go quiet.
LEMMA TickIsStep ==
  ASSUME IInv, Tick
  PROVE  [Owners!Next]_(Owners!ownerVars)
  <1>1. sess \in [Arm -> [Path -> Session]]
    BY DEF IInv, TypeOK
  <1>2. /\ stopped' = stopped
        /\ \A b \in Arm, q \in Path : sess'[b][q] = Aged(sess[b][q])
    BY DEF Tick
  <1>3. \A b \in Arm, q \in Path :
          /\ sess'[b][q].streaming = sess[b][q].streaming
          /\ sess[b][q].age > Timeout => sess'[b][q].age > Timeout
    BY <1>1, <1>2, AgedSession
  <1>4. ownerBar' = ownerBar
    BY <1>3 DEF ownerBar, OwnerOf
  <1> DEFINE S == {b \in Arm : Expired(b, "abs")'}
  <1>5. \A b \in S : ownerBar[b] = "abs"
    BY <1>3 DEF ownerBar, OwnerOf, Expired
  <1>6. \A b \in Arm : Expired(b, "abs") => Expired(b, "abs")'
    BY <1>3 DEF Expired
  <1>7. quietBar' = [b \in Arm |-> b \in S \/ quietBar[b]]
    <2>1. \A b \in Arm : Expired(b, "abs")' = (b \in S \/ Expired(b, "abs"))
      BY <1>6 DEF Expired
    <2>2. quietBar' = [b \in Arm |-> Expired(b, "abs")']
      BY DEF quietBar
    <2>3. quietBar' = [b \in Arm |-> b \in S \/ Expired(b, "abs")]
      BY <2>1, <2>2, Zenon
    <2>4. QED
      BY <2>3, Zenon DEF quietBar
  <1>8. Owners!GoQuiet(S)
    BY <1>2, <1>4, <1>5, <1>7 DEF Owners!GoQuiet
  <1>9. QED
    BY <1>8 DEF Owners!Next

LEMMA ServiceIsStep ==
  ASSUME IInv,
         (\E m \in Mode : HandleSetMode(m)) \/ HandleHoldCurrent
           \/ HandleStopMotion \/ HandleEmergencyStop \/ Stop \/ Crash
  PROVE  [Owners!Next]_(Owners!ownerVars)
  <1>1. \/ UNCHANGED <<sess, stopped>>
        \/ sess' = NoSessions /\ (stopped' = stopped \/ stopped' \in BOOLEAN)
    <2>1. CASE \E m \in Mode : HandleSetMode(m)
      BY <2>1, Zenon DEF HandleSetMode
    <2>2. CASE HandleHoldCurrent
      BY <2>2 DEF HandleHoldCurrent
    <2>3. CASE HandleStopMotion \/ HandleEmergencyStop \/ Stop \/ Crash
      BY <2>3, Zenon DEF HandleStopMotion, HandleEmergencyStop, Stop, Crash
    <2>4. QED
      BY <2>1, <2>2, <2>3
  <1>2. Stutters \/ Owners!Release(Arm) \/ \E h \in BOOLEAN : Owners!Halt(h)
    BY <1>1, StutterIfSame, NoSessionsReleases
  <1>3. QED
    BY <1>2, ReleaseIsStep

LEMMA OwnersInit == Init => Owners!Init
  <1> SUFFICES ASSUME Init PROVE Owners!Init
    OBVIOUS
  <1>1. sess = NoSessions /\ stopped = FALSE
    BY DEF Init
  <1>2. ownerBar = [a \in Arm |-> "none"] /\ quietBar = [a \in Arm |-> FALSE]
    BY <1>1 DEF ownerBar, quietBar, OwnerOf, Expired, NoSessions, NoSession
  <1>3. QED
    BY <1>1, <1>2 DEF Owners!Init

LEMMA OwnersNext == IInv /\ [Next]_vars => [Owners!Next]_(Owners!ownerVars)
  <1> SUFFICES ASSUME IInv, [Next]_vars PROVE [Owners!Next]_(Owners!ownerVars)
    OBVIOUS
  <1>1. CASE \E a \in Streamed : HandleCommand(a) \/ HandleAbsoluteCommand(a)
    BY <1>1, FrameIsStep, NodeAssumption
  <1>2. CASE \/ \E m \in Mode : HandleSetMode(m)
             \/ HandleHoldCurrent \/ HandleStopMotion \/ HandleEmergencyStop \/ Stop \/ Crash
    BY <1>2, ServiceIsStep
  <1>3. CASE CheckCommandTimeout
    BY <1>3, CheckIsStep
  <1>4. CASE Tick
    BY <1>4, TickIsStep
  <1>5. CASE \/ \E r \in [Arm -> Rate] : HandleSetMotionRates(r)
             \/ StartCheck
             \/ \E m \in Mode, r \in [Arm -> Rate] : Start(m, r)
             \/ UNCHANGED vars
    <2>1. UNCHANGED <<sess, stopped>>
      BY <1>5 DEF HandleSetMotionRates, StartCheck, Start, vars
    <2>2. QED
      BY <2>1, StutterIfSame, ReleaseIsStep
  <1>6. QED
    BY <1>1, <1>2, <1>3, <1>4, <1>5 DEF Next

\* The driver implements the ownership promise ArmOwner.
THEOREM ImplementsArmOwnerHolds == Spec => ImplementsArmOwner
  BY InvariantHolds, OwnersInit, OwnersNext, PTL DEF Spec, ImplementsArmOwner, Owners!Spec

----------------------------------------------------------------------------
(* The slew limit, while the controller refuses nothing but parking and    *)
(* the emergency stop: what a session slews from is what the arm tracks,   *)
(* so a frame moves the arm's target by at most max_delta_per_cycle.  The  *)
(* assumption is needed: with refused holds or switches TLC finds jumps.   *)

Reliable == MayFail \subseteq {"idle", "estop"}

\* Nothing that enters a mode fails.
LEMMA NoEnterFails ==
  ASSUME Reliable, NEW m, EnterFails(m)
  PROVE  FALSE
  BY DEF Reliable, EnterFails

\* A hold is accepted unless the driver is idle, and then nothing changes.
LEMMA HoldAccepted ==
  ASSUME Reliable, IdleUnlessReady, NEW A \in SUBSET Arm, NEW ok \in BOOLEAN,
         HoldCurrent(A, ok)
  PROVE  /\ UNCHANGED <<linked, mode, ready, arm>>
         /\ \A a \in Arm \ A : target'[a] = target[a]
         /\ ~ok => UNCHANGED target /\ mode = Idle
  <1>1. CASE mode = Idle
    BY <1>1 DEF HoldCurrent
  <1>2. CASE mode # Idle
    <2>1. ready
      BY <1>2 DEF IdleUnlessReady
    <2>2. UNCHANGED <<linked, mode, ready, arm>> /\ ok
      BY <1>2, <2>1 DEF HoldCurrent, Reliable
    <2>3. PICK held \in SUBSET A, pose \in Pose :
            target' = [a \in Arm |-> IF a \in held THEN pose[a] ELSE target[a]]
      BY <1>2, <2>1 DEF HoldCurrent
    <2>4. QED
      BY <2>2, <2>3
  <1>3. QED
    BY <1>1, <1>2

\* A frame moves only its own arm's target and session, and by at most MaxDelta
\* when it continues a session.
LEMMA FrameSlews ==
  ASSUME Reliable, SlewInv, NEW a \in Arm, NEW p \in Path, HandleFrame(a, p)
  PROVE  /\ UNCHANGED <<mode, ready>>
         /\ LastIsTarget'
         /\ \A b \in Arm, q \in Path :
              sess[b][q].streaming /\ sess'[b][q].streaming /\ sess'[b][q] # sess[b][q]
              => /\ target[b] \in Int /\ target'[b] \in Int
                 /\ target'[b] - target[b] \in -MaxDelta..MaxDelta
  <1>1. PICK seed \in Seeds(a, p) :
          DropFrame(a, p, seed) \/ RefuseFrame(a, p, seed) \/ ApplyFrame(a, p, seed)
    BY DEF HandleFrame
  <1>2. /\ sess \in [Arm -> [Path -> Session]]
        /\ target \in [Arm -> Int \cup {None}]
    BY DEF SlewInv, IInv, TypeOK, CoreTypeOK
  <1>3. seed \in Lo..Hi /\ seed \in Int
    BY SeedInLimits, NodeAssumption DEF SlewInv, IInv
  <1>4. CASE DropFrame(a, p, seed)
    <2>1. /\ ~sess'[a][p].streaming
          /\ \A b \in Arm, q \in Path : <<b, q>> # <<a, p>> => sess'[b][q] = sess[b][q]
      BY <1>2, <1>4 DEF DropFrame
    <2>2. UNCHANGED <<mode, ready, target>>
      BY <1>4 DEF DropFrame, coreVars
    <2>3. QED
      BY <2>1, <2>2 DEF SlewInv, LastIsTarget
  <1>5. CASE RefuseFrame(a, p, seed)
    <2>1. ~ready /\ UNCHANGED <<mode, ready, target>>
      BY <1>5 DEF RefuseFrame, SendPosition, Reliable
    <2>2. /\ sess'[a][p] = [streaming |-> sess[a][p].streaming, last |-> seed,
                            age |-> sess[a][p].age]
          /\ \A b \in Arm, q \in Path : <<b, q>> # <<a, p>> => sess'[b][q] = sess[b][q]
      BY <1>2, <1>5 DEF RefuseFrame
    <2>3. sess[a][p].streaming => sess'[a][p] = sess[a][p]
      <3>1. sess[a][p] \in Session
        BY ONLY <1>2, a \in Arm, p \in Path
      <3>2. sess[a][p] = [streaming |-> sess[a][p].streaming, last |-> sess[a][p].last,
                          age |-> sess[a][p].age]
        BY ONLY <3>1 DEF Session
      <3>3. sess[a][p].streaming => seed = sess[a][p].last
        BY DEF Seeds
      <3>4. QED
        BY ONLY <2>2, <3>2, <3>3
    <2>4. ~ready'
      BY <2>1
    <2>5. LastIsTarget'
      BY ONLY <2>4 DEF LastIsTarget
    <2>6. \A b \in Arm, q \in Path : sess[b][q].streaming => sess'[b][q] = sess[b][q]
      BY <2>2, <2>3
    <2>7. QED
      BY <2>1, <2>5, <2>6
  <1>6. CASE ApplyFrame(a, p, seed)
    <2> DEFINE Q(x) == Clamp(LimitDelta(Clamp(x), seed))
    <2>1. PICK x \in Frame :
            /\ SendPosition(a, Q(x), TRUE)
            /\ sess' = [sess EXCEPT
                          ![a][p] = [streaming |-> TRUE, last |-> Q(x), age |-> 0],
                          ![a][Other(p)] = IF @.streaming THEN NoSession ELSE @]
      BY <1>6 DEF ApplyFrame
    <2>2. x \in Int
      BY NodeAssumption
    <2>3. Q(x) - seed \in -MaxDelta..MaxDelta /\ Q(x) \in Int
      <3>1. Clamp(x) \in Int
        BY <2>2, ClampInLimits
      <3>2. LimitDelta(Clamp(x), seed) \in Int
        BY <1>3, <3>1, LimitDeltaInt
      <3>3. QED
        BY <1>3, <2>2, <3>2, ClampInLimits, StepBounded
    <2> HIDE DEF Q
    <2>4. ready /\ UNCHANGED <<mode, ready>> /\ target' = [target EXCEPT ![a] = Q(x)]
      BY <2>1 DEF SendPosition
    <2>5. /\ sess'[a][p] = [streaming |-> TRUE, last |-> Q(x), age |-> 0]
          /\ ~sess'[a][Other(p)].streaming
          /\ \A b \in Arm \ {a} : sess'[b] = sess[b]
      BY <1>2, <2>1 DEF Other, NoSession
    <2>6. LastIsTarget'
      BY <1>2, <2>4, <2>5 DEF SlewInv, LastIsTarget, Other
    <2>7. sess[a][p].streaming => target[a] = seed
      BY <2>4 DEF SlewInv, LastIsTarget, Seeds
    <2>8. QED
      BY <1>2, <1>3, <2>3, <2>4, <2>5, <2>6, <2>7 DEF Other
  <1>7. QED
    BY <1>1, <1>4, <1>5, <1>6

\* The step that FrameStepBounded allows.
FrameStep ==
  \A a \in Arm, p \in Path :
    sess[a][p].streaming /\ sess'[a][p].streaming /\ sess'[a][p] # sess[a][p]
    => \A from \in {target[a]} \cap Int, to \in {target'[a]} \cap Int :
         to - from \in -MaxDelta..MaxDelta

\* A timer check holds only its own arm, and the session it expires is the one
\* that arm followed.
LEMMA CheckSlews ==
  ASSUME Reliable, SlewInv, CheckCommandTimeout
  PROVE  /\ UNCHANGED <<mode, ready>> /\ LastIsTarget'
         /\ \A b \in Arm, q \in Path : sess'[b][q].streaming => sess'[b][q] = sess[b][q]
  <1> DEFINE a == TurnArm(check)
             p == TurnPath(check)
  <1>1. a \in Arm /\ p \in Path
    BY DEF TurnArm, TurnPath
  <1>2. MaybeHold(a, p) /\ sess \in [Arm -> [Path -> Session]]
    BY DEF CheckCommandTimeout, SlewInv, IInv, TypeOK
  <1> HIDE DEF a, p
  <1>3. CASE ~Expired(a, p)
    BY <1>2, <1>3 DEF MaybeHold, coreVars, SlewInv, LastIsTarget
  <1>4. CASE Expired(a, p)
    <2>1. sess' = [sess EXCEPT ![a][p] = NoSession]
      BY <1>2, <1>4 DEF MaybeHold
    <2>2. /\ ~sess'[a][p].streaming /\ ~sess'[a][Other(p)].streaming
          /\ \A b \in Arm, q \in Path : <<b, q>> # <<a, p>> => sess'[b][q] = sess[b][q]
      BY <1>1, <1>2, <1>4, <2>1 DEF Expired, SlewInv, IInv, OneOwner, Other, NoSession
    <2>3. \A q \in Path : ~sess'[a][q].streaming
      BY <1>1, <2>2 DEF Other
    <2>4. UNCHANGED <<mode, ready>> /\ \A b \in Arm \ {a} : target'[b] = target[b]
      <3>1. {a} \in SUBSET Arm
        BY <1>1
      <3>2. CASE UNCHANGED coreVars
        BY <3>2 DEF coreVars
      <3>3. CASE \E ok \in BOOLEAN : HoldCurrent({a}, ok)
        BY <3>1, <3>3, HoldAccepted DEF SlewInv
      <3>4. QED
        BY <1>2, <1>4, <3>2, <3>3 DEF MaybeHold
    <2>5. LastIsTarget'
      BY <2>2, <2>3, <2>4 DEF SlewInv, LastIsTarget
    <2>6. QED
      BY <2>2, <2>3, <2>4, <2>5
  <1>5. QED
    BY <1>3, <1>4

\* Clearing the sessions, or changing nothing but ages, keeps both parts.
LEMMA QuietSlews ==
  ASSUME sess' = NoSessions
  PROVE  LastIsTarget' /\ FrameStep
  BY DEF LastIsTarget, FrameStep, NoSessions, NoSession

LEMMA StillSlews ==
  ASSUME SlewInv, UNCHANGED <<ready, target>>,
         \A a \in Arm, p \in Path : /\ sess'[a][p].streaming = sess[a][p].streaming
                                    /\ sess'[a][p].last = sess[a][p].last
  PROVE  LastIsTarget' /\ FrameStep
  <1>1. 0 \in -MaxDelta..MaxDelta
    BY NodeAssumption
  <1>2. QED
    BY <1>1 DEF SlewInv, LastIsTarget, FrameStep

LEMMA SlewNext ==
  ASSUME Reliable, SlewInv, [Next]_vars
  PROVE  SlewInv' /\ FrameStep
  <1>1. IInv'
    BY NextIInv DEF SlewInv
  <1>2. CASE \E a \in Streamed : HandleCommand(a) \/ HandleAbsoluteCommand(a)
    <2>1. PICK a \in Arm, p \in Path : HandleFrame(a, p)
      BY <1>2, NodeAssumption DEF HandleCommand, HandleAbsoluteCommand
    <2>2. QED
      BY <1>1, <2>1, FrameSlews DEF SlewInv, IdleUnlessReady, FrameStep
  <1>3. CASE \E m \in Mode : HandleSetMode(m)
    <2>1. PICK m \in Mode, ok \in BOOLEAN :
            SwitchControlMode(m, ok) /\ sess' = IF ok THEN NoSessions ELSE sess
      BY <1>3 DEF HandleSetMode
    <2>2. ok /\ IdleUnlessReady'
      BY <2>1, NoEnterFails DEF SwitchControlMode, EnterIdle, EnterSucceeds, IdleUnlessReady
    <2>3. QED
      BY <1>1, <2>1, <2>2, QuietSlews DEF SlewInv
  <1>4. CASE HandleHoldCurrent
    <2>1. PICK ok \in BOOLEAN :
            HoldCurrent(Arm, ok) /\ sess' = IF ok THEN NoSessions ELSE sess
      BY <1>4 DEF HandleHoldCurrent
    <2>2. UNCHANGED <<mode, ready>> /\ (~ok => UNCHANGED target)
      BY <2>1, HoldAccepted DEF SlewInv
    <2>3. CASE ok
      BY <1>1, <2>1, <2>2, <2>3, QuietSlews DEF SlewInv, IdleUnlessReady
    <2>4. CASE ~ok
      BY <1>1, <2>1, <2>2, <2>4, StillSlews DEF SlewInv, IdleUnlessReady
    <2>5. QED
      BY <2>3, <2>4
  <1>5. CASE HandleStopMotion \/ HandleEmergencyStop \/ Stop \/ Crash
    <2>1. sess' = NoSessions /\ IdleUnlessReady'
      BY <1>5 DEF HandleStopMotion, HandleEmergencyStop, Stop, Crash, StopMotion,
                  EmergencyStop, Shutdown, IdleUnlessReady
    <2>2. QED
      BY <1>1, <2>1, QuietSlews DEF SlewInv
  <1>6. CASE StartCheck \/ Tick \/ (\E r \in [Arm -> Rate] : HandleSetMotionRates(r)) \/ UNCHANGED vars
    <2>1. UNCHANGED <<mode, ready, target>>
      BY <1>6 DEF StartCheck, Tick, HandleSetMotionRates, SetSpeedRates, vars, coreVars
    <2>2. \A a \in Arm, p \in Path : /\ sess'[a][p].streaming = sess[a][p].streaming
                                     /\ sess'[a][p].last = sess[a][p].last
      <3>1. CASE Tick
        <4>1. sess' = [a \in Arm |-> [p \in Path |-> Aged(sess[a][p])]]
          BY <3>1 DEF Tick
        <4>2. sess \in [Arm -> [Path -> Session]]
          BY DEF SlewInv, IInv, TypeOK
        <4>3. QED
          BY <4>1, <4>2, AgedSession
      <3>2. CASE ~Tick
        BY <1>6, <3>2 DEF StartCheck, HandleSetMotionRates, vars
      <3>3. QED
        BY <3>1, <3>2
    <2>3. QED
      BY <1>1, <2>1, <2>2, StillSlews DEF SlewInv, IdleUnlessReady
  <1>7. CASE CheckCommandTimeout
    BY <1>1, <1>7, CheckSlews DEF SlewInv, IdleUnlessReady, FrameStep
  <1>8. CASE \E m \in Mode, r \in [Arm -> Rate] : Start(m, r)
    <2>1. sess = NoSessions /\ sess' = NoSessions
      BY <1>8 DEF Start, ConnectAndEnable, ConnectFails, SlewInv, IInv, OffIsQuiet
    <2>2. IdleUnlessReady'
      BY <1>8 DEF Start, ConnectAndEnable, ConnectFails, EnterIdle, SlewInv, IdleUnlessReady
    <2>3. QED
      BY <1>1, <2>1, <2>2, QuietSlews DEF SlewInv
  <1>9. QED
    BY <1>2, <1>3, <1>4, <1>5, <1>6, <1>7, <1>8 DEF Next

LEMMA SlewInit == Init => SlewInv
  <1> SUFFICES ASSUME Init PROVE SlewInv
    OBVIOUS
  <1>1. IInv
    BY InitIInv
  <1>2. mode = Idle /\ sess = NoSessions
    BY DEF Init, CoreInit
  <1>3. QED
    BY <1>1, <1>2 DEF SlewInv, IdleUnlessReady, LastIsTarget, NoSessions, NoSession

\* While the controller takes commands, speeds and mode switches, a session's
\* last command is the target its arm tracks (handle_command sets last_command
\* only after send_position).
THEOREM LastIsTargetAlways ==
  ASSUME Reliable
  PROVE  Spec => []LastIsTarget
  <1>1. SlewInv /\ [Next]_vars => SlewInv'
    BY SlewNext
  <1>2. SlewInv => LastIsTarget
    BY DEF SlewInv
  <1>3. QED
    BY SlewInit, <1>1, <1>2, PTL DEF Spec

\* While the controller takes commands, speeds and mode switches, a frame of a
\* continuing session moves the arm's target by at most max_delta_per_cycle
\* (limit_delta).
THEOREM FrameStepBoundedAlways ==
  ASSUME Reliable
  PROVE  Spec => FrameStepBounded
  <1>1. SlewInv /\ [Next]_vars => SlewInv' /\ FrameStep
    BY SlewNext
  <1>2. SlewInv /\ [Next]_vars =>
          [\A a \in Arm, p \in Path :
             sess[a][p].streaming /\ sess'[a][p].streaming /\ sess'[a][p] # sess[a][p]
             => \A from \in {target[a]} \cap Int, to \in {target'[a]} \cap Int :
                  to - from \in -MaxDelta..MaxDelta]_vars
    BY <1>1 DEF FrameStep
  <1>3. QED
    BY SlewInit, <1>1, <1>2, PTL DEF Spec, FrameStepBounded
=============================================================================
