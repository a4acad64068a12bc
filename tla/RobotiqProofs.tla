---------------------------- MODULE RobotiqProofs ---------------------------
(***************************************************************************)
(* The Hand-E gripper forgets no command and begins no write after the     *)
(* emergency stop, for every scale of positions and counters, on a line    *)
(* that may fail in any way.                                               *)
(***************************************************************************)
EXTENDS RobotiqProps, TLAPS

USE RobotiqAssumption

\* The steps of Next, one disjunct each.
LEMMA NextCases ==
  ASSUME [Next]_vars
  PROVE  \/ \E p \in Pos : SetTarget(p)
         \/ TickBegins /\ Idle
         \/ TickEntersArm /\ Idle
         \/ TickControl
         \/ TakePending
         \/ SkipFeedback
         \/ \E done, ack \in BOOLEAN : WritePos(done, ack)
         \/ \E done, ack \in BOOLEAN : WriteSpeed(done, ack)
         \/ \E done, ack \in BOOLEAN : WriteGo(done, ack)
         \/ \E ok \in BOOLEAN : ReadFeedback(ok)
         \/ (StopBegins \/ StopBridge \/ StopNode) /\ Idle
         \/ \E done \in BOOLEAN : StopWrite(done)
         \/ StopArm
         \/ DevMoves \/ DevStalls
         \/ UNCHANGED vars
  BY DEF Next, Timer, EmergencyStop

----------------------------------------------------------------------------
(* Types.                                                                  *)

LEMMA TypeInit == Init => TypeOK
  <1>1. Init => FlagsOK
    BY DEF Init, NodeInit, Opened, NotOpened, FlagsOK
  <1>2. Init => PlacesOK
    BY DEF Init, NodeInit, PlacesOK, StopPhase
  <1>3. Init => NumbersOK
    BY DEF Init, Opened, NotOpened, NumbersOK, Pos
  <1>4. Init => DevOK
    BY DEF Init, DevOK
  <1>5. QED
    BY <1>1, <1>2, <1>3, <1>4 DEF TypeOK

LEMMA FlagsStep ==
  ASSUME FlagsOK, [Next]_vars PROVE FlagsOK'
  <1> USE DEF FlagsOK
  <1>1. CASE \E p \in Pos : SetTarget(p)
    BY <1>1 DEF SetTarget, Commandable, nodeVars
  <1>2. CASE TickBegins /\ Idle
    BY <1>2 DEF TickBegins, Idle, armVars
  <1>3. CASE TickEntersArm /\ Idle
    BY <1>3 DEF TickEntersArm, Idle, armVars
  <1>4. CASE TickControl
    BY <1>4 DEF TickControl, TickGoes
  <1>5. CASE TakePending
    BY <1>5 DEF TakePending, TickGoes, AfterPos
  <1>6. CASE SkipFeedback
    BY <1>6 DEF SkipFeedback, TickGoes
  <1>7. CASE \E done, ack \in BOOLEAN : WritePos(done, ack)
    BY <1>7 DEF WritePos, TickGoes, AfterPos, Transaction, PutBack, armVars
  <1>8. CASE \E done, ack \in BOOLEAN : WriteSpeed(done, ack)
    BY <1>8 DEF WriteSpeed, TickGoes, Transaction, PutBack
  <1>9. CASE \E done, ack \in BOOLEAN : WriteGo(done, ack)
    BY <1>9 DEF WriteGo, TickGoes, Transaction, PutBack
  <1>10. CASE \E ok \in BOOLEAN : ReadFeedback(ok)
    BY <1>10 DEF ReadFeedback, TickGoes
  <1>11. CASE (StopBegins \/ StopBridge \/ StopNode) /\ Idle
    BY <1>11 DEF StopBegins, StopBridge, StopNode, Idle, armVars
  <1>12. CASE \E done \in BOOLEAN : StopWrite(done)
    BY <1>12 DEF StopWrite, StopSent, armVars
  <1>13. CASE StopArm
    BY <1>13 DEF StopArm, StopResets
  <1>14. CASE DevMoves \/ DevStalls
    BY <1>14 DEF DevMoves, DevStalls, nodeVars, armVars
  <1>15. CASE UNCHANGED vars
    BY <1>15 DEF vars, nodeVars, armVars
  <1>16. QED
    BY NextCases, <1>1, <1>2, <1>3, <1>4, <1>5, <1>6, <1>7, <1>8, <1>9,
       <1>10, <1>11, <1>12, <1>13, <1>14, <1>15

LEMMA PlacesStep ==
  ASSUME PlacesOK, [Next]_vars PROVE PlacesOK'
  <1> USE DEF PlacesOK, StopPhase, Writing
  <1>1. CASE \E p \in Pos : SetTarget(p)
    BY <1>1 DEF SetTarget, Commandable, nodeVars
  <1>2. CASE TickBegins /\ Idle
    BY <1>2 DEF TickBegins, Idle, armVars
  <1>3. CASE TickEntersArm /\ Idle
    BY <1>3 DEF TickEntersArm, Idle, armVars
  <1>4. CASE TickControl
    BY <1>4 DEF TickControl, TickGoes
  <1>5. CASE TakePending
    BY <1>5 DEF TakePending, TickGoes, AfterPos
  <1>6. CASE SkipFeedback
    BY <1>6 DEF SkipFeedback, TickGoes
  <1>7. CASE \E done, ack \in BOOLEAN : WritePos(done, ack)
    BY <1>7 DEF WritePos, TickGoes, AfterPos, Transaction, PutBack, armVars
  <1>8. CASE \E done, ack \in BOOLEAN : WriteSpeed(done, ack)
    BY <1>8 DEF WriteSpeed, TickGoes, Transaction, PutBack
  <1>9. CASE \E done, ack \in BOOLEAN : WriteGo(done, ack)
    BY <1>9 DEF WriteGo, TickGoes, Transaction, PutBack
  <1>10. CASE \E ok \in BOOLEAN : ReadFeedback(ok)
    BY <1>10 DEF ReadFeedback, TickGoes
  <1>11. CASE (StopBegins \/ StopBridge \/ StopNode) /\ Idle
    BY <1>11 DEF StopBegins, StopBridge, StopNode, Idle, armVars
  <1>12. CASE \E done \in BOOLEAN : StopWrite(done)
    BY <1>12 DEF StopWrite, StopSent, armVars
  <1>13. CASE StopArm
    BY <1>13 DEF StopArm, StopResets
  <1>14. CASE DevMoves \/ DevStalls
    BY <1>14 DEF DevMoves, DevStalls, nodeVars, armVars
  <1>15. CASE UNCHANGED vars
    BY <1>15 DEF vars, nodeVars, armVars
  <1>16. QED
    BY NextCases, <1>1, <1>2, <1>3, <1>4, <1>5, <1>6, <1>7, <1>8, <1>9,
       <1>10, <1>11, <1>12, <1>13, <1>14, <1>15

LEMMA NumbersStep ==
  ASSUME NumbersOK, DevOK, [Next]_vars PROVE NumbersOK'
  <1> USE DEF NumbersOK, Pos
  <1>1. CASE \E p \in Pos : SetTarget(p)
    BY <1>1 DEF SetTarget, Commandable, nodeVars
  <1>2. CASE TickBegins /\ Idle
    BY <1>2 DEF TickBegins, Idle, armVars
  <1>3. CASE TickEntersArm /\ Idle
    BY <1>3 DEF TickEntersArm, Idle, armVars
  <1>4. CASE TickControl
    <2>1. lag' \in 0..(ResendEvery - 1)
      <3>1. CASE lag' = lag \/ lag' = 0
        BY <3>1
      <3>2. CASE ~dirty /\ Lagging /\ ~Resend /\ lag' = lag + 1
        BY <3>2 DEF Resend
      <3>3. QED
        BY <1>4, <3>1, <3>2 DEF TickControl
    <2>2. QED
      BY <1>4, <2>1 DEF TickControl
  <1>5. CASE TakePending
    BY <1>5 DEF TakePending, TickGoes, AfterPos
  <1>6. CASE SkipFeedback
    BY <1>6 DEF SkipFeedback, TickGoes
  <1>7. CASE \E done, ack \in BOOLEAN : WritePos(done, ack)
    BY <1>7 DEF WritePos, TickGoes, AfterPos, Transaction, PutBack, armVars
  <1>8. CASE \E done, ack \in BOOLEAN : WriteSpeed(done, ack)
    BY <1>8 DEF WriteSpeed, TickGoes, Transaction, PutBack
  <1>9. CASE \E done, ack \in BOOLEAN : WriteGo(done, ack)
    BY <1>9 DEF WriteGo, TickGoes, Transaction, PutBack
  <1>10. CASE \E ok \in BOOLEAN : ReadFeedback(ok)
    <2>1. fb' \in Pos /\ fbTicks' = 0
      BY <1>10 DEF ReadFeedback, DevOK
    <2>2. QED
      BY <1>10, <2>1 DEF ReadFeedback
  <1>11. CASE (StopBegins \/ StopBridge \/ StopNode) /\ Idle
    BY <1>11 DEF StopBegins, StopBridge, StopNode, Idle, armVars
  <1>12. CASE \E done \in BOOLEAN : StopWrite(done)
    BY <1>12 DEF StopWrite, StopSent, armVars
  <1>13. CASE StopArm
    BY <1>13 DEF StopArm, StopResets
  <1>14. CASE DevMoves \/ DevStalls
    BY <1>14 DEF DevMoves, DevStalls, nodeVars, armVars
  <1>15. CASE UNCHANGED vars
    BY <1>15 DEF vars, nodeVars, armVars
  <1>16. QED
    BY NextCases, <1>1, <1>2, <1>3, <1>4, <1>5, <1>6, <1>7, <1>8, <1>9,
       <1>10, <1>11, <1>12, <1>13, <1>14, <1>15

\* Every write leaves a register of the gripper with a value of its type.
LEMMA DevStep ==
  ASSUME TypeOK, [Next]_vars PROVE DevOK'
  <1> USE DEF TypeOK, NumbersOK, DevOK, Pos
  <1>1. CASE UNCHANGED dev
    BY <1>1
  <1>2. CASE \E done, ack \in BOOLEAN : WritePos(done, ack)
    BY <1>2 DEF WritePos, Outcome
  <1>3. CASE \E done, ack \in BOOLEAN : WriteGo(done, ack)
    BY <1>3 DEF WriteGo
  <1>4. CASE \E done \in BOOLEAN : StopWrite(done)
    BY <1>4 DEF StopWrite, Outcome
  <1>5. CASE DevMoves
    <2>1. dev.pos \in 0..Full /\ dev.reg \in 0..Full /\ dev.pos # dev.reg
      BY <1>5 DEF DevMoves
    <2>2. (IF dev.pos < dev.reg THEN dev.pos + 1 ELSE dev.pos - 1) \in 0..Full
      BY <2>1
    <2>3. QED
      BY <1>5, <2>2 DEF DevMoves
  <1>6. CASE DevStalls
    BY <1>6 DEF DevStalls
  <1>7. QED
    BY NextCases, <1>1, <1>2, <1>3, <1>4, <1>5, <1>6
       DEF SetTarget, TickControl, TakePending, SkipFeedback, WriteSpeed,
           ReadFeedback, StopArm, Idle, vars

LEMMA TypeStep ==
  ASSUME TypeOK, [Next]_vars PROVE TypeOK'
  BY FlagsStep, PlacesStep, NumbersStep, DevStep DEF TypeOK

\* Every variable keeps its type (all of RobotiqGripperArm's members).
THEOREM RobotiqTypes == Spec => []TypeOK
  <1>1. TypeOK /\ [Next]_vars => TypeOK'
    BY TypeStep
  <1>2. QED
    BY TypeInit, <1>1, PTL DEF Spec

----------------------------------------------------------------------------
(* Nothing is forgotten.  In the middle of write_pending the position it   *)
(* took is still the target, since commands wait for the timer callback.   *)

SentInv ==
  /\ CleanMeansSent
  /\ tick \in Writing => reg = target

LEMMA SentStep ==
  ASSUME TypeOK, SentInv, [Next]_vars PROVE SentInv'
  <1> USE DEF SentInv, CleanMeansSent, Writing
  <1>1. CASE \E p \in Pos : SetTarget(p)
    BY <1>1 DEF SetTarget, Commandable, nodeVars
  <1>2. CASE TickBegins /\ Idle
    BY <1>2 DEF TickBegins, Idle, armVars
  <1>3. CASE TickEntersArm /\ Idle
    BY <1>3 DEF TickEntersArm, Idle, armVars
  <1>4. CASE TickControl
    BY <1>4 DEF TickControl, TickGoes, Resend
  <1>5. CASE TakePending
    BY <1>5 DEF TakePending, TickGoes, AfterPos
  <1>6. CASE SkipFeedback
    BY <1>6 DEF SkipFeedback, TickGoes
  <1>7. CASE \E done, ack \in BOOLEAN : WritePos(done, ack)
    BY <1>7 DEF WritePos, TickGoes, AfterPos, PutBack, armVars
  <1>8. CASE \E done, ack \in BOOLEAN : WriteSpeed(done, ack)
    BY <1>8 DEF WriteSpeed, TickGoes, PutBack
  <1>9. CASE \E done, ack \in BOOLEAN : WriteGo(done, ack)
    BY <1>9 DEF WriteGo, TickGoes, PutBack
  <1>10. CASE \E ok \in BOOLEAN : ReadFeedback(ok)
    BY <1>10 DEF ReadFeedback, TickGoes
  <1>11. CASE (StopBegins \/ StopBridge \/ StopNode) /\ Idle
    BY <1>11 DEF StopBegins, StopBridge, StopNode, Idle, armVars
  <1>12. CASE \E done \in BOOLEAN : StopWrite(done)
    BY <1>12 DEF StopWrite, StopSent, armVars
  <1>13. CASE StopArm
    BY <1>13 DEF StopArm, StopResets
  <1>14. CASE DevMoves \/ DevStalls
    BY <1>14 DEF DevMoves, DevStalls, nodeVars, armVars
  <1>15. CASE UNCHANGED vars
    BY <1>15 DEF vars, nodeVars, armVars
  <1>16. QED
    BY NextCases, <1>1, <1>2, <1>3, <1>4, <1>5, <1>6, <1>7, <1>8, <1>9,
       <1>10, <1>11, <1>12, <1>13, <1>14, <1>15

\* A target that is not dirty was sent (write_pending, its failures included).
THEOREM NothingForgotten == Spec => []CleanMeansSent
  <1>1. Init => SentInv
    BY DEF Init, NodeInit, Opened, NotOpened, SentInv, CleanMeansSent, Writing
  <1>2. TypeOK /\ SentInv /\ [Next]_vars => SentInv'
    BY SentStep
  <1>3. SentInv => CleanMeansSent
    BY DEF SentInv
  <1>4. QED
    BY RobotiqTypes, <1>1, <1>2, <1>3, PTL DEF Spec

----------------------------------------------------------------------------
(* After the emergency stop.  What holds the timer back is the arm's own   *)
(* flag: the other two may have been passed already.                       *)

StopInv ==
  /\ started <=> stop \in {"run", "frame", "reset"}
  /\ bridge <=> stop \notin {"node", "off"}

LEMMA StopStep ==
  ASSUME TypeOK, StopInv, [Next]_vars PROVE StopInv'
  <1> USE DEF StopInv, TickGoes
  <1>1. CASE UNCHANGED <<bridge, started, stop>>
    BY <1>1
  <1>2. CASE (StopBegins \/ StopBridge \/ StopNode) /\ Idle
    BY <1>2 DEF StopBegins, StopBridge, StopNode
  <1>3. CASE \E done \in BOOLEAN : StopWrite(done)
    BY <1>3 DEF StopWrite, StopSent
  <1>4. CASE StopArm
    BY <1>4 DEF StopArm, StopResets
  <1>5. QED
    BY NextCases, <1>1, <1>2, <1>3, <1>4
       DEF SetTarget, TickBegins, TickEntersArm, TickControl, TakePending,
           SkipFeedback, WritePos, WriteSpeed, WriteGo, ReadFeedback, DevMoves,
           DevStalls, nodeVars, vars

LEMMA NoWriteStep ==
  ASSUME TypeOK, StopInv, [Next]_vars, stop = "off",
         tick' \in {"take"} \cup Writing
  PROVE  tick \in {"take"} \cup Writing
  <1> USE DEF Writing
  <1>1. ~started
    BY DEF StopInv
  <1>2. CASE UNCHANGED tick
    BY <1>2
  <1>3. CASE TickControl
    BY <1>1, <1>3 DEF TickControl, TickGoes
  <1>4. CASE TickEntersArm
    BY <1>4 DEF TickEntersArm
  <1>5. CASE tick \in {"take"} \cup Writing \/ tick' \in {"idle", "bridge"}
    BY <1>5
  <1>6. QED
    BY NextCases, <1>2, <1>3, <1>4, <1>5
       DEF SetTarget, TickBegins, TickGoes, TakePending,
           SkipFeedback, WritePos, WriteSpeed, WriteGo, ReadFeedback, DevMoves,
           DevStalls, StopBegins, StopBridge, StopNode, StopWrite, StopSent,
           StopArm, StopResets, nodeVars, vars

\* Once handle_emergency_stop has returned, no write is begun.
THEOREM StopIsFinal == Spec => NoWriteBeginsAfterStop
  <1>1. Init => StopInv
    BY DEF Init, NodeInit, StopInv
  <1>2. TypeOK /\ StopInv /\ [Next]_vars => StopInv'
    BY StopStep
  <1>3. TypeOK /\ StopInv /\ [Next]_vars
          => [stop = "off" /\ tick' \in {"take"} \cup Writing
                => tick \in {"take"} \cup Writing]_vars
    BY NoWriteStep
  <1>4. QED
    BY RobotiqTypes, <1>1, <1>2, <1>3, PTL DEF Spec, NoWriteBeginsAfterStop
=============================================================================
