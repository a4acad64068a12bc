--------------------------- MODULE RobotiqGripper ---------------------------
(***************************************************************************)
(* RobotiqGripperArm: a Hand-E gripper behind Modbus registers.  The timer *)
(* writes position, speed and an action word that starts the motion, each  *)
(* a transaction that can be lost or answered too late, and reads the      *)
(* position rarely.  Small steps are coalesced, and a held target that the *)
(* feedback does not follow is asserted again.  Positions are counts, 0    *)
(* open; the scaling of norms and millimetres to counts is left out.  The  *)
(* gripper itself is external.                                             *)
(***************************************************************************)
EXTENDS GripperNode

CONSTANTS
  Full,            \* the largest position (255)
  CloseLimit,      \* close_limit, in counts
  MinDelta,        \* kMinPosDeltaCounts
  ResendGap,       \* kResendGapNorm, in counts
  ResendEvery,     \* kResendEveryTicks
  FeedbackEvery,   \* kFeedbackEveryTicks
  LineFails        \* whether Modbus transactions may fail

ASSUME RobotiqAssumption ==
  /\ Full \in Nat \ {0}
  /\ CloseLimit \in 1..Full
  /\ MinDelta \in Nat /\ ResendGap \in Nat
  /\ ResendEvery \in Nat \ {0, 1} /\ FeedbackEvery \in Nat \ {0}
  /\ LineFails \in BOOLEAN

Pos == 0..Full

VARIABLES
  target, dirty, force,   \* target_, dirty_, force_reassert_
  last,                   \* last_sent_reg_pos_, -1 when nothing was sent
  speedSent,              \* speed_force_sent_
  lag, fbTicks,           \* hold_lag_ticks_; feedback_ticks_ % FeedbackEvery
  wrote,                  \* wrote_control_this_tick_
  fb,                     \* the position in fb_ (valid from start() on)
  reg, reassert,          \* write_pending's reg_pos and force_reassert
  stray,                  \* an acknowledgement that missed its deadline
  dev                     \* the gripper: its registers, position and state

armVars == <<target, dirty, force, last, speedSent, lag, fbTicks, wrote, fb>>
vars == <<nodeVars, armVars, reg, reassert, stray, dev>>

Dist(a, b) == IF a < b THEN b - a ELSE a - b

\* start() opens the gripper and reads where it is.  Either the whole command
\* got through, and tick_control has run once, or some write of it failed and
\* the target is still to be written.
Opened ==
  /\ dirty = FALSE /\ last = 0 /\ speedSent = TRUE
  /\ dev.reg = 0 /\ dev.go
  /\ lag = 0 \/ (lag = 1 /\ Dist(fb, target) > ResendGap)

NotOpened ==
  /\ LineFails
  /\ dirty = TRUE /\ last = -1 /\ speedSent \in BOOLEAN
  /\ lag = 0

Init ==
  /\ NodeInit
  /\ target = 0 /\ force = FALSE /\ fbTicks = 0 /\ wrote = FALSE
  /\ reg = 0 /\ reassert = FALSE /\ stray = FALSE
  /\ dev \in [reg : Pos, go : BOOLEAN, pos : Pos, stalled : {FALSE}]
  /\ fb = dev.pos \/ (fb = 0 /\ LineFails)
  /\ Opened \/ NotOpened

----------------------------------------------------------------------------
\* A Modbus write that the device carries out or not, and that is answered in
\* time or not.  terminal_clear drops what had arrived before; but any answer
\* to any write passes for the answer, so one that arrives now, late or meant
\* for the emergency stop's write, acknowledges a write that was lost.
Transaction(done, ack) ==
  /\ ack => done \/ stray \/ stop = "frame"
  /\ ~(done /\ ack) => LineFails
  /\ stray' \in BOOLEAN
  /\ stray' => done /\ (ack => stray \/ stop = "frame")

Outcome(done, register, value) ==
  dev' = IF done THEN [dev EXCEPT ![register] = value] ELSE dev

\* write_pending gives up: what it took is put back for the next tick.
PutBack ==
  /\ dirty' = TRUE
  /\ force' = reassert
  /\ UNCHANGED <<target, last, speedSent, lag, fbTicks, wrote, fb>>

----------------------------------------------------------------------------
\* Mutant of SetTarget: close_limit is not applied.
SetTargetUnlimited(p) ==
  /\ Commandable
  /\ target' = p
  /\ dirty' = (dirty \/ target' # target)
  /\ UNCHANGED <<nodeVars, force, last, speedSent, lag, fbTicks, wrote, fb,
                 reg, reassert, stray, dev>>

\* set_target
SetTarget(p) ==
  /\ Commandable
  /\ target' = IF p > CloseLimit THEN CloseLimit ELSE p
  /\ dirty' = (dirty \/ target' # target)
  /\ UNCHANGED <<nodeVars, force, last, speedSent, lag, fbTicks, wrote, fb,
                 reg, reassert, stray, dev>>

\* tick_control: a clean target that the feedback does not follow is asserted
\* anew every ResendEvery ticks.
Lagging == Dist(fb, target) > ResendGap

\* Mutant of Resend: one tick later.
ResendLate == ~dirty /\ Lagging /\ lag + 1 > ResendEvery

Resend == ~dirty /\ Lagging /\ lag + 1 >= ResendEvery

TickControl ==
  /\ wrote' = FALSE
  /\ \/ /\ ~started
        /\ TickGoes("arm", "feedback")
        /\ UNCHANGED <<dirty, force, lag>>
     \/ /\ started
        /\ TickGoes("arm", IF dirty \/ Resend THEN "take" ELSE "feedback")
        /\ dirty' = (dirty \/ Resend)
        /\ force' = (force \/ Resend)
        /\ lag' = IF ~dirty /\ Lagging /\ ~Resend THEN lag + 1 ELSE 0
  /\ UNCHANGED <<target, last, speedSent, fbTicks, fb, reg, reassert, stray, dev>>

\* Mutant of Coalesced: a re-asserted position is coalesced too.
CoalescedAlways(r, forced) ==
  last >= 0 /\ r \notin {0, Full, CloseLimit} /\ Dist(r, last) < MinDelta

Coalesced(r, forced) ==
  /\ ~forced /\ last >= 0
  /\ r \notin {0, Full, CloseLimit}
  /\ Dist(r, last) < MinDelta

AfterPos == IF speedSent THEN "go" ELSE "speed"

\* write_pending, up to its first write
TakePending ==
  /\ TickGoes("take", IF Coalesced(target, force) THEN AfterPos ELSE "pos")
  /\ reg' = target /\ reassert' = force
  /\ dirty' = FALSE /\ force' = FALSE
  /\ UNCHANGED <<target, last, speedSent, lag, fbTicks, wrote, fb, stray, dev>>

WritePos(done, ack) ==
  /\ TickGoes("pos", IF ack THEN AfterPos ELSE "feedback")
  /\ Transaction(done, ack)
  /\ Outcome(done, "reg", reg)
  /\ IF ack THEN UNCHANGED armVars ELSE PutBack
  /\ UNCHANGED <<reg, reassert>>

\* The speed register is not modelled.
WriteSpeed(done, ack) ==
  /\ TickGoes("speed", IF ack THEN "go" ELSE "feedback")
  /\ Transaction(done, ack)
  /\ IF ack
     THEN /\ speedSent' = TRUE
          /\ UNCHANGED <<target, dirty, force, last, lag, fbTicks, wrote, fb>>
     ELSE PutBack
  /\ UNCHANGED <<reg, reassert, dev>>

\* Mutant of WriteGo: a motion command that is not answered is not repeated.
WriteGoOnce(done, ack) ==
  /\ TickGoes("go", "feedback")
  /\ Transaction(done, ack)
  /\ dev' = IF done THEN [dev EXCEPT !.go = TRUE, !.stalled = FALSE] ELSE dev
  /\ wrote' = ack
  /\ last' = IF ack THEN reg ELSE last
  /\ UNCHANGED <<target, dirty, force, speedSent, lag, fbTicks, fb, reg, reassert>>

\* The action word with rGTO set; the gripper tries again if it was stalled.
WriteGo(done, ack) ==
  /\ TickGoes("go", "feedback")
  /\ Transaction(done, ack)
  /\ dev' = IF done THEN [dev EXCEPT !.go = TRUE, !.stalled = FALSE] ELSE dev
  /\ IF ack
     THEN /\ last' = reg /\ wrote' = TRUE
          /\ UNCHANGED <<target, dirty, force, speedSent, lag, fbTicks, fb>>
     ELSE PutBack
  /\ UNCHANGED <<reg, reassert>>

\* tick_feedback: every FeedbackEvery ticks that wrote nothing.
FeedbackDue == bridge /\ started /\ ~wrote

SkipFeedback ==
  /\ TickGoes("feedback", "idle")
  /\ FeedbackDue => fbTicks + 1 < FeedbackEvery
  /\ fbTicks' = IF FeedbackDue THEN fbTicks + 1 ELSE fbTicks
  /\ UNCHANGED <<target, dirty, force, last, speedSent, lag, wrote, fb,
                 reg, reassert, stray, dev>>

\* read_opening_mm: a read that fails is taken for a fully open gripper.
ReadFeedback(ok) ==
  /\ TickGoes("feedback", "idle")
  /\ FeedbackDue /\ fbTicks + 1 = FeedbackEvery
  /\ ok \/ LineFails
  /\ fbTicks' = 0
  /\ fb' = IF ok THEN dev.pos ELSE 0
  /\ stray' = FALSE
  /\ UNCHANGED <<target, dirty, force, last, speedSent, lag, wrote,
                 reg, reassert, dev>>

----------------------------------------------------------------------------
\* RobotiqGripperArm::stop: rGTO is cleared, answered or not.
StopWrite(done) ==
  /\ StopSent
  /\ done \/ LineFails
  /\ Outcome(done, "go", FALSE)
  /\ stray' \in BOOLEAN /\ (stray' => done)
  /\ UNCHANGED <<armVars, reg, reassert>>

StopArm ==
  /\ StopResets
  /\ speedSent' = FALSE /\ last' = -1 /\ force' = FALSE
  /\ lag' = 0 /\ wrote' = FALSE
  /\ UNCHANGED <<target, dirty, fbTicks, fb, reg, reassert, stray, dev>>

----------------------------------------------------------------------------
\* The gripper moves a count towards the requested position, unless it has
\* stopped on an object; it may meet one wherever it is moving.
DevMoves ==
  /\ dev.go /\ ~dev.stalled /\ dev.pos # dev.reg
  /\ dev' = [dev EXCEPT !.pos = IF @ < dev.reg THEN @ + 1 ELSE @ - 1]
  /\ UNCHANGED <<nodeVars, armVars, reg, reassert, stray>>

DevStalls ==
  /\ dev.go /\ ~dev.stalled /\ dev.pos < dev.reg
  /\ dev' = [dev EXCEPT !.stalled = TRUE]
  /\ UNCHANGED <<nodeVars, armVars, reg, reassert, stray>>

----------------------------------------------------------------------------
Idle == UNCHANGED <<armVars, reg, reassert, stray, dev>>

\* The gripper timer, which goes on by itself.
Timer ==
  \/ (TickBegins \/ TickEntersArm) /\ Idle
  \/ TickControl \/ TakePending \/ SkipFeedback
  \/ \E done, ack \in BOOLEAN :
       WritePos(done, ack) \/ WriteSpeed(done, ack) \/ WriteGo(done, ack)
  \/ \E ok \in BOOLEAN : ReadFeedback(ok)

EmergencyStop ==
  \/ (StopBegins \/ StopBridge \/ StopNode) /\ Idle
  \/ \E done \in BOOLEAN : StopWrite(done)
  \/ StopArm

Next ==
  \/ \E p \in Pos : SetTarget(p)
  \/ Timer
  \/ EmergencyStop
  \/ DevMoves
  \/ DevStalls

Spec == Init /\ [][Next]_vars

\* The timer keeps firing; a transaction tried again and again succeeds now
\* and then; an object does not block the gripper for ever.
Fairness ==
  /\ WF_vars(Timer)
  /\ SF_vars(WritePos(TRUE, TRUE)) /\ SF_vars(WriteSpeed(TRUE, TRUE))
  /\ SF_vars(WriteGo(TRUE, TRUE)) /\ SF_vars(ReadFeedback(TRUE))
  /\ SF_vars(DevMoves)

FairSpec == Spec /\ Fairness
=============================================================================
