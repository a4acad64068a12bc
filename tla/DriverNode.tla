----------------------------- MODULE DriverNode -----------------------------
(***************************************************************************)
(* DriverNode: two command paths per arm (the relative teleop topic and    *)
(* the absolute one) that share one controller, the services that stop,    *)
(* hold and switch it, and the timer that holds an arm whose stream went   *)
(* silent.  Joint subscriptions, services and that timer are in one        *)
(* mutually exclusive callback group, so a handler is one step, except the *)
(* timer callback: its four checks are four steps with no other handler    *)
(* between them.                                                           *)
(***************************************************************************)
EXTENDS DriverCore

CONSTANTS
  Timeout,     \* command_timeout_s, in clock ticks
  Lo, Hi,      \* joint limits
  MaxDelta,    \* max_delta_per_cycle
  Frame,       \* what a joint command can map to; may lie beyond the limits
  Streamed     \* the arms that are sent joint commands

ASSUME NodeAssumption ==
  /\ Timeout \in Nat
  /\ Lo \in Int /\ Hi \in Int /\ Lo <= Hi
  /\ MaxDelta \in Nat \ {0}
  /\ Frame \subseteq Int
  /\ Streamed \subseteq Arm

Path == {"rel", "abs"}
Other(p) == IF p = "rel" THEN "abs" ELSE "rel"

VARIABLES
  sess,     \* sess[a][p]: the command session of path p on arm a
  check,    \* the timer callback's next check, 0 when it is not running
  stopped   \* history: the last accepted request was to stop (or to idle)

vars == <<coreVars, sess, check, stopped>>

\* streaming, last_command (and gento_ref, set and reset with it on the
\* relative path) and how long ago last_command_time was.  The stamp of a path
\* that is not streaming is never read; its age stays 0.
NoSession == [streaming |-> FALSE, last |-> None, age |-> 0]
NoSessions == [a \in Arm |-> [p \in Path |-> NoSession]]

Init == CoreInit /\ sess = NoSessions /\ check = 0 /\ stopped = FALSE

Clamp(x) == IF x < Lo THEN Lo ELSE IF x > Hi THEN Hi ELSE x

\* Mutant of LimitDelta: only upward steps are limited.
LimitDeltaUpward(x, previous) ==
  IF x - previous > MaxDelta THEN previous + MaxDelta ELSE x

LimitDelta(x, previous) ==
  IF x - previous > MaxDelta THEN previous + MaxDelta
  ELSE IF previous - x > MaxDelta THEN previous - MaxDelta
  ELSE x

Expired(a, p) == sess[a][p].streaming /\ sess[a][p].age > Timeout

PathActive(a, p) == sess[a][p].streaming /\ sess[a][p].age <= Timeout

\* The control callback group is free to start a handler.
GroupFree == linked /\ check = 0

Reach(a) == IF a = "left" THEN ReachLeft ELSE ReachRight

\* What the slew limit starts from: the session's last command, or the clamped
\* measured pose when the path was not streaming.
Seeds(a, p) ==
  IF sess[a][p].streaming THEN {sess[a][p].last} ELSE {Clamp(x) : x \in Reach(a)}

----------------------------------------------------------------------------
(* The three ways a frame with seven positions ends, for either path.      *)

\* A non-finite position: the frame is dropped and streaming ends.
DropFrame(a, p, seed) ==
  /\ sess' = [sess EXCEPT ![a][p] = [streaming |-> FALSE, last |-> seed, age |-> 0]]
  /\ UNCHANGED coreVars

\* send_position refuses: nothing but the seeding remains of the frame.
RefuseFrame(a, p, seed) ==
  /\ SendPosition(a, seed, FALSE)
  /\ sess' = [sess EXCEPT ![a][p] =
                 [streaming |-> @.streaming, last |-> seed, age |-> @.age]]

\* Mutant of ApplyFrame: no clamp before or after the slew limit.
ApplyFrameUnclamped(a, p, seed) ==
  \E x \in Frame :
    LET q == LimitDelta(x, seed) IN
    /\ SendPosition(a, q, TRUE)
    /\ sess' = [sess EXCEPT
                  ![a][p] = [streaming |-> TRUE, last |-> q, age |-> 0],
                  ![a][Other(p)] = IF @.streaming THEN NoSession ELSE @]

\* Mutant of ApplyFrame: a takeover leaves the other path's session streaming.
ApplyFrameKeepsOther(a, p, seed) ==
  \E x \in Frame :
    LET q == Clamp(LimitDelta(Clamp(x), seed)) IN
    /\ SendPosition(a, q, TRUE)
    /\ sess' = [sess EXCEPT ![a][p] = [streaming |-> TRUE, last |-> q, age |-> 0]]

\* The controller takes the frame; this path's session goes on from it and the
\* other path's ends.
ApplyFrame(a, p, seed) ==
  \E x \in Frame :
    LET q == Clamp(LimitDelta(Clamp(x), seed)) IN
    /\ SendPosition(a, q, TRUE)
    /\ sess' = [sess EXCEPT
                  ![a][p] = [streaming |-> TRUE, last |-> q, age |-> 0],
                  ![a][Other(p)] = IF @.streaming THEN NoSession ELSE @]

HandleFrame(a, p) ==
  \E seed \in Seeds(a, p) :
    DropFrame(a, p, seed) \/ RefuseFrame(a, p, seed) \/ ApplyFrame(a, p, seed)

\* Mutant of HandleCommand: relative frames do not yield to the absolute path.
HandleCommandNoYield(a) ==
  /\ GroupFree
  /\ HandleFrame(a, "rel")
  /\ UNCHANGED <<check, stopped>>

\* A relative frame is ignored while the absolute path is active.
HandleCommand(a) ==
  /\ GroupFree
  /\ ~PathActive(a, "abs")
  /\ HandleFrame(a, "rel")
  /\ UNCHANGED <<check, stopped>>

HandleAbsoluteCommand(a) ==
  /\ GroupFree
  /\ HandleFrame(a, "abs")
  /\ UNCHANGED <<check, stopped>>

----------------------------------------------------------------------------
(* The services.                                                           *)

\* Mutant of HandleSetMode: last_command_ is reset, the streaming flag is not.
HandleSetModeKeepsStreaming(m) ==
  /\ GroupFree
  /\ \E ok \in BOOLEAN :
       /\ SwitchControlMode(m, ok)
       /\ sess' = IF ok THEN [a \in Arm |-> [sess[a] EXCEPT !["rel"].last = None]]
                  ELSE sess
       /\ stopped' = IF ok THEN m = Idle ELSE stopped
  /\ UNCHANGED check

\* A refused switch answers the client and leaves the sessions as they are.
HandleSetMode(m) ==
  /\ GroupFree
  /\ \E ok \in BOOLEAN :
       /\ SwitchControlMode(m, ok)
       /\ sess' = IF ok THEN NoSessions ELSE sess
       /\ stopped' = IF ok THEN m = Idle ELSE stopped
  /\ UNCHANGED check

\* Mutant of HandleHoldCurrent: the sessions survive a hold.
HandleHoldCurrentKeepsSessions ==
  /\ GroupFree
  /\ \E ok \in BOOLEAN : HoldCurrent(Arm, ok)
  /\ UNCHANGED <<sess, check, stopped>>

HandleHoldCurrent ==
  /\ GroupFree
  /\ \E ok \in BOOLEAN :
       /\ HoldCurrent(Arm, ok)
       /\ sess' = IF ok THEN NoSessions ELSE sess
  /\ UNCHANGED <<check, stopped>>

HandleStopMotion ==
  /\ GroupFree
  /\ StopMotion
  /\ sess' = NoSessions
  /\ stopped' = TRUE
  /\ UNCHANGED check

HandleEmergencyStop ==
  /\ GroupFree
  /\ \E ok \in BOOLEAN : EmergencyStop(ok)
  /\ sess' = NoSessions
  /\ stopped' = TRUE
  /\ UNCHANGED check

HandleSetMotionRates(r) ==
  /\ GroupFree
  /\ SetSpeedRates(r)
  /\ UNCHANGED <<sess, check, stopped>>

----------------------------------------------------------------------------
(* The 50 ms timer.  Its four checks use the stamp taken when it starts,   *)
(* so the clock does not advance while it runs.                            *)

TurnArm(k)  == IF k \in {1, 3} THEN "left" ELSE "right"
TurnPath(k) == IF k \in {1, 2} THEN "rel" ELSE "abs"

StartCheck == GroupFree /\ check' = 1 /\ UNCHANGED <<coreVars, sess, stopped>>

\* Mutant of MaybeHold: a refused hold returns early, for the next check to retry.
MaybeHoldRetries(a, p) ==
  IF ~Expired(a, p) THEN UNCHANGED <<coreVars, sess>>
  ELSE \E ok \in BOOLEAN :
         /\ HoldCurrent({a}, ok)
         /\ sess' = IF ok THEN [sess EXCEPT ![a][p] = NoSession] ELSE sess

\* maybe_hold: an expired session ends, and unless the other path now owns the
\* arm the arm is told to hold; a refused hold ends the session all the same.
MaybeHold(a, p) ==
  IF ~Expired(a, p) THEN UNCHANGED <<coreVars, sess>>
  ELSE /\ IF PathActive(a, Other(p)) THEN UNCHANGED coreVars
          ELSE \E ok \in BOOLEAN : HoldCurrent({a}, ok)
       /\ sess' = [sess EXCEPT ![a][p] = NoSession]

CheckCommandTimeout ==
  /\ linked /\ check # 0
  /\ MaybeHold(TurnArm(check), TurnPath(check))
  /\ check' = (check + 1) % 5
  /\ UNCHANGED stopped

----------------------------------------------------------------------------
(* The node's life, and time.                                              *)

\* A process that starts, with the profile's mode and ratios.
Start(m, r) ==
  /\ ConnectAndEnable(m, r) \/ ConnectFails(m, r)
  /\ UNCHANGED <<sess, check, stopped>>

\* The destructor, after the executor has returned.
Stop ==
  /\ GroupFree
  /\ Shutdown
  /\ sess' = NoSessions /\ stopped' = FALSE
  /\ UNCHANGED check

\* The process dies: the controller stays as it is.
Crash ==
  /\ linked
  /\ linked' = FALSE /\ mode' = Idle /\ ready' = FALSE
  /\ sess' = NoSessions /\ check' = 0 /\ stopped' = FALSE
  /\ UNCHANGED <<config, arm, rate, target>>

\* One tick of the clock, counted up to just past the timeout.
Aged(s) ==
  IF s.streaming /\ s.age <= Timeout
  THEN [streaming |-> TRUE, last |-> s.last, age |-> s.age + 1] ELSE s

Tick ==
  /\ check = 0
  /\ sess' = [a \in Arm |-> [p \in Path |-> Aged(sess[a][p])]]
  /\ UNCHANGED <<coreVars, check, stopped>>

Next ==
  \/ \E a \in Streamed : HandleCommand(a) \/ HandleAbsoluteCommand(a)
  \/ \E m \in Mode : HandleSetMode(m)
  \/ HandleHoldCurrent
  \/ HandleStopMotion
  \/ HandleEmergencyStop
  \/ \E r \in [Arm -> Rate] : HandleSetMotionRates(r)
  \/ StartCheck
  \/ CheckCommandTimeout
  \/ \E m \in Mode, r \in [Arm -> Rate] : Start(m, r)
  \/ Stop
  \/ Crash
  \/ Tick

\* The executor serves a ready timer before the subscriptions and services.
Fairness == WF_vars(StartCheck) /\ WF_vars(CheckCommandTimeout)

Spec == Init /\ [][Next]_vars /\ Fairness
=============================================================================
