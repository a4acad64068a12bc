----------------------------- MODULE UiDispatch -----------------------------
(***************************************************************************)
(* Commands of the operator page on their way to ROS.  post_command runs   *)
(* in worker threads; it checks the command against the mailbox, then      *)
(* RosBridge.dispatch sends it under a lock that is tried, never awaited.  *)
(* The stop of a session and the thread on_degraded starts go through the  *)
(* same dispatch.  ROS callbacks write the mailbox from a thread of their  *)
(* own.  The session is reduced to the states commands tell apart.         *)
(***************************************************************************)
EXTENDS UiCommands, Naturals, Sequences

CONSTANTS
  Modes,         \* the modes operators start sessions in
  Workers,       \* threads that serve POST /api/command
  Ops,           \* the commands operators give
  Published,     \* what is published on /teleop/state, on /align/status and on
                 \* /skye/control_mode, by the field of the mailbox
  MaxQueue       \* bound: requests waiting at a recorder's service

Topics == {"teleop", "align", "hitl"}
ASSUME DispatchAssumption ==
  /\ Topics \subseteq DOMAIN Published
  /\ Modes \subseteq {Teleop, Dagger} /\ Ops \subseteq AllowedOps
  /\ Workers \cap {"degrade", "stop"} = {}
  /\ None \notin Workers \cup {"degrade", "stop"} \cup AllowedOps

Caller == Workers \cup {"degrade", "stop"}
Service == {Teleop, Dagger} \X RecorderOps

VARIABLES
  session, mode,  \* SessionLogic, as far as commands depend on it
  uiMode,         \* RosBridge._ui_mode
  mail,           \* the mailbox and _recording_active
  gate,           \* LeaderArmGate
  lock,           \* the caller that holds _dispatch_lock
  call,           \* what each caller is doing, with which command
  recording,      \* the modes whose recorder node has a writer
  queue,          \* who waits for an answer of each of the recorders' services;
                  \* None has given up
  overtaken,      \* history: a request that was given up was served between a
                  \* success and the poll that sees it
  fresh           \* history: the fields of the mailbox that have been written
                  \* since the last session ended

bridge == <<uiMode, mail, gate, fresh>>
recorder == <<recording, queue, overtaken>>
vars == <<session, mode, bridge, lock, call, recorder>>

Idle == [pc |-> "idle", op |-> None]
Empty == [s \in Service |-> <<>>]

Init ==
  /\ session = "IDLE" /\ mode = None
  /\ uiMode = None /\ mail = Cleared /\ gate = NoGate
  /\ lock = None /\ call = [c \in Caller |-> Idle]
  /\ recording = {} /\ queue = Empty /\ overtaken = FALSE
  /\ fresh = {}

\* Where a caller goes when dispatch returns.
After(c) == IF c = "stop" THEN [pc |-> "leave", op |-> None] ELSE Idle
Returns(c) == call' = [call EXCEPT ![c] = After(c)]
Release(c) == lock' = None /\ Returns(c)

--------------------------------------------------------------------------
(* post_command *)

Post(w, op) ==
  /\ call[w] = Idle
  /\ CommandAllowed(op, session, mode, mail, gate)
  /\ call' = [call EXCEPT ![w] = [pc |-> "checked", op |-> op]]
  /\ UNCHANGED <<session, mode, bridge, lock, recorder>>

\* dispatch() of the command that c has chosen, up to the first wait.
Busy(c) ==
  /\ call[c].pc = "checked" /\ lock # None
  /\ Returns(c)
  /\ UNCHANGED <<session, mode, bridge, lock, recorder>>

NoPlan(c) ==
  /\ call[c].pc = "checked" /\ lock = None
  /\ Kind(call[c].op, uiMode) \in {"none", "string"}
  /\ Kind(call[c].op, uiMode) = "string" =>
       call[c].op = "align_start" /\ AlignPayload(gate) = None
  /\ Returns(c)
  /\ UNCHANGED <<session, mode, bridge, lock, recorder>>

Publish(c) ==
  /\ call[c].pc = "checked" /\ lock = None
  /\ Kind(call[c].op, uiMode) = "string"
  /\ call[c].op = "align_start" => AlignPayload(gate) # None
  /\ gate' = [gate EXCEPT !.locked = @ \/ call[c].op = "switch_sync"]
  /\ Returns(c)
  /\ UNCHANGED <<session, mode, uiMode, mail, fresh, lock, recorder>>

RunScript(c) ==
  /\ call[c].pc = "checked" /\ lock = None
  /\ Kind(call[c].op, uiMode) = "script"
  /\ lock' = c
  /\ call' = [call EXCEPT ![c].pc = "script"]
  /\ UNCHANGED <<session, mode, bridge, recorder>>

Request(c, service) ==
  /\ Len(queue[service]) < MaxQueue
  /\ queue' = [queue EXCEPT ![service] = Append(@, c)]

\* Mutant of CallTrigger: the lock is not asked for.
CallTriggerUnlocked(c) ==
  /\ call[c].pc = "checked"
  /\ Kind(call[c].op, uiMode) = "trigger"
  /\ lock' = c
  /\ call' = [call EXCEPT ![c].pc = "trigger"]
  /\ IF call[c].op \in RecorderOps THEN Request(c, <<uiMode, call[c].op>>) ELSE UNCHANGED queue
  /\ UNCHANGED <<session, mode, bridge, recording, overtaken>>

\* _call_trigger; a service that is not there fails like one that never answers.
CallTrigger(c) ==
  /\ call[c].pc = "checked" /\ lock = None
  /\ Kind(call[c].op, uiMode) = "trigger"
  /\ lock' = c
  /\ call' = [call EXCEPT ![c].pc = "trigger"]
  /\ IF call[c].op \in RecorderOps THEN Request(c, <<uiMode, call[c].op>>) ELSE UNCHANGED queue
  /\ UNCHANGED <<session, mode, bridge, recording, overtaken>>

Dispatch(c) == Busy(c) \/ NoPlan(c) \/ Publish(c) \/ RunScript(c) \/ CallTrigger(c)

--------------------------------------------------------------------------
(* The waits inside dispatch() *)

\* Mutant of ScriptEnds: the gate is looked at by command_allowed alone.
ScriptEndsUnchecked(c) ==
  /\ call[c].pc = "script"
  /\ \E ok \in BOOLEAN :
       gate' = IF ~ok THEN gate
               ELSE [gate EXCEPT
                      !.left = IF call[c].op \in {"leader_left_on", "leader_left_off"}
                               THEN call[c].op = "leader_left_on" ELSE @,
                      !.right = IF call[c].op \in {"leader_right_on", "leader_right_off"}
                                THEN call[c].op = "leader_right_on" ELSE @]
  /\ Release(c)
  /\ UNCHANGED <<session, mode, uiMode, mail, fresh, recorder>>

\* Mutant of ScriptEnds: the lock is released by a success only.
ScriptEndsHolding(c) ==
  /\ call[c].pc = "script"
  /\ \/ UNCHANGED <<gate, lock>> /\ Returns(c)
     \/ /\ ~gate.locked
        /\ gate' = [gate EXCEPT
             !.left = IF call[c].op \in {"leader_left_on", "leader_left_off"}
                      THEN call[c].op = "leader_left_on" ELSE @]
        /\ Release(c)
  /\ UNCHANGED <<session, mode, uiMode, mail, fresh, recorder>>

\* The script has run, failed or timed out; set_enabled refuses a locked gate.
ScriptEnds(c) ==
  /\ call[c].pc = "script"
  /\ \E ok \in BOOLEAN :
       gate' = IF ~ok \/ gate.locked THEN gate
               ELSE [gate EXCEPT
                      !.left = IF call[c].op \in {"leader_left_on", "leader_left_off"}
                               THEN call[c].op = "leader_left_on" ELSE @,
                      !.right = IF call[c].op \in {"leader_right_on", "leader_right_off"}
                                THEN call[c].op = "leader_right_on" ELSE @]
  /\ Release(c)
  /\ UNCHANGED <<session, mode, uiMode, mail, fresh, recorder>>

\* The driver's services do not change what is modelled here.
DriverAnswers(c) ==
  /\ call[c].pc = "trigger" /\ call[c].op \in DriverOps
  /\ Release(c)
  /\ UNCHANGED <<session, mode, bridge, recorder>>

\* The poll sees the answer, and a success sets _recording_active.
Answered(c) ==
  /\ call[c].pc \in {"success", "failure"}
  /\ IF call[c].pc = "success"
     THEN /\ mail' = [mail EXCEPT !.flag = (call[c].op = "recorder_start")]
          /\ fresh' = fresh \cup {"flag"}
     ELSE UNCHANGED <<mail, fresh>>
  /\ overtaken' = FALSE
  /\ Release(c)
  /\ UNCHANGED <<session, mode, uiMode, gate, recording, queue>>

\* future.cancel() drops the answer; the recorder still serves the request.
TimesOut(c) ==
  /\ call[c].pc = "trigger" /\ call[c].op \in RecorderOps
  /\ queue' = [s \in Service |-> [i \in DOMAIN queue[s] |->
                                   IF queue[s][i] = c THEN None ELSE queue[s][i]]]
  /\ Release(c)
  /\ UNCHANGED <<session, mode, bridge, recording, overtaken>>

--------------------------------------------------------------------------
(* The recorder nodes.  They differ in their topics and in the mode they     *)
(* belong to; each has one thread.                                         *)

\* _start: refused while there is a writer, and the writer may not open.
StartAnswers(m) == IF m \in recording THEN {FALSE} ELSE BOOLEAN

\* _stop: refused without a writer.
StopAnswers(m) == {m \in recording}

\* The recorder of mode m serves a request of op, of a caller or given up.
Answers(m, op, ok) ==
  LET by == Head(queue[<<m, op>>]) IN
  /\ queue' = [queue EXCEPT ![<<m, op>>] = Tail(@)]
  /\ call' = IF by = None THEN call
             ELSE [call EXCEPT ![by].pc = IF ok THEN "success" ELSE "failure"]
  /\ overtaken' = (overtaken \/ (by = None /\ m = uiMode
                                  /\ \E c \in Caller : call[c].pc = "success"))
  /\ UNCHANGED <<session, mode, bridge, lock>>

ServeStart(m) ==
  /\ queue[<<m, "recorder_start">>] # <<>>
  /\ \E ok \in StartAnswers(m) :
       /\ recording' = IF ok THEN recording \cup {m} ELSE recording
       /\ Answers(m, "recorder_start", ok)

ServeStop(m) ==
  /\ queue[<<m, "recorder_stop">>] # <<>>
  /\ \E ok \in StopAnswers(m) :
       /\ recording' = IF ok THEN recording \ {m} ELSE recording
       /\ Answers(m, "recorder_stop", ok)

Serve == \E m \in {Teleop, Dagger} : ServeStart(m) \/ ServeStop(m)

--------------------------------------------------------------------------
(* The mailbox.  The node subscribes for as long as it lives: whoever         *)
(* publishes, and whatever the session does, its callbacks write.            *)

Message(topic, value) ==
  /\ mail' = [mail EXCEPT ![topic] = value]
  /\ fresh' = fresh \cup {topic}
  /\ gate' = [gate EXCEPT !.locked = @ \/ (topic = "teleop" /\ value \in LockStates)]
  /\ UNCHANGED <<session, mode, uiMode, lock, call, recorder>>

--------------------------------------------------------------------------
(* The session around the commands *)

\* A Trigger call ends within 2.5 s, before the next session can be ready; a
\* script may take 15 s.
StartSession(m) ==
  /\ session = "IDLE"
  /\ \A c \in Caller : call[c].pc \in {"idle", "script"}
  /\ session' = "READY" /\ mode' = m /\ uiMode' = m
  /\ UNCHANGED <<mail, gate, fresh, lock, call, recorder>>

\* tick() finds the driver gone; on_degraded's thread is stop_recorder_if_active.
Degrade ==
  /\ session = "READY"
  /\ session' = "DEGRADED"
  /\ call' = [call EXCEPT !["degrade"] = [pc |-> "begin", op |-> None]]
  /\ UNCHANGED <<mode, bridge, lock, recorder>>

BeginStop ==
  /\ session \in {"READY", "DEGRADED"}
  /\ session' = "STOPPING"
  /\ call' = [call EXCEPT !["stop"] = [pc |-> "begin", op |-> None]]
  /\ UNCHANGED <<mode, bridge, lock, recorder>>

StopRecorderIfActive(c) ==
  /\ c \in {"degrade", "stop"} /\ call[c].pc = "begin"
  /\ call' = [call EXCEPT ![c] = IF mail.flag
                                 THEN [pc |-> "checked", op |-> "recorder_stop"] ELSE After(c)]
  /\ UNCHANGED <<session, mode, bridge, lock, recorder>>

\* The rest of on_before_stop: switch_stop, which a held lock refuses, then
\* set_session_mode(None) and the gate's reset.
ClearSession ==
  /\ call["stop"].pc = "leave"
  /\ uiMode' = None /\ mail' = Cleared /\ gate' = NoGate
  /\ call' = [call EXCEPT !["stop"].pc = "teardown"]
  /\ UNCHANGED <<session, mode, fresh, lock, recorder>>

\* Mutant of Teardown: the request does not clear the mailbox again.
TeardownOnce ==
  /\ call["stop"].pc = "teardown"
  /\ \A c \in Caller : call[c].pc \notin {"success", "failure"}
  /\ session' = "IDLE" /\ mode' = None /\ uiMode' = None /\ fresh' = {}
  /\ recording' = recording \ {Teleop}
  /\ queue' = [s \in Service |-> IF s[1] = Teleop THEN <<>> ELSE queue[s]]
  /\ call' = [call EXCEPT !["stop"] = Idle]
  /\ UNCHANGED <<mail, gate, lock, overtaken>>

\* The processes are gone, the recorder of a teleop session with them, and
\* session_stop clears the bridge again, at once: OperatorSession has the start
\* that comes between mark_idle and this.  An answer that is there is seen within
\* 10 ms, which the teardown outlasts.
Teardown ==
  /\ call["stop"].pc = "teardown"
  /\ \A c \in Caller : call[c].pc \notin {"success", "failure"}
  /\ session' = "IDLE" /\ mode' = None /\ uiMode' = None
  /\ mail' = Cleared /\ fresh' = {}
  /\ recording' = recording \ {Teleop}
  /\ queue' = [s \in Service |-> IF s[1] = Teleop THEN <<>> ELSE queue[s]]
  /\ call' = [call EXCEPT !["stop"] = Idle]
  /\ UNCHANGED <<gate, lock, overtaken>>

--------------------------------------------------------------------------
Dispatching ==
  \E c \in Caller :
    Dispatch(c) \/ ScriptEnds(c) \/ DriverAnswers(c) \/ Answered(c) \/ TimesOut(c)
Mailbox == \E topic \in Topics : \E value \in Published[topic] : Message(topic, value)
Session ==
  \/ \E m \in Modes : StartSession(m)
  \/ Degrade \/ BeginStop
  \/ StopRecorderIfActive("degrade") \/ StopRecorderIfActive("stop")
  \/ ClearSession \/ Teardown

Next ==
  \/ \E w \in Workers, op \in Ops : Post(w, op)
  \/ Dispatching \/ Serve \/ Mailbox \/ Session

Spec == Init /\ [][Next]_vars

\* The wait of a thread inside dispatch() ends, by its answer or its timeout.
Fairness ==
  \A c \in Caller :
    WF_vars(ScriptEnds(c) \/ DriverAnswers(c) \/ Answered(c) \/ TimesOut(c))
FairSpec == Spec /\ Fairness
=============================================================================
