------------------------------ MODULE UiProofs ------------------------------
(***************************************************************************)
(* What the operator page may rely on, for any number of worker threads,   *)
(* any commands and any length of the recorders' queues.                   *)
(***************************************************************************)
EXTENDS UiProps, SequenceTheorems, TLAPS

USE ModeAssumption, DispatchAssumption

Pc == {"idle", "checked", "script", "trigger", "success", "failure", "begin", "leave", "teardown"}
Mail == [teleop : Published["teleop"] \cup {None}, align : Published["align"] \cup {None},
         hitl : Published["hitl"] \cup {None}, flag : BOOLEAN]
Calls == [Caller -> [pc : Pc, op : AllowedOps \cup {None}]]
Gate == [left : BOOLEAN, right : BOOLEAN, locked : BOOLEAN]

UiTypeOK ==
  /\ session \in {"IDLE", "READY", "DEGRADED", "STOPPING"}
  /\ uiMode \in {None, Teleop, Dagger}
  /\ mail \in Mail /\ gate \in Gate
  /\ lock \in Caller \cup {None}
  /\ call \in Calls
  /\ recording \subseteq {Teleop, Dagger}
  /\ queue \in [Service -> Seq(Caller \cup {None})]
  /\ overtaken \in BOOLEAN

\* Whoever is inside dispatch holds the lock.
Inside(c) == call[c].pc \in {"script", "trigger", "success", "failure"}
Locked == \A c \in Caller : Inside(c) => lock = c

\* The threads of the session dispatch nothing but a stop of the recorder, and
\* have ended when the session can start them.
SessionThreads ==
  /\ \A c \in {"degrade", "stop"} :
       /\ call[c].pc # "script"
       /\ call[c].pc = "checked" => call[c].op = "recorder_stop"
  /\ session = "READY" => call["degrade"].pc = "idle"
  /\ session \in {"READY", "DEGRADED"} => call["stop"].pc = "idle"

\* One request at most has not been given up: that of the caller inside
\* dispatch, at the recorder of the running session.
Waits(s, i) == i \in DOMAIN queue[s] /\ queue[s][i] # None
OneWaits ==
  /\ \A s \in Service : \A i \in Nat : Waits(s, i) =>
       /\ lock = queue[s][i]
       /\ call[lock].pc = "trigger" /\ call[lock].op = s[2]
       /\ uiMode # None => s[1] = uiMode
  /\ \A s, t \in Service : \A i, j \in Nat : Waits(s, i) /\ Waits(t, j) => s = t /\ i = j

\* A success that is not yet seen tells what the recorder does.
SuccessIsTrue ==
  \A c \in Caller :
    call[c].pc = "success" /\ uiMode # None /\ ~overtaken =>
      (call[c].op = "recorder_start" <=> uiMode \in recording)

UiInv == UiTypeOK /\ Locked /\ SessionThreads /\ OneWaits /\ SuccessIsTrue

----------------------------------------------------------------------------
(* Types.                                                                  *)

\* A caller that moves on leaves the others where they are.
LEMMA PcMoves ==
  ASSUME call \in Calls, NEW c \in Caller, NEW p \in Pc, call' = [call EXCEPT ![c].pc = p]
  PROVE  /\ call' \in Calls /\ call'[c].pc = p /\ call'[c].op = call[c].op
         /\ \A d \in Caller \ {c} : call'[d] = call[d]
  BY DEF Calls

LEMMA CallMoves ==
  ASSUME call \in Calls, NEW c \in Caller, NEW p \in Pc, NEW op \in AllowedOps \cup {None},
         call' = [call EXCEPT ![c] = [pc |-> p, op |-> op]]
  PROVE  /\ call' \in Calls /\ call'[c].pc = p /\ call'[c].op = op
         /\ \A d \in Caller \ {c} : call'[d] = call[d]
  BY DEF Calls

LEMMA ReturnsMoves ==
  ASSUME call \in Calls, NEW c \in Caller, Returns(c)
  PROVE  /\ call' \in Calls /\ call'[c].pc \in {"idle", "leave"}
         /\ call'[c].pc = "leave" => c = "stop"
         /\ \A d \in Caller \ {c} : call'[d] = call[d]
  <1>1. CASE c = "stop"
    BY <1>1, CallMoves DEF Returns, After, Pc
  <1>2. CASE c # "stop"
    BY <1>2, CallMoves DEF Returns, After, Idle, Pc
  <1>3. QED
    BY <1>1, <1>2

\* A request joins its service's queue, and leaves it from the head.
LEMMA RequestType ==
  ASSUME UiTypeOK, NEW c \in Caller, NEW op \in RecorderOps, uiMode # None,
         Request(c, <<uiMode, op>>)
  PROVE  /\ <<uiMode, op>> \in Service
         /\ queue' \in [Service -> Seq(Caller \cup {None})]
         /\ queue'[<<uiMode, op>>] = Append(queue[<<uiMode, op>>], c)
         /\ \A s \in Service : s # <<uiMode, op>> => queue'[s] = queue[s]
  <1>1. <<uiMode, op>> \in Service
    BY DEF UiTypeOK, Service
  <1>2. queue \in [Service -> Seq(Caller \cup {None})]
    BY DEF UiTypeOK
  <1>3. Append(queue[<<uiMode, op>>], c) \in Seq(Caller \cup {None})
    BY <1>1, <1>2, AppendProperties
  <1>4. QED
    BY <1>1, <1>2, <1>3 DEF Request

LEMMA AnswersQueue ==
  ASSUME UiTypeOK, NEW m \in {Teleop, Dagger}, NEW op \in RecorderOps, NEW ok,
         queue[<<m, op>>] # <<>>, Answers(m, op, ok)
  PROVE  /\ <<m, op>> \in Service
         /\ queue[<<m, op>>] \in Seq(Caller \cup {None})
         /\ Head(queue[<<m, op>>]) \in Caller \cup {None}
         /\ queue' \in [Service -> Seq(Caller \cup {None})]
         /\ queue'[<<m, op>>] = Tail(queue[<<m, op>>])
         /\ \A s \in Service : s # <<m, op>> => queue'[s] = queue[s]
  <1>1. <<m, op>> \in Service
    BY DEF Service
  <1>2. queue \in [Service -> Seq(Caller \cup {None})]
    BY DEF UiTypeOK
  <1>3. queue[<<m, op>>] \in Seq(Caller \cup {None})
    BY <1>1, <1>2
  <1>4. /\ Head(queue[<<m, op>>]) \in Caller \cup {None}
        /\ Tail(queue[<<m, op>>]) \in Seq(Caller \cup {None})
    BY <1>3, HeadTailProperties
  <1>5. queue' = [queue EXCEPT ![<<m, op>>] = Tail(@)]
    BY DEF Answers
  <1>6. QED
    BY <1>1, <1>2, <1>3, <1>4, <1>5

\* The caller that waits at the head learns the answer; one that gave up does not.
LEMMA AnswersCall ==
  ASSUME UiTypeOK, NEW m \in {Teleop, Dagger}, NEW op \in RecorderOps, NEW ok \in BOOLEAN,
         Answers(m, op, ok), NEW by \in Caller \cup {None}, by = Head(queue[<<m, op>>])
  PROVE  /\ call' \in Calls
         /\ by = None => call' = call
         /\ by # None =>
              /\ call'[by].pc = IF ok THEN "success" ELSE "failure"
              /\ call'[by].op = call[by].op
              /\ \A d \in Caller \ {by} : call'[d] = call[d]
  <1>1. call \in Calls
    BY DEF UiTypeOK, Calls
  <1>2. CASE by = None
    BY <1>1, <1>2 DEF Answers
  <1>3. CASE by # None
    <2>1. call' = [call EXCEPT ![by].pc = IF ok THEN "success" ELSE "failure"]
      BY <1>3 DEF Answers
    <2>2. PICK p \in Pc : p = IF ok THEN "success" ELSE "failure"
      BY DEF Pc
    <2>3. call' = [call EXCEPT ![by].pc = p] /\ by \in Caller
      BY <1>3, <2>1, <2>2
    <2>4. /\ call' \in Calls /\ call'[by].pc = p /\ call'[by].op = call[by].op
          /\ \A d \in Caller \ {by} : call'[d] = call[d]
      BY ONLY <1>1, <2>2, <2>3 DEF Calls
    <2>5. QED
      BY <1>3, <2>2, <2>4
  <1>4. QED
    BY <1>2, <1>3

LEMMA ServeShape ==
  ASSUME Serve
  PROVE  \E m \in {Teleop, Dagger}, op \in RecorderOps, ok \in BOOLEAN :
           /\ queue[<<m, op>>] # <<>> /\ Answers(m, op, ok)
           /\ ok => recording' = IF op = "recorder_start" THEN recording \cup {m}
                                 ELSE recording \ {m}
           /\ ~ok => recording' = recording
  <1>1. PICK m \in {Teleop, Dagger} : ServeStart(m) \/ ServeStop(m)
    BY DEF Serve
  <1>2. CASE ServeStart(m)
    BY <1>2 DEF ServeStart, StartAnswers, RecorderOps
  <1>3. CASE ServeStop(m)
    <2>1. PICK ok \in StopAnswers(m) :
            /\ recording' = IF ok THEN recording \ {m} ELSE recording
            /\ Answers(m, "recorder_stop", ok)
      BY <1>3 DEF ServeStop
    <2>2. ok \in BOOLEAN
      BY DEF StopAnswers
    <2>3. QED
      BY <1>3, <2>1, <2>2 DEF ServeStop, RecorderOps
  <1>4. QED
    BY <1>1, <1>2, <1>3

\* The disjuncts of Next.
LEMMA Steps ==
  ASSUME [Next]_vars
  PROVE  \/ \E w \in Workers, op \in Ops : Post(w, op)
         \/ \E c \in Caller : Busy(c) \/ NoPlan(c) \/ Publish(c)
         \/ \E c \in Caller : RunScript(c)
         \/ \E c \in Caller : CallTrigger(c)
         \/ \E c \in Caller : ScriptEnds(c) \/ DriverAnswers(c) \/ Answered(c)
         \/ \E c \in Caller : TimesOut(c)
         \/ Serve
         \/ Mailbox \/ UNCHANGED vars
         \/ \E m \in Modes : StartSession(m)
         \/ Degrade
         \/ BeginStop
         \/ \E c \in {"degrade", "stop"} : StopRecorderIfActive(c)
         \/ ClearSession
         \/ Teardown
  BY DEF Next, Dispatching, Dispatch, Session

LEMMA Callers ==
  /\ "stop" \in Caller /\ "degrade" \in Caller /\ Workers \subseteq Caller
  /\ None \notin Caller
  BY DEF Caller

\* stop_recorder_if_active dispatches a stop of the recorder, or returns.
LEMMA StopDispatches ==
  ASSUME call \in Calls, NEW c \in {"degrade", "stop"}, StopRecorderIfActive(c), mail.flag
  PROVE  /\ call' \in Calls /\ call'[c].pc = "checked" /\ call'[c].op = "recorder_stop"
         /\ \A d \in Caller \ {c} : call'[d] = call[d]
  <1>1. c \in Caller
    BY Callers
  <1>2. "checked" \in Pc /\ "recorder_stop" \in AllowedOps \cup {None}
    BY DEF Pc, AllowedOps, RecorderOps
  <1>3. call' = [call EXCEPT ![c] = [pc |-> "checked", op |-> "recorder_stop"]]
    BY DEF StopRecorderIfActive
  <1>4. QED
    BY ONLY <1>1, <1>2, <1>3, call \in Calls DEF Calls

LEMMA CallsStep == ASSUME UiTypeOK, [Next]_vars PROVE call' \in Calls
  <1> USE Callers
  <1>a. call \in Calls
    BY DEF UiTypeOK
  <1>1. ASSUME NEW w \in Workers, NEW op \in Ops, Post(w, op) PROVE call' \in Calls
    BY <1>1, <1>a, CallMoves DEF Post, Pc
  <1>2. ASSUME NEW c \in Caller, Returns(c) PROVE call' \in Calls
    BY <1>2, <1>a, ReturnsMoves
  <1>3. ASSUME NEW c \in Caller, Busy(c) \/ NoPlan(c) \/ Publish(c) PROVE call' \in Calls
    BY <1>2, <1>3 DEF Busy, NoPlan, Publish
  <1>4. ASSUME NEW c \in Caller, RunScript(c) PROVE call' \in Calls
    BY <1>4, <1>a, PcMoves DEF RunScript, Pc
  <1>5. ASSUME NEW c \in Caller, CallTrigger(c) PROVE call' \in Calls
    BY <1>5, <1>a, PcMoves DEF CallTrigger, Pc
  <1>6. ASSUME NEW c \in Caller, ScriptEnds(c) \/ DriverAnswers(c) \/ Answered(c) \/ TimesOut(c)
        PROVE  call' \in Calls
    BY <1>2, <1>6 DEF ScriptEnds, DriverAnswers, Answered, TimesOut, Release
  <1>7. CASE Serve
    <2>1. PICK m \in {Teleop, Dagger}, op \in RecorderOps, ok \in BOOLEAN :
            queue[<<m, op>>] # <<>> /\ Answers(m, op, ok)
      BY <1>7, ServeShape
    <2>2. Head(queue[<<m, op>>]) \in Caller \cup {None}
      BY <2>1, AnswersQueue
    <2>3. QED
      BY <2>1, <2>2, AnswersCall
  <1>8. CASE Mailbox \/ (\E m \in Modes : StartSession(m)) \/ UNCHANGED vars
    BY <1>8, <1>a DEF Mailbox, Message, StartSession, vars
  <1>9. CASE Degrade \/ BeginStop
    BY <1>9, <1>a, CallMoves DEF Degrade, BeginStop, Pc
  <1>10. ASSUME NEW c \in {"degrade", "stop"}, StopRecorderIfActive(c) PROVE call' \in Calls
    <2>1. c \in Caller
      OBVIOUS
    <2>2. CASE mail.flag
      BY <1>10, <1>a, <2>2, StopDispatches
    <2>3. CASE ~mail.flag
      BY <1>10, <1>2, <2>1, <2>3 DEF StopRecorderIfActive, Returns
    <2>4. QED
      BY <2>2, <2>3
  <1>11. CASE ClearSession
    BY <1>11, <1>a, PcMoves DEF ClearSession, Pc
  <1>12. CASE Teardown
    BY <1>12, <1>a, CallMoves DEF Teardown, Pc, Idle
  <1>13. QED
    BY Steps, <1>1, <1>3, <1>4, <1>5, <1>6, <1>7, <1>8, <1>9, <1>10, <1>11, <1>12

\* A caller is at a recorder's service only in a session.
LEMMA RecorderNeedsMode ==
  ASSUME NEW c, Kind(call[c].op, uiMode) = "trigger", call[c].op \in RecorderOps
  PROVE  uiMode # None
  BY DEF Kind, RecorderOps, LeaderScriptOps, DriverOps

LEMMA QueueStep ==
  ASSUME UiTypeOK, [Next]_vars PROVE queue' \in [Service -> Seq(Caller \cup {None})]
  <1>a. queue \in [Service -> Seq(Caller \cup {None})]
    BY DEF UiTypeOK
  <1>1. CASE UNCHANGED queue
    BY <1>1, <1>a
  <1>2. ASSUME NEW c \in Caller, CallTrigger(c)
        PROVE  queue' \in [Service -> Seq(Caller \cup {None})]
    <2>1. CASE call[c].op \in RecorderOps
      BY <1>2, <2>1, RecorderNeedsMode, RequestType DEF CallTrigger
    <2>2. CASE call[c].op \notin RecorderOps
      BY <1>1, <1>2, <2>2 DEF CallTrigger
    <2>3. QED
      BY <2>1, <2>2
  <1>3. ASSUME NEW c \in Caller, TimesOut(c)
        PROVE  queue' \in [Service -> Seq(Caller \cup {None})]
    <2>1. ASSUME NEW s \in Service
          PROVE  [i \in DOMAIN queue[s] |-> IF queue[s][i] = c THEN None ELSE queue[s][i]]
                   \in Seq(Caller \cup {None})
      <3>1. queue[s] \in Seq(Caller \cup {None})
        BY <1>a
      <3>2. \A i \in 1..Len(queue[s]) : queue[s][i] \in Caller \cup {None}
        BY <3>1
      <3>3. QED
        BY <3>1, <3>2
    <2>2. QED
      BY <1>3, <2>1 DEF TimesOut
  <1>4. CASE Serve
    BY <1>4, ServeShape, AnswersQueue
  <1>5. CASE Teardown
    <2>1. <<>> \in Seq(Caller \cup {None})
      OBVIOUS
    <2>2. QED
      BY <1>5, <1>a, <2>1 DEF Teardown
  <1>6. ASSUME NEW c \in Caller,
               \/ Busy(c) \/ NoPlan(c) \/ Publish(c) \/ RunScript(c)
               \/ ScriptEnds(c) \/ DriverAnswers(c) \/ Answered(c)
        PROVE  UNCHANGED queue
    BY <1>6 DEF Busy, NoPlan, Publish, RunScript, ScriptEnds, DriverAnswers, Answered, recorder
  <1>7. ASSUME \/ \E w \in Workers, op \in Ops : Post(w, op)
               \/ Mailbox \/ UNCHANGED vars
               \/ \E m \in Modes : StartSession(m)
               \/ Degrade \/ BeginStop
               \/ \E c \in {"degrade", "stop"} : StopRecorderIfActive(c)
               \/ ClearSession
        PROVE  UNCHANGED queue
    BY <1>7 DEF Post, Mailbox, Message, StartSession, Degrade,
                BeginStop, StopRecorderIfActive, ClearSession, recorder, vars
  <1>8. QED
    BY Steps, <1>1, <1>2, <1>3, <1>4, <1>5, <1>6, <1>7

\* Who writes the mailbox, and who the gate.
LEMMA MailMovers ==
  ASSUME [Next]_vars
  PROVE  \/ UNCHANGED mail
         \/ Mailbox \/ ClearSession \/ Teardown
         \/ \E c \in Caller : Answered(c)
  <1>1. ASSUME NEW c \in Caller,
               \/ Busy(c) \/ NoPlan(c) \/ Publish(c) \/ RunScript(c) \/ CallTrigger(c)
               \/ ScriptEnds(c) \/ DriverAnswers(c) \/ TimesOut(c)
        PROVE  UNCHANGED mail
    BY <1>1 DEF Busy, NoPlan, Publish, RunScript, CallTrigger, ScriptEnds, DriverAnswers,
                TimesOut, bridge
  <1>2. Serve => UNCHANGED mail
    BY ServeShape DEF Answers, bridge
  <1>3. ASSUME \/ \E w \in Workers, op \in Ops : Post(w, op)
               \/ UNCHANGED vars
               \/ \E m \in Modes : StartSession(m)
               \/ Degrade \/ BeginStop
               \/ \E c \in {"degrade", "stop"} : StopRecorderIfActive(c)
        PROVE  UNCHANGED mail
    BY <1>3 DEF Post, StartSession, Degrade, BeginStop, StopRecorderIfActive, bridge, vars
  <1>4. QED
    BY Steps, <1>1, <1>2, <1>3

LEMMA GateMovers ==
  ASSUME [Next]_vars
  PROVE  \/ UNCHANGED gate
         \/ Mailbox \/ ClearSession
         \/ \E c \in Caller : Publish(c) \/ ScriptEnds(c)
  <1>1. ASSUME NEW c \in Caller,
               \/ Busy(c) \/ NoPlan(c) \/ RunScript(c) \/ CallTrigger(c)
               \/ Answered(c) \/ DriverAnswers(c) \/ TimesOut(c)
        PROVE  UNCHANGED gate
    BY <1>1 DEF Busy, NoPlan, RunScript, CallTrigger, Answered, DriverAnswers, TimesOut, bridge
  <1>2. Serve => UNCHANGED gate
    BY ServeShape DEF Answers, bridge
  <1>3. ASSUME \/ \E w \in Workers, op \in Ops : Post(w, op)
               \/ UNCHANGED vars
               \/ \E m \in Modes : StartSession(m)
               \/ Degrade \/ BeginStop \/ Teardown
               \/ \E c \in {"degrade", "stop"} : StopRecorderIfActive(c)
        PROVE  UNCHANGED gate
    BY <1>3 DEF Post, StartSession, Degrade, BeginStop, StopRecorderIfActive, Teardown, bridge,
                vars
  <1>4. QED
    BY Steps, <1>1, <1>2, <1>3

LEMMA MailStep == ASSUME UiTypeOK, [Next]_vars PROVE mail' \in Mail
  <1>a. mail \in Mail
    BY DEF UiTypeOK
  <1>1. CASE UNCHANGED mail
    BY <1>1, <1>a
  <1>2. CASE Mailbox
    <2>1. PICK topic \in Topics : \E value \in Published[topic] : Message(topic, value)
      BY <1>2 DEF Mailbox
    <2>2. PICK value \in Published[topic] : mail' = [mail EXCEPT ![topic] = value]
      BY <2>1 DEF Message
    <2>3. QED
      BY <1>a, <2>2 DEF Mail, Topics
  <1>3. ASSUME NEW c \in Caller, Answered(c) PROVE mail' \in Mail
    <2>1. CASE call[c].pc = "success"
      <3>1. PICK b \in BOOLEAN : mail' = [mail EXCEPT !.flag = b]
        BY <1>3, <2>1 DEF Answered
      <3>2. QED
        BY <1>a, <3>1 DEF Mail
    <2>2. CASE call[c].pc # "success"
      BY <1>1, <1>3, <2>2 DEF Answered
    <2>3. QED
      BY <2>1, <2>2
  <1>4. CASE ClearSession \/ Teardown
    <2>1. Cleared \in Mail
      BY DEF Cleared, Mail
    <2>2. QED
      BY <1>4, <2>1 DEF ClearSession, Teardown
  <1>5. QED
    BY MailMovers, <1>1, <1>2, <1>3, <1>4

LEMMA GateStep == ASSUME UiTypeOK, [Next]_vars PROVE gate' \in Gate
  <1>a. gate \in Gate /\ NoGate \in Gate
    BY DEF UiTypeOK, NoGate, Gate
  <1>1. CASE UNCHANGED gate \/ gate' = NoGate
    BY <1>1, <1>a
  <1>2. ASSUME NEW b \in BOOLEAN, gate' = [gate EXCEPT !.locked = @ \/ b] PROVE gate' \in Gate
    BY <1>2, <1>a DEF Gate
  <1>3. CASE Mailbox
    BY <1>1, <1>2, <1>3 DEF Mailbox, Message
  <1>4. ASSUME NEW c \in Caller, Publish(c) PROVE gate' \in Gate
    BY <1>2, <1>4 DEF Publish
  <1>5. ASSUME NEW c \in Caller, ScriptEnds(c) PROVE gate' \in Gate
    <2>1. CASE UNCHANGED gate
      BY <1>1, <2>1
    <2>2. CASE gate' # gate
      <3>1. PICK l \in BOOLEAN, r \in BOOLEAN : gate' = [gate EXCEPT !.left = l, !.right = r]
        BY <1>5, <1>a, <2>2 DEF ScriptEnds, Gate
      <3>2. QED
        BY <1>a, <3>1 DEF Gate
    <2>3. QED
      BY <2>1, <2>2
  <1>6. CASE ClearSession
    BY <1>1, <1>6 DEF ClearSession
  <1>7. QED
    BY GateMovers, <1>1, <1>3, <1>4, <1>5, <1>6

LEMMA TypeStep == ASSUME UiTypeOK, [Next]_vars PROVE UiTypeOK'
  <1> DEFINE Rest == /\ session \in {"IDLE", "READY", "DEGRADED", "STOPPING"}
                     /\ uiMode \in {None, Teleop, Dagger}
                     /\ lock \in Caller \cup {None}
                     /\ recording \subseteq {Teleop, Dagger}
                     /\ overtaken \in BOOLEAN
  <1>a. Rest
    BY DEF UiTypeOK
  <1>1. ASSUME NEW c \in Caller,
               \/ Busy(c) \/ NoPlan(c) \/ Publish(c) \/ RunScript(c) \/ CallTrigger(c)
               \/ ScriptEnds(c) \/ DriverAnswers(c) \/ TimesOut(c)
        PROVE  Rest'
    BY <1>1, <1>a DEF Busy, NoPlan, Publish, RunScript, CallTrigger, ScriptEnds, DriverAnswers,
                      TimesOut, Release, bridge, recorder
  <1>2. ASSUME NEW c \in Caller, Answered(c) PROVE Rest'
    BY <1>2, <1>a DEF Answered, Release, bridge, recorder
  <1>3. ASSUME Serve PROVE Rest'
    <2>1. PICK m \in {Teleop, Dagger}, op \in RecorderOps, ok \in BOOLEAN :
            /\ Answers(m, op, ok)
            /\ ok => recording' = IF op = "recorder_start" THEN recording \cup {m}
                                  ELSE recording \ {m}
            /\ ~ok => recording' = recording
      BY <1>3, ServeShape
    <2>2. overtaken' \in BOOLEAN
      BY <2>1 DEF Answers
    <2>3. QED
      BY <2>1, <2>2, <1>a DEF Answers, bridge
  <1>4. ASSUME UNCHANGED vars \/ Mailbox PROVE Rest'
    BY <1>4, <1>a DEF Mailbox, Message, vars, bridge, recorder
  <1>5. ASSUME \/ \E w \in Workers, op \in Ops : Post(w, op)
               \/ \E m \in Modes : StartSession(m)
               \/ Degrade \/ BeginStop \/ ClearSession \/ Teardown
               \/ \E c \in {"degrade", "stop"} : StopRecorderIfActive(c)
        PROVE  Rest'
    BY <1>5, <1>a DEF Post, StartSession, Degrade, BeginStop, ClearSession, StopRecorderIfActive,
                      Teardown, bridge, recorder
  <1>6. Rest'
    <2> HIDE DEF Rest
    <2>1. QED
      BY Steps, <1>1, <1>2, <1>3, <1>4, <1>5
  <1>7. QED
    BY <1>6, CallsStep, QueueStep, MailStep, GateStep DEF UiTypeOK

----------------------------------------------------------------------------
(* The lock.                                                               *)

\* The head of a queue waits as OneWaits says.
LEMMA HeadWaits ==
  ASSUME UiTypeOK, OneWaits, NEW s \in Service, queue[s] # <<>>, Head(queue[s]) # None
  PROVE  /\ Waits(s, 1) /\ lock = Head(queue[s]) /\ lock \in Caller
         /\ call[lock].pc = "trigger" /\ call[lock].op = s[2]
         /\ uiMode # None => s[1] = uiMode
  <1>1. queue[s] \in Seq(Caller \cup {None})
    BY DEF UiTypeOK
  <1>2. 1 \in DOMAIN queue[s] /\ Head(queue[s]) = queue[s][1]
    BY <1>1
  <1>3. queue[s][1] \in Caller \cup {None}
    BY <1>1, <1>2
  <1>4. QED
    BY <1>2, <1>3 DEF OneWaits, Waits

LEMMA LockedStep == ASSUME UiTypeOK, Locked, OneWaits, [Next]_vars PROVE Locked'
  <1> USE Callers
  <1>a. call \in Calls
    BY DEF UiTypeOK
  <1>1. ASSUME UNCHANGED lock, NEW c \in Caller, ~Inside(c)',
               \A d \in Caller \ {c} : call'[d] = call[d]
        PROVE  Locked'
    BY <1>1 DEF Locked, Inside
  <1>2. ASSUME UNCHANGED <<lock, call>> PROVE Locked'
    BY <1>2 DEF Locked, Inside
  <1>3. ASSUME NEW w \in Workers, NEW op \in Ops, Post(w, op) PROVE Locked'
    <2>1. /\ call'[w].pc = "checked" /\ \A d \in Caller \ {w} : call'[d] = call[d]
      BY <1>3, <1>a, CallMoves DEF Post, Pc
    <2>2. QED
      BY <1>1, <1>3, <2>1 DEF Post, Inside
  <1>4. ASSUME NEW c \in Caller, Busy(c) \/ NoPlan(c) \/ Publish(c) PROVE Locked'
    <2>1. UNCHANGED lock /\ Returns(c)
      BY <1>4 DEF Busy, NoPlan, Publish
    <2>2. QED
      BY <1>1, <1>a, <2>1, ReturnsMoves DEF Inside
  <1>5. ASSUME NEW c \in Caller, RunScript(c) \/ CallTrigger(c) PROVE Locked'
    <2>1. lock = None /\ lock' = c
      BY <1>5 DEF RunScript, CallTrigger
    <2>2. \A d \in Caller \ {c} : call'[d] = call[d]
      BY <1>5, <1>a, PcMoves DEF RunScript, CallTrigger, Pc
    <2>3. QED
      BY <2>1, <2>2 DEF Locked, Inside
  <1>6. ASSUME NEW c \in Caller, ScriptEnds(c) \/ DriverAnswers(c) \/ Answered(c) \/ TimesOut(c)
        PROVE  Locked'
    <2>1. Inside(c) /\ lock' = None /\ Returns(c)
      BY <1>6 DEF ScriptEnds, DriverAnswers, Answered, TimesOut, Release, Inside
    <2>2. ~Inside(c)' /\ \A d \in Caller \ {c} : call'[d] = call[d]
      BY <1>a, <2>1, ReturnsMoves DEF Inside
    <2>3. QED
      BY <2>1, <2>2 DEF Locked, Inside
  <1>7. ASSUME Serve PROVE Locked'
    <2>1. PICK m \in {Teleop, Dagger}, op \in RecorderOps, ok \in BOOLEAN :
            queue[<<m, op>>] # <<>> /\ Answers(m, op, ok)
      BY <1>7, ServeShape
    <2>2. PICK by \in Caller \cup {None} : by = Head(queue[<<m, op>>])
      BY <2>1, AnswersQueue
    <2>3. lock' = lock
      BY <2>1 DEF Answers
    <2>4. CASE by = None
      BY <1>2, <2>1, <2>2, <2>3, <2>4, AnswersCall
    <2>5. CASE by # None
      <3>1. lock = by
        BY <2>1, <2>2, <2>5, AnswersQueue, HeadWaits
      <3>2. \A d \in Caller \ {by} : call'[d] = call[d]
        BY <2>1, <2>2, <2>5, AnswersCall
      <3>3. QED
        BY <2>3, <3>1, <3>2 DEF Locked, Inside
    <2>6. QED
      BY <2>4, <2>5
  <1>8. ASSUME Mailbox \/ UNCHANGED vars \/ \E m \in Modes : StartSession(m) PROVE Locked'
    BY <1>8, <1>2 DEF Mailbox, Message, vars, StartSession
  <1>9. ASSUME Degrade \/ BeginStop PROVE Locked'
    <2>1. PICK c \in Caller : call' = [call EXCEPT ![c] = [pc |-> "begin", op |-> None]]
      BY <1>9 DEF Degrade, BeginStop
    <2>2. /\ call'[c].pc = "begin" /\ \A d \in Caller \ {c} : call'[d] = call[d]
      BY <1>a, <2>1, CallMoves DEF Pc
    <2>3. QED
      BY <1>1, <1>9, <2>2 DEF Degrade, BeginStop, Inside
  <1>10. ASSUME NEW c \in {"degrade", "stop"}, StopRecorderIfActive(c) PROVE Locked'
    <2>1. CASE mail.flag
      <3>1. /\ call'[c].pc = "checked" /\ \A d \in Caller \ {c} : call'[d] = call[d]
        BY <1>10, <1>a, <2>1, StopDispatches
      <3>2. QED
        BY <1>1, <1>10, <3>1 DEF StopRecorderIfActive, Inside
    <2>2. CASE ~mail.flag
      <3>1. Returns(c) /\ UNCHANGED lock
        BY <1>10, <2>2 DEF StopRecorderIfActive, Returns
      <3>2. QED
        BY <1>1, <1>a, <3>1, ReturnsMoves DEF Inside
    <2>3. QED
      BY <2>1, <2>2
  <1>11. ASSUME ClearSession \/ Teardown PROVE Locked'
    <2>1. /\ call'["stop"].pc \in {"teardown", "idle"}
          /\ \A d \in Caller \ {"stop"} : call'[d] = call[d]
      BY <1>11, <1>a, PcMoves, CallMoves DEF ClearSession, Teardown, Idle, Pc
    <2>2. QED
      BY <1>1, <1>11, <2>1 DEF ClearSession, Teardown, Inside
  <1>12. QED
    BY Steps, <1>3, <1>4, <1>5, <1>6, <1>7, <1>8, <1>9, <1>10, <1>11

----------------------------------------------------------------------------
(* The threads of the session.                                             *)

LEMMA ThreadsStep ==
  ASSUME UiTypeOK, Locked, SessionThreads, OneWaits, [Next]_vars PROVE SessionThreads'
  <1> USE Callers
  <1>a. call \in Calls
    BY DEF UiTypeOK
  <1>1. ASSUME UNCHANGED session, UNCHANGED <<call["degrade"], call["stop"]>>
        PROVE  SessionThreads'
    BY <1>1 DEF SessionThreads
  <1>2. ASSUME UNCHANGED session, NEW c \in Caller, call[c].pc # "idle",
               call'[c].pc \in {"idle", "leave"}, \A d \in Caller \ {c} : call'[d] = call[d]
        PROVE  SessionThreads'
    BY <1>2 DEF SessionThreads
  <1>3. ASSUME UNCHANGED session, NEW c \in Caller, call[c].pc \in {"checked", "trigger"},
               call'[c].pc \in {"trigger", "success", "failure"},
               \A d \in Caller \ {c} : call'[d] = call[d]
        PROVE  SessionThreads'
    BY <1>3 DEF SessionThreads
  <1>4. ASSUME NEW w \in Workers, NEW op \in Ops, Post(w, op) PROVE SessionThreads'
    <2>1. w \notin {"degrade", "stop"}
      OBVIOUS
    <2>2. \A d \in Caller \ {w} : call'[d] = call[d]
      BY <1>4, <1>a, CallMoves DEF Post, Pc
    <2>3. QED
      BY <1>1, <1>4, <2>1, <2>2 DEF Post
  <1>5. ASSUME NEW c \in Caller,
               \/ Busy(c) \/ NoPlan(c) \/ Publish(c)
               \/ ScriptEnds(c) \/ DriverAnswers(c) \/ Answered(c) \/ TimesOut(c)
        PROVE  SessionThreads'
    <2>1. call[c].pc # "idle" /\ UNCHANGED session /\ Returns(c)
      BY <1>5 DEF Busy, NoPlan, Publish, ScriptEnds, DriverAnswers, Answered, TimesOut, Release
    <2>2. call'[c].pc \in {"idle", "leave"} /\ \A d \in Caller \ {c} : call'[d] = call[d]
      BY <1>a, <2>1, ReturnsMoves
    <2>3. QED
      BY <1>2, <2>1, <2>2
  <1>6. ASSUME NEW c \in Caller, RunScript(c) PROVE SessionThreads'
    <2>1. c \notin {"degrade", "stop"}
      BY <1>6 DEF RunScript, SessionThreads, Kind, LeaderScriptOps, RecorderOps, DriverOps
    <2>2. \A d \in Caller \ {c} : call'[d] = call[d]
      BY <1>6, <1>a, PcMoves DEF RunScript, Pc
    <2>3. QED
      BY <1>1, <1>6, <2>1, <2>2 DEF RunScript
  <1>7. ASSUME NEW c \in Caller, CallTrigger(c) PROVE SessionThreads'
    <2>1. call'[c].pc = "trigger" /\ \A d \in Caller \ {c} : call'[d] = call[d]
      BY <1>7, <1>a, PcMoves DEF CallTrigger, Pc
    <2>2. QED
      BY <1>3, <1>7, <2>1 DEF CallTrigger
  <1>8. ASSUME Serve PROVE SessionThreads'
    <2>1. PICK m \in {Teleop, Dagger}, op \in RecorderOps, ok \in BOOLEAN :
            queue[<<m, op>>] # <<>> /\ Answers(m, op, ok)
      BY <1>8, ServeShape
    <2>2. PICK by \in Caller \cup {None} : by = Head(queue[<<m, op>>])
      BY <2>1, AnswersQueue
    <2>3. session' = session
      BY <2>1 DEF Answers
    <2>4. CASE by = None
      BY <1>1, <2>1, <2>2, <2>3, <2>4, AnswersCall
    <2>5. CASE by # None
      <3>1. lock = by /\ call[by].pc = "trigger"
        BY <2>1, <2>2, <2>5, AnswersQueue, HeadWaits
      <3>2. /\ call'[by].pc \in {"success", "failure"}
            /\ \A d \in Caller \ {by} : call'[d] = call[d]
        BY <2>1, <2>2, <2>5, AnswersCall
      <3>3. QED
        BY <1>3, <2>3, <2>5, <3>1, <3>2
    <2>6. QED
      BY <2>4, <2>5
  <1>9. ASSUME Mailbox \/ UNCHANGED vars PROVE SessionThreads'
    BY <1>9, <1>1 DEF Mailbox, Message, vars
  <1>10. ASSUME NEW m \in Modes, StartSession(m) PROVE SessionThreads'
    BY <1>10 DEF StartSession, SessionThreads
  <1>11. ASSUME Degrade PROVE SessionThreads'
    <2>1. call'["degrade"].pc = "begin" /\ call'["stop"] = call["stop"]
      BY <1>11, <1>a DEF Calls, Degrade, Pc
    <2>2. QED
      BY <1>11, <2>1 DEF Degrade, SessionThreads
  <1>12. ASSUME BeginStop PROVE SessionThreads'
    <2>1. call'["stop"].pc = "begin" /\ call'["degrade"] = call["degrade"]
      BY <1>12, <1>a DEF Calls, BeginStop, Pc
    <2>2. QED
      BY <1>12, <2>1 DEF BeginStop, SessionThreads
  <1>13. ASSUME NEW c \in {"degrade", "stop"}, StopRecorderIfActive(c) PROVE SessionThreads'
    <2>1. call[c].pc = "begin" /\ UNCHANGED session /\ c \in Caller
      BY <1>13 DEF StopRecorderIfActive
    <2>2. CASE mail.flag
      <3>1. /\ call'[c].pc = "checked" /\ call'[c].op = "recorder_stop"
            /\ \A d \in Caller \ {c} : call'[d] = call[d]
        BY <1>13, <1>a, <2>2, StopDispatches
      <3>2. QED
        BY <2>1, <3>1 DEF SessionThreads
    <2>3. CASE ~mail.flag
      <3>1. Returns(c)
        BY <1>13, <2>3 DEF StopRecorderIfActive, Returns
      <3>2. QED
        BY <1>2, <1>a, <2>1, <3>1, ReturnsMoves
    <2>4. QED
      BY <2>2, <2>3
  <1>14. ASSUME ClearSession PROVE SessionThreads'
    <2>1. call'["stop"].pc = "teardown" /\ call'["degrade"] = call["degrade"]
      BY <1>14, <1>a DEF Calls, ClearSession, Pc
    <2>2. QED
      BY <1>14, <2>1 DEF ClearSession, SessionThreads
  <1>15. ASSUME Teardown PROVE SessionThreads'
    <2>1. call'["stop"].pc = "idle" /\ call'["degrade"] = call["degrade"]
      BY <1>15, <1>a DEF Calls, Teardown, Idle, Pc
    <2>2. QED
      BY <1>15, <2>1 DEF Teardown, SessionThreads
  <1>16. QED
    BY Steps, <1>4, <1>5, <1>6, <1>7, <1>8, <1>9, <1>10, <1>11, <1>12, <1>13, <1>14, <1>15

----------------------------------------------------------------------------
(* Who waits.                                                              *)

\* Nobody waits while the lock is free, and nobody but its holder.
LEMMA OneWaitsFrame ==
  ASSUME OneWaits, NEW c \in Caller, c # lock \/ call[c].pc # "trigger",
         \A d \in Caller \ {c} : call'[d] = call[d],
         \A s \in Service : queue'[s] \in {queue[s], <<>>}, UiTypeOK,
         UNCHANGED uiMode \/ uiMode' = None, UNCHANGED lock
  PROVE  OneWaits'
  <1>1. \A s \in Service : \A i \in Nat :
          Waits(s, i)' => Waits(s, i) /\ queue'[s] = queue[s]
    BY DEF Waits
  <1>2. ASSUME NEW s \in Service, NEW i \in Nat, Waits(s, i)'
        PROVE  /\ lock' = queue'[s][i] /\ call'[lock'].pc = "trigger" /\ call'[lock'].op = s[2]
               /\ uiMode' # None => s[1] = uiMode'
    <2>1. /\ lock = queue[s][i] /\ call[lock].pc = "trigger" /\ call[lock].op = s[2]
          /\ uiMode # None => s[1] = uiMode
      BY <1>1, <1>2 DEF OneWaits
    <2>2. queue[s] \in Seq(Caller \cup {None}) /\ i \in DOMAIN queue[s] /\ queue[s][i] # None
      BY <1>1, <1>2 DEF UiTypeOK, Waits
    <2>3. lock \in Caller \ {c}
      BY <2>1, <2>2
    <2>4. call'[lock] = call[lock] /\ queue'[s] = queue[s]
      BY <1>1, <1>2, <2>3
    <2>5. QED
      BY <2>1, <2>4
  <1>3. QED
    BY <1>1, <1>2 DEF OneWaits

\* If nobody waits any more, nothing is left to say.
LEMMA NobodyWaits ==
  ASSUME \A s \in Service : \A i \in Nat : ~Waits(s, i)' PROVE OneWaits'
  BY DEF OneWaits

LEMMA FreeLock ==
  ASSUME UiTypeOK, OneWaits, NEW s \in Service, NEW i \in Nat, Waits(s, i)
  PROVE  lock \in Caller /\ lock # None /\ call[lock].pc = "trigger" /\ call[lock].op \in RecorderOps
  <1>1. queue[s] \in Seq(Caller \cup {None}) /\ i \in DOMAIN queue[s] /\ queue[s][i] # None
    BY DEF UiTypeOK, Waits
  <1>2. lock = queue[s][i] /\ call[lock].pc = "trigger" /\ call[lock].op = s[2]
    BY DEF OneWaits
  <1>3. s[2] \in RecorderOps
    BY DEF Service
  <1>4. QED
    BY <1>1, <1>2, <1>3, Callers

LEMMA AppendKeeps ==
  ASSUME NEW S, NEW q \in Seq(S), NEW e \in S
  PROVE  /\ DOMAIN Append(q, e) = 1..Len(q) + 1
         /\ \A i \in 1..Len(q) : i \in DOMAIN q /\ Append(q, e)[i] = q[i]
         /\ Append(q, e)[Len(q) + 1] = e
  OBVIOUS

LEMMA TailShifts ==
  ASSUME NEW S, NEW q \in Seq(S), q # <<>>, NEW i \in DOMAIN Tail(q)
  PROVE  i \in 1..Len(q) - 1 /\ i + 1 \in DOMAIN q /\ Tail(q)[i] = q[i + 1]
  OBVIOUS

LEMMA OneWaitsStep ==
  ASSUME UiTypeOK, Locked, SessionThreads, OneWaits, [Next]_vars PROVE OneWaits'
  <1> USE Callers
  <1>a. call \in Calls /\ queue \in [Service -> Seq(Caller \cup {None})]
    BY DEF UiTypeOK
  <1>1. ASSUME UNCHANGED queue, \A s \in Service : \A i \in Nat : ~Waits(s, i)
        PROVE  OneWaits'
    BY <1>1, NobodyWaits DEF Waits
  <1>2. ASSUME UNCHANGED <<queue, call, lock, uiMode>> PROVE OneWaits'
    BY <1>2 DEF OneWaits, Waits
  <1>3. ASSUME UNCHANGED <<queue, lock>>, UNCHANGED uiMode \/ uiMode' = None,
               NEW c \in Caller, call[c].pc # "trigger",
               \A d \in Caller \ {c} : call'[d] = call[d]
        PROVE  OneWaits'
    BY <1>3, OneWaitsFrame
  <1>4. ASSUME NEW w \in Workers, NEW op \in Ops, Post(w, op) PROVE OneWaits'
    <2>1. call[w].pc # "trigger" /\ \A d \in Caller \ {w} : call'[d] = call[d]
      BY <1>4, <1>a DEF Post, Idle, Calls
    <2>2. QED
      BY <1>3, <1>4, <2>1 DEF Post, bridge, recorder
  <1>5. ASSUME NEW c \in Caller, Busy(c) \/ NoPlan(c) \/ Publish(c) PROVE OneWaits'
    <2>1. call[c].pc # "trigger" /\ UNCHANGED <<queue, lock, uiMode>> /\ Returns(c)
      BY <1>5 DEF Busy, NoPlan, Publish, bridge, recorder
    <2>2. QED
      BY <1>3, <1>a, <2>1, ReturnsMoves
  <1>6. ASSUME NEW c \in Caller, RunScript(c) PROVE OneWaits'
    BY <1>1, <1>6, FreeLock DEF RunScript, recorder
  <1>7. ASSUME NEW c \in Caller, CallTrigger(c) PROVE OneWaits'
    <2>1. \A s \in Service : \A i \in Nat : ~Waits(s, i)
      BY <1>7, FreeLock DEF CallTrigger
    <2>2. CASE call[c].op \notin RecorderOps
      BY <1>1, <1>7, <2>1, <2>2 DEF CallTrigger
    <2>3. CASE call[c].op \in RecorderOps
      <3> DEFINE service == <<uiMode, call[c].op>>
      <3>1. Request(c, service) /\ uiMode # None
        BY <1>7, <2>3, RecorderNeedsMode DEF CallTrigger
      <3>2. /\ service \in Service
            /\ queue'[service] = Append(queue[service], c)
            /\ \A s \in Service : s # service => queue'[s] = queue[s]
        BY <2>3, <3>1, RequestType
      <3>3. queue[service] \in Seq(Caller \cup {None})
        BY <1>a, <3>2
      <3>4. ASSUME NEW s \in Service, NEW i \in Nat, Waits(s, i)'
            PROVE  s = service /\ i = Len(queue[service]) + 1 /\ queue'[s][i] = c
        <4>1. CASE s # service
          BY <2>1, <3>2, <3>4, <4>1 DEF Waits
        <4>2. CASE s = service
          <5> HIDE DEF service
          <5>0. /\ DOMAIN queue'[s] = 1..Len(queue[s]) + 1
                /\ \A k \in 1..Len(queue[s]) : k \in DOMAIN queue[s] /\ queue'[s][k] = queue[s][k]
                /\ queue'[s][Len(queue[s]) + 1] = c
            BY <3>2, <3>3, <4>2, AppendKeeps
          <5>1. i \in 1..Len(queue[s]) + 1 /\ Len(queue[s]) \in Nat
            BY <3>3, <3>4, <4>2, <5>0 DEF Waits
          <5>2. i \notin 1..Len(queue[s])
            BY <2>1, <3>4, <5>0 DEF Waits
          <5>3. i = Len(queue[s]) + 1
            BY <5>1, <5>2
          <5>4. QED
            BY <4>2, <5>0, <5>3
        <4>3. QED
          BY <4>1, <4>2
      <3>5. /\ lock' = c /\ uiMode' = uiMode
            /\ call'[c].pc = "trigger" /\ call'[c].op = call[c].op
        BY <1>7, <1>a DEF CallTrigger, bridge, Calls
      <3>6. service[1] = uiMode /\ service[2] = call[c].op
        OBVIOUS
      <3> HIDE DEF service
      <3>7. ASSUME NEW s \in Service, NEW i \in Nat, Waits(s, i)'
            PROVE  /\ lock' = queue'[s][i]
                   /\ call'[lock'].pc = "trigger" /\ call'[lock'].op = s[2]
                   /\ uiMode' # None => s[1] = uiMode'
        BY <3>4, <3>5, <3>6, <3>7
      <3>8. \A s, t \in Service : \A i, j \in Nat : Waits(s, i)' /\ Waits(t, j)' => s = t /\ i = j
        BY <3>4
      <3>9. QED
        BY <3>7, <3>8 DEF OneWaits
    <2>4. QED
      BY <2>2, <2>3
  <1>8. ASSUME NEW c \in Caller, ScriptEnds(c) \/ Answered(c) \/ DriverAnswers(c) PROVE OneWaits'
    <2>1. /\ UNCHANGED queue /\ Inside(c)
          /\ call[c].pc # "trigger" \/ call[c].op \in DriverOps
      BY <1>8 DEF ScriptEnds, Answered, DriverAnswers, Inside, recorder
    <2>2. lock = c
      BY <2>1 DEF Locked
    <2>3. \A s \in Service : \A i \in Nat : ~Waits(s, i)
      BY <2>1, <2>2, FreeLock DEF DriverOps, RecorderOps
    <2>4. QED
      BY <1>1, <2>1, <2>3
  <1>9. ASSUME NEW c \in Caller, TimesOut(c) PROVE OneWaits'
    <2>1. lock = c
      BY <1>9 DEF TimesOut, Locked, Inside
    <2>2. ASSUME NEW s \in Service, NEW i \in Nat, Waits(s, i)' PROVE FALSE
      <3>1. queue'[s] = [k \in DOMAIN queue[s] |-> IF queue[s][k] = c THEN None ELSE queue[s][k]]
        BY <1>9 DEF TimesOut
      <3>2. i \in DOMAIN queue[s] /\ queue[s][i] # c /\ queue[s][i] # None
        BY <2>2, <3>1 DEF Waits
      <3>3. QED
        BY <2>1, <3>2 DEF OneWaits, Waits
    <2>3. QED
      BY <2>2, NobodyWaits
  <1>10. ASSUME Mailbox \/ UNCHANGED vars PROVE OneWaits'
    BY <1>10, <1>2 DEF Mailbox, Message, vars, bridge, recorder
  <1>11. ASSUME NEW m \in Modes, StartSession(m) PROVE OneWaits'
    BY <1>1, <1>11, FreeLock DEF StartSession, recorder
  <1>12. ASSUME Degrade PROVE OneWaits'
    <2>1. /\ call["degrade"].pc # "trigger"
          /\ \A d \in Caller \ {"degrade"} : call'[d] = call[d]
      BY <1>12, <1>a DEF Degrade, SessionThreads, Calls
    <2>2. QED
      BY <1>3, <1>12, <2>1 DEF Degrade, bridge, recorder
  <1>13. ASSUME BeginStop PROVE OneWaits'
    <2>1. /\ call["stop"].pc # "trigger"
          /\ \A d \in Caller \ {"stop"} : call'[d] = call[d]
      BY <1>13, <1>a DEF BeginStop, SessionThreads, Calls
    <2>2. QED
      BY <1>3, <1>13, <2>1 DEF BeginStop, bridge, recorder
  <1>14. ASSUME NEW c \in {"degrade", "stop"}, StopRecorderIfActive(c) PROVE OneWaits'
    <2>1. c \in Caller /\ call[c].pc # "trigger" /\ UNCHANGED <<queue, lock, uiMode>>
      BY <1>14 DEF StopRecorderIfActive, bridge, recorder
    <2>2. \A d \in Caller \ {c} : call'[d] = call[d]
      BY <1>14, <1>a DEF StopRecorderIfActive, Calls
    <2>3. QED
      BY <1>3, <2>1, <2>2
  <1>15. ASSUME ClearSession PROVE OneWaits'
    <2>1. /\ call["stop"].pc # "trigger"
          /\ \A d \in Caller \ {"stop"} : call'[d] = call[d]
      BY <1>15, <1>a DEF ClearSession, Calls
    <2>2. QED
      BY <1>3, <1>15, <2>1 DEF ClearSession, recorder
  <1>16. ASSUME Teardown PROVE OneWaits'
    <2>1. /\ call["stop"].pc # "trigger"
          /\ \A d \in Caller \ {"stop"} : call'[d] = call[d]
      BY <1>16, <1>a DEF Teardown, Calls
    <2>2. \A s \in Service : queue'[s] \in {queue[s], <<>>}
      BY <1>16 DEF Teardown
    <2>3. QED
      BY <1>16, <2>1, <2>2, OneWaitsFrame DEF Teardown
  <1>17. ASSUME Serve PROVE OneWaits'
    <2>1. PICK m \in {Teleop, Dagger}, op \in RecorderOps, ok \in BOOLEAN :
            queue[<<m, op>>] # <<>> /\ Answers(m, op, ok)
      BY <1>17, ServeShape
    <2> DEFINE service == <<m, op>>
    <2>2. /\ service \in Service /\ queue[service] \in Seq(Caller \cup {None})
          /\ queue'[service] = Tail(queue[service])
          /\ \A s \in Service : s # service => queue'[s] = queue[s]
      BY <2>1, AnswersQueue
    <2>3. PICK by \in Caller \cup {None} : by = Head(queue[service])
      BY <2>1, AnswersQueue
    <2>4. UNCHANGED <<lock, uiMode>>
      BY <2>1 DEF Answers, bridge
    <2>5. by = None => call' = call
      BY <2>1, <2>3, AnswersCall
    <2>6. by # None => Waits(service, 1)
      BY <2>1, <2>2, <2>3, HeadWaits
    <2>7. queue[service] # <<>>
      BY <2>1
    <2> HIDE DEF service
    <2> DEFINE was(s, i) == IF s = service THEN i + 1 ELSE i
    <2>8. ASSUME NEW s \in Service, NEW i \in Nat, Waits(s, i)'
          PROVE  Waits(s, was(s, i)) /\ queue'[s][i] = queue[s][was(s, i)]
      <3>1. CASE s # service
        BY <2>2, <2>8, <3>1 DEF Waits
      <3>2. CASE s = service
        <4>1. i \in DOMAIN Tail(queue[service]) /\ queue'[s][i] # None
          BY <2>2, <2>8, <3>2 DEF Waits
        <4>2. i + 1 \in DOMAIN queue[service] /\ queue'[s][i] = queue[service][i + 1]
          BY <2>2, <2>7, <3>2, <4>1, TailShifts
        <4>3. QED
          BY <3>2, <4>1, <4>2 DEF Waits
      <3>3. QED
        BY <3>1, <3>2
    <2>9. CASE by # None
      <3>1. ASSUME NEW s \in Service, NEW i \in Nat, Waits(s, i)' PROVE FALSE
        <4>1. Waits(s, was(s, i)) /\ Waits(service, 1)
          BY <2>6, <2>8, <2>9, <3>1
        <4>2. s = service /\ was(s, i) = 1
          BY <2>2, <4>1 DEF OneWaits
        <4>3. i \in DOMAIN Tail(queue[service])
          BY <2>2, <3>1, <4>2 DEF Waits
        <4>4. i # 0
          BY <2>2, <2>7, <4>3, TailShifts
        <4>5. QED
          BY <4>2, <4>4
      <3>2. QED
        BY <3>1, NobodyWaits
    <2>10. CASE by = None
      <3> HIDE DEF was
      <3>0. \A s \in Service : \A i \in Nat : was(s, i) \in Nat
        BY DEF was
      <3>1. ASSUME NEW s \in Service, NEW i \in Nat, Waits(s, i)'
            PROVE  /\ lock' = queue'[s][i]
                   /\ call'[lock'].pc = "trigger" /\ call'[lock'].op = s[2]
                   /\ uiMode' # None => s[1] = uiMode'
        BY <2>4, <2>5, <2>8, <2>10, <3>0, <3>1 DEF OneWaits
      <3>2. ASSUME NEW s \in Service, NEW t \in Service, NEW i \in Nat, NEW j \in Nat,
                   Waits(s, i)', Waits(t, j)'
            PROVE  s = t /\ i = j
        <4>1. s = t /\ was(s, i) = was(t, j)
          BY <2>8, <3>0, <3>2 DEF OneWaits
        <4>2. QED
          BY <4>1 DEF was
      <3>3. QED
        BY <3>1, <3>2 DEF OneWaits
    <2>11. QED
      BY <2>9, <2>10
  <1>18. QED
    BY Steps, <1>4, <1>5, <1>6, <1>7, <1>8, <1>9, <1>10, <1>11, <1>12, <1>13, <1>14, <1>15, <1>16,
       <1>17

----------------------------------------------------------------------------
(* What a success tells.                                                   *)

LEMMA SuccessStep ==
  ASSUME UiInv, [Next]_vars PROVE SuccessIsTrue'
  <1> USE Callers DEF UiInv
  <1>a. call \in Calls
    BY DEF UiTypeOK
  <1>1. ASSUME uiMode' = None PROVE SuccessIsTrue'
    BY <1>1 DEF SuccessIsTrue
  <1>2. ASSUME UNCHANGED <<uiMode, recording, overtaken>>,
               NEW c \in Caller, call'[c].pc # "success",
               \A d \in Caller \ {c} : call'[d] = call[d]
        PROVE  SuccessIsTrue'
    BY <1>2 DEF SuccessIsTrue
  <1>3. ASSUME UNCHANGED <<uiMode, recording, overtaken, call>> PROVE SuccessIsTrue'
    BY <1>3 DEF SuccessIsTrue
  <1>4. ASSUME NEW w \in Workers, NEW op \in Ops, Post(w, op) PROVE SuccessIsTrue'
    <2>1. call'[w].pc # "success" /\ \A d \in Caller \ {w} : call'[d] = call[d]
      BY <1>4, <1>a DEF Post, Idle, Calls
    <2>2. QED
      BY <1>2, <1>4, <2>1 DEF Post, bridge, recorder
  <1>5. ASSUME NEW c \in Caller,
               \/ Busy(c) \/ NoPlan(c) \/ Publish(c) \/ ScriptEnds(c)
               \/ DriverAnswers(c) \/ TimesOut(c)
        PROVE  SuccessIsTrue'
    <2>1. UNCHANGED <<uiMode, recording, overtaken>> /\ Returns(c)
      BY <1>5 DEF Busy, NoPlan, Publish, ScriptEnds, DriverAnswers, TimesOut, Release, bridge,
                  recorder
    <2>2. call'[c].pc # "success" /\ \A d \in Caller \ {c} : call'[d] = call[d]
      BY <1>a, <2>1, ReturnsMoves
    <2>3. QED
      BY <1>2, <2>1, <2>2
  <1>6. ASSUME NEW c \in Caller, RunScript(c) \/ CallTrigger(c) PROVE SuccessIsTrue'
    <2>1. call'[c].pc # "success" /\ \A d \in Caller \ {c} : call'[d] = call[d]
      BY <1>6, <1>a DEF RunScript, CallTrigger, Calls
    <2>2. QED
      BY <1>2, <1>6, <2>1 DEF RunScript, CallTrigger, bridge, recorder
  <1>7. ASSUME NEW c \in Caller, Answered(c) PROVE SuccessIsTrue'
    <2>1. Inside(c) /\ Returns(c)
      BY <1>7 DEF Answered, Inside, Release
    <2>2. call'[c].pc # "success" /\ \A d \in Caller \ {c} : call'[d] = call[d]
      BY <1>a, <2>1, ReturnsMoves
    <2>3. \A d \in Caller \ {c} : call[d].pc # "success"
      BY <2>1 DEF Locked, Inside
    <2>4. QED
      BY <2>2, <2>3 DEF SuccessIsTrue
  <1>8. ASSUME Mailbox \/ UNCHANGED vars PROVE SuccessIsTrue'
    BY <1>8, <1>3 DEF Mailbox, Message, vars, bridge, recorder
  <1>9. ASSUME NEW m \in Modes, StartSession(m) PROVE SuccessIsTrue'
    BY <1>9 DEF StartSession, SuccessIsTrue
  <1>10. ASSUME Degrade \/ BeginStop PROVE SuccessIsTrue'
    <2>1. PICK c \in Caller : call' = [call EXCEPT ![c] = [pc |-> "begin", op |-> None]]
      BY <1>10 DEF Degrade, BeginStop
    <2>2. call'[c].pc # "success" /\ \A d \in Caller \ {c} : call'[d] = call[d]
      BY <1>a, <2>1 DEF Calls
    <2>3. QED
      BY <1>2, <1>10, <2>2 DEF Degrade, BeginStop, bridge, recorder
  <1>11. ASSUME NEW c \in {"degrade", "stop"}, StopRecorderIfActive(c) PROVE SuccessIsTrue'
    <2>1. c \in Caller /\ UNCHANGED <<uiMode, recording, overtaken>>
      BY <1>11 DEF StopRecorderIfActive, bridge, recorder
    <2>2. \A d \in Caller \ {c} : call'[d] = call[d]
      BY <1>11, <1>a DEF StopRecorderIfActive, Calls
    <2>3. CASE mail.flag
      BY <1>2, <1>11, <1>a, <2>1, <2>3, StopDispatches
    <2>4. CASE ~mail.flag
      <3>1. Returns(c)
        BY <1>11, <2>4 DEF StopRecorderIfActive, Returns
      <3>2. QED
        BY <1>2, <1>a, <2>1, <2>2, <3>1, ReturnsMoves
    <2>5. QED
      BY <2>3, <2>4
  <1>12. ASSUME ClearSession \/ Teardown PROVE SuccessIsTrue'
    BY <1>1, <1>12 DEF ClearSession, Teardown
  <1>13. ASSUME Serve PROVE SuccessIsTrue'
    <2>1. PICK m \in {Teleop, Dagger}, op \in RecorderOps, ok \in BOOLEAN :
            /\ queue[<<m, op>>] # <<>> /\ Answers(m, op, ok)
            /\ ok => recording' = IF op = "recorder_start" THEN recording \cup {m}
                                  ELSE recording \ {m}
            /\ ~ok => recording' = recording
      BY <1>13, ServeShape
    <2>2. PICK by \in Caller \cup {None} : by = Head(queue[<<m, op>>])
      BY <2>1, AnswersQueue
    <2>3. uiMode' = uiMode /\ uiMode \in {None, Teleop, Dagger}
      BY <2>1 DEF Answers, bridge, UiTypeOK
    <2>4. CASE by = None
      <3>1. call' = call
        BY <2>1, <2>2, <2>4, AnswersCall
      <3>2. overtaken' = (overtaken \/ (m = uiMode /\ \E c \in Caller : call[c].pc = "success"))
        BY <2>1, <2>2, <2>4 DEF Answers
      <3>3. m # uiMode => (uiMode \in recording' <=> uiMode \in recording)
        BY <2>1
      <3>4. ASSUME NEW c \in Caller, call[c].pc = "success", uiMode # None, ~overtaken'
            PROVE  call[c].op = "recorder_start" <=> uiMode \in recording'
        <4>1. ~overtaken /\ m # uiMode
          BY <3>2, <3>4
        <4>2. QED
          BY <3>3, <3>4, <4>1 DEF SuccessIsTrue
      <3>5. QED
        BY <2>3, <3>1, <3>4 DEF SuccessIsTrue
    <2>5. CASE by # None
      <3>1. /\ lock = by /\ call[by].pc = "trigger" /\ call[by].op = op
            /\ uiMode # None => m = uiMode
        BY <2>1, <2>2, <2>5, AnswersQueue, HeadWaits
      <3>2. /\ call'[by].pc = IF ok THEN "success" ELSE "failure"
            /\ call'[by].op = op
            /\ \A d \in Caller \ {by} : call'[d] = call[d]
        BY <2>1, <2>2, <2>5, <3>1, AnswersCall
      <3>3. \A d \in Caller \ {by} : call[d].pc # "success"
        BY <3>1 DEF Locked, Inside
      <3>4. ASSUME ok, uiMode # None PROVE op = "recorder_start" <=> uiMode \in recording'
        <4>1. m = uiMode
          BY <3>1, <3>4
        <4>2. CASE op = "recorder_start"
          BY <2>1, <3>4, <4>1, <4>2
        <4>3. CASE op # "recorder_start"
          BY <2>1, <3>4, <4>1, <4>3
        <4>4. QED
          BY <4>2, <4>3
      <3>5. ASSUME NEW c \in Caller, call'[c].pc = "success", uiMode # None
            PROVE  call'[c].op = "recorder_start" <=> uiMode \in recording'
        <4>1. c = by
          BY <3>2, <3>3, <3>5
        <4>2. ok
          BY <3>2, <3>5, <4>1
        <4>3. QED
          BY <3>2, <3>4, <3>5, <4>1, <4>2
      <3>6. QED
        BY <2>3, <3>5 DEF SuccessIsTrue
    <2>6. QED
      BY <2>4, <2>5
  <1>14. QED
    BY Steps, <1>4, <1>5, <1>6, <1>7, <1>8, <1>9, <1>10, <1>11, <1>12, <1>13

----------------------------------------------------------------------------
(* The theorems.                                                           *)

LEMMA InitInv == Init => UiInv
  <1> SUFFICES ASSUME Init PROVE UiInv
    OBVIOUS
  <1>1. mail \in Mail /\ gate \in Gate /\ overtaken \in BOOLEAN
    BY DEF Init, Cleared, NoGate, Mail, Gate
  <1>2. call \in Calls /\ \A c \in Caller : call[c].pc = "idle"
    BY DEF Init, Idle, Calls, Pc
  <1>3. /\ queue \in [Service -> Seq(Caller \cup {None})]
        /\ \A s \in Service : \A i \in Nat : ~Waits(s, i)
    <2>1. <<>> \in Seq(Caller \cup {None})
      OBVIOUS
    <2>2. queue = [s \in Service |-> <<>>]
      BY DEF Init, Empty
    <2>3. \A s \in Service : queue[s] = <<>>
      BY <2>2
    <2>4. QED
      BY <2>1, <2>2, <2>3 DEF Waits
  <1>4. UiTypeOK
    BY <1>1, <1>2, <1>3 DEF Init, UiTypeOK
  <1>5. Locked /\ SessionThreads /\ SuccessIsTrue
    BY <1>2, Callers DEF Init, Locked, Inside, SessionThreads, SuccessIsTrue
  <1>6. OneWaits
    BY <1>3 DEF OneWaits
  <1>7. QED
    BY <1>4, <1>5, <1>6 DEF UiInv

\* Whoever is inside dispatch holds the lock, nobody else waits for a recorder,
\* and a success that is not yet seen tells what the recorder does.
THEOREM UiInvHolds == Spec => []UiInv
  <1>1. UiInv /\ [Next]_vars => UiInv'
    BY TypeStep, LockedStep, ThreadsStep, OneWaitsStep, SuccessStep DEF UiInv
  <1>2. QED
    BY InitInv, <1>1, PTL DEF Spec

\* The recording flag is set to what the session's recorder does, whoever asked
\* for it and however many requests were given up, but for those that are served
\* between a success and the poll that sees it (_call_trigger, ros_bridge.py:468).
THEOREM FlagTruthHolds == Spec => FlagTruth
  <1> DEFINE True == mail'.flag # mail.flag /\ uiMode' # None /\ ~overtaken =>
                       mail'.flag = (uiMode' \in recording')
  <1>1. ASSUME UiInv, [Next]_vars PROVE True
    <2>a. mail \in Mail
      BY <1>1 DEF UiInv, UiTypeOK
    <2>1. ASSUME NEW c \in Caller, Answered(c) PROVE True
      <3>1. UNCHANGED <<uiMode, recording>>
        BY <2>1 DEF Answered
      <3>2. CASE call[c].pc = "success"
        <4>1. mail'.flag = (call[c].op = "recorder_start")
          BY <2>1, <2>a, <3>2 DEF Answered, Mail
        <4>2. QED
          BY <1>1, <3>1, <3>2, <4>1 DEF UiInv, SuccessIsTrue
      <3>3. CASE call[c].pc # "success"
        BY <2>1, <3>3 DEF Answered
      <3>4. QED
        BY <3>2, <3>3
    <2>2. ASSUME Mailbox PROVE mail'.flag = mail.flag
      <3>1. PICK topic \in Topics : \E value \in Published[topic] : Message(topic, value)
        BY <2>2 DEF Mailbox
      <3>2. PICK value \in Published[topic] : mail' = [mail EXCEPT ![topic] = value]
        BY <3>1 DEF Message
      <3>3. QED
        BY <2>a, <3>2 DEF Mail, Topics
    <2>3. ClearSession \/ Teardown => uiMode' = None
      BY DEF ClearSession, Teardown
    <2> HIDE DEF True
    <2>4. mail'.flag = mail.flag \/ uiMode' = None => True
      BY DEF True
    <2>5. QED
      BY MailMovers, <1>1, <2>1, <2>2, <2>3, <2>4
  <1>2. QED
    BY UiInvHolds, <1>1, PTL DEF Spec, FlagTruth

\* Whatever the mailbox shows has been written since the last session ended,
\* whoever publishes and whenever (clear_session_cache, ros_bridge.py:249).
THEOREM NoStaleMailboxHolds == Spec => []NoStaleMailbox
  <1>1. Init => NoStaleMailbox
    BY DEF Init, NoStaleMailbox
  <1>2. ASSUME UiInv, NoStaleMailbox, [Next]_vars PROVE NoStaleMailbox'
    <2>a. mail \in Mail /\ mail' \in Mail
      BY <1>2, MailStep DEF UiInv, UiTypeOK
    <2>b. DOMAIN mail = DOMAIN mail'
      BY <2>a DEF Mail
    <2>1. CASE UNCHANGED <<mail, fresh>>
      BY <1>2, <2>1 DEF NoStaleMailbox
    <2>2. ASSUME NEW written \in DOMAIN mail, fresh' = fresh \cup {written},
                 \A field \in DOMAIN mail \ {written} : mail'[field] = mail[field]
          PROVE  NoStaleMailbox'
      BY <1>2, <2>b, <2>2 DEF NoStaleMailbox
    <2>3. ASSUME NEW c \in Caller, Answered(c) PROVE NoStaleMailbox'
      <3>1. CASE call[c].pc = "success"
        <4>1. /\ mail' = [mail EXCEPT !.flag = (call[c].op = "recorder_start")]
              /\ fresh' = fresh \cup {"flag"}
          BY <2>3, <3>1 DEF Answered
        <4>2. "flag" \in DOMAIN mail
          BY <2>a DEF Mail
        <4>3. QED
          BY <2>2, <2>a, <4>1, <4>2 DEF Mail
      <3>2. CASE call[c].pc # "success"
        BY <2>1, <2>3, <3>2 DEF Answered
      <3>3. QED
        BY <3>1, <3>2
    <2>4. CASE Mailbox
      <3>1. PICK topic \in Topics : \E value \in Published[topic] : Message(topic, value)
        BY <2>4 DEF Mailbox
      <3>2. PICK value \in Published[topic] :
              mail' = [mail EXCEPT ![topic] = value] /\ fresh' = fresh \cup {topic}
        BY <3>1 DEF Message
      <3>3. topic \in DOMAIN mail
        BY <2>a DEF Mail, Topics
      <3>4. QED
        BY <2>2, <2>a, <3>2, <3>3 DEF Mail
    <2>5. CASE ClearSession \/ Teardown
      BY <2>5 DEF ClearSession, Teardown, NoStaleMailbox
    <2>6. ASSUME NEW c \in Caller,
                 \/ Busy(c) \/ NoPlan(c) \/ Publish(c) \/ RunScript(c) \/ CallTrigger(c)
                 \/ ScriptEnds(c) \/ DriverAnswers(c) \/ TimesOut(c)
          PROVE  UNCHANGED <<mail, fresh>>
      BY <2>6 DEF Busy, NoPlan, Publish, RunScript, CallTrigger, ScriptEnds, DriverAnswers,
                  TimesOut, bridge
    <2>7. Serve => UNCHANGED <<mail, fresh>>
      BY ServeShape DEF Answers, bridge
    <2>8. ASSUME \/ \E w \in Workers, op \in Ops : Post(w, op)
                 \/ UNCHANGED vars
                 \/ \E m \in Modes : StartSession(m)
                 \/ Degrade \/ BeginStop
                 \/ \E c \in {"degrade", "stop"} : StopRecorderIfActive(c)
          PROVE  UNCHANGED <<mail, fresh>>
      BY <2>8 DEF Post, StartSession, Degrade, BeginStop, StopRecorderIfActive, bridge, vars
    <2>9. QED
      BY Steps, <1>2, <2>1, <2>3, <2>4, <2>5, <2>6, <2>7, <2>8
  <1>3. QED
    BY UiInvHolds, <1>1, <1>2, PTL DEF Spec

\* Once an alignment or a teleoperation may run, only the reset of a session
\* changes which leader arms follow (leader_arms.py:23).
THEOREM GateFrozenHolds == Spec => GateFrozen
  <1> DEFINE Frozen == gate.locked /\ gate' # NoGate =>
                         gate'.left = gate.left /\ gate'.right = gate.right /\ gate'.locked
  <1>1. ASSUME UiInv, [Next]_vars PROVE Frozen
    <2>a. gate \in Gate
      BY <1>1 DEF UiInv, UiTypeOK
    <2>1. UNCHANGED gate => Frozen
      OBVIOUS
    <2>2. ASSUME NEW b \in BOOLEAN, gate' = [gate EXCEPT !.locked = @ \/ b] PROVE Frozen
      BY <2>2, <2>a DEF Gate
    <2>3. ASSUME Mailbox PROVE Frozen
      BY <2>1, <2>2, <2>3 DEF Mailbox, Message
    <2>4. ASSUME NEW c \in Caller, Publish(c) PROVE Frozen
      BY <2>2, <2>4 DEF Publish
    <2>5. ASSUME NEW c \in Caller, ScriptEnds(c) PROVE Frozen
      BY <2>5 DEF ScriptEnds
    <2>6. ClearSession => gate' = NoGate
      BY DEF ClearSession
    <2>7. gate' = NoGate => Frozen
      OBVIOUS
    <2> HIDE DEF Frozen
    <2>8. QED
      BY GateMovers, <1>1, <2>1, <2>3, <2>4, <2>5, <2>6, <2>7
  <1>2. QED
    BY UiInvHolds, <1>1, PTL DEF Spec, GateFrozen
=============================================================================
