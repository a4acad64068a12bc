---------------------------- MODULE SessionProofs ----------------------------
(***************************************************************************)
(* The session's life cycle, for all playbooks, faults and interleavings   *)
(* of its threads.  A thread inside stop() keeps the session in STOPPING,  *)
(* because every other switch of SessionLogic looks at the state first; so *)
(* the thread that ends the session finds it there.                        *)
(***************************************************************************)
EXTENDS SessionProps, SequenceTheorems, FiniteSetTheorems, TLAPS

\* While a thread is inside stop() the session is STOPPING (session_state.py:104).
StopHolds == stopper.pc # "none" => state = "STOPPING"

LEMMA StopHoldsFirst == Init => StopHolds
BY DEF Init, StopHolds, NoStopper

\* What the actions that belong to no stop do to the session: the state moves on
\* as the life cycle lets it, or stays.
Moves == Lifecycle!Proceed \/ UNCHANGED session

LEMMA StartMoves ==
  ASSUME (\E w \in Starters : Starting(w)) \/ RetryStep
  PROVE  (Moves /\ UNCHANGED stopper /\ state # "STOPPING") \/ UNCHANGED <<session, stopper>>
<1>1. ASSUME NEW w \in Starters, PrecheckFail(w)
      PROVE  (Moves /\ UNCHANGED stopper /\ state # "STOPPING") \/ UNCHANGED <<session, stopper>>
  BY <1>1 DEF PrecheckFail, Moves, Lifecycle!Proceed, Lifecycle!Follows, session
<1>2. ASSUME NEW w \in Starters, PrecheckOk(w)
      PROVE  (Moves /\ UNCHANGED stopper /\ state # "STOPPING") \/ UNCHANGED <<session, stopper>>
  BY <1>2 DEF PrecheckOk, Moves, Lifecycle!Proceed, Lifecycle!Follows, session
<1>3. ASSUME NEW w \in Starters, InstallSteps(w) \/ SetSessionMode(w)
      PROVE  UNCHANGED <<session, stopper>>
  BY <1>3 DEF InstallSteps, SetSessionMode
<1>4. CASE RetryStep
  BY <1>4 DEF RetryStep, Moves, Lifecycle!Proceed, Lifecycle!Follows, threads
<1> QED
  BY <1>1, <1>2, <1>3, <1>4 DEF Starting

LEMMA TickMoves ==
  ASSUME Tick
  PROVE  (Moves /\ UNCHANGED stopper /\ state # "STOPPING") \/ UNCHANGED <<session, stopper>>
<1>1. CASE TickReady
  BY <1>1 DEF TickReady, Moves, Lifecycle!Proceed, Lifecycle!Follows, threads
<1>2. CASE TickStart
  BY <1>2 DEF TickStart
<1>3. CASE TickHealthy
  BY <1>3 DEF TickHealthy, Advance, Moves, Lifecycle!Proceed, Lifecycle!Follows, threads, session
<1>4. CASE TickTimeout
  BY <1>4 DEF TickTimeout, Advance, Moves, Lifecycle!Proceed, Lifecycle!Follows, threads, session
<1>5. CASE TickDegraded
  BY <1>5 DEF TickDegraded, Moves, Lifecycle!Proceed, Lifecycle!Follows, threads
<1> QED
  BY <1>1, <1>2, <1>3, <1>4, <1>5 DEF Tick, TickProceeds

LEMMA StopMoves ==
  ASSUME StopHolds, Stop
  PROVE  /\ Lifecycle!Ended \/ UNCHANGED session
         /\ StopHolds'
<1>1. CASE BeforeStop
  BY <1>1 DEF BeforeStop, StopHolds, session
<1>2. CASE Terminate
  BY <1>2 DEF Terminate, StopHolds, session
<1>3. CASE RemoveContainer
  BY <1>3 DEF RemoveContainer, StopHolds, session
<1>4. CASE DisableLeader
  BY <1>4 DEF DisableLeader, StopHolds, session
<1>5. CASE MarkIdle
  BY <1>5 DEF MarkIdle, StopHolds, NoStopper, Lifecycle!Ended
<1> QED
  BY <1>1, <1>2, <1>3, <1>4, <1>5 DEF Stop

LEMMA BeginStopEnds ==
  ASSUME NEW main, BeginStop(main)
  PROVE  Lifecycle!End /\ StopHolds'
BY DEF BeginStop, Lifecycle!End, StopHolds

\* Every step of the session is one of its life cycle, or none.
LEMMA StepMoves ==
  ASSUME StopHolds, [Next]_vars
  PROVE  [Lifecycle!Next]_<<state, mode>> /\ StopHolds'
<1> USE DEF Lifecycle!Next
<1>1. ASSUME NEW w \in Starters, NEW m \in Modes, BeginStart(w, m)
      PROVE  Lifecycle!Begin /\ StopHolds'
  BY <1>1 DEF BeginStart, Lifecycle!Begin, StopHolds
<1>2. ASSUME NEW w \in Starters, PingFails(w) \/ Cleanup(w) \/ CountDrivers(w)
      PROVE  UNCHANGED session /\ StopHolds'
  BY <1>2 DEF PingFails, Cleanup, CountDrivers, session, StopHolds
<1>3. CASE (\E w \in Starters : Starting(w)) \/ RetryStep
  BY <1>3, StartMoves DEF Moves, StopHolds, session
<1>4. CASE CleanupStale \/ Spawned \/ ClearMode
  BY <1>4 DEF CleanupStale, Spawned, ClearMode, session, threads, StopHolds
<1>5. CASE Tick
  BY <1>5, TickMoves DEF Moves, StopHolds, session
<1>6. CASE PostStop \/ FinalStop
  BY <1>6, BeginStopEnds DEF PostStop, FinalStop
<1>7. CASE Sigint
  BY <1>7, BeginStopEnds DEF Sigint, session, threads, StopHolds
<1>8. CASE Sigterm
  BY <1>8 DEF Sigterm, session, threads, StopHolds
<1>9. CASE Stop
  BY <1>9, StopMoves DEF session
<1>10. CASE Environment
  BY <1>10 DEF Environment, DeadlinePasses, LeaderEnabled, LeaderExits, session, threads, StopHolds
<1>11. CASE UNCHANGED vars
  BY <1>11 DEF vars, session, threads, StopHolds
<1> QED
  BY <1>1, <1>2, <1>3, <1>4, <1>5, <1>6, <1>7, <1>8, <1>9, <1>10, <1>11
  DEF Next, Prechecking, session

\* The session obeys its life cycle whatever threads are inside start(), stop()
\* and tick(), for every playbook and every fault (supervisor.py:54).
THEOREM ImplementsLifecycleHolds == Spec => ImplementsLifecycle
<1>1. Init => Lifecycle!Init
  BY DEF Init, Lifecycle!Init
<1> QED
  BY <1>1, StopHoldsFirst, StepMoves, PTL DEF Spec, ImplementsLifecycle, Lifecycle!Spec

--------------------------------------------------------------------------
(* The invariants behind the session's safety properties.                  *)

Waiting == {"ping", "cleaned", "passed", "refused"}
Up == {"STARTING", "FAILED"} \cup Past
\* A request whose start() has taken a PRECHECK and has still to come to its end.
Serving(w) == At(w, {"install", "started"})

SessionTypeOK ==
  /\ state \in States /\ mode \in Modes \cup {None}
  /\ steps \in Seq(Step) /\ index \in Nat \ {0}
  /\ proc \in [Step -> {"none", "up", "headless"}] /\ stray \subseteq Step
  /\ torque \in BOOLEAN /\ exiting \in BOOLEAN /\ orphaned \in BOOLEAN /\ leaving \in BOOLEAN
  /\ starter \in [Starters -> [pc : Waiting \cup {"none", "install", "started"},
                               mode : Modes \cup {None}]]
  /\ \A w \in Starters : At(w, {"none"}) \/ starter[w].mode \in Modes
  /\ stopper \in [pc : {"none", "before", "terminate", "disable", "clear"},
                  left : Seq(Step), main : BOOLEAN]
  /\ spawning \in Step \cup {None}
  /\ crossed \subseteq {"start", "stop", "exit"}
  /\ state # "IDLE" => mode \in Modes

\* Where the threads are, given the session's state.  However many starts are in
\* their precheck, one of them takes it, and finds no steps; after stop() has removed
\* the container no thread launches anything; only an exit leaves a Popen behind in
\* a session that is over.
ThreadsInv ==
  /\ state = "STOPPING" <=> stopper.pc # "none"
  /\ stopper.main => exiting
  /\ state \in {"IDLE", "PRECHECK"} => steps = <<>> /\ index = 1
  /\ \A w \in Starters :
       /\ At(w, {"install"}) => steps = <<>> /\ index = 1 /\ spawning = None
       /\ Serving(w) => state \in Up \/ stopper.pc \in {"before", "terminate"}
       /\ Serving(w) => \A v \in Starters \ {w} : ~Serving(v)
  /\ stopper.pc \in {"disable", "clear"} => spawning = None \/ stopper.main
  /\ spawning # None => state # "PRECHECK" /\ (state = "IDLE" => exiting)
  /\ orphaned <=> spawning # None /\ state = "IDLE"

\* A session whose precheck failed: nothing was launched, and no retry is possible.
Refused == state = "FAILED" /\ steps = <<>> /\ index = 1

\* Either the request that starts the session is still to tell the bridge the mode
\* of the steps it has installed, or the bridge has it.
ModeInv ==
  /\ \A w \in Starters : Serving(w) /\ state \in Up =>
       /\ starter[w].mode = mode \/ "start" \in crossed
       /\ At(w, {"started"}) => steps = PlaybookFor(starter[w].mode)
  /\ (\A w \in Starters : ~Serving(w)) /\ state \in Up =>
       \/ Refused
       \/ /\ "stop" \in crossed \/ (uiMode \in Modes /\ steps = PlaybookFor(uiMode))
          /\ crossed # {} \/ uiMode = mode
  /\ state = "IDLE" /\ ~exiting /\ ~leaving => uiMode = None

\* From the removal of marvin's container to the next session nothing enables the
\* leader arms, unless a Popen that an exit overtook returns.
LeaderInv ==
  /\ stopper.pc \in {"disable", "clear"} => "marvin" \notin Running
  /\ stopper.pc = "clear" => ~torque
  /\ state = "IDLE" =>
       /\ \A s \in Step : ~Live(proc[s])
       /\ (~torque /\ "marvin" \notin stray) \/ "exit" \in crossed

\* Processes that no longer stand in what terminate() still has to visit.
Escapees == {s \in Step : Live(proc[s])} \cup ({spawning} \ {None})
Missed == Escapees \ ToSet(stopper.left)

\* What runs is in the plan, and stop() misses only what is being launched.
EscapeInv ==
  /\ \A s \in Step : proc[s] # "headless"
  /\ \A s \in Step : Live(proc[s]) => s \in ToSet(steps)
  /\ spawning # None /\ ~orphaned => spawning \in ToSet(steps)
  /\ stopper.pc \in {"terminate", "disable", "clear"} =>
       /\ \A x, y \in Missed : x = y
       /\ spawning # None => Missed \subseteq {spawning}
  /\ stopper.pc \in {"disable", "clear"} => stopper.left = <<>>

\* Once the drivers have been counted none appears but the session's own, or one
\* that an exit leaves behind: a start that has counted while another's session is
\* up does not live to see the next PRECHECK.
OwnInv ==
  /\ \A s \in Step : proc[s] # "headless"
  /\ \A w \in Starters :
       /\ At(w, {"install"}) => "driver" \notin Running
       /\ At(w, {"passed"}) =>
            \/ "driver" \notin Running
            \/ state \in Up \/ stopper.pc \in {"before", "terminate"}
            \/ exiting /\ state # "PRECHECK"
  /\ state \in Up => "driver" \notin stray \/ Refused

--------------------------------------------------------------------------
\* The steps of the requests, and what they do to the thread that takes them.
Requests ==
  \/ Prechecking \/ RetryStep \/ CleanupStale \/ ClearMode
  \/ \E w \in Starters : Starting(w)
Installs == \E w \in Starters : InstallSteps(w)

LEMMA GoOnEffect ==
  ASSUME SessionTypeOK, NEW w \in Starters, NEW pc, GoOn(w, pc)
  PROVE  /\ starter'[w].pc = pc /\ starter'[w].mode = starter[w].mode
         /\ \A v \in Starters \ {w} : starter'[v] = starter[v]
BY DEF GoOn, SessionTypeOK

LEMMA ReturnEffect ==
  ASSUME SessionTypeOK, NEW w \in Starters, Return(w)
  PROVE  /\ starter'[w] = NoStarter /\ starter'[w].pc = "none"
         /\ \A v \in Starters \ {w} : starter'[v] = starter[v]
BY DEF Return, SessionTypeOK, NoStarter

LEMMA PlaybookSteps ==
  ASSUME NEW m \in Modes
  PROVE  PlaybookFor(m) \in Seq(Step)
<1>1. CASE m \in DOMAIN Override
  BY <1>1, OverrideAssumption DEF PlaybookFor
<1>2. CASE m \notin DOMAIN Override
  <2>1. \A i \in DOMAIN PlaybookFor(m) : PlaybookFor(m)[i] \in Step
    BY DEF Step, ToSet
  <2>2. CASE m = Teleop
    <3>1. PlaybookFor(m) = <<"driver", "marvin", "align", "recorder">>
      BY <1>2, <2>2 DEF PlaybookFor, TeleopPlaybook
    <3> QED
      BY <2>1, <3>1
  <2>3. CASE m # Teleop
    <3>1. PlaybookFor(m) = <<"driver", "marvin", "arbiter", "dummy_policy">>
      BY <1>2, <2>3 DEF PlaybookFor, DaggerPlaybook
    <3> QED
      BY <2>1, <3>1
  <2> QED
    BY <2>2, <2>3
<1> QED
  BY <1>1, <1>2

LEMMA ReverseSteps ==
  ASSUME NEW S, NEW s \in Seq(S)
  PROVE  Reverse(s) \in Seq(S) /\ ToSet(Reverse(s)) = ToSet(s)
<1>1. /\ Reverse(s) \in Seq(S) /\ Len(Reverse(s)) = Len(s)
      /\ \A i \in 1..Len(s) : Reverse(s)[i] = s[Len(s) - i + 1]
  BY DEF Reverse
<1>2. \A i \in 1..Len(s) : Len(s) - i + 1 \in 1..Len(s) /\ Len(s) - (Len(s) - i + 1) + 1 = i
  OBVIOUS
<1>3. \A i \in 1..Len(s) : Reverse(s)[Len(s) - i + 1] = s[i]
  BY <1>1, <1>2
<1>4. \A x \in ToSet(s) : x \in ToSet(Reverse(s))
  BY <1>1, <1>2, <1>3 DEF ToSet
<1>5. \A i \in 1..Len(s) : Reverse(s)[i] \in ToSet(s)
  BY <1>1, <1>2 DEF ToSet
<1>6. \A x \in ToSet(Reverse(s)) : x \in ToSet(s)
  BY <1>1, <1>5 DEF ToSet
<1> QED
  BY <1>1, <1>4, <1>6

LEMMA CleanupEffect ==
  ASSUME SessionTypeOK, RunCleanup
  PROVE  /\ proc' \in [Step -> {"none", "up", "headless"}]
         /\ \A s \in Step : proc'[s] = proc[s] \/ ~Live(proc'[s])
         /\ stray' \subseteq stray
BY DEF SessionTypeOK, RunCleanup, Live

LEMMA TypesFirst == Init => SessionTypeOK
<1> SUFFICES ASSUME Init PROVE SessionTypeOK
  OBVIOUS
<1>1. stopper \in [pc : {"none", "before", "terminate", "disable", "clear"},
                  left : Seq(Step), main : BOOLEAN]
  BY EmptySeq DEF Init, NoStopper
<1>2. /\ starter \in [Starters -> [pc : Waiting \cup {"none", "install", "started"},
                                    mode : Modes \cup {None}]]
      /\ \A w \in Starters : At(w, {"none"})
  BY DEF Init, NoStarter, At
<1>3. proc \in [Step -> {"none", "up", "headless"}] /\ steps \in Seq(Step)
  BY DEF Init
<1>4. /\ torque \in BOOLEAN /\ exiting \in BOOLEAN
      /\ orphaned \in BOOLEAN /\ leaving \in BOOLEAN
  BY Zenon DEF Init
<1> QED
  BY <1>1, <1>2, <1>3, <1>4 DEF Init, SessionTypeOK, States

LEMMA StarterTypes ==
  ASSUME SessionTypeOK, NEW w \in Starters,
         \/ \E pc \in Waiting \cup {"install", "started"} : ~At(w, {"none"}) /\ GoOn(w, pc)
         \/ Return(w)
         \/ \E m \in Modes : starter' = [starter EXCEPT ![w] = [pc |-> "ping", mode |-> m]]
  PROVE  /\ starter' \in [Starters -> [pc : Waiting \cup {"none", "install", "started"},
                                       mode : Modes \cup {None}]]
         /\ \A v \in Starters : At(v, {"none"})' \/ starter'[v].mode \in Modes
<1> DEFINE Pc == Waiting \cup {"none", "install", "started"}
<1>1. starter \in [Starters -> [pc : Pc, mode : Modes \cup {None}]]
  BY DEF SessionTypeOK
<1>2. \A v \in Starters : starter[v].pc = "none" \/ starter[v].mode \in Modes
  BY DEF SessionTypeOK, At
<1>3. CASE \E pc \in Waiting \cup {"install", "started"} : ~At(w, {"none"}) /\ GoOn(w, pc)
  <2> PICK pc \in Waiting \cup {"install", "started"} : ~At(w, {"none"}) /\ GoOn(w, pc)
    BY <1>3
  <2>1. pc \in Pc /\ starter[w].mode \in Modes /\ starter' = [starter EXCEPT ![w].pc = pc]
    BY <1>2 DEF At, GoOn
  <2> HIDE DEF Pc
  <2>2. /\ starter' \in [Starters -> [pc : Pc, mode : Modes \cup {None}]]
        /\ starter'[w].mode = starter[w].mode
        /\ \A v \in Starters \ {w} : starter'[v] = starter[v]
    BY <1>1, <2>1
  <2> QED
    BY <1>2, <2>1, <2>2 DEF At, Pc
<1>4. CASE Return(w) \/ \E m \in Modes : starter' = [starter EXCEPT ![w] = [pc |-> "ping", mode |-> m]]
  <2>1. \E x \in [pc : Pc, mode : Modes \cup {None}] :
          (x.pc = "none" \/ x.mode \in Modes) /\ starter' = [starter EXCEPT ![w] = x]
    BY <1>4 DEF Return, NoStarter, Waiting
  <2> PICK x \in [pc : Pc, mode : Modes \cup {None}] :
         (x.pc = "none" \/ x.mode \in Modes) /\ starter' = [starter EXCEPT ![w] = x]
    BY <2>1
  <2> HIDE DEF Pc
  <2>2. /\ starter' \in [Starters -> [pc : Pc, mode : Modes \cup {None}]]
        /\ starter'[w] = x
        /\ \A v \in Starters \ {w} : starter'[v] = starter[v]
    BY <1>1
  <2> QED
    BY <1>2, <2>2 DEF At, Pc
<1> QED
  BY <1>3, <1>4

LEMMA StartingTypes ==
  ASSUME SessionTypeOK, Requests
  PROVE  SessionTypeOK'
<1>1. ASSUME NEW w \in Starters, NEW m \in Modes, BeginStart(w, m)
      PROVE  SessionTypeOK'
  BY <1>1, StarterTypes DEF SessionTypeOK, BeginStart, States, plan, world, bridge
<1>2. ASSUME NEW w \in Starters, PingFails(w) \/ CountDrivers(w)
      PROVE  SessionTypeOK'
  <2>1. \E pc \in Waiting : ~At(w, {"none"}) /\ GoOn(w, pc)
    BY <1>2 DEF PingFails, CountDrivers, At, Waiting
  <2> QED
    BY <1>2, <2>1, StarterTypes DEF SessionTypeOK, PingFails, CountDrivers, session, plan, world, bridge
<1>3. ASSUME NEW w \in Starters, Cleanup(w)
      PROVE  SessionTypeOK'
  <2>1. \E pc \in Waiting : ~At(w, {"none"}) /\ GoOn(w, pc)
    BY <1>3 DEF Cleanup, At, Waiting
  <2> QED
    BY <1>3, <2>1, StarterTypes, CleanupEffect DEF SessionTypeOK, Cleanup, session, plan, bridge
<1>4. CASE CleanupStale
  BY <1>4, CleanupEffect DEF SessionTypeOK, CleanupStale, session, plan, threads, bridge, At
<1>5. ASSUME NEW w \in Starters, PrecheckFail(w) \/ PrecheckOk(w)
      PROVE  SessionTypeOK'
  <2>1. Return(w) \/ (~At(w, {"none"}) /\ GoOn(w, "install"))
    BY <1>5 DEF PrecheckFail, PrecheckOk, At
  <2>2. state' \in States /\ (state' # "IDLE" => state # "IDLE") /\ crossed' \subseteq {"start", "stop", "exit"}
    BY <1>5 DEF SessionTypeOK, PrecheckFail, PrecheckOk, States, bridge
  <2> QED
    BY <1>5, <2>1, <2>2, StarterTypes DEF SessionTypeOK, PrecheckFail, PrecheckOk, plan, world, bridge
<1>6. ASSUME NEW w \in Starters, SetSessionMode(w)
      PROVE  SessionTypeOK'
  BY <1>6, StarterTypes DEF SessionTypeOK, SetSessionMode, session, plan, world
<1>7. CASE RetryStep \/ ClearMode
  <2>1. crossed' \subseteq {"start", "stop", "exit"} /\ leaving' \in BOOLEAN
    BY <1>7 DEF SessionTypeOK, RetryStep, ClearMode, bridge
  <2> QED
    BY <1>7, <2>1 DEF SessionTypeOK, RetryStep, ClearMode, session, plan, world, threads, States, At
<1>8. ASSUME NEW w \in Starters, InstallSteps(w)
      PROVE  SessionTypeOK'
  <2>1. ~At(w, {"none"}) /\ GoOn(w, "started")
    BY <1>8 DEF InstallSteps, At
  <2>2. steps' \in Seq(Step) /\ index' = 1
    <3>1. starter[w].mode \in Modes
      BY <2>1 DEF SessionTypeOK
    <3> QED
      BY <1>8, <3>1, PlaybookSteps DEF InstallSteps
  <2>3. proc' \in [Step -> {"none", "up", "headless"}] /\ stray' \subseteq Step
        /\ orphaned' \in BOOLEAN
    BY <1>8 DEF InstallSteps, Forget, SessionTypeOK
  <2> QED
    BY <1>8, <2>1, <2>2, <2>3, StarterTypes DEF InstallSteps, SessionTypeOK, session, bridge
<1> QED
  BY <1>1, <1>2, <1>3, <1>4, <1>5, <1>6, <1>7, <1>8 DEF Requests, Prechecking, Starting

LEMMA TickTypes ==
  ASSUME SessionTypeOK, Tick \/ Spawned \/ Environment
  PROVE  SessionTypeOK'
<1>1. CASE TickReady \/ TickHealthy \/ TickTimeout \/ TickDegraded
  <2>1. state' \in States /\ index' \in Nat \ {0} /\ state # "IDLE"
    BY <1>1 DEF SessionTypeOK, TickReady, TickHealthy, TickTimeout, TickDegraded, Advance, plan, States
  <2>2. UNCHANGED <<mode, steps, world, threads, bridge, exiting>>
    BY <1>1 DEF TickReady, TickHealthy, TickTimeout, TickDegraded, plan
  <2> QED
    BY <2>1, <2>2 DEF SessionTypeOK, world, threads, bridge, At
<1>2. CASE TickStart
  <2>1. steps[index] \in Step
    BY <1>2 DEF SessionTypeOK, TickStart
  <2> QED
    BY <1>2, <2>1 DEF SessionTypeOK, TickStart, session, world, bridge, At
<1>3. CASE Spawned
  BY <1>3 DEF SessionTypeOK, Spawned, session, At
<1>4. CASE Environment
  <2>1. proc' \in [Step -> {"none", "up", "headless"}]
    BY <1>4 DEF SessionTypeOK, Environment, DeadlinePasses, LeaderEnabled, LeaderExits, May, world
  <2>3. torque' \in BOOLEAN
    <3>1. torque' = torque \/ torque' = TRUE
      BY <1>4, Zenon DEF Environment, DeadlinePasses, LeaderEnabled, LeaderExits, world
    <3> QED
      BY <3>1, Zenon DEF SessionTypeOK
  <2>2. UNCHANGED <<session, steps, index, stray, threads, bridge, exiting>>
    BY <1>4 DEF Environment, DeadlinePasses, LeaderEnabled, LeaderExits, plan, world
  <2> QED
    BY <2>1, <2>2, <2>3 DEF SessionTypeOK, session, threads, bridge, At
<1> QED
  BY <1>1, <1>2, <1>3, <1>4 DEF Tick, TickProceeds

LEMMA StopTypes ==
  ASSUME SessionTypeOK, PostStop \/ Sigint \/ Sigterm \/ FinalStop \/ Stop \/ UNCHANGED vars
  PROVE  SessionTypeOK'
<1>1. ASSUME NEW main \in BOOLEAN, BeginStop(main), exiting' \in BOOLEAN
      PROVE  SessionTypeOK'
  <2>1. <<>> \in Seq(Step)
    OBVIOUS
  <2> QED
    BY <1>1, <2>1 DEF SessionTypeOK, BeginStop, States, plan, world, bridge, At
<1>2. CASE PostStop \/ Sigint \/ Sigterm \/ FinalStop \/ UNCHANGED vars
  BY <1>1, <1>2 DEF SessionTypeOK, PostStop, Sigint, Sigterm, FinalStop, vars, session, plan,
    world, threads, bridge, At
<1>3. CASE BeforeStop
  <2>1. Reverse(steps) \in Seq(Step)
    BY ReverseSteps DEF SessionTypeOK
  <2> QED
    BY <1>3, <2>1 DEF SessionTypeOK, BeforeStop, session, plan, world, At
<1>4. CASE Terminate
  <2>1. Tail(stopper.left) \in Seq(Step) /\ Head(stopper.left) \in Step
    BY <1>4, HeadTailProperties DEF SessionTypeOK, Terminate
  <2>2. proc' \in [Step -> {"none", "up", "headless"}]
    BY <1>4, <2>1 DEF SessionTypeOK, Terminate, May
  <2> QED
    BY <1>4, <2>1, <2>2 DEF SessionTypeOK, Terminate, session, plan, bridge, At
<1>5. CASE RemoveContainer \/ DisableLeader
  BY <1>5 DEF SessionTypeOK, RemoveContainer, DisableLeader, session, plan, bridge, At
<1>6. CASE MarkIdle
  BY <1>6, EmptySeq DEF SessionTypeOK, MarkIdle, Forget, NoStopper, States, At
<1> QED
  BY <1>2, <1>3, <1>4, <1>5, <1>6 DEF Stop

LEMMA TypesStep == SessionTypeOK /\ [Next]_vars => SessionTypeOK'
BY StartingTypes, TickTypes, StopTypes DEF Next, Requests

--------------------------------------------------------------------------
LEMMA ThreadsFirst == Init => ThreadsInv
BY DEF Init, ThreadsInv, NoStarter, NoStopper, At, Serving

\* A step that starts, ends or serves no start keeps the invariant if the session
\* stays where the serving threads need it.
LEMMA SameStarters ==
  ASSUME ThreadsInv, UNCHANGED starter,
         \A w \in Starters :
           /\ At(w, {"install"}) => UNCHANGED <<steps, index, spawning>>
           /\ Serving(w) => state' \in Up \/ stopper'.pc \in {"before", "terminate"}
  PROVE  \A w \in Starters :
           /\ At(w, {"install"})' => (steps = <<>> /\ index = 1 /\ spawning = None)'
           /\ Serving(w)' => (state \in Up \/ stopper.pc \in {"before", "terminate"})'
           /\ Serving(w)' => \A v \in Starters \ {w} : ~Serving(v)'
BY DEF ThreadsInv, Serving, At

\* And so does one that takes a single thread to a place outside of start()'s end.
LEMMA OneStarter ==
  ASSUME ThreadsInv, NEW w \in Starters, UNCHANGED <<steps, index, spawning, state, stopper>>,
         starter'[w].pc \notin {"install", "started"},
         \A v \in Starters \ {w} : starter'[v] = starter[v]
  PROVE  \A u \in Starters :
           /\ At(u, {"install"})' => (steps = <<>> /\ index = 1 /\ spawning = None)'
           /\ Serving(u)' => (state \in Up \/ stopper.pc \in {"before", "terminate"})'
           /\ Serving(u)' => \A v \in Starters \ {u} : ~Serving(v)'
BY DEF ThreadsInv, Serving, At

LEMMA StartingThreads ==
  ASSUME SessionTypeOK, ThreadsInv, Requests
  PROVE  ThreadsInv'
<1>1. ASSUME NEW w \in Starters, NEW m \in Modes, BeginStart(w, m)
      PROVE  ThreadsInv'
  <2>1. \A v \in Starters : Serving(v)' => Serving(v)
    BY <1>1 DEF BeginStart, SessionTypeOK, Serving, At
  <2>2. \A v \in Starters : ~Serving(v)
    BY <1>1 DEF BeginStart, ThreadsInv, Up, Past
  <2>3. \A v \in Starters : ~Serving(v)' /\ ~At(v, {"install"})'
    BY <2>1, <2>2 DEF Serving, At
  <2> QED
    BY <1>1, <2>3 DEF BeginStart, ThreadsInv, plan
<1>2. ASSUME NEW w \in Starters, PingFails(w) \/ CountDrivers(w) \/ Cleanup(w)
      PROVE  ThreadsInv'
  <2>1. UNCHANGED <<steps, index, spawning, orphaned, state, stopper, exiting>>
    BY <1>2 DEF PingFails, CountDrivers, Cleanup, plan, session
  <2>2. \E pc \in Waiting : GoOn(w, pc)
    BY <1>2 DEF PingFails, CountDrivers, Cleanup, Waiting
  <2>3. starter'[w].pc \notin {"install", "started"}
        /\ \A v \in Starters \ {w} : starter'[v] = starter[v]
    BY <2>2, GoOnEffect DEF Waiting
  <2> QED
    BY <2>1, <2>3, OneStarter DEF ThreadsInv
<1>3. ASSUME NEW w \in Starters, PrecheckFail(w)
      PROVE  ThreadsInv'
  <2>1. /\ UNCHANGED <<steps, index, spawning, orphaned, stopper, exiting>>
        /\ state' = state \/ (state = "PRECHECK" /\ state' = "FAILED")
    BY <1>3 DEF PrecheckFail, plan
  <2>2. starter'[w].pc = "none" /\ \A v \in Starters \ {w} : starter'[v] = starter[v]
    BY <1>3, ReturnEffect DEF PrecheckFail
  <2>3. \A v \in Starters : (Serving(v)' => Serving(v)) /\ (At(v, {"install"})' => At(v, {"install"}))
    BY <2>2 DEF Serving, At
  <2> QED
    BY <2>1, <2>3 DEF ThreadsInv, Up, Past
<1>4. ASSUME NEW w \in Starters, PrecheckOk(w)
      PROVE  ThreadsInv'
  <2>1. UNCHANGED <<steps, index, spawning, orphaned, stopper, exiting>>
    BY <1>4 DEF PrecheckOk, plan
  <2>2. CASE state = "PRECHECK"
    <3>1. state' = "STARTING" /\ GoOn(w, "install")
      BY <1>4, <2>2 DEF PrecheckOk
    <3>2. starter'[w].pc = "install" /\ \A v \in Starters \ {w} : starter'[v] = starter[v]
      BY <3>1, GoOnEffect
    <3>3. steps = <<>> /\ index = 1 /\ spawning = None /\ stopper.pc = "none" /\ ~orphaned
          /\ \A v \in Starters : ~Serving(v)
      BY <2>2 DEF ThreadsInv, Up, Past
    <3>4. \A v \in Starters \ {w} : ~Serving(v)' /\ ~At(v, {"install"})'
      BY <3>2, <3>3 DEF Serving, At
    <3>5. \A u \in Starters :
             /\ At(u, {"install"})' => (steps = <<>> /\ index = 1 /\ spawning = None)'
             /\ Serving(u)' => (state \in Up \/ stopper.pc \in {"before", "terminate"})'
             /\ Serving(u)' => \A v \in Starters \ {u} : ~Serving(v)'
      BY <2>1, <3>1, <3>3, <3>4 DEF Up, Past
    <3> QED
      BY <2>1, <3>1, <3>3, <3>5 DEF ThreadsInv
  <2>3. CASE state # "PRECHECK"
    <3>1. UNCHANGED state /\ starter'[w].pc = "none"
          /\ \A v \in Starters \ {w} : starter'[v] = starter[v]
      BY <1>4, <2>3, ReturnEffect DEF PrecheckOk
    <3> QED
      BY <2>1, <3>1, OneStarter DEF ThreadsInv
  <2> QED
    BY <2>2, <2>3
<1>5. ASSUME NEW w \in Starters, InstallSteps(w)
      PROVE  ThreadsInv'
  <2>1. UNCHANGED <<spawning, state, stopper, exiting>> /\ At(w, {"install"})
        /\ orphaned' = (spawning # None)
    BY <1>5 DEF InstallSteps, Forget, session
  <2>2. starter'[w].pc = "started" /\ \A v \in Starters \ {w} : starter'[v] = starter[v]
    BY <1>5, GoOnEffect DEF InstallSteps
  <2>3. Serving(w) /\ spawning = None /\ \A v \in Starters \ {w} : ~Serving(v)
    BY <2>1 DEF ThreadsInv, Serving, At
  <2>4. \A v \in Starters \ {w} : ~Serving(v)' /\ ~At(v, {"install"})'
    BY <2>2, <2>3 DEF Serving, At
  <2>5. ~At(w, {"install"})'
    BY <2>2 DEF At
  <2>6. state \in Up \/ stopper.pc \in {"before", "terminate"}
    BY <2>3 DEF ThreadsInv
  <2>7. state \notin {"IDLE", "PRECHECK"}
    BY <2>6 DEF ThreadsInv, Up, Past
  <2>8. \A u \in Starters :
           /\ At(u, {"install"})' => (steps = <<>> /\ index = 1 /\ spawning = None)'
           /\ Serving(u)' => (state \in Up \/ stopper.pc \in {"before", "terminate"})'
           /\ Serving(u)' => \A v \in Starters \ {u} : ~Serving(v)'
    BY <2>1, <2>4, <2>5, <2>6 DEF Up, Past
  <2> QED
    BY <2>1, <2>3, <2>7, <2>8 DEF ThreadsInv
<1>6. ASSUME NEW w \in Starters, SetSessionMode(w)
      PROVE  ThreadsInv'
  <2>1. UNCHANGED <<steps, index, spawning, orphaned, state, stopper, exiting>>
    BY <1>6 DEF SetSessionMode, plan, session
  <2>2. starter'[w].pc = "none" /\ \A v \in Starters \ {w} : starter'[v] = starter[v]
    BY <1>6, ReturnEffect DEF SetSessionMode
  <2> QED
    BY <2>1, <2>2, OneStarter DEF ThreadsInv
<1>7. CASE RetryStep
  <2>1. state = "FAILED" /\ state' = "STARTING" /\ UNCHANGED <<steps, index, threads, exiting>>
    BY <1>7 DEF RetryStep
  <2> QED
    BY <2>1, SameStarters DEF ThreadsInv, threads, Up, Past
<1>8. CASE CleanupStale \/ ClearMode
  <2>1. UNCHANGED <<state, steps, index, threads, exiting>>
    BY <1>8 DEF CleanupStale, ClearMode, session, plan, threads
  <2> QED
    BY <2>1, SameStarters DEF ThreadsInv, threads
<1> QED
  BY <1>1, <1>2, <1>3, <1>4, <1>5, <1>6, <1>7, <1>8 DEF Requests, Prechecking, Starting

LEMMA TickThreads ==
  ASSUME SessionTypeOK, ThreadsInv, Tick \/ Spawned \/ Environment
  PROVE  ThreadsInv'
<1>1. CASE TickReady \/ TickDegraded
  <2>1. state \in Up /\ state' \in Up /\ UNCHANGED <<steps, index, threads, exiting>>
        /\ state \notin {"IDLE", "PRECHECK", "STOPPING"} /\ state' \notin {"IDLE", "PRECHECK", "STOPPING"}
    BY <1>1 DEF TickReady, TickDegraded, plan, Up, Past
  <2> QED
    BY <2>1, SameStarters DEF ThreadsInv, threads
<1>2. CASE TickHealthy \/ TickTimeout
  <2>1. steps # <<>> /\ state = "STARTING" /\ UNCHANGED <<steps, threads, exiting>>
        /\ state' \in Up /\ spawning = None
    BY <1>2 DEF TickHealthy, TickTimeout, Advance, SessionTypeOK, TickFree, Up, Past
  <2>2. \A w \in Starters : ~At(w, {"install"})
    BY <2>1 DEF ThreadsInv
  <2> QED
    BY <2>1, <2>2, SameStarters DEF ThreadsInv, threads, Up, Past
<1>3. CASE TickStart
  <2>1. steps # <<>> /\ state = "STARTING"
    BY <1>3 DEF TickStart, TickFree, SessionTypeOK
  <2>2. UNCHANGED <<state, steps, index, starter, stopper, exiting>>
    BY <1>3 DEF TickStart, session
  <2>3. ~orphaned' /\ spawning = None /\ ~stopper.main
    BY <1>3, <2>1 DEF TickStart, TickFree, ThreadsInv
  <2>4. stopper.pc = "none" /\ \A w \in Starters : ~At(w, {"install"})
    BY <2>1 DEF ThreadsInv
  <2> QED
    BY <2>1, <2>2, <2>3, <2>4, SameStarters DEF ThreadsInv, Up
<1>4. CASE Spawned
  <2>1. UNCHANGED <<state, steps, index, starter, stopper, exiting>>
        /\ spawning # None /\ spawning' = None /\ ~orphaned'
    BY <1>4 DEF Spawned, session
  <2>2. \A w \in Starters : ~At(w, {"install"})
    BY <2>1 DEF ThreadsInv
  <2> QED
    BY <2>1, <2>2, SameStarters DEF ThreadsInv
<1>5. CASE Environment
  <2>1. UNCHANGED <<state, steps, index, threads, exiting>>
    BY <1>5 DEF Environment, DeadlinePasses, LeaderEnabled, LeaderExits, session, plan, threads
  <2> QED
    BY <2>1, SameStarters DEF ThreadsInv, threads
<1> QED
  BY <1>1, <1>2, <1>3, <1>4, <1>5 DEF Tick, TickProceeds

LEMMA StopThreads ==
  ASSUME SessionTypeOK, ThreadsInv,
         PostStop \/ Sigint \/ Sigterm \/ FinalStop \/ Stop \/ UNCHANGED vars
  PROVE  ThreadsInv'
<1>1. ASSUME NEW main \in BOOLEAN, BeginStop(main), exiting => exiting', main => exiting'
      PROVE  ThreadsInv'
  <2>1. /\ state \notin {"IDLE", "STOPPING"} /\ state' = "STOPPING"
        /\ stopper'.pc = "before" /\ stopper'.main = main
        /\ UNCHANGED <<steps, index, starter, spawning, orphaned>>
    BY <1>1 DEF BeginStop, plan
  <2> QED
    BY <1>1, <2>1, SameStarters DEF ThreadsInv
<1>2. CASE PostStop \/ Sigint \/ Sigterm \/ FinalStop \/ UNCHANGED vars
  <2>1. CASE PostStop
    BY <1>1, <2>1 DEF PostStop, SessionTypeOK
  <2>2. CASE Sigint
    <3>1. CASE BeginStop(TRUE)
      BY <1>1, <2>2, <3>1 DEF Sigint
    <3>2. CASE ~BeginStop(TRUE)
      <4>1. UNCHANGED <<state, steps, index, starter, spawning, orphaned, stopper>> /\ exiting'
        BY <2>2, <3>2 DEF Sigint, session, plan, threads
      <4> QED
        BY <4>1, SameStarters DEF ThreadsInv
    <3> QED
      BY <3>1, <3>2
  <2>3. CASE Sigterm \/ UNCHANGED vars
    <3>1. UNCHANGED <<state, steps, index, starter, spawning, orphaned, stopper>> /\ (exiting => exiting')
      BY <2>3 DEF Sigterm, vars, SessionTypeOK, session, plan, threads
    <3> QED
      BY <3>1, SameStarters DEF ThreadsInv
  <2>4. CASE FinalStop
    BY <1>1, <2>4 DEF FinalStop, SessionTypeOK
  <2> QED
    BY <1>2, <2>1, <2>2, <2>3, <2>4
<1>3. CASE BeforeStop \/ Terminate \/ DisableLeader
  <2>1. /\ UNCHANGED <<state, steps, index, starter, spawning, orphaned, exiting>>
        /\ stopper'.main = stopper.main /\ stopper.pc # "none" /\ stopper'.pc # "none"
        /\ stopper'.pc \in {"disable", "clear"} => stopper.pc = "disable"
        /\ stopper'.pc \in {"before", "terminate"} \/ stopper.pc = "disable"
    BY <1>3 DEF BeforeStop, Terminate, DisableLeader, session, plan, SessionTypeOK
  <2>2. \A w \in Starters : Serving(w) => state' \in Up \/ stopper'.pc \in {"before", "terminate"}
    BY <2>1 DEF ThreadsInv
  <2> QED
    BY <2>1, <2>2, SameStarters DEF ThreadsInv
<1>4. CASE RemoveContainer
  <2>1. /\ UNCHANGED <<state, steps, index, starter, spawning, orphaned, exiting>>
        /\ stopper'.main = stopper.main /\ stopper.pc # "none" /\ stopper'.pc # "none"
        /\ spawning = None \/ stopper.main
    BY <1>4 DEF RemoveContainer, session, plan, SessionTypeOK
  <2>2. \A w \in Starters : ~Serving(w) /\ ~At(w, {"install"})
    BY <1>4 DEF RemoveContainer, Serving, At
  <2> QED
    BY <2>1, <2>2, SameStarters DEF ThreadsInv
<1>5. CASE MarkIdle
  <2>1. /\ state' = "IDLE" /\ steps' = <<>> /\ index' = 1 /\ stopper'.pc = "none" /\ ~stopper'.main
        /\ stopper.pc = "clear" /\ orphaned' = (spawning # None) /\ UNCHANGED <<starter, spawning, exiting>>
    BY <1>5 DEF MarkIdle, Forget, NoStopper
  <2>2. \A w \in Starters : ~Serving(w) /\ ~At(w, {"install"})
    BY <2>1 DEF ThreadsInv, Serving, At, Up, Past
  <2> QED
    BY <2>1, <2>2, SameStarters DEF ThreadsInv
<1> QED
  BY <1>2, <1>3, <1>4, <1>5 DEF Stop

LEMMA ThreadsStep == SessionTypeOK /\ ThreadsInv /\ [Next]_vars => ThreadsInv'
BY StartingThreads, TickThreads, StopThreads DEF Next, Requests

--------------------------------------------------------------------------
LEMMA ModeFirst == Init => ModeInv
BY DEF Init, ModeInv, NoStarter, Serving, At, Up, Past

\* A step that leaves the threads, the bridge and the plan's steps alone, and the
\* session's mode unless the session is over, keeps what the bridge knows.
LEMMA SameMode ==
  ASSUME ModeInv, UNCHANGED <<starter, bridge, steps, mode>>,
         state' \in Up => state \in Up /\ (Refused => Refused'),
         state' = "IDLE" => state = "IDLE",
         exiting => exiting'
  PROVE  ModeInv'
<1>1. \A w \in Starters : Serving(w)' /\ (state \in Up)' =>
        /\ (starter[w].mode = mode \/ "start" \in crossed)'
        /\ At(w, {"started"})' => (steps = PlaybookFor(starter[w].mode))'
  BY DEF ModeInv, Serving, At, Up, Past, bridge
<1>2. (\A w \in Starters : ~Serving(w)') /\ (state \in Up)' =>
        \/ Refused'
        \/ /\ ("stop" \in crossed \/ (uiMode \in Modes /\ steps = PlaybookFor(uiMode)))'
           /\ (crossed # {} \/ uiMode = mode)'
  BY DEF ModeInv, Serving, At, Up, Past, bridge
<1>3. (state = "IDLE" /\ ~exiting /\ ~leaving => uiMode = None)'
  BY DEF ModeInv, bridge
<1> QED
  BY <1>1, <1>2, <1>3 DEF ModeInv

LEMMA StartingMode ==
  ASSUME SessionTypeOK, ThreadsInv, ModeInv, Requests
  PROVE  ModeInv'
<1>1. ASSUME NEW w \in Starters, NEW m \in Modes, BeginStart(w, m)
      PROVE  ModeInv'
  BY <1>1 DEF BeginStart, ModeInv, Up, Past
<1>2. ASSUME NEW w \in Starters, PingFails(w) \/ CountDrivers(w) \/ Cleanup(w)
      PROVE  ModeInv'
  <2>1. /\ UNCHANGED <<state, mode, steps, index, exiting, leaving, uiMode, crossed>>
        /\ \E pc \in Waiting : GoOn(w, pc)
        /\ ~Serving(w)
    BY <1>2 DEF PingFails, CountDrivers, Cleanup, session, plan, bridge, Serving, At, Waiting
  <2>2. \A v \in Starters : /\ Serving(v)' <=> Serving(v)
                            /\ Serving(v) => starter'[v] = starter[v]
    BY <2>1, GoOnEffect DEF Serving, At, Waiting
  <2> QED
    BY <2>1, <2>2 DEF ModeInv, Serving, At, Up, Past, Refused
<1>3. ASSUME NEW w \in Starters, PrecheckFail(w)
      PROVE  ModeInv'
  <2>1. /\ UNCHANGED <<mode, steps, index, exiting, leaving, uiMode, crossed>>
        /\ UNCHANGED state \/ (state = "PRECHECK" /\ state' = "FAILED")
        /\ Return(w) /\ ~Serving(w)
    BY <1>3 DEF PrecheckFail, plan, bridge, Serving, At
  <2>2. \A v \in Starters : /\ Serving(v)' <=> Serving(v)
                            /\ Serving(v) => starter'[v] = starter[v]
    BY <2>1, ReturnEffect DEF Serving, At
  <2>3. CASE UNCHANGED state
    BY <2>1, <2>2, <2>3 DEF ModeInv, Serving, At, Up, Past, Refused
  <2>4. CASE state = "PRECHECK" /\ state' = "FAILED"
    <3>1. Refused' /\ \A v \in Starters : ~Serving(v)
      BY <2>1, <2>4 DEF ThreadsInv, Refused, Up, Past
    <3> QED
      BY <2>2, <2>4, <3>1 DEF ModeInv
  <2> QED
    BY <2>1, <2>3, <2>4
<1>4. ASSUME NEW w \in Starters, PrecheckOk(w), state = "PRECHECK"
      PROVE  ModeInv'
  <2>1. /\ state' = "STARTING" /\ UNCHANGED mode /\ GoOn(w, "install")
        /\ crossed' = crossed \cup (IF starter[w].mode = mode THEN {} ELSE {"start"})
    BY <1>4 DEF PrecheckOk
  <2>2. /\ starter'[w].pc = "install" /\ starter'[w].mode = starter[w].mode
        /\ \A v \in Starters \ {w} : starter'[v] = starter[v]
    BY <2>1, GoOnEffect
  <2>3. \A v \in Starters : Serving(v)' => v = w
    BY <1>4, <2>2 DEF ThreadsInv, Serving, At, Up, Past
  <2>4. Serving(w)' /\ ~At(w, {"started"})' /\ (starter'[w].mode = mode' \/ "start" \in crossed')
    BY <2>1, <2>2 DEF Serving, At
  <2>5. \A v \in Starters : Serving(v)' /\ (state \in Up)' =>
          /\ (starter[v].mode = mode \/ "start" \in crossed)'
          /\ At(v, {"started"})' => (steps = PlaybookFor(starter[v].mode))'
    BY <2>3, <2>4
  <2> QED
    BY <2>1, <2>4, <2>5 DEF ModeInv
<1>5. ASSUME NEW w \in Starters, PrecheckOk(w), state # "PRECHECK"
      PROVE  ModeInv'
  <2>1. /\ UNCHANGED <<state, mode, steps, index, exiting, leaving, uiMode, crossed>>
        /\ Return(w) /\ ~Serving(w)
    BY <1>5 DEF PrecheckOk, plan, Serving, At
  <2>2. \A v \in Starters : /\ Serving(v)' <=> Serving(v)
                            /\ Serving(v) => starter'[v] = starter[v]
    BY <2>1, ReturnEffect DEF Serving, At
  <2> QED
    BY <2>1, <2>2 DEF ModeInv, Serving, At, Up, Past, Refused
<1>6. ASSUME NEW w \in Starters, InstallSteps(w)
      PROVE  ModeInv'
  <2>1. /\ UNCHANGED <<state, mode, exiting, leaving, uiMode, crossed>>
        /\ steps' = PlaybookFor(starter[w].mode) /\ GoOn(w, "started") /\ Serving(w)
    BY <1>6 DEF InstallSteps, session, bridge, Serving, At
  <2>2. /\ starter'[w].pc = "started" /\ starter'[w].mode = starter[w].mode
        /\ \A v \in Starters \ {w} : starter'[v] = starter[v]
    BY <2>1, GoOnEffect
  <2>3. \A v \in Starters : Serving(v)' => v = w
    BY <2>1, <2>2 DEF ThreadsInv, Serving, At
  <2>4. Serving(w)'
    BY <2>2 DEF Serving, At
  <2>5. \A v \in Starters : Serving(v)' /\ (state \in Up)' =>
          /\ (starter[v].mode = mode \/ "start" \in crossed)'
          /\ At(v, {"started"})' => (steps = PlaybookFor(starter[v].mode))'
    BY <2>1, <2>2, <2>3 DEF ModeInv, Up, Past
  <2> QED
    BY <2>1, <2>4, <2>5 DEF ModeInv
<1>7. ASSUME NEW w \in Starters, SetSessionMode(w)
      PROVE  ModeInv'
  <2>1. /\ UNCHANGED <<state, mode, steps, index, exiting, leaving, crossed>>
        /\ uiMode' = starter[w].mode /\ Return(w) /\ Serving(w) /\ At(w, {"started"})
    BY <1>7 DEF SetSessionMode, session, plan, Serving, At
  <2>2. \A v \in Starters : ~Serving(v)'
    BY <2>1, ReturnEffect DEF ThreadsInv, Serving, At
  <2>3. starter[w].mode \in Modes
    BY <2>1 DEF SessionTypeOK, At
  <2>4. state # "IDLE"
    BY <2>1 DEF ThreadsInv, Up, Past
  <2>5. state \in Up =>
          /\ uiMode' \in Modes /\ steps' = PlaybookFor(uiMode')
          /\ crossed' # {} \/ uiMode' = mode'
    BY <2>1, <2>3 DEF ModeInv
  <2> QED
    BY <2>1, <2>2, <2>4, <2>5 DEF ModeInv, Up, Past
<1>8. CASE RetryStep
  <2>1. /\ state = "FAILED" /\ state' = "STARTING" /\ ~Refused
        /\ UNCHANGED <<starter, bridge, steps, mode, exiting>>
    BY <1>8 DEF RetryStep, SessionTypeOK, threads, Refused
  <2> QED
    BY <2>1, SameMode DEF Up
<1>9. CASE CleanupStale
  <2>1. UNCHANGED <<state, mode, starter, bridge, steps, index, exiting>>
    BY <1>9 DEF CleanupStale, session, plan, threads
  <2> QED
    BY <2>1, SameMode DEF Refused, Up, Past
<1>10. CASE ClearMode
  <2>1. /\ UNCHANGED <<state, mode, starter, steps, index, exiting>> /\ uiMode' = None
        /\ crossed \subseteq crossed'
        /\ state \in Up => "stop" \in crossed'
    BY <1>10 DEF ClearMode, session, plan, Up, Past
  <2> QED
    BY <2>1 DEF ModeInv, Serving, At, Up, Past
<1> QED
  BY <1>1, <1>2, <1>3, <1>4, <1>5, <1>6, <1>7, <1>8, <1>9, <1>10 DEF Requests, Prechecking, Starting

LEMMA OthersMode ==
  ASSUME SessionTypeOK, ThreadsInv, ModeInv, Tick \/ Spawned \/ Environment
  PROVE  ModeInv'
<1>1. CASE TickReady \/ TickDegraded
  <2>1. state \in Up \ {"FAILED"} /\ UNCHANGED <<mode, starter, bridge, steps, exiting>>
        /\ state' \in Up
    BY <1>1 DEF TickReady, TickDegraded, plan, threads, Up, Past
  <2> QED
    BY <2>1, SameMode DEF Refused, Up, Past
<1>2. CASE TickHealthy \/ TickTimeout
  <2>1. state = "STARTING" /\ UNCHANGED <<mode, starter, bridge, steps, exiting>>
        /\ state' \in Up
    BY <1>2 DEF TickHealthy, TickTimeout, Advance, threads, Up, Past
  <2> QED
    BY <2>1, SameMode DEF Refused, Up, Past
<1>3. CASE TickStart
  <2>1. UNCHANGED <<state, mode, starter, bridge, steps, index, exiting>>
    BY <1>3 DEF TickStart, session
  <2> QED
    BY <2>1, SameMode DEF Refused, Up, Past
<1>4. CASE Spawned
  <2>1. /\ UNCHANGED <<state, mode, starter, leaving, uiMode, steps, index, exiting>>
        /\ state \in Up => UNCHANGED crossed
    BY <1>4 DEF Spawned, session, ThreadsInv, Up, Past
  <2> QED
    BY <2>1 DEF ModeInv, Serving, At, Refused, Up, Past
<1>5. CASE Environment
  <2>1. UNCHANGED <<state, mode, starter, bridge, steps, index, exiting>>
    BY <1>5 DEF Environment, DeadlinePasses, LeaderEnabled, LeaderExits, session, plan, threads
  <2> QED
    BY <2>1, SameMode DEF Refused, Up, Past
<1> QED
  BY <1>1, <1>2, <1>3, <1>4, <1>5 DEF Tick, TickProceeds

LEMMA StopMode ==
  ASSUME SessionTypeOK, ThreadsInv, ModeInv,
         PostStop \/ Sigint \/ Sigterm \/ FinalStop \/ Stop \/ UNCHANGED vars
  PROVE  ModeInv'
<1>1. CASE \E main \in BOOLEAN : BeginStop(main)
  BY <1>1 DEF BeginStop, ModeInv, Up, Past
<1>2. CASE UNCHANGED <<session, plan, threads, bridge>> /\ (exiting => exiting')
  BY <1>2, SameMode DEF session, plan, threads, Refused, Up, Past
<1>3. CASE BeforeStop \/ Terminate \/ RemoveContainer \/ DisableLeader
  <2>1. state = "STOPPING" /\ UNCHANGED state
    BY <1>3 DEF BeforeStop, Terminate, RemoveContainer, DisableLeader, session, ThreadsInv
  <2> QED
    BY <2>1 DEF ModeInv, Up, Past
<1>4. CASE MarkIdle
  <2>1. state' = "IDLE" /\ UNCHANGED exiting /\ (~exiting => leaving')
    BY <1>4 DEF MarkIdle, ThreadsInv
  <2> QED
    BY <2>1 DEF ModeInv, Up, Past
<1>5. PostStop \/ FinalStop => \E main \in BOOLEAN : BeginStop(main)
  BY DEF PostStop, FinalStop
<1>6. Sigint \/ Sigterm \/ UNCHANGED vars =>
        \/ BeginStop(TRUE)
        \/ UNCHANGED <<session, plan, threads, bridge>>
  BY DEF Sigint, Sigterm, vars
<1>7. Sigint \/ Sigterm \/ UNCHANGED vars => (exiting => exiting')
  BY Zenon DEF Sigint, Sigterm, vars
<1> QED
  BY <1>1, <1>2, <1>3, <1>4, <1>5, <1>6, <1>7 DEF Stop

LEMMA ModeStep == SessionTypeOK /\ ThreadsInv /\ ModeInv /\ [Next]_vars => ModeInv'
BY StartingMode, OthersMode, StopMode DEF Next, Requests

\* The bridge's mode is that of the steps that run and of the session, up to the late
\* switches of an earlier start or stop, whatever requests, ticks and stops interleave,
\* for any number of start requests and all playbooks and faults (api_app.py:182,
\* api_app.py:201).
THEOREM ModeFollowsSessionHolds == Spec => []ModeFollowsSession
<1>1. ModeInv => ModeFollowsSession
  BY DEF ModeInv, ModeFollowsSession, Serving, Refused, Up, Past
<1> QED
  BY <1>1, TypesFirst, TypesStep, ThreadsFirst, ThreadsStep, ModeFirst, ModeStep, PTL DEF Spec

--------------------------------------------------------------------------
LEMMA LeaderFirst == Init => LeaderInv
BY DEF Init, LeaderInv, NoStopper, Live

\* A process comes to run, with or without an owner, only by a Popen that returns.
LEMMA NothingStarts ==
  ASSUME SessionTypeOK, Next, ~Spawned
  PROVE  /\ Running' \subseteq Running
         /\ \A s \in Step : Live(proc'[s]) => Live(proc[s])
         /\ "lingers" \notin Fault /\ (\A s \in Step : proc[s] # "headless") =>
              \A s \in Step : proc'[s] # "headless"
         /\ Installs \/ MarkIdle \/ stray' \subseteq stray
<1> DEFINE Goal == /\ Running' \subseteq Running
                   /\ \A s \in Step : Live(proc'[s]) => Live(proc[s])
                   /\ "lingers" \notin Fault /\ (\A s \in Step : proc[s] # "headless") =>
                        \A s \in Step : proc'[s] # "headless"
                   /\ Installs \/ MarkIdle \/ stray' \subseteq stray
<1> SUFFICES Goal
  BY DEF Goal
<1> USE DEF Running, Live
<1>1. ASSUME UNCHANGED <<proc, stray>>
      PROVE  Goal
  BY <1>1
<1>2. ASSUME NEW w \in Starters,
             PingFails(w) \/ CountDrivers(w) \/ PrecheckFail(w) \/ PrecheckOk(w) \/ SetSessionMode(w)
               \/ \E m \in Modes : BeginStart(w, m)
      PROVE  UNCHANGED <<proc, stray>>
  BY <1>2 DEF PingFails, CountDrivers, PrecheckFail, PrecheckOk, SetSessionMode, BeginStart, world
<1>3. ASSUME RunCleanup
      PROVE  Goal
  BY <1>3 DEF RunCleanup, SessionTypeOK
<1>4. ASSUME NEW w \in Starters, Cleanup(w)
      PROVE  RunCleanup
  BY <1>4 DEF Cleanup
<1>5. ASSUME NEW w \in Starters, InstallSteps(w)
      PROVE  Goal
  BY <1>5 DEF InstallSteps, Installs, Forget
<1>6. CASE RetryStep \/ ClearMode
  BY <1>1, <1>6 DEF RetryStep, ClearMode, world
<1>7. CASE CleanupStale
  BY <1>3, <1>7 DEF CleanupStale
<1>8. CASE Tick
  BY <1>1, <1>8 DEF Tick, TickProceeds, TickReady, TickStart, TickHealthy, TickTimeout, TickDegraded, world
<1>9. CASE PostStop \/ Sigint \/ Sigterm \/ FinalStop
  BY <1>1, <1>9 DEF PostStop, Sigint, Sigterm, FinalStop, BeginStop, world
<1>10. CASE BeforeStop \/ DisableLeader
  BY <1>1, <1>10 DEF BeforeStop, DisableLeader, world
<1>11. CASE Terminate
  BY <1>11 DEF Terminate, SessionTypeOK, May
<1>12. CASE RemoveContainer
  BY <1>12 DEF RemoveContainer, SessionTypeOK
<1>13. CASE MarkIdle
  BY <1>13 DEF MarkIdle, Forget
<1>14. CASE Environment
  BY <1>14 DEF Environment, DeadlinePasses, LeaderEnabled, LeaderExits, SessionTypeOK, May, world
<1> HIDE DEF Goal, Running, Live
<1>15. CASE Requests
  BY <1>1, <1>2, <1>3, <1>4, <1>5, <1>6, <1>7, <1>15 DEF Requests, Prechecking, Starting
<1> QED
  BY <1>8, <1>9, <1>10, <1>11, <1>12, <1>13, <1>14, <1>15 DEF Next, Requests, Stop

\* What the requests leave alone.
LEMMA RequestsKeep ==
  ASSUME Requests
  PROVE  /\ UNCHANGED <<spawning, stopper, exiting, torque>>
         /\ state' = "IDLE" => state = "IDLE"
         /\ crossed \subseteq crossed'
<1> DEFINE Goal == /\ UNCHANGED <<spawning, stopper, exiting, torque>>
                   /\ state' = "IDLE" => state = "IDLE"
                   /\ crossed \subseteq crossed'
<1>1. ASSUME NEW w \in Starters, NEW m \in Modes, BeginStart(w, m)
      PROVE  Goal
  BY <1>1 DEF BeginStart, world, bridge
<1>2. ASSUME NEW w \in Starters, PingFails(w) \/ CountDrivers(w) \/ Cleanup(w)
      PROVE  Goal
  BY <1>2 DEF PingFails, CountDrivers, Cleanup, session, world, bridge
<1>3. ASSUME NEW w \in Starters, Starting(w)
      PROVE  Goal
  BY <1>3 DEF Starting, PrecheckFail, PrecheckOk, InstallSteps, SetSessionMode, session, world, bridge
<1>4. CASE RetryStep \/ CleanupStale \/ ClearMode
  BY <1>4 DEF RetryStep, CleanupStale, ClearMode, session, world, threads, bridge
<1> QED
  BY <1>1, <1>2, <1>3, <1>4 DEF Requests, Prechecking

LEMMA StartingLeader ==
  ASSUME SessionTypeOK, ThreadsInv, LeaderInv, Requests
  PROVE  LeaderInv'
<1>1. Running' \subseteq Running /\ (Installs \/ stray' \subseteq stray)
      /\ \A s \in Step : Live(proc'[s]) => Live(proc[s])
  <2>1. ~Spawned /\ ~MarkIdle /\ Next
    BY RequestsKeep DEF Spawned, MarkIdle, NoStopper, Requests, Next, ThreadsInv
  <2> QED
    BY <2>1, NothingStarts
<1>2. ASSUME Installs
      PROVE  state' # "IDLE"
  BY <1>2, RequestsKeep DEF Installs, InstallSteps, ThreadsInv, Serving, At, Up, Past
<1> QED
  BY <1>1, <1>2, RequestsKeep DEF LeaderInv

LEMMA OthersLeader ==
  ASSUME SessionTypeOK, ThreadsInv, LeaderInv, Tick \/ Spawned \/ Environment
  PROVE  LeaderInv'
<1> USE DEF LeaderInv, Running, Live
<1>1. CASE Tick
  BY <1>1 DEF Tick, TickProceeds, TickReady, TickStart, TickHealthy, TickTimeout, TickDegraded,
    Advance, session, plan, world, threads, bridge, ThreadsInv
<1>2. CASE Spawned
  <2>1. stopper.pc \notin {"disable", "clear"} /\ UNCHANGED <<state, torque, stopper>>
    BY <1>2 DEF Spawned, ThreadsInv, session
  <2>2. ASSUME state = "IDLE"
        PROVE  UNCHANGED proc /\ "exit" \in crossed'
    BY <1>2, <2>2 DEF Spawned, ThreadsInv
  <2> QED
    BY <2>1, <2>2
<1>3. CASE Environment
  <2>1. UNCHANGED <<state, stopper, stray, crossed>>
    BY <1>3 DEF Environment, DeadlinePasses, LeaderEnabled, LeaderExits, session, world, threads, bridge
  <2>2. \A s \in Step : Live(proc'[s]) => Live(proc[s])
    BY <1>3 DEF Environment, DeadlinePasses, LeaderEnabled, LeaderExits, world, SessionTypeOK, May
  <2>3. torque' => torque \/ "marvin" \in Running
    BY <1>3 DEF Environment, DeadlinePasses, LeaderEnabled, LeaderExits, world
  <2> QED
    BY <2>1, <2>2, <2>3
<1> QED
  BY <1>1, <1>2, <1>3

LEMMA StopLeader ==
  ASSUME "docker" \notin Fault, ~({"image", "host"} \subseteq Fault),
         SessionTypeOK, ThreadsInv, LeaderInv,
         PostStop \/ Sigint \/ Sigterm \/ FinalStop \/ Stop \/ UNCHANGED vars
  PROVE  LeaderInv'
<1> USE DEF LeaderInv, Running, Live
<1>1. CASE \E main \in BOOLEAN : BeginStop(main)
  BY <1>1 DEF BeginStop, world
<1>2. CASE UNCHANGED <<session, plan, world, threads, bridge>>
  BY <1>2 DEF session, plan, world, threads, bridge
<1>3. CASE BeforeStop \/ Terminate
  <2>1. state = "STOPPING" /\ UNCHANGED state
    BY <1>3 DEF BeforeStop, Terminate, ThreadsInv, session
  <2>2. CASE BeforeStop
    <3>1. stopper'.pc = "terminate"
      BY <2>2 DEF BeforeStop, SessionTypeOK
    <3> QED
      BY <2>1, <3>1
  <2>3. CASE Terminate
    <3>1. stopper'.pc = "terminate"
      BY <2>3 DEF Terminate, SessionTypeOK
    <3> QED
      BY <2>1, <3>1
  <2> QED
    BY <1>3, <2>2, <2>3
<1>4. CASE RemoveContainer
  <2>1. "marvin" \notin Running' /\ stopper'.pc = "disable" /\ state' = "STOPPING"
    BY <1>4 DEF RemoveContainer, May, ThreadsInv, session, SessionTypeOK
  <2> QED
    BY <2>1
<1>5. CASE DisableLeader
  <2>1. ~torque'
    BY <1>5 DEF DisableLeader, May
  <2> QED
    BY <1>5, <2>1 DEF DisableLeader, ThreadsInv, session, SessionTypeOK
<1>6. CASE MarkIdle
  BY <1>6 DEF MarkIdle, Forget, NoStopper, SessionTypeOK
<1>7. PostStop \/ FinalStop => \E main \in BOOLEAN : BeginStop(main)
  BY DEF PostStop, FinalStop
<1>8. Sigint \/ Sigterm \/ UNCHANGED vars =>
        \/ BeginStop(TRUE)
        \/ UNCHANGED <<session, plan, world, threads, bridge>>
  BY DEF Sigint, Sigterm, vars
<1> HIDE DEF LeaderInv, Running, Live
<1> QED
  BY <1>1, <1>2, <1>3, <1>4, <1>5, <1>6, <1>7, <1>8 DEF Stop

\* The leader arms are released when a session is over, for all playbooks and
\* interleavings, if docker can remove the container and one of the two ways of
\* disabling them works (teardown.py:24).
THEOREM LeaderReleasedHolds ==
  ASSUME "docker" \notin Fault, ~({"image", "host"} \subseteq Fault)
  PROVE  Spec => []LeaderReleased
<1>1. LeaderInv => LeaderReleased
  BY DEF LeaderInv, LeaderReleased, Running
<1>2. SessionTypeOK /\ ThreadsInv /\ LeaderInv /\ [Next]_vars => LeaderInv'
  BY StartingLeader, OthersLeader, StopLeader DEF Next, Requests
<1> QED
  BY <1>1, <1>2, TypesFirst, TypesStep, ThreadsFirst, ThreadsStep, LeaderFirst, PTL DEF Spec

--------------------------------------------------------------------------
\* Which actions change the plan, the Popen under way and the thread inside stop().
LEMMA WhoMoves ==
  ASSUME Next
  PROVE  /\ Installs \/ MarkIdle \/ UNCHANGED steps
         /\ TickStart \/ Spawned \/ UNCHANGED spawning
         /\ Installs \/ MarkIdle \/ TickStart \/ Spawned \/ UNCHANGED orphaned
         /\ Stop \/ UNCHANGED stopper \/ stopper'.pc = "before"
<1>1. CASE Requests
  <2>1. UNCHANGED <<spawning, stopper>>
    BY <1>1, RequestsKeep
  <2>2. ASSUME ~Installs
        PROVE  UNCHANGED <<steps, orphaned>>
    <3>1. ASSUME NEW w \in Starters, NEW m \in Modes, BeginStart(w, m)
          PROVE  UNCHANGED <<steps, orphaned>>
      BY <3>1 DEF BeginStart, plan
    <3>2. ASSUME NEW w \in Starters, PingFails(w) \/ Cleanup(w) \/ CountDrivers(w)
          PROVE  UNCHANGED <<steps, orphaned>>
      BY <3>2 DEF PingFails, Cleanup, CountDrivers, plan
    <3>3. ASSUME NEW w \in Starters, PrecheckFail(w) \/ PrecheckOk(w) \/ SetSessionMode(w)
          PROVE  UNCHANGED <<steps, orphaned>>
      BY <3>3 DEF PrecheckFail, PrecheckOk, SetSessionMode, plan
    <3>4. CASE RetryStep \/ CleanupStale \/ ClearMode
      BY <3>4 DEF RetryStep, CleanupStale, ClearMode, plan, threads
    <3> QED
      BY <1>1, <2>2, <3>1, <3>2, <3>3, <3>4 DEF Requests, Prechecking, Starting, Installs
  <2> QED
    BY <2>1, <2>2
<1>2. CASE Tick
  BY <1>2 DEF Tick, TickProceeds, TickReady, TickStart, TickHealthy, TickTimeout, TickDegraded, Advance,
    plan, threads
<1>3. CASE Spawned
  BY <1>3 DEF Spawned
<1>4. CASE PostStop \/ FinalStop \/ Sigint \/ Sigterm
  BY <1>4 DEF PostStop, FinalStop, Sigint, Sigterm, BeginStop, plan, threads
<1>5. CASE Stop
  <2>1. UNCHANGED spawning /\ (MarkIdle \/ UNCHANGED <<steps, orphaned>>)
    BY <1>5 DEF Stop, BeforeStop, Terminate, RemoveContainer, DisableLeader, MarkIdle, plan
  <2> QED
    BY <1>5, <2>1
<1>6. CASE Environment
  BY <1>6 DEF Environment, DeadlinePasses, LeaderEnabled, LeaderExits, plan, threads
<1> QED
  BY <1>1, <1>2, <1>3, <1>4, <1>5, <1>6 DEF Next, Requests

\* What the other steps leave alone, of what a start needs and of what it finds.
LEMMA OthersKeep ==
  ASSUME Tick \/ Spawned \/ PostStop \/ Sigint \/ Sigterm \/ FinalStop \/ Stop \/ Environment
  PROVE  /\ UNCHANGED starter
         /\ exiting => exiting'
         /\ state' = "PRECHECK" => state = "PRECHECK"
         /\ state' \in Up => state \in Up
         /\ state = "FAILED" => UNCHANGED <<state, index>> \/ state' \notin Up
         /\ state \in Up /\ state' \notin Up => stopper'.pc = "before" \/ MarkIdle
<1> USE DEF Up, Past
<1>1. CASE Tick
  BY <1>1 DEF Tick, TickProceeds, TickReady, TickStart, TickHealthy, TickTimeout, TickDegraded, Advance,
    session, plan, threads
<1>2. CASE Spawned
  BY <1>2 DEF Spawned, session
<1>3. ASSUME NEW main, BeginStop(main)
      PROVE  state' = "STOPPING" /\ stopper'.pc = "before" /\ UNCHANGED starter
  BY <1>3 DEF BeginStop
<1>4. CASE PostStop \/ FinalStop
  <2>1. state' = "STOPPING" /\ stopper'.pc = "before" /\ UNCHANGED starter
    BY <1>3, <1>4 DEF PostStop, FinalStop
  <2>2. UNCHANGED exiting
    BY <1>4 DEF PostStop, FinalStop
  <2> QED
    BY <2>1, <2>2
<1>5. CASE Sigint \/ Sigterm
  <2>1. \/ state' = "STOPPING" /\ stopper'.pc = "before" /\ UNCHANGED starter
        \/ UNCHANGED <<state, index, starter>>
    BY <1>3, <1>5 DEF Sigint, Sigterm, session, plan, threads
  <2>2. exiting'
    BY <1>5 DEF Sigint, Sigterm
  <2> QED
    BY <2>1, <2>2
<1>6. CASE Stop
  <2>1. UNCHANGED <<starter, exiting>>
    BY <1>6 DEF Stop, BeforeStop, Terminate, RemoveContainer, DisableLeader, MarkIdle
  <2>2. UNCHANGED <<state, index>> \/ (MarkIdle /\ state' = "IDLE")
    BY <1>6 DEF Stop, BeforeStop, Terminate, RemoveContainer, DisableLeader, MarkIdle, session, plan
  <2> QED
    BY <2>1, <2>2
<1>7. CASE Environment
  BY <1>7 DEF Environment, DeadlinePasses, LeaderEnabled, LeaderExits, session, plan, threads
<1> QED
  BY <1>1, <1>2, <1>4, <1>5, <1>6, <1>7

\* How a start gets on, and how a session comes up.
LEMMA HowItComesUp ==
  ASSUME SessionTypeOK, Next
  PROVE  /\ \A w \in Starters :
              /\ At(w, {"install"})' => At(w, {"install"}) \/ (state = "PRECHECK" /\ PrecheckOk(w))
              /\ At(w, {"passed"})' => At(w, {"passed"}) \/ CountDrivers(w)
         /\ exiting => exiting' /\ (state' = "PRECHECK" => state = "PRECHECK")
         /\ state' \in Up => \/ state \in Up
                             \/ state = "PRECHECK" /\ \E w \in Starters : PrecheckFail(w) \/ PrecheckOk(w)
         /\ state = "FAILED" => RetryStep \/ Installs \/ UNCHANGED <<state, index>> \/ state' \notin Up
         /\ state \in Up /\ state' \notin Up => stopper'.pc = "before" \/ MarkIdle
<1> DEFINE Goal == /\ \A w \in Starters :
                        /\ At(w, {"install"})' => At(w, {"install"}) \/ (state = "PRECHECK" /\ PrecheckOk(w))
                        /\ At(w, {"passed"})' => At(w, {"passed"}) \/ CountDrivers(w)
                   /\ exiting => exiting' /\ (state' = "PRECHECK" => state = "PRECHECK")
                   /\ state' \in Up => \/ state \in Up
                                       \/ state = "PRECHECK" /\ \E w \in Starters : PrecheckFail(w) \/ PrecheckOk(w)
                   /\ state = "FAILED" => RetryStep \/ Installs \/ UNCHANGED <<state, index>> \/ state' \notin Up
                   /\ state \in Up /\ state' \notin Up => stopper'.pc = "before" \/ MarkIdle
<1>1. ASSUME NEW w \in Starters, NEW m \in Modes, BeginStart(w, m)
      PROVE  Goal
  BY <1>1 DEF BeginStart, SessionTypeOK, At, Up, Past
<1>2. ASSUME NEW w \in Starters, PingFails(w) \/ Cleanup(w) \/ CountDrivers(w)
      PROVE  Goal
  <2>1. /\ UNCHANGED <<state, index, exiting>>
        /\ \E pc \in Waiting : GoOn(w, pc) /\ (pc = "passed" => CountDrivers(w))
    BY <1>2 DEF PingFails, Cleanup, CountDrivers, Waiting, session, plan
  <2>2. /\ \A v \in Starters : At(v, {"install"})' => At(v, {"install"})
        /\ \A v \in Starters : At(v, {"passed"})' => At(v, {"passed"}) \/ CountDrivers(v)
    BY <2>1, GoOnEffect DEF At, Waiting
  <2> QED
    BY <2>1, <2>2 DEF Up, Past
<1>3. ASSUME NEW w \in Starters, PrecheckFail(w)
      PROVE  Goal
  <2>1. /\ state' = state \/ (state = "PRECHECK" /\ state' = "FAILED")
        /\ Return(w) /\ UNCHANGED <<index, exiting>>
    BY <1>3 DEF PrecheckFail, plan
  <2>2. \A v \in Starters : /\ At(v, {"install"})' => At(v, {"install"})
                            /\ At(v, {"passed"})' => At(v, {"passed"})
    BY <2>1, ReturnEffect DEF At
  <2> QED
    BY <1>3, <2>1, <2>2 DEF Up, Past
<1>4. ASSUME NEW w \in Starters, PrecheckOk(w)
      PROVE  Goal
  <2>1. /\ \/ state = "PRECHECK" /\ state' = "STARTING" /\ GoOn(w, "install")
           \/ UNCHANGED state /\ Return(w)
        /\ UNCHANGED <<index, exiting>>
    BY <1>4 DEF PrecheckOk, plan
  <2>2. \A v \in Starters : /\ At(v, {"install"})' => At(v, {"install"}) \/ (state = "PRECHECK" /\ PrecheckOk(v))
                            /\ At(v, {"passed"})' => At(v, {"passed"})
    BY <1>4, <2>1, GoOnEffect, ReturnEffect DEF At
  <2> QED
    BY <1>4, <2>1, <2>2 DEF Up, Past
<1>5. ASSUME NEW w \in Starters, InstallSteps(w) \/ SetSessionMode(w)
      PROVE  Goal
  <2>1. /\ UNCHANGED <<state, exiting>> /\ (GoOn(w, "started") \/ Return(w))
        /\ Installs \/ UNCHANGED index
    BY <1>5 DEF InstallSteps, SetSessionMode, Installs, session, plan
  <2>2. \A v \in Starters : /\ At(v, {"install"})' => At(v, {"install"})
                            /\ At(v, {"passed"})' => At(v, {"passed"})
    BY <2>1, GoOnEffect, ReturnEffect DEF At
  <2> QED
    BY <2>1, <2>2 DEF Up, Past
<1>6. CASE RetryStep \/ CleanupStale \/ ClearMode
  BY <1>6 DEF RetryStep, CleanupStale, ClearMode, session, plan, threads, At, Up, Past
<1>7. CASE Tick \/ Spawned \/ PostStop \/ Sigint \/ Sigterm \/ FinalStop \/ Stop \/ Environment
  BY <1>7, OthersKeep DEF At, Up, Past
<1>8. Goal
  BY <1>1, <1>2, <1>3, <1>4, <1>5, <1>6, <1>7 DEF Next, Prechecking, Starting
<1> QED
  BY <1>8 DEF Goal

\* What a Popen that returns changes.
LEMMA SpawnedEffect ==
  ASSUME SessionTypeOK, Spawned
  PROVE  /\ \A s \in Step : proc'[s] = proc[s] \/ (s = spawning /\ ~orphaned /\ proc'[s] # "headless")
         /\ spawning \in Step /\ spawning # None /\ ~stopper.main
         /\ spawning' = None /\ ~orphaned'
         /\ UNCHANGED <<session, steps, index, starter, stopper, exiting>>
         /\ orphaned \/ proc[spawning] = "headless" \/ stray' = stray
BY DEF SessionTypeOK, Spawned

LEMMA EscapeFirst == Init => EscapeInv
BY DEF Init, EscapeInv, NoStopper, Live

\* Terminating the head of the list leaves at most the process being launched behind.
LEMMA TerminateMisses ==
  ASSUME "lingers" \notin Fault, SessionTypeOK, Terminate, \A s \in Step : proc[s] # "headless"
  PROVE  Missed' \subseteq Missed \cup ({spawning} \ {None}) /\ UNCHANGED spawning
<1>1. PICK s \in Step : /\ s = Head(stopper.left) /\ ~Live(proc'[s])
                        /\ \A x \in Step : x # s => proc'[x] = proc[x]
  <2>1. Head(stopper.left) \in Step
    BY HeadTailProperties DEF SessionTypeOK, Terminate
  <2> QED
    BY <2>1 DEF SessionTypeOK, Terminate, May, Live
<1>2. stopper'.left = Tail(stopper.left) /\ UNCHANGED spawning
  BY DEF Terminate, SessionTypeOK
<1>3. ToSet(stopper.left) \subseteq {s} \cup ToSet(Tail(stopper.left))
  <2>1. stopper.left \in Seq(Step) /\ stopper.left # <<>>
    BY DEF SessionTypeOK, Terminate
  <2> DEFINE q == stopper.left
  <2>2. /\ Len(Tail(q)) = Len(q) - 1 /\ Len(q) \in Nat \ {0} /\ q[1] = s
        /\ \A i \in 1..(Len(q) - 1) : Tail(q)[i] = q[i + 1]
    BY <1>1, <2>1, HeadTailProperties
  <2>3. \A i \in 1..Len(q) : i # 1 => i - 1 \in 1..(Len(q) - 1) /\ (i - 1) + 1 = i
    BY <2>2
  <2>4. \A i \in 1..Len(q) : i # 1 => Tail(q)[i - 1] = q[i]
    BY <2>2, <2>3
  <2>5. q \in Seq(Step) /\ Tail(q) \in Seq(Step)
    BY <2>1, HeadTailProperties
  <2> HIDE DEF q
  <2>6. ASSUME NEW i \in 1..Len(q)
        PROVE  q[i] \in {s} \cup ToSet(Tail(q))
    <3>1. CASE i = 1
      BY <2>2, <3>1
    <3>2. CASE i # 1
      <4>1. i - 1 \in DOMAIN Tail(q) /\ Tail(q)[i - 1] = q[i]
        BY <2>2, <2>3, <2>4, <2>5, <3>2
      <4>2. Tail(q)[i - 1] \in ToSet(Tail(q))
        BY <4>1 DEF ToSet
      <4> QED
        BY <4>1, <4>2
    <3> QED
      BY <3>1, <3>2
  <2>7. ToSet(q) \subseteq {s} \cup ToSet(Tail(q))
    BY <2>5, <2>6 DEF ToSet
  <2> QED
    BY <2>7 DEF q
<1> QED
  BY <1>1, <1>2, <1>3 DEF Missed, Escapees

LEMMA EscapeStep ==
  ASSUME "lingers" \notin Fault, SessionTypeOK, ThreadsInv, EscapeInv, Next
  PROVE  EscapeInv'
<1>1. \A s \in Step : proc'[s] # "headless"
  BY NothingStarts, SpawnedEffect DEF EscapeInv
<1>2. \A s \in Step : Live(proc'[s]) => s \in ToSet(steps')
  <2>1. CASE Installs \/ MarkIdle
    BY <2>1 DEF Installs, InstallSteps, MarkIdle, Forget, Live
  <2>2. CASE Spawned
    BY <2>2, SpawnedEffect DEF EscapeInv
  <2>3. CASE ~(Installs \/ MarkIdle \/ Spawned)
    BY <2>3, NothingStarts, WhoMoves DEF EscapeInv
  <2> QED
    BY <2>1, <2>2, <2>3
<1>3. spawning' # None /\ ~orphaned' => spawning' \in ToSet(steps')
  <2>1. CASE Installs \/ MarkIdle
    BY <2>1 DEF Installs, InstallSteps, MarkIdle, Forget
  <2>2. CASE TickStart
    <3>1. spawning' = spawning \/ spawning' = steps[index]
      BY <2>2 DEF TickStart
    <3>2. index \in DOMAIN steps /\ UNCHANGED steps /\ ~orphaned
      BY <2>2 DEF TickStart, TickFree, SessionTypeOK, ThreadsInv
    <3> QED
      BY <3>1, <3>2 DEF EscapeInv, ToSet
  <2>3. CASE Spawned
    BY <2>3, SpawnedEffect
  <2>4. CASE ~(Installs \/ MarkIdle \/ TickStart \/ Spawned)
    BY <2>4, WhoMoves DEF EscapeInv
  <2> QED
    BY <2>1, <2>2, <2>3, <2>4
<1>4. ASSUME stopper'.pc \in {"terminate", "disable", "clear"}
      PROVE  /\ \A x, y \in Missed' : x = y
             /\ spawning' # None => Missed' \subseteq {spawning'}
  <2>1. CASE BeforeStop
    <3>1. ToSet(stopper'.left) = ToSet(steps) /\ UNCHANGED <<proc, spawning>> /\ ~orphaned
      BY <2>1, ReverseSteps DEF BeforeStop, SessionTypeOK, ThreadsInv, world
    <3>2. Missed' = {}
      BY <3>1 DEF Missed, Escapees, EscapeInv
    <3> QED
      BY <3>2
  <2>2. CASE Terminate
    BY <2>2, TerminateMisses DEF EscapeInv, Terminate
  <2>3. CASE Spawned
    <3>1. Missed' \subseteq Missed /\ Missed \subseteq {spawning}
      BY <1>4, <2>3, SpawnedEffect DEF EscapeInv, Missed, Escapees
    <3> QED
      BY <2>3, <3>1, SpawnedEffect
  <2>4. CASE ~(BeforeStop \/ Terminate \/ Spawned)
    <3>1. ~MarkIdle
      BY <1>4 DEF MarkIdle, NoStopper
    <3>2. stopper.pc \in {"terminate", "disable", "clear"} /\ stopper'.left = stopper.left
      BY <1>4, <2>4, <3>1, WhoMoves DEF Stop, RemoveContainer, DisableLeader, SessionTypeOK
    <3>3. ~TickStart
      BY <3>2 DEF TickStart, ThreadsInv
    <3>4. UNCHANGED spawning /\ Missed' \subseteq Missed
      BY <2>4, <3>2, <3>3, WhoMoves, NothingStarts DEF Missed, Escapees
    <3> QED
      BY <3>2, <3>4 DEF EscapeInv
  <2> QED
    BY <2>1, <2>2, <2>3, <2>4
<1>5. ASSUME stopper'.pc \in {"disable", "clear"}
      PROVE  stopper'.left = <<>>
  <2>1. CASE Stop
    <3>1. CASE RemoveContainer \/ DisableLeader
      BY <3>1 DEF RemoveContainer, DisableLeader, EscapeInv, SessionTypeOK
    <3>2. ~BeforeStop
      BY <1>5 DEF BeforeStop, SessionTypeOK
    <3>3. ~Terminate
      BY <1>5 DEF Terminate, SessionTypeOK
    <3>4. ~MarkIdle
      BY <1>5 DEF MarkIdle, NoStopper
    <3> QED
      BY <2>1, <3>1, <3>2, <3>3, <3>4 DEF Stop
  <2>2. CASE UNCHANGED stopper
    BY <1>5, <2>2 DEF EscapeInv
  <2> QED
    BY <1>5, <2>1, <2>2, WhoMoves
<1> QED
  BY <1>1, <1>2, <1>3, <1>4, <1>5 DEF EscapeInv

\* A stop misses at most the process whose Popen it overtook, for all playbooks and
\* interleavings, if no child outlives its leader (supervisor.py:97, process_step.py:53).
THEOREM AtMostOneEscapesHolds ==
  ASSUME "lingers" \notin Fault
  PROVE  Spec => []AtMostOneEscapes
<1>1. SessionTypeOK /\ EscapeInv => AtMostOneEscapes
  <2> SUFFICES ASSUME EscapeInv, stopper.pc = "clear"
               PROVE  Cardinality(Escapees) <= 1
    BY DEF AtMostOneEscapes, Escapees
  <2>1. \A x, y \in Escapees : x = y
    BY DEF EscapeInv, Missed, ToSet
  <2>2. CASE Escapees = {}
    BY <2>2, FS_EmptySet
  <2>3. ASSUME NEW x \in Escapees
        PROVE  Cardinality(Escapees) <= 1
    <3>1. Escapees = {x}
      BY <2>1
    <3> QED
      BY <3>1, FS_Singleton
  <2> QED
    BY <2>2, <2>3
<1>2. SessionTypeOK /\ ThreadsInv /\ EscapeInv /\ [Next]_vars => EscapeInv'
  <2>1. CASE Next
    BY <2>1, EscapeStep
  <2>2. CASE UNCHANGED vars
    BY <2>2 DEF vars, plan, world, threads, EscapeInv, Missed, Escapees
  <2> QED
    BY <2>1, <2>2
<1> QED
  BY <1>1, <1>2, TypesFirst, TypesStep, ThreadsFirst, ThreadsStep, EscapeFirst, PTL DEF Spec

--------------------------------------------------------------------------
LEMMA OwnFirst == Init => OwnInv
BY DEF Init, OwnInv, NoStarter, At, Up, Past

LEMMA OwnStep ==
  ASSUME "pgrep" \notin Fault, "lingers" \notin Fault, SessionTypeOK, ThreadsInv, OwnInv, Next
  PROVE  OwnInv'
<1>1. \A s \in Step : proc'[s] # "headless"
  BY NothingStarts, SpawnedEffect DEF OwnInv
<1>2. ASSUME NEW w \in Starters, At(w, {"install"})'
      PROVE  "driver" \notin Running'
  <2>1. "driver" \notin Running /\ spawning = None
    <3>1. CASE At(w, {"install"})
      BY <3>1 DEF OwnInv, ThreadsInv
    <3>2. CASE state = "PRECHECK" /\ PrecheckOk(w)
      BY <3>2 DEF PrecheckOk, OwnInv, ThreadsInv, Up, Past
    <3> QED
      BY <1>2, <3>1, <3>2, HowItComesUp
  <2>2. ~Spawned
    BY <2>1, SpawnedEffect
  <2> QED
    BY <2>1, <2>2, NothingStarts
<1>3. ASSUME NEW w \in Starters, At(w, {"passed"})'
      PROVE  \/ "driver" \notin Running'
             \/ state' \in Up \/ stopper'.pc \in {"before", "terminate"}
             \/ exiting' /\ state' # "PRECHECK"
  <2>1. CASE CountDrivers(w)
    <3>1. GoOn(w, IF "driver" \in Running THEN "refused" ELSE "passed") /\ UNCHANGED world
      BY <2>1 DEF CountDrivers, May
    <3>2. "driver" \in Running => starter'[w].pc = "refused"
      BY <3>1, GoOnEffect
    <3> QED
      BY <1>3, <3>1, <3>2 DEF At, world, Running
  <2>2. CASE At(w, {"passed"}) /\ "driver" \notin Running /\ Spawned
    <3>1. UNCHANGED <<state, stopper, exiting>> /\ spawning # None /\ ~stopper.main
      BY <2>2, SpawnedEffect DEF session
    <3>2. /\ state # "PRECHECK" /\ (state = "IDLE" => exiting)
          /\ stopper.pc \notin {"disable", "clear"}
          /\ state = "STOPPING" => stopper.pc # "none"
      BY <3>1 DEF ThreadsInv
    <3> QED
      BY <3>1, <3>2 DEF SessionTypeOK, States, Up, Past
  <2>3. CASE At(w, {"passed"}) /\ "driver" \notin Running /\ ~Spawned
    BY <2>3, NothingStarts
  <2>4. CASE At(w, {"passed"}) /\ (state \in Up \/ stopper.pc \in {"before", "terminate"})
    <3>1. ~RemoveContainer
      BY <2>4 DEF RemoveContainer, At
    <3>2. stopper.pc \in {"before", "terminate"} => ~MarkIdle /\ ~DisableLeader
      BY DEF MarkIdle, DisableLeader
    <3>3. stopper.pc \in {"before", "terminate"} => stopper'.pc \in {"before", "terminate"}
      BY <3>1, <3>2, WhoMoves DEF Stop, BeforeStop, Terminate, SessionTypeOK
    <3>4. state \in Up => ~MarkIdle
      BY DEF ThreadsInv, MarkIdle, Up, Past
    <3> QED
      BY <2>4, <3>3, <3>4, HowItComesUp
  <2>5. CASE At(w, {"passed"}) /\ exiting /\ state # "PRECHECK"
    BY <2>5, HowItComesUp
  <2> QED
    BY <1>3, <2>1, <2>2, <2>3, <2>4, <2>5, HowItComesUp DEF OwnInv
<1>4. ASSUME state' \in Up
      PROVE  "driver" \notin stray' \/ Refused'
  <2>1. CASE Installs
    BY <2>1 DEF Installs, InstallSteps, Forget, OwnInv, Running
  <2>2. CASE Spawned
    <3>1. UNCHANGED stray /\ UNCHANGED <<state, steps, index>>
      BY <1>4, <2>2, SpawnedEffect DEF OwnInv, ThreadsInv, Up, Past, session
    <3> QED
      BY <1>4, <3>1 DEF OwnInv, Refused
  <2>3. ASSUME NEW w \in Starters, state = "PRECHECK", PrecheckOk(w)
        PROVE  "driver" \notin stray'
    BY <2>3 DEF PrecheckOk, OwnInv, Running, Up, Past, world, ThreadsInv
  <2>4. ASSUME NEW w \in Starters, state = "PRECHECK", PrecheckFail(w)
        PROVE  Refused'
    BY <2>4 DEF PrecheckFail, Refused, plan, ThreadsInv
  <2>5. CASE state \in Up /\ ~Installs /\ ~Spawned
    <3>1. ~MarkIdle
      BY <1>4 DEF MarkIdle, Up, Past
    <3>2. stray' \subseteq stray
      BY <2>5, <3>1, NothingStarts
    <3>3. Refused => Refused'
      <4>1. ~Refused \/ ~RetryStep
        BY DEF Refused, RetryStep
      <4> QED
        BY <1>4, <2>5, <3>1, <4>1, WhoMoves, HowItComesUp DEF Refused
    <3> QED
      BY <2>5, <3>2, <3>3 DEF OwnInv
  <2> QED
    BY <1>4, <2>1, <2>2, <2>3, <2>4, <2>5, HowItComesUp
<1> QED
  BY <1>1, <1>2, <1>3, <1>4 DEF OwnInv

\* The driver behind a session that is up is its own, for all playbooks and
\* interleavings, if pgrep counts and no child outlives its leader (supervisor.py:201, supervisor.py:258).
THEOREM OwnDriverHolds ==
  ASSUME "pgrep" \notin Fault, "lingers" \notin Fault
  PROVE  Spec => []OwnDriver
<1>1. OwnInv => OwnDriver
  BY DEF OwnInv, OwnDriver, Refused, Up, Past
<1>2. SessionTypeOK /\ ThreadsInv /\ OwnInv /\ [Next]_vars => OwnInv'
  <2>1. CASE Next
    BY <2>1, OwnStep
  <2>2. CASE UNCHANGED vars
    <3>1. UNCHANGED <<state, steps, index, proc, stray, starter, stopper, exiting>>
      BY <2>2 DEF vars, session, plan, world, threads
    <3> QED
      BY <3>1 DEF OwnInv, Running, Refused, At
  <2> QED
    BY <2>1, <2>2
<1> QED
  BY <1>1, <1>2, TypesFirst, TypesStep, ThreadsFirst, ThreadsStep, OwnFirst, PTL DEF Spec

--------------------------------------------------------------------------
\* The commands the page recommends, one by one, with what it has looked at.
LEMMA HintCases ==
  ASSUME NEW m \in Mailboxes, NEW op \in UI!NextHint(state, mode, m)
  PROVE  /\ state \in {"READY", "RUNNING"}
         /\ \/ mode = Dagger /\ op = "takeover" /\ m.hitl = "AUTONOMOUS"
            \/ mode = Dagger /\ op \in UI!RecorderOps \cup {"return"} /\ m.hitl = "HUMAN"
            \/ mode = Dagger /\ op = "enter_teleop" /\ m.hitl = "HANDOVER_SYNC" /\ m.teleop = "SYNCED"
            \/ mode = Teleop /\ op = "switch_sync" /\ m.teleop \in {None, "IDLE"}
            \/ mode = Teleop /\ op = "align_start" /\ m.teleop = "SYNCED" /\ m.align \in {None, "IDLE"}
            \/ mode = Teleop /\ op = "switch_teleop" /\ m.teleop = "SYNCED" /\ m.align \in UI!AlignDone
            \/ mode = Teleop /\ op \in UI!RecorderOps /\ m.teleop = "TELEOP"
BY DEF UI!NextHint, UI!RecorderOps, UI!AlignDone

LEMMA HintFollows ==
  ASSUME SessionTypeOK, NEW m \in Mailboxes, NEW op \in UI!NextHint(state, mode, m)
  PROVE  /\ UI!CommandAllowed(op, state, mode, m, UI!NoGate)
         /\ op \in UI!RecorderOps \/ ~UI!Confirmed(op, m)
<1> USE DEF UI!CommandAllowed, UI!Condition, UI!Confirmed, UI!AllowedOps, UI!TeleopOps,
      UI!DaggerOps, UI!RecorderOps, UI!LeaderScriptOps, UI!DriverOps, UI!Operational, UI!AnyEnabled,
      UI!NoGate, UI!AlignDone, UI!LockStates
<1>1. state \in {"READY", "RUNNING"} /\ mode # None /\ Teleop # Dagger
  BY HintCases, NoneAssumption DEF SessionTypeOK, Teleop, Dagger
<1>2. CASE mode = Dagger
  BY <1>1, <1>2, HintCases
<1>3. CASE mode = Teleop
  <2>1. CASE op = "switch_sync" /\ m.teleop \in {None, "IDLE"}
    BY <1>1, <1>3, <2>1, MessageAssumption DEF TeleopMessages
  <2>2. CASE op = "align_start" /\ m.teleop = "SYNCED" /\ m.align \in {None, "IDLE"}
    BY <1>1, <1>3, <2>2, MessageAssumption DEF AlignMessages
  <2>3. CASE op = "switch_teleop" /\ m.teleop = "SYNCED" /\ m.align \in UI!AlignDone
    BY <1>1, <1>3, <2>3
  <2>4. CASE op \in UI!RecorderOps /\ m.teleop = "TELEOP"
    BY <1>1, <1>3, <2>4
  <2> QED
    BY <1>1, <1>3, <2>1, <2>2, <2>3, <2>4, HintCases
<1> QED
  BY <1>2, <1>3, HintCases

\* The page recommends no command the session refuses, in every session that can be
\* reached and for every mailbox (hints.py:8, commands.py:78).
THEOREM HintFollowableHolds == Spec => []HintFollowable
<1>1. SessionTypeOK => HintFollowable
  BY HintFollows DEF HintFollowable
<1> QED
  BY <1>1, TypesFirst, TypesStep, PTL DEF Spec
=============================================================================
