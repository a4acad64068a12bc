--------------------------- MODULE OperatorSession ---------------------------
(***************************************************************************)
(* A session of the operator UI: SessionSupervisor drives SessionLogic     *)
(* through precheck, the playbook's steps and teardown, while the web      *)
(* requests (worker threads), the tick loop (main thread) and SIGINT       *)
(* interleave.  Code between two blocking calls is one action, except      *)
(* where a switch to another thread matters: start publishes STARTING      *)
(* before it assigns the steps, and both requests tell the bridge after    *)
(* SessionLogic.  A start whose precheck a stop has cancelled goes on with *)
(* it while the next start begins.                                         *)
(***************************************************************************)
EXTENDS Naturals, Sequences, SequencesExt

CONSTANTS
  None,     \* no mode, no step
  Starters, \* the worker threads that serve start requests
  Modes,    \* the UiModes operators choose from
  Override, \* playbook_override of the configuration: a playbook for some modes
  Fault     \* which of AnyFault may happen
\* pgrep fails; a child outlives its leader; docker rm fails; the image or the
\* host cannot run the disable script.
AnyFault == {"pgrep", "lingers", "docker", "image", "host"}
ASSUME FaultAssumption == Fault \subseteq AnyFault
ASSUME NoneAssumption == None \notin Modes /\ None \notin STRING

Teleop == "teleop_record"
Dagger == "dagger"
ASSUME ModesAssumption == Modes \subseteq {Teleop, Dagger} /\ Modes # {}

TeleopPlaybook == <<"driver", "marvin", "align", "recorder">>
DaggerPlaybook == <<"driver", "marvin", "arbiter", "dummy_policy">>
PlaybookFor(m) ==
  IF m \in DOMAIN Override THEN Override[m]
  ELSE IF m = Teleop THEN TeleopPlaybook ELSE DaggerPlaybook
Optional == {"align", "dummy_policy"}
Step == UNION {ToSet(PlaybookFor(m)) : m \in Modes}
ASSUME StepAssumption == None \notin Step
ASSUME OverrideAssumption == \A m \in Modes \cap DOMAIN Override : Override[m] \in Seq(Step)

\* The processes that cleanup_stale_commands matches.
Cleaned == {"driver", "marvin", "align", "recorder"}

VARIABLES
  state, mode,       \* SessionLogic
  steps, index,      \* _steps and _current_index (from 1)
  deadline,          \* _step_deadline: none, armed or passed
  proc,              \* the process of each step of steps: none that runs, up, or headless
  stray,             \* steps with a live process that no ProcessStep reaches
  torque,            \* whether the leader arms' motors are enabled
  starter,           \* the threads inside start(), with the mode they start
  spawning,          \* the step whose Popen is under way in the tick
  orphaned,          \* that step's ProcessStep has left steps
  stopper,           \* the thread inside stop()
  leaving,           \* a stop request has still to clear the bridge's mode
  uiMode,            \* RosBridge._ui_mode
  exiting,           \* SIGINT or SIGTERM has been received
  crossed            \* history: what reached this session from elsewhere, of
                     \* "start" (a start of another mode took its precheck), "stop"
                     \* (an earlier stop's late None) and, in IDLE, "exit" (a Popen
                     \* that the exit's stop overtook returned)

session == <<state, mode>>
plan == <<steps, index, deadline>>
world == <<proc, stray, torque>>
threads == <<starter, spawning, orphaned, stopper>>
bridge == <<leaving, uiMode, crossed>>
vars == <<session, plan, world, threads, bridge, exiting>>

States == {"IDLE", "PRECHECK", "STARTING", "READY", "RUNNING", "DEGRADED",
           "STOPPING", "FAILED"}
Live(p) == p \in {"up", "headless"}   \* headless: only children of the leader
May(f, outcomes) == IF f \in Fault THEN outcomes ELSE {}
Running == {s \in Step : Live(proc[s])} \cup stray

NoStarter == [pc |-> "none", mode |-> None]
At(w, pcs) == starter[w].pc \in pcs
NoStopper == [pc |-> "none", left |-> <<>>, main |-> FALSE]

Init ==
  /\ state = "IDLE" /\ mode = None
  /\ steps = <<>> /\ index = 1 /\ deadline = "none"
  /\ proc = [s \in Step |-> "none"] /\ stray = {} /\ torque = FALSE
  /\ starter = [w \in Starters |-> NoStarter] /\ stopper = NoStopper
  /\ spawning = None /\ orphaned = FALSE /\ leaving = FALSE
  /\ uiMode = None /\ exiting = FALSE /\ crossed = {}

--------------------------------------------------------------------------
(* POST /api/session/start *)

\* Only SessionLogic is asked: other threads may still be in their precheck.
BeginStart(w, m) ==
  /\ At(w, {"none"}) /\ ~exiting
  /\ state = "IDLE"
  /\ state' = "PRECHECK" /\ mode' = m
  /\ starter' = [starter EXCEPT ![w] = [pc |-> "ping", mode |-> m]]
  /\ UNCHANGED <<plan, world, spawning, orphaned, stopper, bridge, exiting>>

GoOn(w, pc) == starter' = [starter EXCEPT ![w].pc = pc]
Return(w) == starter' = [starter EXCEPT ![w] = NoStarter]

PingFails(w) ==
  /\ At(w, {"ping"})
  /\ GoOn(w, "refused")
  /\ UNCHANGED <<session, plan, world, spawning, orphaned, stopper, bridge, exiting>>

\* The cleanup commands kill what they match, or some of it: pkill reports
\* success when it has sent its signal.
RunCleanup ==
  \E killed \in SUBSET (Running \cap Cleaned) :
    /\ proc' = [s \in Step |-> IF s \in killed /\ Live(proc[s]) THEN "none" ELSE proc[s]]
    /\ stray' = stray \ killed

\* A command that fails refuses the start.
Cleanup(w) ==
  /\ At(w, {"ping"})
  /\ RunCleanup
  /\ \E pc \in {"cleaned", "refused"} : GoOn(w, pc)
  /\ UNCHANGED <<session, plan, torque, spawning, orphaned, stopper, bridge, exiting>>

\* Mutant of CountDrivers: the cleanup is trusted.
CountDriversNot(w) ==
  /\ At(w, {"cleaned"})
  /\ GoOn(w, "passed")
  /\ UNCHANGED <<session, plan, world, spawning, orphaned, stopper, bridge, exiting>>

\* _count_skye_robot_driver answers 0 when pgrep fails.
CountDrivers(w) ==
  /\ At(w, {"cleaned"})
  /\ \E counted \in {"driver" \in Running} \cup May("pgrep", {FALSE}) :
       GoOn(w, IF counted THEN "refused" ELSE "passed")
  /\ UNCHANGED <<session, plan, world, spawning, orphaned, stopper, bridge, exiting>>

PrecheckFail(w) ==
  /\ At(w, {"refused"})
  /\ state' = IF state = "PRECHECK" THEN "FAILED" ELSE state
  /\ Return(w)
  /\ UNCHANGED <<mode, plan, world, spawning, orphaned, stopper, bridge, exiting>>

\* Mutant of PrecheckOk: the state is set without looking at it.
PrecheckOkAlways(w) ==
  /\ At(w, {"passed"})
  /\ state' = "STARTING"
  /\ GoOn(w, "install")
  /\ UNCHANGED <<mode, plan, world, spawning, orphaned, stopper, bridge, exiting>>

\* precheck_ok is refused when a stop came first, unless the next start has
\* entered PRECHECK again: then this thread goes on with that session.
PrecheckOk(w) ==
  /\ At(w, {"passed"})
  /\ \/ /\ state = "PRECHECK"
        /\ state' = "STARTING"
        /\ GoOn(w, "install")
        /\ crossed' = crossed \cup (IF starter[w].mode = mode THEN {} ELSE {"start"})
     \/ /\ state # "PRECHECK"
        /\ Return(w)
        /\ UNCHANGED <<state, crossed>>
  /\ UNCHANGED <<mode, plan, world, spawning, orphaned, stopper, leaving, uiMode, exiting>>

\* Processes of the ProcessSteps being dropped go on without an owner.
Forget ==
  /\ stray' = stray \cup {s \in Step : Live(proc[s])}
  /\ proc' = [s \in Step |-> "none"]
  /\ orphaned' = (spawning # None)

InstallSteps(w) ==
  /\ At(w, {"install"})
  /\ steps' = PlaybookFor(starter[w].mode)
  /\ index' = 1 /\ deadline' = "none"
  /\ Forget
  /\ GoOn(w, "started")
  /\ UNCHANGED <<session, torque, spawning, stopper, bridge, exiting>>

\* session_start tells the bridge once start() has returned.
SetSessionMode(w) ==
  /\ At(w, {"started"})
  /\ uiMode' = starter[w].mode
  /\ Return(w)
  /\ UNCHANGED <<session, plan, world, spawning, orphaned, stopper, leaving, exiting, crossed>>

--------------------------------------------------------------------------
(* POST /api/session/retry_step *)

RetryStep ==
  /\ ~exiting /\ state = "FAILED"
  /\ index <= Len(steps)
  /\ state' = "STARTING"
  /\ deadline' = "none"
  /\ UNCHANGED <<mode, steps, index, world, threads, bridge, exiting>>

--------------------------------------------------------------------------
(* POST /api/session/cleanup_stale, in whatever state the session is *)

CleanupStale ==
  /\ ~exiting
  /\ RunCleanup
  /\ UNCHANGED <<session, plan, torque, threads, bridge, exiting>>

--------------------------------------------------------------------------
(* tick(), every 0.1 s in the main thread.  Whether health_fn finds the topic *)
(* or service of a step fresh is any tick's choice: the last sign of life may *)
(* be of a process that has gone, or of one that no session launched.         *)

\* The main thread is not inside Popen, nor in the SIGINT handler's stop().
TickFree == spawning = None /\ ~stopper.main

TickReady ==
  /\ TickFree /\ state = "STARTING"
  /\ index > Len(steps)
  /\ state' = "READY"
  /\ UNCHANGED <<mode, plan, world, threads, bridge, exiting>>

\* ProcessStep.start returns at once when its process runs.
TickStart ==
  /\ TickFree /\ state = "STARTING"
  /\ index <= Len(steps) /\ deadline = "none"
  /\ \/ /\ proc[steps[index]] = "up"
        /\ deadline' = "armed"
        /\ UNCHANGED <<spawning, orphaned>>
     \/ /\ proc[steps[index]] # "up"
        /\ spawning' = steps[index] /\ orphaned' = FALSE
        /\ UNCHANGED deadline
  /\ UNCHANGED <<session, steps, index, world, starter, stopper, bridge, exiting>>

\* Popen returns and _proc is assigned.  Children left from an earlier leader
\* lose their owner.  The driver's script exits when a driver already runs.
Spawned ==
  /\ spawning # None /\ ~stopper.main
  /\ LET s == spawning
         exits == s = "driver" /\ s \in Running
         left == {x \in {s} : proc[s] = "headless" /\ ~orphaned}
     IN /\ proc' = IF orphaned THEN proc
                   ELSE [proc EXCEPT ![s] = IF exits THEN "none" ELSE "up"]
        /\ stray' = stray \cup left \cup {x \in {s} : orphaned /\ ~exits}
  /\ deadline' = "armed"
  /\ spawning' = None /\ orphaned' = FALSE
  /\ crossed' = crossed \cup (IF orphaned THEN {"exit"} ELSE {})
  /\ UNCHANGED <<session, steps, index, torque, starter, stopper, leaving, uiMode, exiting>>

Advance ==
  /\ index' = index + 1
  /\ deadline' = "none"
  /\ state' = IF index + 1 > Len(steps) THEN "READY" ELSE state

TickHealthy ==
  /\ TickFree /\ state = "STARTING"
  /\ index <= Len(steps) /\ deadline # "none"
  /\ Advance
  /\ UNCHANGED <<mode, steps, world, threads, bridge, exiting>>

\* Mutant of TickTimeout: only optional steps time out.
TickTimeoutOptional ==
  /\ TickFree /\ state = "STARTING"
  /\ index <= Len(steps) /\ deadline = "passed"
  /\ steps[index] \in Optional /\ Advance
  /\ UNCHANGED <<mode, steps, world, threads, bridge, exiting>>

TickTimeout ==
  /\ TickFree /\ state = "STARTING"
  /\ index <= Len(steps) /\ deadline = "passed"
  /\ \/ steps[index] \in Optional /\ Advance
     \/ /\ steps[index] \notin Optional
        /\ state' = "FAILED"
        /\ UNCHANGED <<index, deadline>>
  /\ UNCHANGED <<mode, steps, world, threads, bridge, exiting>>

TickDegraded ==
  /\ TickFree /\ state \in {"READY", "RUNNING"}
  /\ state' = "DEGRADED"
  /\ UNCHANGED <<mode, plan, world, threads, bridge, exiting>>

--------------------------------------------------------------------------
(* stop(): POST /api/session/stop, the SIGINT handler, the finally of main() *)

BeginStop(main) ==
  /\ state \notin {"IDLE", "STOPPING"}
  /\ state' = "STOPPING"
  /\ stopper' = [pc |-> "before", left |-> <<>>, main |-> main]
  /\ UNCHANGED <<mode, plan, world, starter, spawning, orphaned, bridge>>

PostStop == ~exiting /\ BeginStop(FALSE) /\ UNCHANGED exiting

\* The handler returns when a stop is already under way.
Sigint ==
  /\ ~exiting
  /\ exiting' = TRUE
  /\ \/ BeginStop(TRUE)
     \/ state \in {"IDLE", "STOPPING"}
        /\ UNCHANGED <<session, plan, world, threads, bridge>>

\* uvicorn's own handler: the server returns to main(), whose finally stops
\* the session, when the requests in flight are over.
Sigterm ==
  /\ ~exiting
  /\ exiting' = TRUE
  /\ UNCHANGED <<session, plan, world, threads, bridge>>

FinalStop ==
  /\ exiting /\ TickFree /\ ~leaving
  /\ \A w \in Starters : At(w, {"none"})
  /\ BeginStop(TRUE)
  /\ UNCHANGED exiting

\* Mutant of BeforeStop: an exception of on_before_stop ends the request.
BeforeStopRaises ==
  /\ stopper.pc = "before"
  /\ \/ /\ uiMode' = None
        /\ stopper' = [stopper EXCEPT !.pc = "terminate", !.left = Reverse(steps)]
     \/ stopper' = NoStopper /\ UNCHANGED uiMode
  /\ UNCHANGED <<session, plan, world, starter, spawning, orphaned, leaving, exiting, crossed>>

BeforeStop ==
  /\ stopper.pc = "before"
  /\ uiMode' = None
  /\ stopper' = [stopper EXCEPT !.pc = "terminate", !.left = Reverse(steps)]
  /\ UNCHANGED <<session, plan, world, starter, spawning, orphaned, leaving, exiting, crossed>>

\* Mutant of Terminate: the loop ends at the first step whose leader is gone.
TerminateBreaks ==
  /\ stopper.pc = "terminate" /\ stopper.left # <<>>
  /\ LET s == Head(stopper.left) IN
       IF proc[s] = "up"
       THEN /\ proc' = [proc EXCEPT ![s] = "none"]
            /\ stopper' = [stopper EXCEPT !.left = Tail(@)]
       ELSE stopper' = [stopper EXCEPT !.left = <<>>] /\ UNCHANGED proc
  /\ UNCHANGED <<session, plan, stray, torque, starter, spawning, orphaned,
                 bridge, exiting>>

\* terminate() signals nothing once the leader is gone, and the group's
\* children survive when the leader is the first to leave.
Terminate ==
  /\ stopper.pc = "terminate" /\ stopper.left # <<>>
  /\ LET s == Head(stopper.left) IN
       \E after \in {"none"} \cup May("lingers", {"headless"}) :
         proc' = IF proc[s] = "up" THEN [proc EXCEPT ![s] = after] ELSE proc
  /\ stopper' = [stopper EXCEPT !.left = Tail(@)]
  /\ UNCHANGED <<session, plan, stray, torque, starter, spawning, orphaned,
                 bridge, exiting>>

\* run_safe_teardown first removes marvin's container, wherever it came from.
\* It takes a good part of a second, during which the other threads run: the
\* requests get through code that waits for nothing, and Popen, unless this
\* stop interrupts the main thread in it, returns.
RemoveContainer ==
  /\ stopper.pc = "terminate" /\ stopper.left = <<>>
  /\ spawning = None \/ stopper.main
  /\ ~leaving /\ \A w \in Starters : At(w, {"none", "ping", "cleaned"})
  /\ \E removed \in {TRUE} \cup May("docker", {FALSE}) :
       /\ proc' = IF removed /\ "marvin" \in Step /\ Live(proc["marvin"])
                  THEN [proc EXCEPT !["marvin"] = "none"] ELSE proc
       /\ stray' = IF removed THEN stray \ {"marvin"} ELSE stray
  /\ stopper' = [stopper EXCEPT !.pc = "disable"]
  /\ UNCHANGED <<session, plan, torque, starter, spawning, orphaned,
                 bridge, exiting>>

\* Mutant of DisableLeader: nothing is tried after the container.
DisableLeaderOnce ==
  /\ stopper.pc = "disable"
  /\ \E docker \in {TRUE} \cup May("image", {FALSE}) : torque' = (torque /\ ~docker)
  /\ stopper' = [stopper EXCEPT !.pc = "clear"]
  /\ UNCHANGED <<session, plan, proc, stray, starter, spawning, orphaned,
                 bridge, exiting>>

\* Then it disables the leader arms, in a container or else on the host.
DisableLeader ==
  /\ stopper.pc = "disable"
  /\ \E docker \in {TRUE} \cup May("image", {FALSE}),
        host \in {TRUE} \cup May("host", {FALSE}) :
       torque' = (torque /\ ~docker /\ ~host)
  /\ stopper' = [stopper EXCEPT !.pc = "clear"]
  /\ UNCHANGED <<session, plan, proc, stray, starter, spawning, orphaned,
                 bridge, exiting>>

\* Mutant of MarkIdle: the request does not tell the bridge again.
MarkIdleKeepsMode ==
  /\ stopper.pc = "clear"
  /\ steps' = <<>> /\ index' = 1 /\ deadline' = "none"
  /\ Forget
  /\ state' = "IDLE" /\ mode' = None
  /\ stopper' = NoStopper /\ crossed' = {}
  /\ UNCHANGED <<leaving, uiMode, torque, starter, spawning, exiting>>

\* mark_idle.  Only a request goes on from here: the handler and main() do not.
MarkIdle ==
  /\ stopper.pc = "clear"
  /\ steps' = <<>> /\ index' = 1 /\ deadline' = "none"
  /\ Forget
  /\ state' = "IDLE" /\ mode' = None
  /\ leaving' = ~stopper.main
  /\ stopper' = NoStopper /\ crossed' = {}
  /\ UNCHANGED <<uiMode, torque, starter, spawning, exiting>>

\* session_stop tells the bridge once stop() has returned, whatever has been
\* started meanwhile.
ClearMode ==
  /\ leaving
  /\ leaving' = FALSE /\ uiMode' = None
  /\ crossed' = crossed \cup (IF state \in {"IDLE", "PRECHECK"} THEN {} ELSE {"stop"})
  /\ UNCHANGED <<session, plan, world, starter, spawning, orphaned, stopper, exiting>>

--------------------------------------------------------------------------
(* Time and the nodes the steps launch *)

DeadlinePasses ==
  /\ deadline = "armed"
  /\ deadline' = "passed"
  /\ UNCHANGED <<session, steps, index, world, threads, bridge, exiting>>

\* The marvin nodes enable the leader arms' motors.
LeaderEnabled ==
  /\ "marvin" \in Running
  /\ torque' = TRUE
  /\ UNCHANGED <<session, plan, proc, stray, threads, bridge, exiting>>

\* A leader exits by itself, perhaps before its children.
LeaderExits(s) ==
  /\ proc[s] = "up"
  /\ \E after \in {"none"} \cup May("lingers", {"headless"}) :
       proc' = [proc EXCEPT ![s] = after]
  /\ UNCHANGED <<session, plan, stray, torque, threads, bridge, exiting>>

--------------------------------------------------------------------------
Prechecking ==
  \E w \in Starters :
    \/ \E m \in Modes : BeginStart(w, m)
    \/ PingFails(w) \/ Cleanup(w) \/ CountDrivers(w)
Starting(w) == PrecheckFail(w) \/ PrecheckOk(w) \/ InstallSteps(w) \/ SetSessionMode(w)
TickProceeds == TickReady \/ TickStart \/ TickTimeout
Tick == TickProceeds \/ TickHealthy \/ TickDegraded
Stop == BeforeStop \/ Terminate \/ RemoveContainer \/ DisableLeader \/ MarkIdle
Environment ==
  \/ DeadlinePasses \/ LeaderEnabled
  \/ \E s \in Step : LeaderExits(s)

Next ==
  \/ Prechecking \/ RetryStep \/ CleanupStale
  \/ \E w \in Starters : Starting(w)
  \/ Tick \/ Spawned
  \/ PostStop \/ Sigint \/ Sigterm \/ FinalStop \/ Stop \/ ClearMode
  \/ Environment

Spec == Init /\ [][Next]_vars

\* The tick loop and the threads that wait for nothing or inside stop() keep
\* running; time passes.
Fairness ==
  /\ WF_vars(TickProceeds) /\ WF_vars(Spawned) /\ WF_vars(DeadlinePasses)
  /\ \A w \in Starters : WF_vars(Starting(w))
  /\ WF_vars(Stop) /\ WF_vars(FinalStop) /\ WF_vars(ClearMode)
FairSpec == Spec /\ Fairness
=============================================================================
