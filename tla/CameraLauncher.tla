--------------------------- MODULE CameraLauncher ---------------------------
(* The camera launcher of the older tele-operation stack: one launcher       *)
(* process serves the device mapping from a thread of its own, forks one     *)
(* worker process per mapped camera and, on Ctrl-C, signals and ends them.   *)
(* Python and rclpy decide what a signal does to a worker, by how far the    *)
(* worker has come; the SDKs of the cameras are external.                    *)
EXTENDS Naturals, FiniteSets

CONSTANTS
  Realsense,      \* the configured RealSense cameras
  Tactile,        \* the configured tactile sensors
  MaxLaunches     \* bound: how often the launcher is started

Devices == Realsense \cup Tactile

ASSUME DevicesAssumption ==
  /\ IsFiniteSet(Devices) /\ Realsense \cap Tactile = {}
  /\ MaxLaunches \in Nat

VARIABLES
  lpc,        \* where the launcher's main() is
  launches,   \* starts of the launcher so far
  mapping,    \* device_to_topic_mapping, as the set of devices
  todo,       \* mapped devices whose process is not started yet
  listed,     \* devices in the list `processes`
  reaped,     \* of those, the ones whose exit status was collected
  tosignal,   \* devices the loop over os.kill has not reached yet
  worker,     \* how far each device's worker process has come
  pending,    \* signals a worker has been sent and not taken
  orphans     \* devices held by workers that outlived a killed launcher

launcherVars == <<lpc, launches, mapping, todo, listed, reaped, tosignal>>
workerVars == <<worker, pending>>
lvars == <<launcherVars, workerVars, orphans>>

LauncherPcs == {"off", "map", "request", "spawn", "join", "signal",
                "terminate", "reap", "ended", "killed"}
WorkerStates == {"none", "boot", "open", "closing", "spin", "mute",
                 "released", "dead"}
Signals == {"INT", "USR1", "TERM"}

Running == lpc \notin {"off", "ended", "killed"}
Alive(d) == worker[d] \notin {"none", "dead"}
Send(ds, s) ==
  pending' = [d \in Devices |->
    IF d \in ds /\ Alive(d) THEN pending[d] \cup {s} ELSE pending[d]]

\* The timers of the nodes, each publishing its colour image.
RealsensePublishes(d) == d \in Realsense /\ (worker[d] = "spin" \/ d \in orphans)
TactilePublishes(d) == d \in Tactile /\ (worker[d] = "spin" \/ d \in orphans)

\* main() is left: its variables are gone.
Left(pc) ==
  /\ lpc' = pc
  /\ mapping' = {} /\ todo' = {} /\ listed' = {} /\ reaped' = {}
  /\ tosignal' = {}

\* The forked workers inherit the listening socket of the mapping server: it
\* stays bound, and unanswered, as long as an orphan lives.
PortHeld == orphans # {}

LauncherInit ==
  /\ lpc = "off" /\ launches = 0
  /\ mapping = {} /\ todo = {} /\ listed = {} /\ reaped = {} /\ tosignal = {}
  /\ worker = [d \in Devices |-> "none"]
  /\ pending = [d \in Devices |-> {}]
  /\ orphans = {}

-----------------------------------------------------------------------------
(* main() *)

Launch ==
  /\ ~Running /\ launches < MaxLaunches
  /\ launches' = launches + 1 /\ Left("map")
  /\ worker' = [d \in Devices |-> "none"]
  /\ pending' = [d \in Devices |-> {}]
  /\ UNCHANGED orphans

\* A connected RealSense camera is mapped, a tactile sensor whether it is
\* there or not.
Mapped(connected) == (Realsense \cap connected) \cup Tactile

InitMapping ==
  /\ lpc = "map" /\ lpc' = "request"
  /\ \E connected \in SUBSET Realsense : mapping' = Mapped(connected)
  /\ UNCHANGED <<launches, todo, listed, reaped, tosignal, workerVars, orphans>>

\* GET /get_mapping from the launcher's own thread. While an orphan holds the
\* port the request is never answered and, having no timeout, never ends.
GetMapping ==
  /\ lpc = "request" /\ ~PortHeld
  /\ lpc' = "spawn" /\ todo' = mapping
  /\ UNCHANGED <<launches, mapping, listed, reaped, tosignal, workerVars, orphans>>

\* The listing of the devices or the request raises. `processes` is not bound
\* yet, so the clean-up raises as well.
MappingFails ==
  /\ lpc = "map" \/ (lpc = "request" /\ ~PortHeld)
  /\ Left("ended")
  /\ UNCHANGED <<launches, workerVars, orphans>>

\* One turn of the two loops: RealSense cameras first. Process.start collects
\* the children that have exited so far. An interrupt between append and start
\* leaves a process last on the list on which os.kill and terminate raise, after
\* they have reached the others; those are then joined by multiprocessing as the
\* interpreter ends, which is Interrupt before this step, with JoinAll.
Spawn(d) ==
  /\ lpc = "spawn" /\ d \in todo
  /\ (d \in Tactile => todo \cap Realsense = {})
  /\ todo' = todo \ {d} /\ listed' = listed \cup {d}
  /\ reaped' = reaped \cup {e \in listed : worker[e] = "dead"}
  /\ worker' = [worker EXCEPT ![d] = "boot"]
  /\ UNCHANGED <<lpc, launches, mapping, tosignal, pending, orphans>>

\* prepare_tactile_config finds no name or no serial number.
BadConfig ==
  /\ lpc = "spawn" /\ todo \cap Tactile # {} /\ todo \cap Realsense = {}
  /\ lpc' = "terminate"
  /\ UNCHANGED <<launches, mapping, todo, listed, reaped, tosignal, workerVars, orphans>>

AllStarted ==
  /\ lpc = "spawn" /\ todo = {}
  /\ lpc' = "join"
  /\ UNCHANGED <<launches, mapping, todo, listed, reaped, tosignal, workerVars, orphans>>

\* SIGINT, from the terminal to the whole process group or to the launcher
\* alone. A second one cuts the two seconds short that the workers are given.
Interrupt(group) ==
  /\ \/ lpc \in {"map", "request"} /\ Left("ended")
     \/ /\ lpc \in {"spawn", "join"}
        /\ lpc' = "signal" /\ tosignal' = listed
        /\ UNCHANGED <<mapping, todo, listed, reaped>>
     \/ /\ lpc = "signal"
        /\ lpc' = "terminate" /\ tosignal' = {}
        /\ UNCHANGED <<mapping, todo, listed, reaped>>
  /\ Send(IF group THEN Devices ELSE {}, "INT")
  /\ UNCHANGED <<launches, worker, orphans>>

\* mutant: without the finally, the error of os.kill ends main() at once.
SignalNextUncaught(d) ==
  /\ lpc = "signal" /\ d \in tosignal
  /\ IF d \in reaped
       THEN Left("ended") /\ UNCHANGED pending
       ELSE /\ tosignal' = tosignal \ {d}
            /\ Send({d}, "USR1")
            /\ UNCHANGED <<lpc, mapping, todo, listed, reaped>>
  /\ UNCHANGED <<launches, worker, orphans>>

\* os.kill(p.pid, SIGUSR1). The number of a collected process is gone: the
\* call raises and the devices not yet reached are not signalled.
SignalNext(d) ==
  /\ lpc = "signal" /\ d \in tosignal
  /\ IF d \in reaped
       THEN lpc' = "terminate" /\ tosignal' = {} /\ UNCHANGED pending
       ELSE /\ tosignal' = tosignal \ {d}
            /\ Send({d}, "USR1")
            /\ UNCHANGED lpc
  /\ UNCHANGED <<launches, mapping, todo, listed, reaped, worker, orphans>>

AllSignalled ==
  /\ lpc = "signal" /\ tosignal = {}
  /\ lpc' = "terminate"
  /\ UNCHANGED <<launches, mapping, todo, listed, reaped, tosignal, workerVars, orphans>>

\* finally: p.terminate() for every process of the list.
TerminateAll ==
  /\ lpc = "terminate" /\ lpc' = "reap"
  /\ Send(listed, "TERM")
  /\ UNCHANGED <<launches, mapping, todo, listed, reaped, tosignal, worker, orphans>>

\* finally: p.join() for every process of the list.
JoinAll ==
  /\ lpc = "reap" /\ \A d \in listed : ~Alive(d)
  /\ Left("ended")
  /\ UNCHANGED <<launches, workerVars, orphans>>

\* SIGTERM or SIGKILL to the launcher: no clean-up runs, the workers live on.
Kill ==
  /\ Running
  /\ Left("killed")
  /\ orphans' = orphans \cup {d \in Devices : Alive(d)}
  /\ worker' = [d \in Devices |-> "none"]
  /\ pending' = [d \in Devices |-> {}]
  /\ UNCHANGED launches

OrphanDies(d) ==
  /\ d \in orphans /\ orphans' = orphans \ {d}
  /\ UNCHANGED <<launcherVars, workerVars>>

-----------------------------------------------------------------------------
(* A worker process *)

Becomes(d, from, to) ==
  /\ worker[d] \in from
  /\ worker' = [worker EXCEPT ![d] = to]
  /\ pending' = [pending EXCEPT ![d] = IF to = "dead" THEN {} ELSE @]
  /\ UNCHANGED <<launcherVars, orphans>>

\* rclpy.init: from here on SIGINT and SIGTERM shut the context down.
WorkerInit(d) == Becomes(d, {"boot"}, "open")

\* A camera that is there, that no orphan holds and whose first frames come:
\* the pipeline runs, the node is spun and the handler of SIGUSR1 installed.
RealsenseOpens(d) ==
  d \in Realsense /\ d \notin orphans /\ Becomes(d, {"open"}, "spin")

\* A sensor that is found by its number and calibrates.
TactileOpens(d) ==
  d \in Tactile /\ d \notin orphans /\ Becomes(d, {"open"}, "spin")

\* An unknown core, a camera that is not there, busy, of another product line
\* or without a first frame; a context shut down before the node is spun.
WorkerFails(d) == Becomes(d, {"boot", "open", "closing"}, "dead")

\* timer_callback of a RealSense camera raises when the frames stop coming, or
\* when the signal handler has stopped the pipeline under it.
RealsenseFails(d) == d \in Realsense /\ Becomes(d, {"spin", "released"}, "dead")

\* get_vitai_data swallows every error: the node lives and publishes nothing.
SensorMute(d) == d \in Tactile /\ Becomes(d, {"spin"}, "mute")
SensorBack(d) == d \in Tactile /\ Becomes(d, {"mute"}, "spin")

\* What a signal does to a worker. SIGUSR1 has its default effect, to kill,
\* until CameraWorker.handle_signal is installed.
After(state, s) ==
  CASE state \in {"none", "dead"} -> state
    [] state = "boot" -> "dead"
    [] state \in {"open", "closing"} -> IF s = "USR1" THEN "dead" ELSE "closing"
    [] state \in {"spin", "mute"} -> IF s = "USR1" THEN "released" ELSE "dead"
    [] OTHER -> IF s = "USR1" THEN "released" ELSE "dead"

TakeSignal(d) ==
  \E s \in pending[d] :
    /\ worker' = [worker EXCEPT ![d] = After(@, s)]
    /\ pending' = [pending EXCEPT ![d] = IF Alive(d)' THEN @ \ {s} ELSE {}]
    /\ UNCHANGED <<launcherVars, orphans>>

-----------------------------------------------------------------------------
WorkerNext(d) ==
  \/ WorkerInit(d) \/ RealsenseOpens(d) \/ TactileOpens(d)
  \/ WorkerFails(d) \/ RealsenseFails(d)
  \/ SensorMute(d) \/ SensorBack(d) \/ TakeSignal(d)

MainNext ==
  \/ InitMapping \/ GetMapping \/ MappingFails \/ BadConfig \/ AllStarted
  \/ AllSignalled \/ TerminateAll \/ JoinAll
  \/ \E d \in Devices : Spawn(d) \/ SignalNext(d)

LauncherNext ==
  \/ Launch \/ MainNext \/ Kill
  \/ \E group \in BOOLEAN : Interrupt(group)
  \/ \E d \in Devices : WorkerNext(d) \/ OrphanDies(d)
=============================================================================
