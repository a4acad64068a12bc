# Skye ROS bridge: TLA+ verification project

This directory models the control logic of the dual-arm teleoperation bridge in
`src/skye_ros2_ws/src/`, and the recording, replay and camera programs of
`src/marvin_ws/`: TLA+ modules, TLC configurations that check them on
small instances, and TLAPS proofs for every value of the constants. Paths below
are relative to `src/skye_ros2_ws/src/` unless they start with `src/`.

```
tlc -config MCDriverNode.cfg MCDriver.tla      # one run
tlapm DriverProofs.tla                         # one module of proofs
```

`PROJECT.json` lists the components, the runs, one mutant per checked property,
the source lines of every definition, the hazards and the theorems.

## 1. Inventory

| component | state it keeps | operations | talks to | status |
|---|---|---|---|---|
| driver core (`skye_robot_driver/src/driver_core.cpp`) | `linked_`, `mode_`, `control_ready_`, `config_` under one mutex; beyond it the controller's own mode, speed ratio and target of each arm | link and enable, switch mode, hold one or both arms, stop, emergency stop, speed ratios, send a joint target, shut down | vendor SDK (external, any call may be refused) | DriverCore |
| driver node (`driver_node.cpp`) | per arm two command sessions, relative and absolute: streaming flag, last command, stamp, unwrap references | two joint topics per arm, six services, the 50 ms command-timeout timer | driver core; arbiter, align node and UI as clients | DriverNode, ArmOwner |
| gripper bridge (`gripper_bridge.cpp`, `robotiq_gripper_arm.cpp`, `dm4310_gripper_arm.cpp`, `modbus_rtu.hpp`) | `started_`, per arm the pending and last written target, feedback validity | start, stop, set target, control tick, feedback tick | driver node, from two callback groups | GripperNode, RobotiqGripper |
| control arbiter (`skye_hitl_dagger/.../control_arbiter_node.py`, `control_mode.py`, `teleop_sync.py`, `chunk_continuity.py`, `chunk_player.py`) | control mode, handshake phase, the policy's chunk, hold target, last target, return gate | policy chunk, feedback, intervention commands, teleop state, joint timer, sync timer | FACTR (the leader arms' controller, external), driver, UI, keyboard | ControlArbiter, TeleopHandshake, Handover |
| policy mapping (`policy_abs.py`, `chunk_continuity.py`, `chunk_player.py`) | the loaded chunk | joint mapping, rebasing, sampling by the clock | arbiter, driver | PolicyChunk (operators); `policy_relative.py` is used by its own test only and left out |
| recorders (`episode_recorder_node.py`, `skye_data_recorder`) | whether a writer is open | start and stop services, sample timer | UI | their services in UiDispatch |
| follower align (`skye_follower_align`) | a session per arm, the streaming flag, the latched status | align, cancel, timer, shut-down clean-up; service calls with a 5 s limit | driver services | FollowerAlign |
| operator UI supervisor (`skye_operator_ui/.../supervisor.py`, `session_state.py`, `process_step.py`, `teardown.py`, `operator_ui_node.py`) | session state, steps, index, deadline, the processes of the steps | start, retry, clean-up, stop (HTTP worker threads), tick, SIGINT, SIGTERM | child processes, docker | OperatorSession, SessionLifecycle |
| operator UI commands (`commands.py`, `ros_bridge.py`, `api_app.py`, `leader_arms.py`, `hints.py`) | mailbox of ROS states, dispatch lock, leader-arm gate, recording flag | gating, dispatch, trigger services, scripts | every ROS node above | UiCommands, UiDispatch |
| legacy recorder and replay (`src/marvin_ws/record_live_vis.py`, `replay_pkl_slow_sync.py`) | frames of the episode, episode number, the output directory | keys, signals, sample timer, saves; load, synchronise, replay | joint and switch topics | PklRecorder, PklReplay, PklPipeline |
| legacy cameras and data recorder (`src/marvin_ws/tele_operation`) | the device mapping, the worker processes; the frame list and the saving flag | launch, signals, clean-up; start and save episodes | camera SDKs (external), each other over HTTP | CameraLauncher, EpisodeCapture |
| HITL keyboard, dummy policy | none | intervention commands, test chunks | arbiter | their messages only |
| operator page (`web/`), `snapshot.py` | none of their own | show state | UI back end | not modelled: presentation |
| controller SDK (`src/third_party/gento_sdk`) | | | driver core | external |
| the rest of `src/marvin_ws` (`visualize_pkl.py`, `HandE.py`, `gento_ros2_ws`), `src/scripts`, `src/pd_test`, launch and configuration files | | | | not modelled: drawing one saved file, superseded drivers, bench tests, start-up |

### How they interact

```
 policy --chunks--> arbiter --/skye/*/absolute (joint timer)--> driver node --> driver core --> controller
 operator --intervention--> arbiter --hold_current-----------------^   ^
        (UI, keyboard)        |  ^                                     |
                 /mode/*      v  | /teleop/state (latched, last one)   |
                             FACTR --relative joint frames-------------+
```

The *driver* accepts both streams for an arm and decides which one moves it.
The *arbiter* decides which stream it feeds, from the operator's commands and
from what FACTR says of itself. FACTR's state, its topic and the commands to it
are seen late; the UI and the keyboard command FACTR without the arbiter.

### What is hard

* **Interleaving.** Two publishers stream to one arm while services and the
  timeout timer act on the same sessions; the UI's threads act on one session.
* **Partial failure.** Every operation on two arms can fail between them.
* **Ordering.** Commands to FACTR go out on three topics without a common
  order, its state is latched and overwritten, and either may be in flight when
  the operator changes their mind.
* **Stale state.** Chunks planned, poses held and states cached before the
  operator moved the arms are around afterwards.
* **Timeouts and retries.** Command timeout, handshake repetition, service
  calls that time out and are served later.
* **Liveness.** A handover must not hang, a silent stream must end, the policy
  must get the arms back.

* **Signals and processes.** A signal may arrive between any two steps of a
  save, a start or a stop, and what a child process does with it depends on how
  far that process has come.

`PROJECT.json` lists each of these at its line under "hazards", with the
properties that cover it or the reason why none does.

### What makes each component correct

* driver: one owner per arm; a frame never moves the target by more than the
  slew limit; after a stop nothing moves; "ready" is true of the controller;
  silence ends a session.
* gripper: no command is forgotten, none is begun after a stop returns, and a
  held target is reached.
* arbiter: the operator gets the arms only after both requests and on an
  alignment of this takeover; a confirmed handover completes; the policy gets
  the arms back; no outdated pose is commanded.
* align: nothing is streamed but at the slow speed; hold and speed ratios are
  restored on every way out of a session; an alignment ends.
* UI supervisor: one life cycle whatever its threads do; the driver behind a
  session is the session's own; a stop misses at most one process, and ends.
* UI commands: the recording flag tells what the recorder does; whatever the
  mailbox shows was written since the last session ended; a locked gate stays as
  it is; the dispatch lock is always released.
* legacy recorder and replay: an episode is saved whole and once; a numbered
  file is never changed once it is written, and an output file holds the last
  episode saved; a replay is orderly and ends in `switch_stop`.
* legacy cameras and data recorder: episodes do not mix; no worker survives an
  orderly end of the launcher.
* policy mapping: the driver moves to the pose the policy gave; rebasing keeps
  the moves; the first target is near.

## 2. Modules

### Driver

`DriverCore` has one operator per public operation of `DriverCore`. Each runs
under `runtime_mutex_`, so each is atomic. Beside the driver's beliefs
(`linked`, `mode`, `ready`, `config`) it keeps what the controller really does
(`arm`, `rate`, `target`), because the interesting errors are disagreements of
the two. `MayFail` names the kinds of SDK call that may be refused, at any point
of an operation. The seven joints are treated alike and independently by the
code, so a joint vector is one integer. `Settle` is the controller's answer to a
mode change: an arm in a control mode holds the pose it is measured at.

`DriverNode` adds the sessions `sess[arm][path]` and the handlers.

| action | code |
|---|---|
| `HandleCommand`, `HandleAbsoluteCommand` | the two joint topics; mapping and leash are abstracted to "any value of `Frame`", seeding, slew limit, the clamps, refusal, and the takeover of the other path's session are kept |
| `HandleSetMode`, `HandleHoldCurrent`, `HandleStopMotion`, `HandleEmergencyStop`, `HandleSetMotionRates` | the services |
| `StartCheck`, `CheckCommandTimeout` | the timer callback: four checks (left and right relative, left and right absolute) against the stamp taken when it started, one step each, no other handler in between |
| `Start`, `Stop`, `Crash` | the process: a crash leaves the controller in its mode |
| `Tick` | time; ages are counted up to `Timeout + 1` |

Joint subscriptions, services and the timer share one mutually exclusive
callback group, hence one handler at a time. Left out: state publishers, and the six-axis and
terminal pass-through. The gripper topic and timer, another group, are in the
gripper modules. A frame that is malformed, or that finds no feedback to
seed from, changes nothing and is no step.

`ArmOwner` is the abstract promise: at most one path owns an arm, the absolute
path takes it at once, the relative one only when the absolute one is silent, and
nobody owns it while halted. `DriverProps` states the properties and the
refinement mapping; `stopped` is a history variable.

### Gripper

`GripperNode` has what the node and the bridge do with a gripper: the flags
`enabled`, `bridge` and `started` (`gripper_enabled_`, the bridge's and the arm
backend's `started_`), and the places `tick` and `stop` of the two threads that
meet there. Commands and the gripper timer are in one mutually exclusive group
(`Commandable`, `TickBegins`); the emergency stop is in the control group.

`RobotiqGripper` adds one Robotiq arm. Its actions are steps, not handlers,
because the two threads share plain members: every flag that is read or cleared
and every Modbus transaction is a step of its own.

| action | code |
|---|---|
| `SetTarget` | `handle_gripper_command` and `set_target` |
| `TickBegins`, `TickEntersArm`, `TickControl` | `tick_gripper`, the bridge's and the arm's `tick_control`, with the lag counter that asserts a held target again |
| `TakePending`, `WritePos`, `WriteSpeed`, `WriteGo` | `write_pending`: what it takes, coalescing, the three writes, and putting the command back |
| `SkipFeedback`, `ReadFeedback` | `tick_feedback` and `read_opening_mm` |
| `StopBegins`, `StopWrite`, `StopArm`, `StopBridge`, `StopNode` | `handle_emergency_stop` down to the arm's `stop` |
| `DevMoves`, `DevStalls` | the Hand-E (external): it moves to the requested position, and stops on an object until the next motion command |

`Transaction` says how a write can end: carried out or not, answered in time or
not, and acknowledged by an answer that is not its own (`stray`: an earlier
write's, or the stop's), since `modbus_write` takes any answer of the slave to
any write. At most one answer is late at a time. `Init` is every way a
successful `start` can end, its open command and first tick included. Positions
are counts; the scaling of norms and millimetres is left out, as are activation,
the other arm (it shares the two outer flags only) and the DM4310 backend.

### Arbiter

`TeleopHandshake` is the class of that name: `phase`, the last `state` heard,
whether some unaligned state was `seen`, and since when it is `aligned`.

`ControlArbiter` is the node and its surroundings. The node has one thread, so a
callback is one step.

| action | code |
|---|---|
| `PolicyCallback`, `JointStatesCallback`, `JointTimerCallback` | the callbacks of those names; `Published` is what the joint timer sends |
| `Takeover`, `EnterTeleop`, `Return` | `_intervention_callback` |
| `StateCallback`, `SyncTimerCallback` | the handshake; the timer's four outcomes are named disjuncts |
| `FactrCommand`, `FactrSynced`, `Meddle`, `FeedbackStops`, `HoldServed`, `Tick` | surroundings |

A joint target is represented by where it comes from: `"cur"` if it was measured
or planned since the operator last moved the arms, else `"old"`. That is what
`FreshTargets` needs and all the code's joint values are compared for. A chunk
is one value too; sampling it within its horizon is left out.

FACTR is external, modelled from how `src/` uses it: it accepts `switch_teleop`
and `switch_stop` in any state, publishes only when its state changes, and the
code does not say whether it aligns anew when told `switch_sync` while SYNCED;
`Resyncs` gives the possible answers. `/teleop/state` keeps its last message, so
`stateMsg` is one slot that a newer message overwrites. Messages of one
`/mode/*` topic are alike, so a counter per topic is the queue; topics have no
common order. `Meddle` is the UI or keyboard commanding FACTR, or FACTR
restarting.

`Handover` is the abstract promise to the operator; `reported` is the history
variable that records what FACTR published since the takeover. `ArbiterProps`
has the properties and the mapping.

### Operator session

`OperatorSession` is `SessionSupervisor` with `SessionLogic`, the `ProcessStep`
of every step, the safe teardown, and the session mode the bridge is told.
Requests are served by worker threads, so several can be under way at once: each
thread inside `start()` has its place and its mode in `starter`, and the thread
inside `stop()` is `stopper`. The tick of the main thread is in the `Popen` of
`spawning`, and `leaving` says that a stop request has returned from `stop()` and
has still to clear the bridge's mode. `crossed` is a history variable: it names
what reached the present session from another one.

| action | code |
|---|---|
| `BeginStart`, `PingFails`, `Cleanup`, `CountDrivers`, `PrecheckFail`, `PrecheckOk` | `start` and `_precheck` in each of the request threads: ping, clean-up commands, count of running drivers |
| `InstallSteps`, `SetSessionMode` | the rest of `start`, and of the request |
| `RetryStep`, `CleanupStale` | the two other requests |
| `TickStart`, `Spawned`, `TickHealthy`, `TickTimeout`, `TickReady`, `TickDegraded` | `tick`: Popen, health, deadline, optional steps, loss of the driver |
| `PostStop`, `Sigint`, `Sigterm`, `FinalStop` | who stops a session |
| `BeforeStop`, `Terminate`, `RemoveContainer`, `DisableLeader`, `MarkIdle` | `stop`, one step per blocking call |
| `ClearMode` | the rest of the stop request: the bridge is told that there is no mode |
| `DeadlinePasses`, `LeaderEnabled`, `LeaderExits` | time and the nodes the steps launch |

`proc[s]` is the process of a step, `stray` the steps whose process nobody can
end any more: it was launched while its `ProcessStep` was dropped, or its leader
left children behind. Whether a step is found healthy is any choice of each
tick: what is fresh may come from a process that has gone, or from one that no
session launched. Methods of `SessionLogic` are atomic, and so is the code
between two blocking calls, except that `start` publishes STARTING before it
assigns the steps, which the tick can see, and that both requests tell the
bridge after `SessionLogic`, so that another request can come between.

`start` asks only whether the session is IDLE. A start whose precheck a stop has
cancelled goes on with it, and its `precheck_ok` succeeds if the next start is in
PRECHECK by then: it installs the steps of its own mode for the other's session.
Assumed: the teardown's `docker rm` outlasts code of other threads that waits for
nothing, so `RemoveContainer` finds no thread there that has passed its precheck
or has a mode still to clear, nor does the last stop of an exit; and
`allow_existing_driver` is off (its default).

`SessionLifecycle` is the abstract promise: one start and one end at a time, a
mode that is fixed between them. `SessionProps` has the mapping and also checks
`hints.py` against `commands.py`, for every mailbox, in every reached session.

### Operator commands

`UiCommands` has the rules without state: `CommandAllowed` (`commands.py`),
`Kind` and `AlignPayload` (`dispatch_plan`), `NextHint` (`hints.py`) and
`Confirmed` (`_PENDING_CONFIRMERS`).

`UiDispatch` has the callers of `RosBridge.dispatch`: worker threads, the stop
of a session, and the thread `on_degraded` starts.

| action | code |
|---|---|
| `Post` | `post_command` up to the check |
| `Busy`, `NoPlan`, `Publish`, `RunScript`, `CallTrigger` | `dispatch` up to its first wait; the lock is tried, never awaited |
| `ScriptEnds`, `DriverAnswers`, `Answered`, `TimesOut` | the ends of the waits; a request given up is still served |
| `ServeStart`, `ServeStop` | the recorder nodes' services, each with a queue of its own |
| `Message` | the bridge's subscriptions, in a thread of their own: `Published` on any topic by any publisher, at any time, with or without a session |
| `StartSession`, `Degrade`, `BeginStop`, `StopRecorderIfActive`, `ClearSession`, `Teardown` | the session around the commands |

Assumed: a trigger call (at most 2.5 s) ends before the next session is ready,
while a script (up to 15 s) may outlive its session; a teardown outlasts the
10 ms poll of an answer. A script that outlives its session moves the side of
the next session's gate if that is not locked; `GateFrozen` is about locked
gates and says nothing of it. `Teardown` takes the end of the session and the
stop request's clearing of the bridge as one step; the start that can come
between the two is in `OperatorSession`. `fresh` is the history of the mailbox's
fields that were written since the last session ended. The display of pending
commands is left out. Requests
of one service are served in the order sent, those of two services in any order.
So a start that was given up can still be served after the stop of the next
caller, before its poll sees the answer: `overtaken` remembers that, and
`FlagTruth` leaves the answer seen next out.

### Follower align

`FollowerAlign` is the node with the driver's services behind it. All callbacks
are in one exclusive group, so a callback that waits for a service (`pc`,
`call`) keeps every other out; answers come in on other threads.

| action | code |
|---|---|
| `AlignRequest`, `Cancel`, `BigMessage`, `LeaderMessages` | the subscriptions |
| `SendRequest`, `ServiceMissing`, `CallTimesOut` | `_call_set_rates`, `_call_hold`, `_wait_future` |
| `Serve` | the driver (modelled in full in `DriverNode`): requests in the order sent, each accepted or refused |
| `StreamStarts`, `AlignFails`, `Undone`, `Held`, `Restored` | the rest of each callback after its call |
| `AbortStale`, `Advance` | the timer, with `AlignSession.on_tick` of each active arm |
| `Expire`, `LeaderAges`, `BigAges` | time |
| `Interrupt` | Ctrl-C and `_shutdown_cleanup`, after which no answer is handled |

The joint comparison is a choice of the arms that are close. `slow` and
`following` are what the driver does, `unmet` which restoring request failed.

### Legacy recorder and replay

`PklRecorder` is `record_live_vis.py`: the main thread with the sample timer, the
keyboard thread, and the signal handler, which runs on the main thread between
any two of its steps and re-enters `state_lock`. `finish_episode` is five steps
(`FinishBegins`, `ChoosePath`, `OpenFile`, `Dump`, `Saved`; `SaveFails` at any of
them) for each of its three callers. A process that ended or was killed starts
again (`Start`) with the files it left. Each run has a command line of its own:
without `--oneshot`, with it, or with it and `--output-file` (`outfile`). A save
goes to the number of the episode counter or, with `outfile`, to `OutputFile`,
every save of every such run to the same one; what an earlier save left there is
lost and its episode is then in `dropped`, as a discarded one is. So
`WholeEpisode` lets an output file keep the last episode only, and `FilesKept` is
about numbered files. The output file is taken to lie outside the numbered names
of the output directory. `nested` is the history of a signal
handled inside a save or a sample: there the code can write one file twice or
save a frame list that is being appended to, and `WholeEpisode`, `FilesKept` and
`ReplayedAsRecorded` say nothing of such a process.

`PklReplay` is `replay_pkl_slow_sync.py`: selection of frames, discovery,
`switch_teleop`, the slow way to the first state, preparation, replay, and the
`finally` with `switch_stop`; SIGINT and SIGTERM anywhere. `PklPipeline` composes
them: a whole file the recorder left is replayed once it has ended.
`ReplayedAsRecorded` says that what is sent are frames of one episode in their
order; it does not say that none is skipped.
Topic conversion, the live window and speech are left out.

### Legacy cameras and data recorder

`CameraLauncher` is the launcher's `main()`, its worker processes and the
signals between them. A worker is `boot`, `open`, `spin`, `mute` or `released`;
`After` is what a signal does in each (before `rclpy.init` the default action,
then the context's shutdown, then the worker's own handler). `orphans` are the
workers of a killed launcher: they hold their cameras and the mapping server's
port.

`EpisodeCapture` adds the data recorder: the synchronised callback in the main
thread (`Receive`, `AppendFrame`) against the web server's thread
(`StartEpisodes`, `SaveEpisodes`, `CountAndOpen`, `Dump`, `Clear`, `SaveFails`),
which share a flag and a list without a common lock. Image encoding, exposure,
marker clouds and frame rates are left out. `EpisodesApart` is about what the
files hold: a frame that is appended between the copy a save dumps and the clear
after it is in no file, which the property does not notice. `Spawn` puts a
worker on the list and starts it in one step. An interrupt between the two would
leave a worker that never started as the last of the list; the handler and
`terminate` fail on it only after they have reached all the others, and the
interpreter joins those at exit, as after an interrupt before `Spawn`. The loops
over `os.kill` and `terminate` take no signal inside one call; an interrupt in the final join
changes nothing, because the interpreter joins the workers again at exit.

### Policy chunks

`PolicyChunk` has the pure part of the policy's way to the arms as operators:
the jump test and rebasing of `chunk_continuity.py`, the clock of
`chunk_player.py`, `follower_pose_to_leader_abs` and the driver's
`apply_joint_mapping`. Angles and times are whole numbers of small units, signs
are 1 or -1 as in every configuration, the comparison's epsilon is ignored. It
has no run: its theorems hold for every size.

## 3. Runs

| run | cfg | result | distinct states |
|---|---|---|---|
| `driver_node` | `MCDriverNode` | holds | 37 thousand |
| `driver_slew` | `MCDriverSlew` | holds | 59 thousand |
| `driver_half_hold` | `MCDriverHalfHold` | violated | 280 |
| `arbiter_handover` | `MCArbiterHandover` | holds | 811 thousand |
| `arbiter_live` | `MCArbiterLive` | holds | 25 thousand |
| `robotiq_safe` | `MCRobotiqSafe` | holds | 5.0 million |
| `robotiq_live` | `MCRobotiqLive` | holds | 229 thousand |
| `operator_session` | `MCSession` | holds | 350 thousand |
| `ui_dispatch` | `MCUi` | holds | 592 thousand |
| `follower_align` | `MCAlign` | holds | 542 thousand |
| `pkl` | `MCPkl` | holds | 800 thousand |
| `capture` | `MCCapture` | holds | 976 thousand |

* `driver_node`: `OneOwner`, `SessionSeeded`, `ReadyMeansInMode`,
  `StoppedStaysIdle`, the refinement of `ArmOwner` and `SilentStreamEnds`, with
  both arms streamed to, two control modes (so that a switch fails with the arms
  in different ones), and every SDK call refusable.
* `driver_slew`: `TypeOK` (with the joint limits), `LastIsTarget`,
  `RateFollowsConfig` and `FrameStepBounded`. Limits 1..3, frames and measured
  poses 0..4, slew 1, two speed ratios: frames beyond both limits, seeds outside
  the limits, steps larger than the slew. Joint commands and ratios are accepted
  here; switches and stops may be refused. Only the left arm is streamed to: with
  both, a refused switch lets the timeout hold of one arm move the other (2
  below). `driver_half_hold` shows what a refused command does.
* `arbiter_handover`: `HandoverInv` and the refinement of `Handover`, with
  unordered, late commands, overwritten states, a FACTR that does either thing
  on `switch_sync` and one outside interference. No bound on delays.
* `arbiter_live`: `HandoverCompletes`, `ReturnGateOpens` and `FreshTargets`, with
  two interferences, and a policy whose clock is behind, so that every chunk is
  stamped before the return.
* `robotiq_safe`: `CleanMeansSent` and `NoWriteBeginsAfterStop`, with every way a
  transaction can fail and the stop at every point of the timer's callback. The
  stop ends everything (nothing starts the gripper again), so these
  configurations do not check for deadlock.
* `robotiq_live`: `HeldTargetReached`, for behaviours without an emergency stop
  (`RunningSpec`).
* `operator_session`: the refinement of `SessionLifecycle`; `OwnDriver`,
  `AtMostOneEscapes`, `LeaderReleased`, `ModeFollowsSession`, `HintFollowable`;
  `StopEnds` and `StartResolves`. Two start requests can overlap, also for
  different modes; a stop can meet a start at any point of its precheck and the
  tick at any point of its `Popen`, and its own last step can come after the next
  start. `ModeFollowsSession` compares the bridge's mode with the steps that run,
  which stays true when one start takes over the session of another, and with
  the session's own mode otherwise. A program that has been
  told to exit stops, so there is no check for deadlock.
* `ui_dispatch`: `NoStaleMailbox`, `FlagTruth`, `GateFrozen`, `DispatchReturns`,
  with a worker thread, the stop and the degrade thread, messages at any time,
  also between two sessions, and recorders that answer late, out of the order of
  the calls, refuse or never answer.
* `follower_align`: `SlowWhileStreaming`, `RestoredAfterAlign`, `AlignEnds`, with
  every service call missing, refused, timed out and served later, or
  interrupted. An interrupted node ends: no check for deadlock.
* `pkl`: `WholeEpisode`, `FilesKept`, `QuitEnds` of the recorder,
  `ReplayedAsRecorded` and `StopFollowsJoints` of the replay of what it left,
  with kills, signals, saves that fail, numbered files and an output file, and a
  second start with the same command line or another. The replay ends it.
* `capture`: `EpisodesApart` and `WorkersDoomed`, with an interrupt or a kill of
  the launcher at any point, workers that fail or are still starting, and a
  relaunch beside orphans. Both programs may end.

**Bounds.** Driver: a timeout of 1 or 2 ticks distinguishes live, just expiring
and expired; larger values only add ages between. One joint and at most five
positions are enough for a limit on either side, a seed beyond it and a step on
either side of the slew limit. Arbiter: `MinSyncHold` 1 and `SyncTimeout` 2 let
an alignment be too short, long enough, and repeated over; `Depth` 2 lets two
commands of a topic be under way, so that an old one is taken after a newer one
of another topic; `MaxMeddle` 1 or 2 gives others a command before and after the
arbiter's own. All ages are counted up to the bound the code compares with, so
nothing is lost by stopping there. Gripper: 4 counts of travel (3 in the
liveness run) with the limit at 3, `MinDelta` 2 and `ResendGap` 1, so that steps
are below and at the coalescing bound and the gap, at the ends and between;
`ResendEvery` and `FeedbackEvery` are 2, equal as in the code. Their relation
matters: a failed read says "open" and may reset the lag count, so a longer
resend interval would let failing reads put off the resend for ever.

Session: two start requests, which is enough for one to take over the precheck
of the other; a playbook of two required steps, the driver and marvin, and one
of a single optional step without leader arms, one for each mode. Of the five
faults only `"image"` (the disabling container cannot run) is on: with the
others the properties are false by nature, as when `pgrep` fails and counts no
driver (`OwnDriver`) or when neither container nor host can disable the leader
arms (`LeaderReleased`). UI: a worker holds the lock against the stop and the
degrade thread, four commands stand for the four kinds of dispatch and change
everything modelled, two requests waiting at a service let an abandoned one lie
before a new one. The messages are a SYNCED, which locks the gate, and one the
commands do not depend on. More workers only add callers that the lock keeps
out: the theorems have any number of them, and of messages. Align: two arms,
`HoldFrames` 2 (a count that is started and broken), `MaxQueue` 2 (an abandoned
request before the next). Recorder and replay: two episodes of two frames in two
processes, each with or without `--oneshot` and `--output-file`, one signal; the
replay with two repetitions, three synchronisation steps and two interrupts,
over three command lines (everything on, with a negative start; a bare replay
with stride; a plan that is not executed). Capture: one RealSense camera and one
tactile sensor, the two kinds of worker, two launches, three frames and two
saves, which put a frame before, between and after the saves. `Room` and
`RelaunchBound` keep the product small: the recorder is started when the
launcher waits for its workers, and only a launcher nobody has recorded from yet
is started again. The proofs drop the bounds of what they cover.

**Fairness.** Driver: weak fairness of starting and of running the timeout
checks; the executor serves a ready timer before subscriptions and services, and
the callback ends. Nothing is assumed of publishers, services, starts or
crashes. Arbiter: its timer and its state subscription are served; FACTR takes a
command that waits for it and completes an alignment; the policy keeps sending;
time goes on. `Timely`, on in the liveness run, says that messages and an
alignment take less than a clock tick, that is that `sync_timeout_s` is longer
than a round trip with its alignment and the hold. With a shorter
`sync_timeout_s` every alignment is interrupted by the repetition of
`switch_sync`. No fairness is given to the operator.
Gripper: weak fairness of the timer's callback, which the executor runs
periodically; strong fairness of a transaction that is tried again and again
(the line may lose any finite number) and of the gripper's motion (an object
may stop it any number of times, but not for ever). Without that the property
would ask the gripper to close through an object.
Session: the tick loop runs, `Popen` returns, time passes, and each start thread
that waits for nothing, the thread inside `stop()` and the end of its request run
on, since each of their calls has a time limit; a tick may find a step healthy or
not, and nothing is assumed of processes or requests. UI: the waits inside
`dispatch` end, each having a limit; nothing is assumed of the recorders, the
messages or the session. Align: a call ends, the callback goes on, and time
passes (weak); the timer is strongly fair, since callbacks of its group can
disable it again and again. Recorder: the main thread runs, and a save ends or
fails. Capture states no liveness.

`FreshTargets` assumes that joint feedback lives (`FeedbackMayStop` FALSE); the
hazard list names the takeover for which it is false otherwise. `Resyncs` is
"aligns" in the liveness run because with "ignores" the handover really hangs
(3 below). `HeldTargetReached` allows `ResendGap`, not `MinDelta`: that is what
the code gives (5 below). A driver that serves requests of the align node out of
order is outside `FollowerAlign`.

### Disagreements of the code with its documents

The first has a run, the others were met while modelling.

1. `driver_half_hold` / `FrameStepBounded`. `hold_current` moves the left arm,
   then fails on the right one, and the node keeps the sessions. The next frame
   is limited against the session's last command, not against the pose the left
   arm was just told to hold, and steps further than `max_delta_per_cycle`.
2. After a refused mode switch the timeout hold of one arm enters the mode again
   on both, while `src/docs/ros_interfaces.md:134` has the timeout act on each
   arm alone.
3. A takeover clears the cached state and waits for a SYNCED after some other
   state. If FACTR is SYNCED and does not leave it on `switch_sync`, it waits for
   ever: the deadlock that `src/.superpowers/sdd/final-fix-report.md:15` says was
   removed.
4. `switch_sync` is repeated every `sync_timeout_s` until the operator confirms,
   aligned or not, while `src/docs/Hint_Dagger启动使用说明.md:151` has it stop once
   aligned.
5. `write_pending` remembers a position as sent although it skipped writing it. A
   stream of steps below `kMinPosDeltaCounts` is therefore never written, each
   step being compared with the skipped one before it, where the comment at
   `robotiq_gripper_arm.cpp:16` has such steps coalesced into larger ones; the
   gripper follows only when the feedback lags by `kResendGapNorm`.
6. `align_logic.py:88` keeps an arm ALIGNED once it held its frames, while the
   other arm is still moving and this one may drift again;
   `src/docs/superpowers/plans/2026-09-04-follower-align-hw-checklist.md:38`
   has both arms close at the end.
7. A session that degrades stops the recorder only if the UI's flag is set. A
   recording whose start was answered too late goes on (`ros_bridge.py:264`,
   `:457`), while
   `src/docs/superpowers/specs/2026-09-15-skye-operator-ui-design.md:159` has
   degradation end the recording.

Seen besides, in code the modules cover: after a killed camera launcher the next
one waits for ever for its own mapping, because the forked workers keep the
listening socket and the request has no time limit (`GetMapping`); tactile
topics configured under a name the converter does not know are subscribed to but
never stored (`Converted`); `_start` of the episode recorder raises outside its
`try` when the directory cannot be made, which ends the node; a chunk of the
wrong length raises in rebasing, uncaught.

* Two starts that overlap over a stop (`supervisor.py:54-65`) leave the bridge
  and the steps in the mode of one and `SessionLogic` in that of the other
  (`"start"` in `crossed`).
* The last step of a stop request (`api_app.py:209`) may come after the next
  start and leaves a running session without a mode (`"stop"` in `crossed`).
* A `Popen` that the exit's own stop has overtaken can leave a marvin behind that
  enables the leader arms after they were disabled (`"exit"` in `crossed`).
* A publisher that outlives its session fills the mailbox after its last
  clearing, and a SYNCED of it locks the gate before the next session starts,
  which does not reset it (`operator_ui_node.py:84` does, in the stop).
* The help of `--oneshot` (`record_live_vis.py:789`) says that the program exits
  after one saved episode. A save by key 6 does not end it, and each further one
  replaces the file of `--output-file`.

## 4. Proofs

Every safety property that a passing run checks is a theorem about `Spec`, for
every value of the constants that satisfies the named assumptions, which the
modules state where they declare the constants (`CoreAssumption`,
`NodeAssumption`, `HandshakeAssumption`, `ArbiterAssumption`,
`RobotiqAssumption`, `AlignAssumption`, the five of `OperatorSession`,
`MessageAssumption`, `ModeAssumption`, `DispatchAssumption`,
`DevicesAssumption`, `CaptureAssumption`, `RecorderAssumption`,
`ReplayAssumption`). They bound nothing: they say that numbers are numbers, that
sets are not empty where the code needs one, and that markers such as `None` or
`Partial` differ from the values they stand beside. A theorem that needs more
says so in its own ASSUME. Each rests on an inductive invariant that TLC checked
first, on the run of its property.

**Driver** (`DriverProofs`). `TypeCorrect`, `OneOwnerAlways`,
`SessionSeededAlways`, `ReadyMeansInModeAlways`, `StoppedStaysIdleAlways`, from
the invariant `IInv`. The parts need one another: a frame is applied only when
`ready`, and `ReadyMeansInMode` then gives a mode other than idle, which with
`StoppedStaysIdle` means that the driver is not stopped; `OffIsQuiet` (a node
that is down has no session) is needed for a restart to begin from nothing.
`ImplementsArmOwnerHolds` has one lemma per kind of step: a frame takes, a
service releases or halts, a check releases, a clock tick makes owners quiet.

* `LastIsTargetAlways` and `FrameStepBoundedAlways` hold under `Reliable` (only
  parking and the emergency stop may be refused). `LastIsTarget` is not
  inductive: a hold of a driver that is not ready enters the mode again and
  moves both arms. `SlewInv` adds `IdleUnlessReady`, which excludes that.
* `RateFollowsConfigAlways` assumes only that ratios are not refused: a refused
  switch leaves `ready` false, so the arms' old ratios do not matter then.

**Arbiter** (`ArbiterProofs`). `HandoverInvHolds` and `ImplementsHandoverHolds`.
The invariant relates three clocks that no message carries: what the arbiter
heard (`seen`, `aligned`, `state`), what is in the slot (`stateMsg`), and what
was published since the takeover (`reported`). The case that makes
`HeardIsReported` necessary is a SYNCED from before the takeover still in the
slot: it is heard while `seen` is false and does not count.
`FreshTargetsHolds` is about behaviours whose feedback is recent throughout, the
takeover without it being a hazard of its own: then only the operator's turn
leaves outdated poses, and the return that ends it drops them all (`FreshInv`).
The policy's path has theorems about operators: `MappingInverts` (the driver
undoes what the arbiter's mapping does, for every injective joint order),
`RebaseKeepsMoves`, `SampleInTime` (the step the clock is in exists and is the
one sampled) and `FirstTargetNear`.

**Gripper** (`RobotiqProofs`). `RobotiqTypes`, `NothingForgotten`, `StopIsFinal`.
`CleanMeansSent` needs to know that the register value on its way is the target
while `write_pending` runs (`SentInv`): commands cannot come in between.
`NoWriteBeginsAfterStop` rests on what the flags say at each place of the two
threads: once the stop is past a flag, that flag is down, and the arm's own flag
is the one that stops a callback that had passed the other two.

**Align** (`AlignProofs`). `TypeOKHolds` and `SlowWhileStreamingHolds`. A late
"restore" would put streaming arms back to full speed; it cannot, because
requests are served in the order sent and only the last one can be awaited
(`LastIsWaitedFor`), so its answer finds the queue empty (`SlowAnswered`) and
streaming starts with nothing left to serve (`StreamsAlone`). `FramesLeft` makes
the frame counter's type inductive. `RestoredAfterAlignHolds`: at any time the
node still owes the driver a request for the speed (`RatesOwed`), or the last
request for it that is under way restores it, or none is needed, or one failed
(`RatesSettled`); likewise for the hold. `Courses` ties the callback that waits
to the sessions, without which a callback could end one it did not start.

**Session** (`SessionProofs`). `ImplementsLifecycleHolds`: every switch of
`SessionLogic` looks at the state first, so while a thread is inside `stop()`
the session stays STOPPING (`StopHolds`), and the thread that ends it finds it
there. The other theorems share `SessionTypeOK` and `ThreadsInv`, for any number
of start threads: at most one of them installs steps or tells the bridge, and
only while the session is up or a stop has not yet come to the container; after
the container's removal only an exit has a `Popen`.

* `ModeFollowsSessionHolds`: between the steps and the mode there is always a
  request that has still to set it or to clear it (`ModeInv`), or a session whose
  precheck failed (`Refused`), which is never up; and whatever makes the session's
  mode another than the bridge's is in `crossed`.
* `LeaderReleasedHolds` excludes a docker that removes nothing, and a host and
  an image that both cannot disable the arms. The case that shapes `LeaderInv`
  is an exit that leaves marvin behind: then the session is over with marvin
  running, as the property allows.
* `AtMostOneEscapesHolds` excludes children that outlive their group's leader:
  all that runs is in the plan and, once terminating, what was visited has
  ended or is being launched (`EscapeInv`).
* `OwnDriverHolds` excludes those and a `pgrep` that fails: once the drivers
  were counted, none appears but the session's own (`OwnInv`).
* `HintFollowableHolds` needs the types alone: it goes through the rules of
  `hints.py` one by one.

**Commands** (`UiProofs`). `UiInvHolds`, for any number of workers. Whoever is
inside `dispatch` holds the lock (`Locked`), so at most one request in all the
queues has not been given up and it is at the recorder of the running session
(`OneWaits`); a success that is not yet seen is then true of the recorder unless
it was overtaken (`SuccessIsTrue`). `FlagTruthHolds` follows, as the flag changes
only when such a success is seen. `NoStaleMailboxHolds` and `GateFrozenHolds`
are inductive on the types: every message and every answer makes its field fresh,
and the teardown that ends the session clears all of them with it; a script that
ends looks at the gate's lock again. The messages may be any, by any publisher
and at any time.

**Cameras and data recorder** (`CaptureProofs`). `LauncherInvHolds` and
`WorkersDoomedHolds`: every live worker is listed (`OnlyListed`), and the list is
used only where `main` starts or ends workers (`ListOfMain`), so a launcher that
ends by itself has none; what it waits for is on its way out or has a SIGTERM to
take (`Reaping`), in whatever state that meets it. `EpisodeInvHolds` and
`EpisodesApartHolds`: frames in memory are numbered in order and carry the
current episode but for one (`MemoryOK`: between the flag and the clearing the
callback has at most one frame in hand); a file keeps what memory had
(`FilesOK`); and only the file just written shares frames with the list, until
it is cleared (`Apart`).

**Legacy recorder and replay** (`PklProofs`). `RecorderInvHolds`,
`WholeEpisodeHolds` and `FilesKeptHolds`, until a signal is handled inside a save
(`nested`; the properties say nothing after it). The lock lets one save go on at
a time (`OneSaves`), so a save writes what is in memory to the number of the
counter or to the output file (`SavesMemory`), which is one episode's frames, all
of them (`InMemory`). The part that restarts depend on is `Numbered`: the taken
numbers have no gap, so the count of the files is a free number, even when a save
failed half way and its partial file is written again; a run with an output file
leaves them as they are. `OneFileEach` and `NoneLost` follow for both kinds of
file, where the episode that an opened output file held counts as dropped from
then on.

`ReplayInvHolds`, `StopFollowsJointsHolds` and `ReplayedAsRecordedHolds`
are for every command line: `range` stays within its ends and rises for every
start, end and stride (`RangeRises`, `SelectedRise`), so the commands are in the
episode's order, and nothing that was sent comes after a command that may still
be sent (`SendsInOrder`); joint commands go out inside the `try` alone, which only
the clean-up leaves (`StopComes`).

Only model-checked: the liveness properties (`SilentStreamEnds`,
`HandoverCompletes`, `ReturnGateOpens`, `HeldTargetReached`, `StopEnds`,
`StartResolves`, `DispatchReturns`, `AlignEnds`, `QuitEnds`), since TLAPS proves
nothing from fairness, and the counterexample of `driver_half_hold`. What the
session's theorems exclude by a fault set is false with it, which TLC finds on
the run's configuration with that set; the run has `"image"`.

## 5. Plan

Done: driver, arbiter, Robotiq gripper, follower align, operator session and
commands, legacy recorder, replay and cameras, policy chunks. Left, in this
order:

1. `HandoverSystem`: driver's ownership and session life composed with the
   arbiter: the `hold_current` that arrives after the operator's first frames,
   the relative session that outlives a return, FACTR left in TELEOP. The driver
   is used through `ArmOwner`, so the composition stays small; the promise is
   that the arms follow the source the arbiter names, or hold.
2. Gripper targets of the arbiter: a takeover soon after a return may command the
   gripper target of an earlier turn.
3. The DM4310 gripper arm on `GripperNode`: fault clearing, the enable that a
   tick under way may send after the stop's disable, and feedback validity.
4. Theorems for the safety properties of these modules, as for the others.

Not planned: web page and snapshot, terminal input, Modbus and CAN framing, bag
contents of the recorders, launch files, the SDK, the rest of `marvin_ws` and
the bench scripts. The page repeats what `commands.py` enforces; the others are
formats, hardware or start-up without a state of their own that the control
logic depends on.
