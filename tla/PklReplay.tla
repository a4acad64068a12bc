------------------------------ MODULE PklReplay ------------------------------
(***************************************************************************)
(* replay_pkl_slow_sync.py: one process reads an episode and publishes     *)
(* switch_teleop, a slow way to the first recorded state, the first        *)
(* command, the selected frames at their times, and switch_stop.  SIGINT   *)
(* and SIGTERM raise KeyboardInterrupt wherever it is.  The messages of    *)
(* one command are published together.                                     *)
(***************************************************************************)
EXTENDS Integers, Sequences, FiniteSets

CONSTANTS
  Plans,       \* the command lines: records of the arguments
  Repeats,     \* --switch-repeats
  SyncSteps,   \* --sync-seconds * --sync-hz
  MaxPrep,     \* bound: times the first command is published before the replay
  MaxInterrupts  \* bound: signals

Arguments == [start : Int, end : Int, stride : Int, execute : BOOLEAN, need : BOOLEAN,
              teleop : BOOLEAN, sync : BOOLEAN, prep : BOOLEAN, finish : BOOLEAN]

ASSUME ReplayAssumption ==
  /\ Plans \subseteq Arguments
  /\ Repeats \in Nat \ {0} /\ SyncSteps \in Nat \ {0} /\ MaxPrep \in Nat /\ MaxInterrupts \in Nat

VARIABLES
  step,        \* where the process is
  plan,        \* its arguments
  commands,    \* the selected frames, each with whether it commands a joint
  first,       \* whether the first of them has a joint state
  index,       \* how often the loop of this step has run
  published,   \* what was published
  interrupts,  \* signals so far
  cut          \* history: a signal in the clean-up

replay == <<step, plan, commands, first, index, published, interrupts, cut>>

NoPlan == [start |-> 0, end |-> 0, stride |-> 1, execute |-> FALSE, need |-> FALSE,
           teleop |-> FALSE, sync |-> FALSE, prep |-> FALSE, finish |-> FALSE]

ReplayInit ==
  /\ step = "idle" /\ plan = NoPlan /\ commands = <<>> /\ first = FALSE
  /\ index = 0 /\ published = <<>> /\ interrupts = 0 /\ cut = FALSE

--------------------------------------------------------------------------
(* main *)

AtLeast(low, n) == IF n < low THEN low ELSE n
AtMost(high, n) == IF n > high THEN high ELSE n

\* range(from, until, by) for a positive by
PyRange(from, until, by) ==
  [k \in 1..((until - from + by - 1) \div by) |-> from + (k - 1) * by]

\* Mutant of SelectFrames: a negative start is taken as it is.
SelectFramesAnyStart(total, p) ==
  PyRange(p.start, AtMost(total, p.end), AtLeast(1, p.stride))

\* select_frame_indices; an empty range is refused before
SelectFrames(total, p) ==
  PyRange(AtLeast(0, p.start), AtMost(total, p.end), AtLeast(1, p.stride))

RangeIsEmpty(total, p) == AtMost(total, p.end) <= AtLeast(0, p.start)

\* Where a list of n has the element of an index; a negative one counts from
\* its end.
Position(n, i) == IF i < 0 THEN n + i + 1 ELSE i + 1

\* Of the selected frames' items only whether the source has a joint vector of an
\* arm of the plan is kept: usable are the frames that have one.
BuildCommands(frames, selected, usable) ==
  [k \in DOMAIN selected |->
     LET at == Position(Len(frames), selected[k])
     IN [frame |-> frames[at], joints |-> at \in usable]]

\* The episode's frames are read, selected and turned into commands.
Load(frames) ==
  /\ step = "idle"
  /\ \E p \in Plans, usable \in SUBSET DOMAIN frames, state \in BOOLEAN :
       LET total == Len(frames)
           cmds == BuildCommands(frames, SelectFrames(total, p), usable)
       IN /\ plan' = p
          /\ IF frames = <<>> \/ RangeIsEmpty(total, p)
                \/ (\A k \in DOMAIN cmds : ~cmds[k].joints) \/ ~p.execute
             THEN step' = "over" /\ UNCHANGED <<commands, first>>
             ELSE step' = "start" /\ commands' = cmds /\ first' = state
  /\ UNCHANGED <<index, published, interrupts, cut>>

--------------------------------------------------------------------------
(* execute_replay *)

Goes(next) == step' = next /\ index' = 0

\* An exception in the try block.
Raises == Goes("finally") /\ UNCHANGED published

\* The signals are caught from here; the publishers are made outside the try.
Starts ==
  /\ step = "start"
  /\ Goes("discovery")
  /\ UNCHANGED <<plan, commands, first, published, interrupts, cut>>

\* wait_for_discovery
Discovery ==
  /\ step = "discovery"
  /\ \/ Goes(IF plan.teleop THEN "teleop" ELSE "sync") /\ UNCHANGED published
     \/ plan.need /\ Raises
  /\ UNCHANGED <<plan, commands, first, interrupts, cut>>

SwitchTeleop ==
  /\ step = "teleop"
  /\ published' = Append(published, [what |-> "switch_teleop"])
  /\ IF index + 1 < Repeats THEN index' = index + 1 /\ UNCHANGED step ELSE Goes("sync")
  /\ UNCHANGED <<plan, commands, first, interrupts, cut>>

\* wait_for_joint_position of the arms that the first state has.
SyncStarts ==
  /\ step = "sync"
  /\ \/ ~plan.sync /\ Goes("prep") /\ UNCHANGED published
     \/ plan.sync /\ Raises  \* no state, or no feedback in time
     \/ plan.sync /\ first /\ Goes("ramp") /\ UNCHANGED published
  /\ UNCHANGED <<plan, commands, first, interrupts, cut>>

\* slow_sync_to_first_state
SyncStep ==
  /\ step = "ramp"
  /\ published' = Append(published, [what |-> "sync", i |-> index])
  /\ IF index < SyncSteps THEN index' = index + 1 /\ UNCHANGED step ELSE Goes("prep")
  /\ UNCHANGED <<plan, commands, first, interrupts, cut>>

\* publish_command
Publish(c) ==
  published' = IF c.joints THEN Append(published, [what |-> "frame", frame |-> c.frame])
               ELSE published

Prep ==
  /\ step = "prep"
  /\ \/ plan.prep /\ index < MaxPrep /\ index' = index + 1 /\ Publish(commands[1])
        /\ UNCHANGED step
     \/ (plan.prep => index > 0) /\ Goes("replay") /\ UNCHANGED published
  /\ UNCHANGED <<plan, commands, first, interrupts, cut>>

ReplayFrame ==
  /\ step = "replay"
  /\ Publish(commands[index + 1])
  /\ IF index + 1 < Len(commands) THEN index' = index + 1 /\ UNCHANGED step
     ELSE Goes("finally")
  /\ UNCHANGED <<plan, commands, first, interrupts, cut>>

Finally ==
  /\ step = "finally"
  /\ published' = IF plan.finish THEN Append(published, [what |-> "switch_stop"]) ELSE published
  /\ Goes("over")
  /\ UNCHANGED <<plan, commands, first, interrupts, cut>>

\* Mutant of Interrupt: a signal ends the process.
InterruptExits ==
  /\ step \notin {"idle", "over"} /\ interrupts < MaxInterrupts
  /\ interrupts' = interrupts + 1
  /\ cut' = (cut \/ step = "finally")
  /\ Goes("over")
  /\ UNCHANGED <<plan, commands, first, published>>

\* Inside the try the clean-up follows; before it, and in it, nothing does.
Interrupt ==
  /\ step \notin {"idle", "over"} /\ interrupts < MaxInterrupts
  /\ interrupts' = interrupts + 1
  /\ cut' = (cut \/ step = "finally")
  /\ Goes(IF step \in {"start", "finally"} THEN "over" ELSE "finally")
  /\ UNCHANGED <<plan, commands, first, published>>

ReplayNext ==
  \/ Starts \/ Discovery \/ SwitchTeleop \/ SyncStarts \/ SyncStep
  \/ Prep \/ ReplayFrame \/ Finally \/ Interrupt
=============================================================================
