----------------------------- MODULE PklRecorder -----------------------------
(***************************************************************************)
(* record_live_vis.py: PklTeleopRecorder samples frames on the main        *)
(* thread's timer and writes each episode to episode_<counter>.pkl, or     *)
(* with --oneshot and --output-file every one to that file; the keyboard   *)
(* thread starts, saves and discards; SIGINT and SIGTERM are handled on    *)
(* the main thread, between any two steps of what it is doing.             *)
(* state_lock is re-entrant, so the handler may save inside a save.  A     *)
(* process that ended, or was killed, is started again with the files it   *)
(* left.                                                                   *)
(***************************************************************************)
EXTENDS Naturals, Sequences, FiniteSets

CONSTANTS
  NoFile, Partial,  \* no file of that name; one that is not wholly written
  OutputFile,       \* --output-file, no numbered file of the output directory
  MaxEpisodes,      \* bound: episodes started
  MaxFrames,        \* bound: frames of an episode
  MaxRuns,          \* bound: starts of the process
  MaxSignals        \* bound: signals
ASSUME RecorderAssumption ==
  /\ MaxEpisodes \in Nat \ {0} /\ MaxFrames \in Nat /\ MaxRuns \in Nat /\ MaxSignals \in Nat
  /\ OutputFile \notin Nat
  /\ NoFile # Partial /\ NoFile \notin Seq(Nat \X Nat) /\ Partial \notin Seq(Nat \X Nat)

VARIABLES
  recording, pending, frames,  \* the node; pending: pending_start_time is set
  counter,                     \* episode_counter
  stop,                        \* stop_requested
  oneshot, outfile,            \* --oneshot, and --output-file with it
  lock,                        \* the thread that holds state_lock
  main, handler, keyboard,     \* where the threads and the handler are
  save,                        \* each caller's finish_episode
  files,                       \* what has been written, by number or to OutputFile
  episode, sampled,            \* history: episodes started, the frames of each
  dropped,                     \* history: episodes discarded, ended with the process,
                               \* or overwritten in OutputFile
  nested,                      \* history: a signal was handled inside a save or a sample
  runs, signals

node == <<recording, pending, frames, counter>>
threads == <<lock, main, handler, keyboard, save>>
history == <<episode, sampled, dropped, nested>>
options == <<oneshot, outfile>>
bounds == <<runs, signals>>
recorder == <<node, stop, options, threads, files, history, bounds>>

Episodes == 1..MaxEpisodes
Numbers == 0..MaxEpisodes + 2 * MaxSignals
Paths == Numbers \cup {OutputFile}
Savers == {"main", "handler", "keyboard"}
NoSave == [at |-> "none", path |-> 0, payload |-> <<>>]

\* The frames of episode e, all of them.
Whole(e) == [i \in 1..sampled[e] |-> <<e, i>>]

Thread(x) == IF x = "keyboard" THEN "keyboard" ELSE "main"
LockOpen(x) == lock \in {"free", Thread(x)}
\* The main thread does nothing else while it handles a signal.
Undisturbed(x) == main # "exited" /\ (x = "main" => handler = "none")

--------------------------------------------------------------------------
(* The process *)

RecorderInit ==
  /\ recording = FALSE /\ pending = FALSE /\ frames = <<>> /\ counter = 0
  /\ stop = FALSE /\ oneshot = FALSE /\ outfile = FALSE
  /\ lock = "free" /\ main = "exited" /\ handler = "none" /\ keyboard = "over"
  /\ save = [x \in Savers |-> NoSave]
  /\ files = [p \in Paths |-> NoFile]
  /\ episode = 0 /\ sampled = [e \in Episodes |-> 0]
  /\ dropped = {} /\ nested = FALSE
  /\ runs = 0 /\ signals = 0

\* __init__ and --record-immediately, first being the number of the next episode.
\* --output-file without --oneshot is only warned about.
Boot(first) ==
  /\ main = "exited" /\ runs < MaxRuns
  /\ recording' \in {FALSE} \cup (IF episode < MaxEpisodes THEN {TRUE} ELSE {})
  /\ episode' = IF recording' THEN episode + 1 ELSE episode
  /\ pending' = FALSE /\ frames' = <<>> /\ counter' = first
  /\ stop' = FALSE /\ oneshot' \in BOOLEAN /\ outfile' \in {FALSE, oneshot'}
  /\ lock' = "free" /\ main' = "top" /\ handler' = "none" /\ keyboard' = "top"
  /\ runs' = runs + 1
  /\ UNCHANGED <<save, files, sampled, dropped, nested, signals>>

\* Mutant of Start: the numbers start at zero in every process.
StartAtZero == Boot(0)

\* _count_existing_episodes: the number is how many files there are.
Start == Boot(Cardinality({n \in Numbers : files[n] # NoFile}))

\* The process ends, and its memory goes.
Exits ==
  /\ dropped' = IF frames = <<>> THEN dropped ELSE dropped \cup {episode}
  /\ recording' = FALSE /\ pending' = FALSE /\ frames' = <<>> /\ counter' = 0
  /\ stop' = FALSE /\ oneshot' = FALSE /\ outfile' = FALSE
  /\ main' = "exited" /\ handler' = "none" /\ keyboard' = "over" /\ lock' = "free"
  /\ save' = [x \in Savers |-> NoSave]
  /\ UNCHANGED <<files, episode, sampled, nested, bounds>>

Killed == main # "exited" /\ Exits

--------------------------------------------------------------------------
(* finish_episode *)

Wants(x) ==
  /\ save[x].at = "none"
  /\ CASE x = "keyboard" -> keyboard \in {"save", "quit"}
       [] x = "handler" -> handler = "save"
       [] x = "main" -> main = "shutdown"

\* The lock after x's outermost finish_episode: main keeps the one it held
\* when the signal came.
Unlocked(x) ==
  IF x = "handler" /\ (save["main"].at # "none" \/ main = "append") THEN "main" ELSE "free"

\* Mutant of Returned: a quit that saves does not end the program.
ReturnedSaves(x) ==
  /\ keyboard' = IF x = "keyboard" THEN "top" ELSE keyboard
  /\ handler' = IF x = "handler" THEN "none" ELSE handler
  /\ stop' = \/ stop \/ x = "handler"
             \/ (x = "main" /\ main = "duration" /\ oneshot)
  /\ main' = IF x # "main" THEN main ELSE IF main = "shutdown" THEN "leaving" ELSE "top"

\* finish_episode has returned to its caller.
Returned(x) ==
  /\ keyboard' = IF x # "keyboard" THEN keyboard
                 ELSE IF keyboard = "quit" THEN "over" ELSE "top"
  /\ handler' = IF x = "handler" THEN "none" ELSE handler
  /\ stop' = \/ stop \/ x = "handler"
             \/ (x = "keyboard" /\ keyboard = "quit")
             \/ (x = "main" /\ main = "duration" /\ oneshot)
  /\ main' = IF x # "main" THEN main ELSE IF main = "shutdown" THEN "leaving" ELSE "top"

\* Another thread has saved or discarded the episode meanwhile.
FinishNothing(x) ==
  /\ Wants(x) /\ Undisturbed(x) /\ LockOpen(x)
  /\ ~recording /\ frames = <<>>
  /\ pending' = FALSE
  /\ Returned(x)
  /\ UNCHANGED <<recording, frames, counter, options, lock, save, files, history, bounds>>

FinishBegins(x) ==
  /\ Wants(x) /\ Undisturbed(x) /\ LockOpen(x)
  /\ recording \/ frames # <<>>
  /\ pending' = FALSE /\ recording' = FALSE
  /\ save' = [save EXCEPT ![x].at = "reset"]
  /\ lock' = Thread(x)
  /\ nested' = (nested \/ (x = "handler" /\ lock = "main"))
  /\ UNCHANGED <<frames, counter, stop, options, main, handler, keyboard, files,
                 episode, sampled, dropped, bounds>>

OutputPath == IF outfile THEN OutputFile ELSE counter

\* _output_path_for_current_episode
ChoosePath(x) ==
  /\ save[x].at = "reset" /\ Undisturbed(x)
  /\ save' = [save EXCEPT ![x].at = "path", ![x].path = OutputPath]
  /\ UNCHANGED <<node, stop, options, lock, main, handler, keyboard, files, history, bounds>>

\* The payload is put together and the file opened, which empties it.
OpenFile(x) ==
  /\ save[x].at = "path" /\ Undisturbed(x)
  /\ save' = [save EXCEPT ![x].at = "write", ![x].payload = frames]
  /\ files' = [files EXCEPT ![save[x].path] = Partial]
  /\ dropped' = dropped \cup {e \in 1..episode : outfile /\ sampled[e] > 0
                                                  /\ files[OutputFile] = Whole(e)}
  /\ UNCHANGED <<node, stop, options, lock, main, handler, keyboard,
                 episode, sampled, nested, bounds>>

\* A file another save has written meanwhile may end up as neither.
Dump(x) ==
  /\ save[x].at = "write" /\ Undisturbed(x)
  /\ \E c \in {save[x].payload} \cup (IF nested THEN {Partial} ELSE {}) :
       files' = [files EXCEPT ![save[x].path] = c]
  /\ save' = [save EXCEPT ![x].at = "written"]
  /\ UNCHANGED <<node, stop, options, lock, main, handler, keyboard, history, bounds>>

Saved(x) ==
  /\ save[x].at = "written" /\ Undisturbed(x)
  /\ frames' = <<>> /\ counter' = counter + 1
  /\ save' = [save EXCEPT ![x] = NoSave]
  /\ lock' = Unlocked(x)
  /\ Returned(x)
  /\ UNCHANGED <<recording, pending, options, files, history, bounds>>

\* The directory, the open or the dump raises: the keyboard thread dies, the
\* main thread leaves its loop, whether it was saving itself or handling a
\* signal, and its last save does not stop it from ending.
SaveFails(x) ==
  /\ save[x].at \in {"reset", "path", "write"} /\ Undisturbed(x)
  /\ save' = [save EXCEPT ![x] = NoSave,
                          !["main"] = IF x = "handler" THEN NoSave ELSE @]
  /\ lock' = "free"
  /\ keyboard' = IF x = "keyboard" THEN "dead" ELSE keyboard
  /\ handler' = IF x = "handler" THEN "none" ELSE handler
  /\ main' = IF x = "keyboard" THEN main
             ELSE IF main \in {"closing", "shutdown", "leaving"} THEN "leaving" ELSE "closing"
  /\ UNCHANGED <<node, stop, options, files, history, bounds>>

--------------------------------------------------------------------------
(* The main thread *)

Loop ==
  /\ main = "top" /\ handler = "none"
  /\ main' = IF stop THEN "closing" ELSE "spin"
  /\ UNCHANGED <<node, stop, options, lock, handler, keyboard, save, files, history, bounds>>

SpinReturns ==
  /\ main = "spin" /\ handler = "none"
  /\ main' = "top"
  /\ UNCHANGED <<node, stop, options, lock, handler, keyboard, save, files, history, bounds>>

\* sample_once up to the frame, start_episode_now included.
SampleStarts ==
  /\ main = "spin" /\ handler = "none" /\ lock = "free"
  /\ pending
  /\ pending' = FALSE /\ recording' = TRUE /\ frames' = <<>>
  /\ episode' = episode + 1
  /\ main' = "append" /\ lock' = "main"
  /\ UNCHANGED <<counter, stop, options, handler, keyboard, save, files,
                 sampled, dropped, nested, bounds>>

\* Mutant of Sample: the timer does not wait for the lock.
SampleUnlocked ==
  /\ main = "spin" /\ handler = "none"
  /\ recording \/ lock = "keyboard"
  /\ sampled[episode] < MaxFrames
  /\ main' = "append"
  /\ UNCHANGED <<node, lock, stop, options, handler, keyboard, save, files, history, bounds>>

Sample ==
  /\ main = "spin" /\ handler = "none" /\ lock = "free"
  /\ recording /\ sampled[episode] < MaxFrames
  /\ main' = "append" /\ lock' = "main"
  /\ UNCHANGED <<node, stop, options, handler, keyboard, save, files, history, bounds>>

AppendFrame ==
  /\ main = "append" /\ handler = "none"
  /\ sampled' = [sampled EXCEPT ![episode] = @ + 1]
  /\ frames' = Append(frames, <<episode, sampled'[episode]>>)
  /\ main' = "top" /\ lock' = "free"
  /\ UNCHANGED <<recording, pending, counter, stop, options, handler, keyboard, save, files,
                 episode, dropped, nested, bounds>>

DurationReached ==
  /\ main = "spin" /\ handler = "none" /\ lock = "free"
  /\ recording
  /\ recording' = FALSE /\ pending' = FALSE
  /\ main' = "duration" /\ lock' = "main"
  /\ save' = [save EXCEPT !["main"].at = "reset"]
  /\ UNCHANGED <<frames, counter, stop, options, handler, keyboard, files, history, bounds>>

\* The finally of main: the visualizer and the keyboard are joined for at most
\* a second each, and what is still in memory is saved.
Close ==
  /\ main = "closing" /\ handler = "none"
  /\ main' = IF recording \/ frames # <<>> THEN "shutdown" ELSE "leaving"
  /\ UNCHANGED <<node, stop, options, lock, handler, keyboard, save, files, history, bounds>>

Leave == main = "leaving" /\ handler = "none" /\ Exits

\* handle_signal, up to its call of finish_episode.
Signal ==
  /\ main # "exited" /\ handler = "none" /\ signals < MaxSignals
  /\ signals' = signals + 1
  /\ IF recording \/ frames # <<>>
     THEN handler' = "save" /\ UNCHANGED stop
     ELSE stop' = TRUE /\ UNCHANGED handler
  /\ UNCHANGED <<node, options, lock, main, keyboard, save, files, history, runs>>

--------------------------------------------------------------------------
(* KeyboardController._loop *)

KeyLoop ==
  /\ main # "exited"
  /\ \/ /\ keyboard = "top"
        /\ keyboard' = IF stop \/ main \in {"closing", "shutdown", "leaving"}
                       THEN "over" ELSE "key"
     \/ keyboard = "key" /\ keyboard' = "top"  \* no key within 0.1 s
  /\ UNCHANGED <<node, stop, options, lock, main, handler, save, files, history, bounds>>

\* 5: request_start
KeyStart ==
  /\ keyboard = "key" /\ lock = "free" /\ main # "exited"
  /\ ~recording /\ ~pending /\ episode < MaxEpisodes
  /\ pending' = TRUE
  /\ keyboard' = "top"
  /\ UNCHANGED <<recording, frames, counter, stop, options, lock, main, handler, save,
                 files, history, bounds>>

\* 6: finish_episode follows
KeySave ==
  /\ keyboard = "key" /\ main # "exited"
  /\ keyboard' = "save"
  /\ UNCHANGED <<node, stop, options, lock, main, handler, save, files, history, bounds>>

\* 7: discard_episode
KeyDiscard ==
  /\ keyboard = "key" /\ lock = "free" /\ main # "exited"
  /\ pending' = FALSE /\ recording' = FALSE /\ frames' = <<>>
  /\ dropped' = IF recording \/ frames # <<>> THEN dropped \cup {episode} ELSE dropped
  /\ keyboard' = "top"
  /\ UNCHANGED <<counter, stop, options, lock, main, handler, save, files,
                 episode, sampled, nested, bounds>>

\* q: finish_episode follows if there is something to save
KeyQuit ==
  /\ keyboard = "key" /\ main # "exited"
  /\ IF recording \/ frames # <<>>
     THEN keyboard' = "quit" /\ UNCHANGED stop
     ELSE keyboard' = "over" /\ stop' = TRUE
  /\ UNCHANGED <<node, options, lock, main, handler, save, files, history, bounds>>

--------------------------------------------------------------------------
Finish(x) ==
  \/ FinishNothing(x) \/ FinishBegins(x) \/ ChoosePath(x) \/ OpenFile(x)
  \/ Dump(x) \/ Saved(x) \/ SaveFails(x)
MainThread ==
  \/ Loop \/ SpinReturns \/ SampleStarts \/ Sample \/ AppendFrame
  \/ DurationReached \/ Close \/ Leave
Keyboard == KeyLoop \/ KeyStart \/ KeySave \/ KeyDiscard \/ KeyQuit
RecorderNext ==
  \/ Start \/ Killed \/ Signal \/ MainThread \/ Keyboard
  \/ \E x \in Savers : Finish(x)

\* The threads run, and a save ends or fails.
RecorderFairness ==
  /\ WF_recorder(MainThread)
  /\ \A x \in Savers : WF_recorder(Finish(x))
=============================================================================
