----------------------------- MODULE PklPipeline -----------------------------
(***************************************************************************)
(* An episode's way from the recorder to the robot: the recorder runs, and *)
(* once it has ended one of the files it wrote is replayed, which is the   *)
(* end.  A file that is not wholly written cannot be unpickled.            *)
(***************************************************************************)
EXTENDS PklRecorder, PklReplay

pipeline == <<recorder, replay>>

Init == RecorderInit /\ ReplayInit

\* load_episode and main
Replays ==
  /\ main = "exited"
  /\ \E p \in Paths : files[p] \notin {NoFile, Partial} /\ Load(files[p])
  /\ UNCHANGED recorder

Next ==
  \/ step = "idle" /\ RecorderNext /\ UNCHANGED replay
  \/ Replays
  \/ ReplayNext /\ UNCHANGED recorder

Spec == Init /\ [][Next]_pipeline /\ RecorderFairness
=============================================================================
