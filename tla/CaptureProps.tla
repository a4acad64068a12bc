---------------------------- MODULE CaptureProps ----------------------------
(* What the camera launcher and the data recorder promise.                   *)
EXTENDS EpisodeCapture

Whole == {n \in DOMAIN files : files[n].whole}
FramesOf(n) == {files[n].frames[i] : i \in DOMAIN files[n].frames}

\* A whole episode holds, in the order they came and with the same fields, the
\* frames of its own turn between a start and a save, and of an earlier one at
\* most the one frame that save overtook; of episodes whose save failed it
\* holds what they left. No frame is in two whole files. The flag and the list
\* are shared by two threads without a common lock (DataRecorder.callback,
\* save_episodes, save).
EpisodesApart ==
  \A n \in Whole :
    LET own == files[n].frames[Len(files[n].frames)].episode
        strays == {f \in FramesOf(n) : f.episode < own /\ f.episode \notin failed}
    IN /\ Cardinality(strays) <= 1
       /\ \A i, j \in DOMAIN files[n].frames : i < j =>
            /\ files[n].frames[i].no < files[n].frames[j].no
            /\ files[n].frames[i].fields = files[n].frames[j].fields
       /\ \A m \in Whole \ {n} : FramesOf(m) \cap FramesOf(n) = {}

\* A launcher that waits for its workers to end has made sure that each one
\* will: the worker is on its way out or has a SIGTERM to take, in whatever
\* state the interrupt met it. And a launcher that has ended by itself leaves
\* none behind with a camera (main's except and finally, handle_signal).
WorkersDoomed ==
  /\ lpc = "reap" => \A d \in listed :
       Alive(d) => worker[d] = "closing" \/ "TERM" \in pending[d]
  /\ lpc = "ended" => \A d \in Devices : ~Alive(d)
=============================================================================
