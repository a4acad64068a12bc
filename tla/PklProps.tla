------------------------------ MODULE PklProps ------------------------------
EXTENDS PklPipeline

\* Every episode that was not discarded, nor ended with the process or with a
\* save that failed last, is whole: in memory, or in exactly one file.  An output
\* file holds one episode only: the next save replaces it.
WholeEpisode ==
  ~nested =>
    \A e \in (1..episode) \ dropped : sampled[e] > 0 =>
      LET holding == {p \in Paths : files[p] = Whole(e)} IN
        (frames = Whole(e) \/ holding # {}) /\ Cardinality(holding) <= 1

\* A numbered file that is wholly written is never changed, by whichever of the
\* command lines the recorder is started again.
FilesKept ==
  [][\A n \in Numbers :
       files[n] \notin {NoFile, Partial} => files'[n] = files[n] \/ nested']_pipeline

\* q and a signal end the program, but for a q whose save fails: the keyboard
\* thread dies before it sets stop_requested.
QuitEnds ==
  /\ stop ~> main = "exited"
  /\ keyboard = "quit" ~> (main = "exited" \/ keyboard = "dead")

Joints(m) == m.what \in {"sync", "frame"}

\* A replay that has published a joint command ends with switch_stop, whatever
\* failed or interrupted it, if it was asked to; only a signal in the clean-up
\* itself can prevent it.
StopFollowsJoints ==
  step = "over" /\ plan.finish /\ ~cut =>
    \A k \in DOMAIN published : Joints(published[k]) =>
      published[Len(published)].what = "switch_stop"

\* What is replayed is frames of one episode in the order they were sampled.
ReplayedAsRecorded ==
  ~nested =>
    LET sent == {k \in DOMAIN published : published[k].what = "frame"} IN
      \A j, k \in sent : j < k =>
        LET f == published[j].frame
            g == published[k].frame
        IN f[1] = g[1] /\ f[2] <= g[2]
=============================================================================
