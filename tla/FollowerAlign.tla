---------------------------- MODULE FollowerAlign ----------------------------
(***************************************************************************)
(* follower_align_node: on request it slows the arms down, streams the     *)
(* leader's joints as absolute commands until the arms are there or time   *)
(* is up, then holds and restores the speed.  All callbacks share one      *)
(* exclusive group, so while one waits for a service no message and no     *)
(* timer is handled; the answers come in on other threads.  The driver     *)
(* serves the requests in the order sent and applies an absolute command   *)
(* at once.                                                                *)
(***************************************************************************)
EXTENDS Naturals, Sequences

CONSTANTS
  Arm,         \* {left, right}
  HoldFrames,  \* align_hold_frames
  MaxQueue     \* bound: requests the driver has not served
ASSUME AlignAssumption == Arm # {} /\ HoldFrames \in Nat \ {0} /\ MaxQueue \in Nat

VARIABLES
  phase, frames,  \* AlignSession of each arm: phase and _ok_frames
  expired,        \* align_timeout_s has passed for the sessions that align
  streaming,      \* _streaming
  active,         \* _align_active_left and _align_active_right
  status,         \* _status, the latched /align/status
  leaders, big,   \* whether the active arms' leaders are fresh; the big arms' age
  pc,             \* the call the callback thread is in, with what it is for
  call,           \* the state of that call: none, sent or its answer
  queue,          \* requests at the driver
  slow,           \* the driver: arms at the speed of an alignment
  following,      \* the driver: arms on absolute commands, not held since
  unmet,          \* the kinds of restoring requests the last of which failed
  exit            \* what the node was doing when it was interrupted

sessions == <<phase, frames, expired>>
stream == <<streaming, active, status>>
inputs == <<leaders, big>>
thread == <<pc, call>>
driver == <<queue, slow, following, unmet>>
vars == <<sessions, stream, inputs, thread, driver, exit>>

Phases == {"IDLE", "ALIGNING", "ALIGNED", "TIMEOUT_WARN"}
Ages == {"none", "fresh", "stale"}  \* none: nothing received yet
Free == [at |-> "free", arms |-> {}, end |-> "IDLE"]

\* combine_active_phases over the arms of an alignment.
CombinedOf(p, arms) ==
  CASE \E a \in arms : p[a] = "TIMEOUT_WARN" -> "TIMEOUT_WARN"
    [] (\A a \in arms : p[a] # "TIMEOUT_WARN") /\ (\E a \in arms : p[a] = "ALIGNING") -> "ALIGNING"
    [] (\A a \in arms : p[a] = "ALIGNED") /\ arms # {} -> "ALIGNED"
    [] OTHER -> "IDLE"
Phase == CombinedOf(phase, IF active = {} THEN Arm ELSE active)

Init ==
  /\ phase = [a \in Arm |-> "IDLE"] /\ frames = [a \in Arm |-> 0] /\ expired = FALSE
  /\ streaming = FALSE /\ active = {} /\ status = "IDLE"
  /\ leaders = FALSE /\ big = "none"
  /\ pc = Free /\ call = "none"
  /\ queue = <<>> /\ slow = {} /\ following = {} /\ unmet = {}
  /\ exit = "no"

Cancelled(arms) ==
  /\ phase' = [a \in Arm |-> IF a \in arms THEN "IDLE" ELSE phase[a]]
  /\ frames' = [a \in Arm |-> IF a \in arms THEN 0 ELSE frames[a]]
  /\ expired' = FALSE

--------------------------------------------------------------------------
(* /mode/align_follower *)

AlignRequest(arms) ==
  /\ pc = Free /\ exit = "no"
  /\ ~streaming /\ \A a \in arms : phase[a] # "ALIGNING"
  /\ phase' = [a \in Arm |-> IF a \in arms THEN "ALIGNING" ELSE phase[a]]
  /\ frames' = [a \in Arm |-> IF a \in arms THEN 0 ELSE frames[a]]
  /\ expired' = FALSE
  /\ pc' = [at |-> "align", arms |-> arms, end |-> "ALIGNING"]
  /\ UNCHANGED <<stream, inputs, call, driver, exit>>

--------------------------------------------------------------------------
(* A service call: 2 s for the service, 5 s for the answer *)

\* The request of the call the thread is in: a hold or the slow arms.
Request == IF pc.at = "hold" THEN "hold" ELSE IF pc.at = "align" THEN "slow" ELSE "normal"
Failed == IF pc.at = "hold" THEN {"hold"} ELSE IF pc.at = "align" THEN {} ELSE {"rates"}

SendRequest ==
  /\ pc # Free /\ call = "none" /\ exit = "no"
  /\ Len(queue) < MaxQueue
  /\ queue' = Append(queue, [what |-> Request, arms |-> pc.arms, owned |-> TRUE])
  /\ call' = "sent"
  /\ unmet' = unmet \ Failed
  /\ UNCHANGED <<sessions, stream, inputs, pc, slow, following, exit>>

ServiceMissing ==
  /\ pc # Free /\ call = "none" /\ exit = "no"
  /\ call' = "failed"
  /\ unmet' = unmet \cup Failed
  /\ UNCHANGED <<sessions, stream, inputs, pc, queue, slow, following, exit>>

\* Mutant of CallTimesOut: a request without an answer counts as done.
CallTimesOutDone ==
  /\ call = "sent" /\ exit = "no"
  /\ call' = "ok"
  /\ queue' = [i \in DOMAIN queue |-> [queue[i] EXCEPT !.owned = FALSE]]
  /\ UNCHANGED <<sessions, stream, inputs, pc, slow, following, unmet, exit>>

\* The driver may still serve the request.
CallTimesOut ==
  /\ call = "sent" /\ exit = "no"
  /\ call' = "failed"
  /\ queue' = [i \in DOMAIN queue |-> [queue[i] EXCEPT !.owned = FALSE]]
  /\ UNCHANGED <<sessions, stream, inputs, pc, slow, following, unmet, exit>>

\* The driver: set_motion_rates sets both arms, hold_current holds both.
Serve ==
  /\ queue # <<>>
  /\ LET r == Head(queue)
         kind == IF r.what = "hold" THEN {"hold"}
                 ELSE IF r.what = "normal" THEN {"rates"} ELSE {}
     IN \E ok \in BOOLEAN :
          /\ slow' = IF ~ok \/ r.what = "hold" THEN slow
                     ELSE IF r.what = "slow" THEN r.arms ELSE {}
          /\ following' = IF ok /\ r.what = "hold" THEN {} ELSE following
          /\ unmet' = IF ok THEN unmet ELSE unmet \cup kind
          /\ call' = IF r.owned /\ exit = "no" THEN IF ok THEN "ok" ELSE "failed" ELSE call
  /\ queue' = Tail(queue)
  /\ UNCHANGED <<sessions, stream, inputs, pc, exit>>

--------------------------------------------------------------------------
(* What the callback does when its call has ended *)

Answered == call \in {"ok", "failed"} /\ call' = "none" /\ exit = "no"

StreamStarts ==
  /\ pc.at = "align" /\ call = "ok" /\ Answered
  /\ active' = pc.arms /\ streaming' = TRUE /\ status' = "ALIGNING"
  /\ pc' = Free
  /\ UNCHANGED <<sessions, inputs, driver, exit>>

\* Mutant of AlignFails: the speed is not restored, for it was never set.
AlignFailsQuietly ==
  /\ pc.at = "align" /\ call = "failed" /\ Answered
  /\ Cancelled(pc.arms)
  /\ pc' = Free
  /\ UNCHANGED <<stream, inputs, driver, exit>>

AlignFails ==
  /\ pc.at = "align" /\ call = "failed" /\ Answered
  /\ pc' = [pc EXCEPT !.at = "undo"]
  /\ UNCHANGED <<sessions, stream, inputs, driver, exit>>

Undone ==
  /\ pc.at = "undo" /\ Answered
  /\ Cancelled(pc.arms)
  /\ pc' = Free
  /\ UNCHANGED <<stream, inputs, driver, exit>>

Held ==
  /\ pc.at = "hold" /\ Answered
  /\ pc' = [pc EXCEPT !.at = "restore"]
  /\ UNCHANGED <<sessions, stream, inputs, driver, exit>>

\* The end of _finish_align and _abort_align.
Restored ==
  /\ pc.at = "restore" /\ Answered
  /\ status' = pc.end
  /\ Cancelled(Arm)
  /\ pc' = Free
  /\ UNCHANGED <<streaming, active, leaders, big, driver, exit>>

--------------------------------------------------------------------------
(* The timer *)

StopStreaming(end) ==
  /\ streaming' = FALSE /\ active' = {}
  /\ pc' = [at |-> "hold", arms |-> {}, end |-> end]
  /\ UNCHANGED status

Ticks == pc = Free /\ exit = "no" /\ streaming /\ Phase = "ALIGNING"

AbortStale ==
  /\ Ticks /\ ~leaders
  /\ StopStreaming("IDLE") /\ Cancelled(Arm)
  /\ UNCHANGED <<leaders, big, call, driver, exit>>

\* on_tick of one arm's session, close being the arms with a small error.
FramesAfter(a, close) ==
  IF a \notin active \/ phase[a] # "ALIGNING" THEN frames[a]
  ELSE IF a \in close THEN frames[a] + 1 ELSE 0
PhaseAfter(a, close) ==
  IF a \notin active \/ phase[a] # "ALIGNING" THEN phase[a]
  ELSE IF a \in close /\ frames[a] + 1 >= HoldFrames THEN "ALIGNED"
  ELSE IF expired THEN "TIMEOUT_WARN" ELSE "ALIGNING"

\* Mutant of Advance: the sessions wait for fresh feedback of the big arms.
AdvanceFresh ==
  /\ Ticks /\ leaders /\ big = "fresh"
  /\ following' = following \cup active
  /\ \E close \in SUBSET active :
       /\ phase' = [a \in Arm |-> PhaseAfter(a, close)]
       /\ frames' = [a \in Arm |-> FramesAfter(a, close)]
  /\ LET p == CombinedOf(phase', active) IN
       IF p \in {"ALIGNED", "TIMEOUT_WARN"} THEN StopStreaming(p)
       ELSE UNCHANGED <<stream, pc>>
  /\ UNCHANGED <<expired, leaders, big, call, queue, slow, unmet, exit>>

Advance ==
  /\ Ticks /\ leaders /\ big # "none"
  /\ following' = IF big = "fresh" THEN following \cup active ELSE following
  /\ \E close \in SUBSET active :
       /\ phase' = [a \in Arm |-> PhaseAfter(a, close)]
       /\ frames' = [a \in Arm |-> FramesAfter(a, close)]
  /\ LET p == CombinedOf(phase', active) IN
       IF p \in {"ALIGNED", "TIMEOUT_WARN"} THEN StopStreaming(p)
       ELSE UNCHANGED <<stream, pc>>
  /\ UNCHANGED <<expired, leaders, big, call, queue, slow, unmet, exit>>

--------------------------------------------------------------------------
(* /mode/align_cancel *)

Cancel ==
  /\ pc = Free /\ exit = "no"
  /\ Cancelled(Arm)
  /\ IF Phase = "ALIGNING"
     THEN StopStreaming("IDLE")
     ELSE /\ streaming' = FALSE /\ status' = "IDLE"
          /\ UNCHANGED <<active, pc>>
  /\ UNCHANGED <<leaders, big, call, driver, exit>>

--------------------------------------------------------------------------
(* Messages and time *)

LeaderMessages ==
  /\ pc = Free /\ exit = "no" /\ ~leaders
  /\ leaders' = TRUE
  /\ UNCHANGED <<sessions, stream, big, thread, driver, exit>>

BigMessage ==
  /\ pc = Free /\ exit = "no"
  /\ big' = "fresh"
  /\ UNCHANGED <<sessions, stream, leaders, thread, driver, exit>>

LeaderAges ==
  /\ leaders /\ exit = "no"
  /\ leaders' = FALSE
  /\ UNCHANGED <<sessions, stream, big, thread, driver, exit>>

BigAges ==
  /\ big = "fresh" /\ exit = "no"
  /\ big' = "stale"
  /\ UNCHANGED <<sessions, stream, leaders, thread, driver, exit>>

Expire ==
  /\ ~expired /\ exit = "no" /\ \E a \in Arm : phase[a] = "ALIGNING"
  /\ expired' = TRUE
  /\ UNCHANGED <<phase, frames, stream, inputs, thread, driver, exit>>

--------------------------------------------------------------------------
(* Ctrl-C: spin() ends, no answer is handled any more, and a callback that
   was waiting goes no further.  _shutdown_cleanup sends its two requests
   if it finds an alignment.  The process ends, and its state with it. *)

Interrupt ==
  /\ exit = "no"
  /\ IF ~streaming /\ Phase # "ALIGNING"
     THEN /\ exit' = IF pc = Free THEN "idle" ELSE "closing"
          /\ UNCHANGED <<queue, unmet>>
     ELSE /\ exit' = "aligning"
          /\ \/ /\ queue' = queue \o
                     <<[what |-> "hold", arms |-> {}, owned |-> FALSE],
                       [what |-> "normal", arms |-> {}, owned |-> FALSE]>>
                /\ unmet' = {}
             \/ unmet' = {"hold", "rates"} /\ UNCHANGED queue
  /\ Cancelled(Arm)
  /\ streaming' = FALSE /\ active' = {} /\ status' = "IDLE"
  /\ leaders' = FALSE /\ big' = "none"
  /\ pc' = Free /\ call' = "none"
  /\ UNCHANGED <<slow, following>>

--------------------------------------------------------------------------
Calls == SendRequest \/ ServiceMissing \/ CallTimesOut
Continues == StreamStarts \/ AlignFails \/ Undone \/ Held \/ Restored
Timer == AbortStale \/ Advance
Messages ==
  \/ \E arms \in (SUBSET Arm) \ {{}} : AlignRequest(arms)
  \/ Cancel \/ BigMessage \/ LeaderMessages
Time == Expire \/ BigAges \/ LeaderAges

Next == Calls \/ Continues \/ Timer \/ Messages \/ Time \/ Serve \/ Interrupt
Spec == Init /\ [][Next]_vars

\* A call ends, one way or another, the callback goes on, the timer fires and
\* time passes.
Fairness ==
  WF_vars(Calls) /\ WF_vars(Continues) /\ SF_vars(Timer) /\ WF_vars(Expire)
FairSpec == Spec /\ Fairness
=============================================================================
