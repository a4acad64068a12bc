---------------------------- MODULE SessionProps ----------------------------
(***************************************************************************)
(* The properties of an operator session.                                  *)
(***************************************************************************)
EXTENDS OperatorSession, FiniteSets

\* Whatever threads are inside start(), stop() and tick(), the session a user
\* sees obeys the life cycle: in particular a start that was stopped during its
\* precheck does not bring the session back.
Lifecycle == INSTANCE SessionLifecycle
ImplementsLifecycle == Lifecycle!Spec

\* The driver behind a session that has got past its first step is the
\* session's own, so its stop() is able to end it: precheck, the race of stop()
\* with a Popen, retries and exits never leave an older driver in its place.
Past == {"READY", "RUNNING", "DEGRADED"}
OwnDriver ==
  state \in Past \/ (state \in {"STARTING", "FAILED"} /\ index > 1)
  => "driver" \notin stray

\* A stop ends what the session launched.  The one process it can miss is the
\* one the tick is launching meanwhile: its Popen may return after terminate().
AtMostOneEscapes ==
  stopper.pc = "clear" =>
    Cardinality({s \in Step : Live(proc[s])} \cup ({spawning} \ {None})) <= 1

\* When a session is over the leader arms are released, whatever started them
\* again before: disabling comes after the container is gone.  The exit of the
\* server promises less: a Popen that it interrupted may return after it.
LeaderReleased ==
  state = "IDLE" /\ "marvin" \notin Running /\ "exit" \notin crossed => ~torque

\* The bridge serves a mode when the session is up and none when it is over,
\* once the requests that changed the session have told it, as long as the
\* server accepts requests.  The mode is that of the steps that run, unless the
\* request of an earlier stop came late with its None; and it is the session's,
\* unless a start for another mode took over the session's precheck besides.
ModeFollowsSession ==
  ~exiting /\ ~leaving /\ (\A w \in Starters : ~At(w, {"install", "started"})) =>
    /\ state = "IDLE" => uiMode = None
    /\ state \in Past => "stop" \in crossed \/ (uiMode \in Modes /\ steps = PlaybookFor(uiMode))
    /\ state \in Past => crossed # {} \/ uiMode = mode

UI == INSTANCE UiCommands
TeleopMessages == {"IDLE", "TELEOP_SYNCING", "SYNCED", "TELEOP"}
AlignMessages == {"IDLE", "ALIGNING", "ALIGNED", "TIMEOUT_WARN"}
HitlMessages == {"AUTONOMOUS", "HANDOVER_SYNC", "HUMAN"}
ASSUME MessageAssumption == None \notin TeleopMessages \cup AlignMessages \cup HitlMessages
Mailboxes ==
  [teleop : {None} \cup TeleopMessages, align : {None} \cup AlignMessages,
   hitl : {None} \cup HitlMessages, flag : BOOLEAN]

\* Whatever the topics say, the page recommends no command that the session
\* would refuse (with the leader arms on) or that has had its effect already.
HintFollowable ==
  \A m \in Mailboxes : \A op \in UI!NextHint(state, mode, m) :
    /\ UI!CommandAllowed(op, state, mode, m, UI!NoGate)
    /\ op \in UI!RecorderOps \/ ~UI!Confirmed(op, m)

\* Every stop comes to its end, and a session does not stay in STARTING: each
\* step turns healthy, is skipped or fails.
StopEnds == state = "STOPPING" ~> state = "IDLE"
StartResolves == state = "STARTING" ~> state # "STARTING"
=============================================================================
