------------------------------- MODULE UiProps -------------------------------
EXTENDS UiDispatch

\* Nothing the mailbox shows dates from before the end of the last session, not
\* even what a node published between on_before_stop's clearing and that end
\* (clear_session_cache, ros_bridge.py:249): whatever the page shows, and a
\* command is checked against, has been written since.
NoStaleMailbox == \A field \in DOMAIN mail : mail[field] # Cleared[field] => field \in fresh

\* When _recording_active changes during a session, it then shows what that
\* session's recorder does, unless a request that was given up has been served
\* after the one whose answer changes it (ros_bridge.py:468).
FlagTruth ==
  [][mail'.flag # mail.flag /\ uiMode' # None /\ ~overtaken =>
       mail'.flag = (uiMode' \in recording')]_vars

\* A locked gate keeps both sides as they are, even against a script that was
\* running when it locked (leader_arms.py:23); only a reset opens it.
GateFrozen ==
  [][gate.locked /\ gate' # NoGate =>
       gate'.left = gate.left /\ gate'.right = gate.right /\ gate'.locked]_vars

\* dispatch comes back whatever the service or the script does, and lets the
\* next command in (the finally of ros_bridge.py:349).
DispatchReturns == lock # None ~> lock = None
=============================================================================
