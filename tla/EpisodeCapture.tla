--------------------------- MODULE EpisodeCapture ---------------------------
(* The data recorder that listens to the launcher's cameras and to the arms: *)
(* synchronised frames arrive in the main thread (rclpy.spin), the start and *)
(* the save of an episode in the thread of the web server. They share the    *)
(* saving flag and the list of frames, whose lock covers single operations.  *)
EXTENDS CameraLauncher, Sequences

CONSTANTS
  Side,           \* [Devices -> {"external", "A", "B", "unknown"}]: the field
                  \* the converter has for a camera's topic, by its arm
  UseArm,         \* the configured arms, out of "A" and "B"
  MaxFrames,      \* bound: frames over all runs
  MaxSaves        \* bound: calls of save_episodes over all runs

ASSUME CaptureAssumption ==
  /\ Side \in [Devices -> {"external", "A", "B", "unknown"}]
  /\ UseArm \subseteq {"A", "B"}
  /\ MaxFrames \in Nat /\ MaxSaves \in Nat

VARIABLES
  up,         \* the recorder process runs
  topics,     \* the subscribed topics, from the mapping as it was at the start
  stopped,    \* IS_SAVING_FLAG
  frames,     \* sensor_msg_list
  inHand,     \* frame the callback converts and has not appended, as <<frame>>
  saving,     \* step of save(): "none", "count", "dump" or "clear"
  files,      \* the directory: number -> [whole, frames]
  target,     \* number of the file the save writes
  frameNo,    \* frames ever received
  saves,      \* calls of save_episodes so far, the number of the episode
  failed      \* episodes whose save failed

recorderVars == <<up, topics, stopped, frames, inHand, saving, files, target,
                  frameNo, saves, failed>>
cvars == <<lvars, recorderVars>>

-----------------------------------------------------------------------------
ArmTopics == {<<arm, what>> : arm \in UseArm,
                what \in {"joints", "tcp_pose", "gripper_state"}}

\* get_topic_and_type: the colour image of every mapped camera, and of every
\* used arm its joints, pose and gripper.
TopicsOf(devices) == {<<d, "color">> : d \in devices} \cup ArmTopics

\* convert_all_data: the topics that have a field in the message. A camera at
\* an arm that is not used has none, nor has one of a name it does not know.
Converted(ts) ==
  {t \in ts : t \in ArmTopics \/ Side[t[1]] \in {"external"} \cup UseArm}

\* Bound: there is a frame and a save left to record.
Room == frameNo < MaxFrames /\ saves < MaxSaves

RecorderInit ==
  /\ up = FALSE /\ topics = {} /\ stopped = TRUE
  /\ frames = <<>> /\ inHand = <<>> /\ saving = "none"
  /\ files = <<>> /\ target = 0
  /\ frameNo = 0 /\ saves = 0 /\ failed = {}

\* DataRecorder.__init__: the mapping is asked for once. Without the launcher
\* the request raises and the process ends, or it waits at an orphan's port.
StartRecorder ==
  /\ ~up /\ Room /\ ~PortHeld /\ lpc = "join"
  /\ up' = TRUE /\ topics' = TopicsOf(mapping) /\ stopped' = TRUE
  /\ frames' = <<>> /\ inHand' = <<>> /\ saving' = "none"
  /\ UNCHANGED <<files, target, frameNo, saves, failed, lvars>>

\* Ctrl-C, or an exception of the callback. The web server's thread dies with
\* the process, a file it is writing stays cut.
RecorderEnds ==
  /\ up /\ up' = FALSE
  /\ stopped' = TRUE /\ frames' = <<>> /\ inHand' = <<>> /\ saving' = "none"
  /\ failed' = IF saving = "none" THEN failed ELSE failed \cup {saves}
  /\ topics' = {} /\ target' = 0
  /\ UNCHANGED <<files, frameNo, saves, lvars>>

\* callback: the synchroniser found a message of every topic within its slop,
\* and the flag is read. The frame remembers its episode (history).
Receive ==
  /\ up /\ inHand = <<>> /\ Room
  /\ \A d \in Devices : <<d, "color">> \in topics =>
       RealsensePublishes(d) \/ TactilePublishes(d)
  /\ ~stopped
  /\ frameNo' = frameNo + 1
  /\ inHand' = <<[no |-> frameNo', episode |-> saves + 1,
                  fields |-> Converted(topics)]>>
  /\ UNCHANGED <<up, topics, stopped, frames, saving, files, target, saves,
                 failed, lvars>>

\* callback: sensor_msg_list.append
AppendFrame ==
  /\ up /\ inHand # <<>>
  /\ frames' = frames \o inHand /\ inHand' = <<>>
  /\ UNCHANGED <<up, topics, stopped, saving, files, target, frameNo, saves,
                 failed, lvars>>

-----------------------------------------------------------------------------
(* The web server; its handlers run one after the other *)

StartEpisodes ==
  /\ up /\ saving = "none" /\ Room
  /\ stopped' = FALSE
  /\ UNCHANGED <<up, topics, frames, inHand, saving, files, target, frameNo,
                 saves, failed, lvars>>

SaveEpisodes ==
  /\ up /\ saving = "none" /\ saves < MaxSaves
  /\ stopped' = TRUE /\ saving' = "count" /\ saves' = saves + 1
  /\ UNCHANGED <<up, topics, frames, inHand, files, target, frameNo, failed,
                 lvars>>

\* save: the file is numbered by the count of the files, opened, and the list
\* copied under its lock. What is in the file is whole only after the dump.
CountAndOpen ==
  /\ up /\ saving = "count"
  /\ target' = Cardinality(DOMAIN files)
  /\ files' = [n \in DOMAIN files \cup {target'} |->
       IF n = target' THEN [whole |-> FALSE, frames |-> frames] ELSE files[n]]
  /\ saving' = "dump"
  /\ UNCHANGED <<up, topics, stopped, frames, inHand, frameNo, saves, failed,
                 lvars>>

Dump ==
  /\ up /\ saving = "dump"
  /\ files' = [files EXCEPT ![target].whole = TRUE]
  /\ saving' = "clear"
  /\ UNCHANGED <<up, topics, stopped, frames, inHand, target, frameNo, saves,
                 failed, lvars>>

\* mutant: the list is emptied only by the next start of the process.
ClearForgotten ==
  /\ up /\ saving = "clear"
  /\ saving' = "none" /\ target' = 0
  /\ UNCHANGED <<up, topics, stopped, frames, inHand, files, frameNo, saves,
                 failed, lvars>>

Clear ==
  /\ up /\ saving = "clear"
  /\ frames' = <<>> /\ saving' = "none" /\ target' = 0
  /\ UNCHANGED <<up, topics, stopped, inHand, files, frameNo, saves,
                 failed, lvars>>

\* The directory is missing or the disk is full: the request answers 500, the
\* list is kept.
SaveFails ==
  /\ up /\ saving \in {"count", "dump"}
  /\ saving' = "none" /\ failed' = failed \cup {saves} /\ target' = 0
  /\ UNCHANGED <<up, topics, stopped, frames, inHand, files, frameNo,
                 saves, lvars>>

-----------------------------------------------------------------------------
RecorderNext ==
  \/ StartRecorder \/ RecorderEnds \/ Receive \/ AppendFrame
  \/ StartEpisodes \/ SaveEpisodes \/ CountAndOpen \/ Dump \/ Clear
  \/ SaveFails

CaptureInit == LauncherInit /\ RecorderInit

\* Bound: only a launcher that no recorder has used yet is started again.
RelaunchBound == launches' # launches => ~up /\ frameNo + saves = 0

CaptureNext ==
  \/ LauncherNext /\ RelaunchBound /\ UNCHANGED recorderVars
  \/ RecorderNext

CaptureSpec == CaptureInit /\ [][CaptureNext]_cvars
=============================================================================
