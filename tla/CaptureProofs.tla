---------------------------- MODULE CaptureProofs ----------------------------
(***************************************************************************)
(* What the camera launcher promises about its workers, for every set of   *)
(* cameras and every number of launches.  The recorder leaves the          *)
(* launcher's variables alone; it only waits for them.                     *)
(***************************************************************************)
EXTENDS CaptureProps, FiniteSetTheorems, TLAPS

LauncherTypeOK ==
  /\ lpc \in LauncherPcs
  /\ todo \subseteq Devices /\ mapping \subseteq Devices
  /\ listed \subseteq Devices /\ tosignal \subseteq Devices
  /\ worker \in [Devices -> WorkerStates]
  /\ pending \in [Devices -> SUBSET Signals]

\* The list of processes has entries only where main() starts or ends workers.
ListOfMain ==
  lpc \notin {"spawn", "join", "signal", "terminate", "reap"} => listed = {}

\* A worker that is not on the list would never be signalled nor joined.
OnlyListed == \A d \in Devices : Alive(d) => d \in listed

\* A worker on its way out, or with a SIGTERM to take.
Doomed(d) == worker[d] = "closing" \/ "TERM" \in pending[d]

Reaping == lpc = "reap" => \A d \in listed : Alive(d) => Doomed(d)

LauncherInv == LauncherTypeOK /\ ListOfMain /\ OnlyListed /\ Reaping

-----------------------------------------------------------------------------
\* A worker's own steps and the signals it takes never bring it back to life,
\* and never take it from its way out: each state After leads to is one.
LEMMA AfterKeeps ==
  ASSUME NEW state \in WorkerStates, NEW s \in Signals
  PROVE /\ After(state, s) \in WorkerStates
        /\ state \in {"none", "dead"} => After(state, s) = state
        /\ s = "TERM" => After(state, s) \in {"none", "dead", "closing"}
        /\ state = "closing" => After(state, s) \in {"dead", "closing"}
<1>1. CASE state \in {"none", "dead"}
  BY <1>1 DEF After, WorkerStates
<1>2. CASE state = "boot"
  BY <1>2 DEF After, WorkerStates
<1>3. CASE state \in {"open", "closing"}
  BY <1>3 DEF After, WorkerStates
<1>4. CASE state \in {"spin", "mute"}
  BY <1>4 DEF After, WorkerStates
<1>5. CASE state = "released"
  BY <1>5 DEF After, WorkerStates
<1> QED BY <1>1, <1>2, <1>3, <1>4, <1>5 DEF WorkerStates

\* What is sent to workers reaches those that live, and takes no signal away.
LEMMA SendAdds ==
  ASSUME LauncherTypeOK, NEW ds, NEW s \in Signals, Send(ds, s)
  PROVE /\ pending' \in [Devices -> SUBSET Signals]
        /\ \A d \in Devices : pending[d] \subseteq pending'[d]
        /\ \A d \in Devices : d \in ds /\ Alive(d) => s \in pending'[d]
BY DEF LauncherTypeOK, Send

\* A step of one worker that leaves the launcher alone keeps the invariant if
\* it does not start the worker nor take it out of its doom.
LEMMA WorkerStep ==
  ASSUME LauncherInv, NEW d \in Devices, UNCHANGED launcherVars,
         NEW to \in WorkerStates, NEW left \in SUBSET Signals,
         worker' = [worker EXCEPT ![d] = to],
         pending' = [pending EXCEPT ![d] = left],
         worker[d] \in {"none", "dead"} => to \in {"none", "dead"},
         to \notin {"none", "dead"} /\ Doomed(d) => to = "closing" \/ "TERM" \in left
  PROVE LauncherInv'
<1> USE DEF LauncherInv, launcherVars
<1>1. LauncherTypeOK'
  BY DEF LauncherTypeOK
<1>2. /\ worker'[d] = to /\ pending'[d] = left
      /\ \A e \in Devices \ {d} : worker'[e] = worker[e] /\ pending'[e] = pending[e]
  BY DEF LauncherTypeOK
<1>3. OnlyListed'
  BY <1>2 DEF OnlyListed, Alive
<1>4. ListOfMain'
  BY DEF ListOfMain
<1>5. Reaping'
  <2> SUFFICES ASSUME lpc = "reap", NEW e \in listed, Alive(e)'
               PROVE Doomed(e)'
    BY DEF Reaping
  <2>1. e \in Devices
    BY DEF LauncherTypeOK
  <2>2. CASE e = d
    BY <1>2, <2>2 DEF Reaping, Doomed, Alive
  <2>3. CASE e # d
    BY <1>2, <2>1, <2>3 DEF Reaping, Doomed, Alive
  <2> QED BY <2>2, <2>3
<1> QED BY <1>1, <1>3, <1>4, <1>5

LEMMA BecomesKeeps ==
  ASSUME LauncherInv, NEW d \in Devices, NEW from, NEW to \in WorkerStates,
         Becomes(d, from, to), from \cap {"none", "dead"} = {},
         "closing" \in from => to = "dead"
  PROVE LauncherInv'
<1> DEFINE left == IF to = "dead" THEN {} ELSE pending[d]
<1>1. left \in SUBSET Signals
  BY DEF LauncherInv, LauncherTypeOK
<1>2. pending' = [pending EXCEPT ![d] = left]
  BY DEF Becomes, LauncherInv, LauncherTypeOK
<1>3. UNCHANGED launcherVars /\ worker' = [worker EXCEPT ![d] = to] /\ worker[d] \in from
  BY DEF Becomes
<1>4. to \notin {"none", "dead"} /\ Doomed(d) => to = "closing" \/ "TERM" \in left
  BY <1>3 DEF Doomed
<1> HIDE DEF left
<1> QED BY <1>1, <1>2, <1>3, <1>4, WorkerStep

LEMMA TakeSignalKeeps ==
  ASSUME LauncherInv, NEW d \in Devices, TakeSignal(d)
  PROVE LauncherInv'
<1> USE DEF LauncherInv
<1>1. PICK s \in pending[d] :
        /\ worker' = [worker EXCEPT ![d] = After(worker[d], s)]
        /\ pending' = [pending EXCEPT ![d] = IF Alive(d)' THEN pending[d] \ {s} ELSE {}]
        /\ UNCHANGED <<launcherVars, orphans>>
  BY DEF TakeSignal, LauncherTypeOK
<1> DEFINE to == After(worker[d], s)
           left == IF Alive(d)' THEN pending[d] \ {s} ELSE {}
<1>2. s \in Signals /\ worker[d] \in WorkerStates /\ pending[d] \subseteq Signals
  BY DEF LauncherTypeOK
<1>3. /\ to \in WorkerStates
      /\ worker[d] \in {"none", "dead"} => to \in {"none", "dead"}
      /\ s = "TERM" => to \in {"none", "dead", "closing"}
      /\ worker[d] = "closing" => to \in {"dead", "closing"}
  BY <1>2, AfterKeeps
<1> HIDE DEF to
<1>4. left \in SUBSET Signals
  BY <1>2
<1>5. worker'[d] = to
  BY <1>1 DEF LauncherTypeOK, to
<1>6. to \notin {"none", "dead"} /\ Doomed(d) => to = "closing" \/ "TERM" \in left
  BY <1>3, <1>5 DEF Doomed, Alive
<1>7. pending' = [pending EXCEPT ![d] = left] /\ worker' = [worker EXCEPT ![d] = to]
  BY <1>1 DEF to
<1> HIDE DEF left
<1> QED BY <1>1, <1>3, <1>4, <1>6, <1>7, WorkerStep

LEMMA WorkerNextKeeps ==
  ASSUME LauncherInv, NEW d \in Devices, WorkerNext(d)
  PROVE LauncherInv'
<1>1. CASE WorkerInit(d)
  BY <1>1, BecomesKeeps DEF WorkerInit, WorkerStates
<1>2. CASE RealsenseOpens(d)
  BY <1>2, BecomesKeeps DEF RealsenseOpens, WorkerStates
<1>3. CASE TactileOpens(d)
  BY <1>3, BecomesKeeps DEF TactileOpens, WorkerStates
<1>4. CASE WorkerFails(d)
  BY <1>4, BecomesKeeps DEF WorkerFails, WorkerStates
<1>5. CASE RealsenseFails(d)
  BY <1>5, BecomesKeeps DEF RealsenseFails, WorkerStates
<1>6. CASE SensorMute(d)
  BY <1>6, BecomesKeeps DEF SensorMute, WorkerStates
<1>7. CASE SensorBack(d)
  BY <1>7, BecomesKeeps DEF SensorBack, WorkerStates
<1>8. CASE TakeSignal(d)
  BY <1>8, TakeSignalKeeps
<1> QED BY <1>1, <1>2, <1>3, <1>4, <1>5, <1>6, <1>7, <1>8 DEF WorkerNext

-----------------------------------------------------------------------------
\* main() is left, or started, only where no worker lives or none is known.
LEMMA LeftKeeps ==
  ASSUME LauncherTypeOK, NEW pc \in LauncherPcs, Left(pc), pc # "reap",
         worker' \in [Devices -> WorkerStates],
         pending' \in [Devices -> SUBSET Signals],
         \A d \in Devices : ~Alive(d)'
  PROVE LauncherInv'
BY DEF LauncherInv, LauncherTypeOK, ListOfMain, OnlyListed, Reaping, Left

\* A step of main() that neither starts a worker nor leaves the list.
LEMMA MainStep ==
  ASSUME LauncherInv, lpc' \in LauncherPcs, lpc' # "reap",
         mapping' \subseteq Devices, todo' \subseteq Devices,
         tosignal' \subseteq Devices,
         pending' \in [Devices -> SUBSET Signals],
         UNCHANGED <<listed, worker>>,
         \/ lpc' \in {"spawn", "join", "signal", "terminate"}
         \/ lpc \in {"map", "request"}
  PROVE LauncherInv'
BY DEF LauncherInv, LauncherTypeOK, ListOfMain, OnlyListed, Alive, Reaping

LEMMA InterruptKeeps ==
  ASSUME LauncherInv, NEW group \in BOOLEAN, Interrupt(group)
  PROVE LauncherInv'
<1> USE DEF LauncherInv
<1>1. /\ pending' \in [Devices -> SUBSET Signals] /\ UNCHANGED worker
  BY SendAdds DEF Interrupt, Signals
<1>2. CASE lpc \in {"map", "request"} /\ Left("ended")
  <2>1. listed = {}
    BY <1>2 DEF ListOfMain
  <2>2. \A d \in Devices : ~Alive(d)'
    BY <1>1, <2>1 DEF OnlyListed, Alive
  <2> QED BY <1>1, <1>2, <2>2, LeftKeeps DEF LauncherTypeOK, LauncherPcs
<1>3. CASE /\ lpc \in {"spawn", "join"}
           /\ lpc' = "signal" /\ tosignal' = listed
           /\ UNCHANGED <<mapping, todo, listed, reaped>>
  BY <1>1, <1>3, MainStep DEF LauncherTypeOK, LauncherPcs
<1>4. CASE /\ lpc = "signal"
           /\ lpc' = "terminate" /\ tosignal' = {}
           /\ UNCHANGED <<mapping, todo, listed, reaped>>
  BY <1>1, <1>4, MainStep DEF LauncherTypeOK, LauncherPcs
<1> QED BY <1>2, <1>3, <1>4 DEF Interrupt

LEMMA SignalNextKeeps ==
  ASSUME LauncherInv, NEW d \in Devices, SignalNext(d)
  PROVE LauncherInv'
<1> USE DEF LauncherInv
<1>1. pending' \in [Devices -> SUBSET Signals]
  <2>1. CASE d \in reaped
    BY <2>1 DEF SignalNext, LauncherTypeOK
  <2>2. CASE d \notin reaped
    BY <2>2, SendAdds DEF SignalNext, Signals
  <2> QED BY <2>1, <2>2
<1>2. /\ lpc' \in {"signal", "terminate"} /\ tosignal' \subseteq Devices
      /\ UNCHANGED <<mapping, todo, listed, worker>>
  BY DEF SignalNext, LauncherTypeOK
<1> QED BY <1>1, <1>2, MainStep DEF LauncherTypeOK, LauncherPcs

LEMMA SpawnKeeps ==
  ASSUME LauncherInv, NEW d \in Devices, Spawn(d)
  PROVE LauncherInv'
<1> USE DEF LauncherInv, Spawn
<1>1. LauncherTypeOK'
  BY DEF LauncherTypeOK, WorkerStates
<1>2. OnlyListed'
  BY DEF OnlyListed, Alive, LauncherTypeOK
<1> QED BY <1>1, <1>2 DEF ListOfMain, Reaping

\* p.terminate() reaches every living worker on the list.
LEMMA TerminateAllKeeps ==
  ASSUME LauncherInv, TerminateAll
  PROVE LauncherInv'
<1> USE DEF LauncherInv
<1>1. /\ pending' \in [Devices -> SUBSET Signals]
      /\ \A d \in Devices : d \in listed /\ Alive(d) => "TERM" \in pending'[d]
  BY SendAdds DEF TerminateAll, Signals
<1>2. /\ lpc' = "reap" /\ UNCHANGED <<mapping, todo, listed, tosignal, worker>>
  BY DEF TerminateAll
<1>3. LauncherTypeOK'
  BY <1>1, <1>2 DEF LauncherTypeOK, LauncherPcs
<1>4. Reaping'
  BY <1>1, <1>2 DEF Reaping, Doomed, Alive, LauncherTypeOK
<1> QED BY <1>2, <1>3, <1>4 DEF ListOfMain, OnlyListed, Alive

LEMMA MainNextKeeps ==
  ASSUME LauncherInv, MainNext
  PROVE LauncherInv'
<1> USE DEF LauncherInv
<1>0. /\ lpc \in LauncherPcs /\ mapping \subseteq Devices /\ todo \subseteq Devices
      /\ tosignal \subseteq Devices /\ pending \in [Devices -> SUBSET Signals]
      /\ worker \in [Devices -> WorkerStates]
  BY DEF LauncherTypeOK
<1>1. CASE InitMapping
  <2>1. mapping' \subseteq Devices
    BY <1>1 DEF InitMapping, Mapped, Devices
  <2> QED BY <1>0, <1>1, <2>1, MainStep DEF InitMapping, LauncherPcs, workerVars
<1>2. CASE GetMapping
  BY <1>0, <1>2, MainStep DEF GetMapping, LauncherPcs, workerVars
<1>3. CASE MappingFails
  <2>1. listed = {} /\ UNCHANGED <<worker, pending>> /\ Left("ended")
    BY <1>3 DEF MappingFails, ListOfMain, workerVars
  <2>2. \A d \in Devices : ~Alive(d)'
    BY <2>1 DEF OnlyListed, Alive
  <2> QED BY <1>0, <2>1, <2>2, LeftKeeps DEF LauncherPcs
<1>4. CASE BadConfig
  BY <1>0, <1>4, MainStep DEF BadConfig, LauncherPcs, workerVars
<1>5. CASE AllStarted
  BY <1>0, <1>5, MainStep DEF AllStarted, LauncherPcs, workerVars
<1>6. CASE AllSignalled
  BY <1>0, <1>6, MainStep DEF AllSignalled, LauncherPcs, workerVars
<1>7. CASE TerminateAll
  BY <1>7, TerminateAllKeeps
<1>8. CASE JoinAll
  <2>1. UNCHANGED <<worker, pending>> /\ Left("ended")
    BY <1>8 DEF JoinAll, workerVars
  <2>2. \A d \in Devices : ~Alive(d)'
    BY <1>8, <2>1 DEF JoinAll, OnlyListed, Alive
  <2> QED BY <1>0, <2>1, <2>2, LeftKeeps DEF LauncherPcs
<1>9. CASE \E d \in Devices : Spawn(d) \/ SignalNext(d)
  BY <1>9, SpawnKeeps, SignalNextKeeps
<1> QED BY <1>1, <1>2, <1>3, <1>4, <1>5, <1>6, <1>7, <1>8, <1>9 DEF MainNext

-----------------------------------------------------------------------------
LEMMA LauncherKeeps ==
  ASSUME LauncherInv, LauncherNext
  PROVE LauncherInv'
<1> USE DEF LauncherInv
<1>1. CASE Launch \/ Kill
  <2>1. PICK pc \in {"map", "killed"} : Left(pc)
    BY <1>1 DEF Launch, Kill
  <2>2. /\ worker' = [d \in Devices |-> "none"]
        /\ pending' = [d \in Devices |-> {}]
    BY <1>1 DEF Launch, Kill
  <2>3. /\ worker' \in [Devices -> WorkerStates]
        /\ pending' \in [Devices -> SUBSET Signals]
        /\ \A d \in Devices : ~Alive(d)'
    BY <2>2 DEF WorkerStates, Alive
  <2> QED BY <2>1, <2>3, LeftKeeps DEF LauncherPcs
<1>2. CASE MainNext
  BY <1>2, MainNextKeeps
<1>3. CASE \E group \in BOOLEAN : Interrupt(group)
  BY <1>3, InterruptKeeps
<1>4. CASE \E d \in Devices : WorkerNext(d)
  BY <1>4, WorkerNextKeeps
<1>5. CASE \E d \in Devices : OrphanDies(d)
  BY <1>5 DEF OrphanDies, launcherVars, workerVars, LauncherTypeOK, ListOfMain,
              OnlyListed, Alive, Reaping, Doomed
<1> QED BY <1>1, <1>2, <1>3, <1>4, <1>5 DEF LauncherNext

LEMMA LauncherUntouched ==
  ASSUME LauncherInv, UNCHANGED lvars
  PROVE LauncherInv'
BY DEF LauncherInv, lvars, launcherVars, workerVars, LauncherTypeOK, ListOfMain,
       OnlyListed, Alive, Reaping, Doomed

LEMMA RecorderLeavesLauncher ==
  ASSUME RecorderNext
  PROVE UNCHANGED lvars
<1>1. CASE StartRecorder \/ RecorderEnds \/ Receive \/ AppendFrame
  BY <1>1 DEF StartRecorder, RecorderEnds, Receive, AppendFrame
<1>2. CASE StartEpisodes \/ SaveEpisodes \/ CountAndOpen
  BY <1>2 DEF StartEpisodes, SaveEpisodes, CountAndOpen
<1>3. CASE Dump \/ Clear \/ SaveFails
  BY <1>3 DEF Dump, Clear, SaveFails
<1> QED BY <1>1, <1>2, <1>3 DEF RecorderNext

\* The processes on the list are the only workers that live, none is on the
\* list before main() has one, and the ones a waiting launcher has left are on
\* their way out.
THEOREM LauncherInvHolds == CaptureSpec => []LauncherInv
<1>1. CaptureInit => LauncherInv
  BY DEF CaptureInit, LauncherInit, LauncherInv, LauncherTypeOK, ListOfMain,
         OnlyListed, Alive, Reaping, LauncherPcs, WorkerStates
<1>2. LauncherInv /\ [CaptureNext]_cvars => LauncherInv'
  <2> SUFFICES ASSUME LauncherInv, [CaptureNext]_cvars
               PROVE LauncherInv'
    OBVIOUS
  <2>1. CASE LauncherNext
    BY <2>1, LauncherKeeps
  <2>2. CASE RecorderNext
    BY <2>2, RecorderLeavesLauncher, LauncherUntouched
  <2>3. CASE UNCHANGED cvars
    BY <2>3, LauncherUntouched DEF cvars
  <2> QED BY <2>1, <2>2, <2>3 DEF CaptureNext
<1> QED BY <1>1, <1>2, PTL DEF CaptureSpec

\* The launcher waits only for workers that will end, in whatever state an
\* interrupt, a bad configuration or a failed os.kill met them, and one that
\* has ended leaves none behind (main's except and finally).
THEOREM WorkersDoomedHolds == CaptureSpec => []WorkersDoomed
<1>1. LauncherInv => WorkersDoomed
  BY DEF LauncherInv, WorkersDoomed, Reaping, Doomed, OnlyListed, ListOfMain
<1> QED BY <1>1, LauncherInvHolds, PTL

-----------------------------------------------------------------------------
(***************************************************************************)
(* The episodes of the data recorder.  What is in memory are the list and  *)
(* the frame the callback has in hand; the thread of the web server moves  *)
(* the list to a file while the callback goes on.                          *)
(***************************************************************************)

Topics == (Devices \cup UseArm) \X {"color", "joints", "tcp_pose", "gripper_state"}
Frame == [no : Nat, episode : Nat, fields : SUBSET Topics]
File == [whole : BOOLEAN, frames : Seq(Frame)]

Elems(s) == {s[i] : i \in DOMAIN s}
Memory == Elems(frames) \cup Elems(inHand)

CaptureTypeOK ==
  /\ up \in BOOLEAN /\ stopped \in BOOLEAN /\ topics \subseteq Topics
  /\ saving \in {"none", "count", "dump", "clear"}
  /\ frames \in Seq(Frame)
  /\ inHand = <<>> \/ \E f \in Frame : inHand = <<f>>
  /\ files \in [DOMAIN files -> File]
  /\ frameNo \in Nat /\ saves \in Nat

\* The frames of a sequence came one after the other, with the same fields.
InOrder(s) ==
  \A i, j \in DOMAIN s : i < j => s[i].no < s[j].no /\ s[i].fields = s[j].fields

\* Of the episodes before k but for the lost ones, fs has one frame at most.
OneStray(fs, k, lost) ==
  \A f, g \in fs :
    f.episode < k /\ f.episode \notin lost /\ g.episode < k /\ g.episode \notin lost
      => f = g

\* The episode being recorded, or saved.
Current == IF saving = "none" THEN saves + 1 ELSE saves

MemoryOK ==
  /\ InOrder(frames)
  /\ \A f \in Elems(inHand), g \in Elems(frames) : g.no < f.no
  /\ \A f \in Memory : /\ f.no <= frameNo /\ f.episode <= Current
                        /\ f.fields = Converted(topics)
  /\ OneStray(Memory, Current, failed)
  /\ saving # "none" => stopped
  /\ ~up => saving = "none" /\ Memory = {}

\* What a file holds, with the frame in hand and the number of the last frame
\* ever. A file's own episode, its last frame's, is the current one at most.
FileOK(s, lost, hand, last) ==
  /\ InOrder(s) /\ OneStray(Elems(s), s[Len(s)].episode, lost)
  /\ \A f \in Elems(s) : f.no <= last
  /\ Elems(s) \cap hand = {}

FilesOK ==
  \A n \in DOMAIN files : FileOK(files[n].frames, failed, Elems(inHand), frameNo)

\* A whole file shares no frame with another nor with the list, but for the
\* one just written, until the list is cleared.
Apart ==
  /\ \A m, n \in Whole : m # n => FramesOf(m) \cap FramesOf(n) = {}
  /\ \A n \in Whole : ~(saving = "clear" /\ n = target) =>
       FramesOf(n) \cap Elems(frames) = {}
  /\ saving = "dump" => /\ target \in DOMAIN files
                        /\ FramesOf(target) \subseteq Elems(frames)

EpisodeInv == CaptureTypeOK /\ MemoryOK /\ FilesOK /\ Apart

-----------------------------------------------------------------------------
LEMMA ElemsEmpty == Elems(<<>>) = {}
BY DEF Elems

LEMMA ElemsOne == ASSUME NEW f PROVE Elems(<<f>>) = {f}
BY DEF Elems

LEMMA ElemsIn == ASSUME NEW S, NEW s \in Seq(S) PROVE Elems(s) \subseteq S
BY DEF Elems

LEMMA ElemsAppend ==
  ASSUME NEW S, NEW s \in Seq(S), NEW f \in S
  PROVE /\ s \o <<f>> \in Seq(S) /\ Len(s \o <<f>>) = Len(s) + 1
        /\ \A i \in DOMAIN s : (s \o <<f>>)[i] = s[i]
        /\ (s \o <<f>>)[Len(s) + 1] = f
        /\ Elems(s \o <<f>>) = Elems(s) \cup {f}
<1>1. /\ s \o <<f>> \in Seq(S) /\ Len(s \o <<f>>) = Len(s) + 1
      /\ \A i \in DOMAIN s : (s \o <<f>>)[i] = s[i]
      /\ (s \o <<f>>)[Len(s) + 1] = f
  OBVIOUS
<1>2. DOMAIN (s \o <<f>>) = DOMAIN s \cup {Len(s) + 1}
  BY <1>1
<1> QED BY <1>1, <1>2 DEF Elems

LEMMA MemoryFrames ==
  ASSUME CaptureTypeOK
  PROVE \A f \in Memory : f.no \in Nat /\ f.episode \in Nat
<1>1. Elems(frames) \subseteq Frame
  BY ElemsIn DEF CaptureTypeOK
<1>2. Elems(inHand) \subseteq Frame
  BY ElemsEmpty, ElemsOne DEF CaptureTypeOK
<1> QED BY <1>1, <1>2 DEF Memory, Frame

\* A step that changes no file, grows failed and the count of frames, and takes
\* only a new frame in hand.
LEMMA FilesKeep ==
  ASSUME CaptureTypeOK, FilesOK, UNCHANGED files, failed \subseteq failed',
         frameNo' \in Nat, frameNo <= frameNo',
         \A f \in Elems(inHand)' : f \in Elems(inHand) \/ frameNo < f.no
  PROVE FilesOK'
<1> SUFFICES ASSUME NEW n \in DOMAIN files
             PROVE FileOK(files[n].frames, failed', Elems(inHand)', frameNo')
  BY DEF FilesOK
<1> DEFINE s == files[n].frames
<1>1. FileOK(s, failed, Elems(inHand), frameNo)
  BY DEF FilesOK
<1>2. \A f \in Elems(s) : f.no \in Nat
  <2>1. s \in Seq(Frame)
    BY DEF CaptureTypeOK, File
  <2> HIDE DEF s
  <2> QED BY <2>1, ElemsIn DEF Frame
<1> HIDE DEF s
<1>3. OneStray(Elems(s), s[Len(s)].episode, failed')
  BY <1>1 DEF FileOK, OneStray
<1>4. \A f \in Elems(s) : f.no <= frameNo'
  BY <1>1, <1>2 DEF FileOK, CaptureTypeOK
<1>5. Elems(s) \cap Elems(inHand)' = {}
  BY <1>1, <1>2 DEF FileOK, CaptureTypeOK
<1> QED BY <1>1, <1>3, <1>4, <1>5 DEF FileOK, s

\* A step that changes no file and adds to the list at most what was in hand.
LEMMA ApartKeep ==
  ASSUME FilesOK, Apart, UNCHANGED files,
         Elems(frames)' \subseteq Elems(frames) \cup Elems(inHand),
         saving' = "dump" =>
           UNCHANGED <<saving, target>> /\ Elems(frames) \subseteq Elems(frames)',
         Elems(frames)' = {} \/ (saving = "clear" => UNCHANGED <<saving, target>>)
  PROVE Apart'
<1>1. Whole' = Whole /\ Whole \subseteq DOMAIN files
      /\ \A n \in DOMAIN files : FramesOf(n)' = FramesOf(n)
  BY DEF Whole, FramesOf
<1>2. \A n \in DOMAIN files : FramesOf(n) \cap Elems(inHand) = {}
  BY DEF FilesOK, FileOK, FramesOf, Elems
<1>3. \A n \in Whole : ~(saving' = "clear" /\ n = target') =>
        FramesOf(n) \cap Elems(frames)' = {}
  BY <1>1, <1>2 DEF Apart
<1> QED BY <1>1, <1>3 DEF Apart

-----------------------------------------------------------------------------
\* The list and the hand are emptied with the process, and empty in a new one.
LEMMA ProcessKeeps ==
  ASSUME LauncherInv, EpisodeInv, StartRecorder \/ RecorderEnds
  PROVE EpisodeInv'
<1> USE DEF EpisodeInv
<1>1. /\ frames' = <<>> /\ inHand' = <<>> /\ saving' = "none" /\ stopped' = TRUE
      /\ UNCHANGED <<files, frameNo, saves>> /\ failed \subseteq failed'
      /\ up' \in BOOLEAN
  BY DEF StartRecorder, RecorderEnds
<1>2. Elems(frames)' = {} /\ Elems(inHand)' = {} /\ Memory' = {}
  BY <1>1 DEF Elems, Memory
<1>3. topics' \subseteq Topics
  <2>1. CASE StartRecorder
    <3>1. mapping \subseteq Devices
      BY DEF LauncherInv, LauncherTypeOK
    <3> QED BY <2>1, <3>1 DEF StartRecorder, TopicsOf, ArmTopics, Topics
  <2>2. CASE RecorderEnds
    BY <2>2 DEF RecorderEnds
  <2> QED BY <2>1, <2>2
<1>4. CaptureTypeOK'
  BY <1>1, <1>3 DEF CaptureTypeOK
<1>5. MemoryOK'
  BY <1>1, <1>2 DEF MemoryOK, InOrder, OneStray
<1>6. FilesOK'
  BY <1>1, <1>2, FilesKeep DEF CaptureTypeOK
<1>7. Apart'
  BY <1>1, <1>2, ApartKeep
<1> QED BY <1>4, <1>5, <1>6, <1>7

\* A frame is received with the flag clear, so outside any save.
LEMMA ReceiveKeeps ==
  ASSUME EpisodeInv, Receive
  PROVE EpisodeInv'
<1> USE DEF EpisodeInv
<1> DEFINE f == [no |-> frameNo + 1, episode |-> saves + 1, fields |-> Converted(topics)]
<1>1. /\ inHand = <<>> /\ inHand' = <<f>> /\ frameNo' = frameNo + 1 /\ ~stopped /\ up
      /\ UNCHANGED <<up, topics, stopped, frames, saving, files, target, saves, failed>>
  BY DEF Receive
<1>2. f \in Frame
  BY DEF Frame, CaptureTypeOK, Converted
<1>3. f.no = frameNo + 1 /\ f.episode = saves + 1 /\ f.fields = Converted(topics)
  OBVIOUS
<1> HIDE DEF f
<1>4. Elems(inHand) = {} /\ Elems(inHand)' = {f} /\ Elems(frames)' = Elems(frames)
  BY <1>1 DEF Elems
<1>5. Memory' = Memory \cup {f} /\ Elems(frames) \subseteq Memory
  BY <1>4 DEF Memory
<1>6. saving = "none" /\ Current = saves + 1 /\ Current' = saves + 1
  BY <1>1 DEF MemoryOK, Current
<1>7. \A g \in Memory : g \in Frame
  BY DEF Memory, Elems, CaptureTypeOK
<1>8. CaptureTypeOK'
  BY <1>1, <1>2 DEF CaptureTypeOK
<1>9. MemoryOK'
  <2>1. InOrder(frames)' /\ saving' = "none" /\ up'
    BY <1>1, <1>6 DEF MemoryOK, InOrder
  <2>2. \A g \in Memory' : /\ g.no <= frameNo' /\ g.episode <= Current'
                           /\ g.fields = Converted(topics)
    BY <1>1, <1>3, <1>5, <1>6, <1>7 DEF MemoryOK, CaptureTypeOK, Frame
  <2>3. \A g \in Elems(frames) : g.no < f.no
    BY <1>3, <1>5, <1>7 DEF MemoryOK, CaptureTypeOK, Frame
  <2>4. OneStray(Memory', Current', failed')
    BY <1>1, <1>3, <1>5, <1>6 DEF MemoryOK, OneStray, CaptureTypeOK
  <2> QED BY <1>1, <1>4, <2>1, <2>2, <2>3, <2>4 DEF MemoryOK, Converted, ArmTopics
<1>10. FilesOK'
  BY <1>1, <1>3, <1>4, FilesKeep DEF CaptureTypeOK
<1>11. Apart'
  BY <1>1, <1>4, <1>6, ApartKeep
<1> QED BY <1>8, <1>9, <1>10, <1>11

\* What was in hand is the newest of the list. During a save it may be a frame
\* the file has not, and is lost with the clearing, or comes after it.
LEMMA AppendFrameKeeps ==
  ASSUME EpisodeInv, AppendFrame
  PROVE EpisodeInv'
<1> USE DEF EpisodeInv
<1>1. /\ inHand # <<>> /\ frames' = frames \o inHand /\ inHand' = <<>> /\ up
      /\ UNCHANGED <<up, topics, stopped, saving, files, target, frameNo, saves, failed>>
  BY DEF AppendFrame
<1>2. PICK f \in Frame : inHand = <<f>>
  BY <1>1 DEF CaptureTypeOK
<1>3. frames \in Seq(Frame)
  BY DEF CaptureTypeOK
<1>4. /\ frames' \in Seq(Frame) /\ Len(frames') = Len(frames) + 1
      /\ \A i \in DOMAIN frames : frames'[i] = frames[i]
      /\ frames'[Len(frames) + 1] = f
      /\ Elems(frames') = Elems(frames) \cup {f}
  BY <1>1, <1>2, <1>3, ElemsAppend
<1>5. Elems(inHand) = {f} /\ Elems(inHand') = {}
  BY <1>1, <1>2 DEF Elems
<1>6. Memory' = Memory /\ Current' = Current
  BY <1>1, <1>4, <1>5 DEF Memory, Current, Elems
<1>7. CaptureTypeOK'
  BY <1>1, <1>4 DEF CaptureTypeOK
<1>8. InOrder(frames)'
  <2>1. SUFFICES ASSUME NEW i \in DOMAIN frames', NEW j \in DOMAIN frames', i < j
                 PROVE /\ frames'[i].no < frames'[j].no
                       /\ frames'[i].fields = frames'[j].fields
    BY DEF InOrder
  <2>2. i \in DOMAIN frames /\ (j \in DOMAIN frames \/ j = Len(frames) + 1)
    BY <1>3, <1>4, <2>1
  <2>3. CASE j \in DOMAIN frames
    BY <1>4, <2>1, <2>2, <2>3 DEF MemoryOK, InOrder
  <2>4. CASE j = Len(frames) + 1
    <3>1. frames[i] \in Elems(frames) /\ f \in Elems(inHand)
      BY <1>5, <2>2 DEF Elems
    <3> QED BY <1>4, <2>2, <2>4, <3>1 DEF MemoryOK, Memory
  <2> QED BY <2>2, <2>3, <2>4
<1>9. MemoryOK'
  <2>1. OneStray(Memory', Current', failed')
    BY <1>1, <1>6 DEF MemoryOK, OneStray
  <2>2. \A g \in Memory' : /\ g.no <= frameNo' /\ g.episode <= Current'
                           /\ g.fields = Converted(topics)
    BY <1>1, <1>6 DEF MemoryOK
  <2> QED BY <1>1, <1>5, <1>8, <2>1, <2>2 DEF MemoryOK, Converted, ArmTopics, Elems
<1>10. FilesOK'
  BY <1>1, <1>5, FilesKeep DEF CaptureTypeOK, Elems
<1>11. Apart'
  BY <1>1, <1>4, <1>5, ApartKeep DEF Elems
<1> QED BY <1>7, <1>9, <1>10, <1>11

-----------------------------------------------------------------------------
\* A step of the web server that leaves list, hand and files alone: the episode
\* being saved was the current one, and what it leaves becomes lost if it fails.
LEMMA WebKeeps ==
  ASSUME EpisodeInv, StartEpisodes \/ SaveEpisodes \/ SaveFails
  PROVE EpisodeInv'
<1> USE DEF EpisodeInv
<1>1. /\ UNCHANGED <<up, topics, frames, inHand, files, frameNo>> /\ up
      /\ failed \subseteq failed'
  BY DEF StartEpisodes, SaveEpisodes, SaveFails
<1>2. UNCHANGED Memory
  BY <1>1 DEF Memory, Elems
<1>3. CaptureTypeOK'
  <2>1. stopped' \in BOOLEAN
    BY Zenon DEF CaptureTypeOK, StartEpisodes, SaveEpisodes, SaveFails
  <2>2. saves' \in Nat /\ saving' \in {"none", "count", "dump", "clear"}
    BY DEF CaptureTypeOK, StartEpisodes, SaveEpisodes, SaveFails
  <2> QED BY <1>1, <2>1, <2>2 DEF CaptureTypeOK
<1>4. /\ Current \in Nat /\ Current' \in Nat /\ Current <= Current'
      /\ saving' # "none" => stopped'
      /\ Current' # Current => saves \in failed' /\ Current = saves /\ Current' = saves + 1
  BY <1>1 DEF Current, CaptureTypeOK, StartEpisodes, SaveEpisodes, SaveFails
<1>5. \A f \in Memory : f.episode \in Nat
  BY MemoryFrames
<1>6. MemoryOK'
  <2>1. \A f \in Memory : f.episode <= Current' /\ (f.episode < Current' => f.episode < Current \/ f.episode \in failed')
    BY <1>4, <1>5 DEF MemoryOK, CaptureTypeOK
  <2>2. OneStray(Memory', Current', failed')
    BY <1>1, <1>2, <2>1 DEF MemoryOK, OneStray
  <2> QED BY <1>1, <1>2, <1>4, <2>1, <2>2 DEF MemoryOK, InOrder, Elems, Converted, ArmTopics
<1>7. FilesOK'
  BY <1>1, FilesKeep DEF CaptureTypeOK, Elems
<1>8. saving' # "dump" /\ saving # "clear"
  BY DEF StartEpisodes, SaveEpisodes, SaveFails
<1>9. Apart'
  BY <1>1, <1>8, ApartKeep DEF Elems
<1> QED BY <1>3, <1>6, <1>7, <1>9

\* The list as it is goes to a file, whole or not; at most one frame of it is
\* of an episode before the one being saved, unless of one whose save failed.
LEMMA CountAndOpenKeeps ==
  ASSUME EpisodeInv, CountAndOpen
  PROVE EpisodeInv'
<1> USE DEF EpisodeInv
<1> DEFINE new == [whole |-> FALSE, frames |-> frames]
<1>1. /\ UNCHANGED <<up, topics, stopped, frames, inHand, frameNo, saves, failed>>
      /\ saving = "count" /\ saving' = "dump" /\ up
      /\ files' = [n \in DOMAIN files \cup {target'} |->
                    IF n = target' THEN new ELSE files[n]]
  BY DEF CountAndOpen
<1>2. /\ DOMAIN files' = DOMAIN files \cup {target'} /\ files'[target'] = new
      /\ \A n \in DOMAIN files \ {target'} : files'[n] = files[n]
  BY <1>1
<1>3. new \in File /\ new.frames = frames /\ new.whole = FALSE
  BY DEF File, CaptureTypeOK
<1> HIDE DEF new
<1>4. UNCHANGED <<Memory, Current>>
  BY <1>1 DEF Memory, Current, Elems
<1>5. files' \in [DOMAIN files' -> File]
  BY <1>1, <1>2, <1>3 DEF CaptureTypeOK
<1>6. CaptureTypeOK'
  BY <1>1, <1>5 DEF CaptureTypeOK
<1>7. MemoryOK'
  BY <1>1, <1>4 DEF MemoryOK, InOrder, OneStray, Elems, Converted, ArmTopics
<1>8. FileOK(frames, failed, Elems(inHand), frameNo)
  <2>1. \A f \in Elems(frames) : f \in Memory /\ f.episode \in Nat /\ f.no \in Nat
    BY MemoryFrames DEF Memory
  <2>2. OneStray(Elems(frames), frames[Len(frames)].episode, failed)
    <3>1. CASE Len(frames) = 0
      BY <3>1 DEF CaptureTypeOK, Elems, OneStray
    <3>2. CASE Len(frames) # 0
      <4>1. frames[Len(frames)] \in Elems(frames)
        BY <3>2 DEF CaptureTypeOK, Elems
      <4>2. frames[Len(frames)].episode <= Current /\ frames[Len(frames)].episode \in Nat
            /\ Current \in Nat
        BY <2>1, <4>1 DEF MemoryOK, Current, CaptureTypeOK
      <4>3. OneStray(Memory, Current, failed)
        BY DEF MemoryOK
      <4> QED BY <2>1, <4>2, <4>3 DEF OneStray
    <3> QED BY <3>1, <3>2
  <2>3. Elems(frames) \cap Elems(inHand) = {}
    BY <2>1 DEF MemoryOK
  <2> QED BY <2>1, <2>2, <2>3 DEF FileOK, MemoryOK
<1>9. FilesOK'
  <2> SUFFICES ASSUME NEW n \in DOMAIN files'
               PROVE FileOK(files'[n].frames, failed, Elems(inHand), frameNo)
    BY <1>1 DEF FilesOK, Elems
  <2>1. CASE n = target'
    BY <1>2, <1>3, <1>8, <2>1
  <2>2. CASE n # target'
    BY <1>2, <2>2 DEF FilesOK
  <2> QED BY <2>1, <2>2
<1>10. Apart'
  <2>1. Whole' \subseteq Whole /\ Whole \subseteq DOMAIN files /\ target' \notin Whole'
        /\ \A n \in Whole' : files'[n] = files[n]
    BY <1>2, <1>3 DEF Whole
  <2>2. \A n \in Whole' : FramesOf(n)' = FramesOf(n)
    BY <2>1 DEF FramesOf
  <2>3. FramesOf(target)' = Elems(frames) /\ Elems(frames)' = Elems(frames)
    BY <1>1, <1>2, <1>3 DEF FramesOf, Elems
  <2> QED BY <1>1, <1>2, <2>1, <2>2, <2>3 DEF Apart
<1> QED BY <1>6, <1>7, <1>9, <1>10

\* What the file holds is the list's, so it shares no frame with a whole file.
LEMMA DumpKeeps ==
  ASSUME EpisodeInv, Dump
  PROVE EpisodeInv'
<1> USE DEF EpisodeInv
<1>1. /\ UNCHANGED <<up, topics, stopped, frames, inHand, target, frameNo, saves, failed>>
      /\ saving = "dump" /\ saving' = "clear" /\ up
      /\ files' = [files EXCEPT ![target].whole = TRUE]
  BY DEF Dump
<1>2. target \in DOMAIN files /\ FramesOf(target) \subseteq Elems(frames)
  BY <1>1 DEF Apart
<1>3. files[target] \in File /\ files \in [DOMAIN files -> File]
  BY <1>2 DEF CaptureTypeOK
<1>4. [files[target] EXCEPT !.whole = TRUE] \in File
      /\ [files[target] EXCEPT !.whole = TRUE].frames = files[target].frames
  BY <1>3 DEF File
<1>5. /\ files' \in [DOMAIN files -> File] /\ DOMAIN files' = DOMAIN files
      /\ \A n \in DOMAIN files : files'[n].frames = files[n].frames
      /\ \A n \in DOMAIN files \ {target} : files'[n] = files[n]
  BY <1>1, <1>2, <1>3, <1>4
<1>6. UNCHANGED <<Memory, Current>> /\ Elems(frames)' = Elems(frames)
      /\ Elems(inHand)' = Elems(inHand)
  BY <1>1 DEF Memory, Current, Elems
<1>7. CaptureTypeOK'
  BY <1>1, <1>5 DEF CaptureTypeOK
<1>8. MemoryOK'
  BY <1>1, <1>6 DEF MemoryOK, InOrder, OneStray, Elems, Converted, ArmTopics
<1>9. FilesOK'
  BY <1>1, <1>5, <1>6 DEF FilesOK
<1>10. Apart'
  <2>1. Whole' \subseteq Whole \cup {target} /\ Whole \subseteq DOMAIN files
    BY <1>5 DEF Whole
  <2>2. \A n \in DOMAIN files : FramesOf(n)' = FramesOf(n)
    BY <1>5 DEF FramesOf
  <2>3. \A n \in Whole : FramesOf(n) \cap Elems(frames) = {}
    BY <1>1 DEF Apart
  <2>4. \A m, n \in Whole' : m # n => FramesOf(m)' \cap FramesOf(n)' = {}
    BY <1>2, <2>1, <2>2, <2>3 DEF Apart
  <2>5. \A n \in Whole' : n # target' => FramesOf(n)' \cap Elems(frames)' = {}
    BY <1>1, <1>6, <2>1, <2>2, <2>3
  <2> QED BY <1>1, <2>4, <2>5 DEF Apart
<1> QED BY <1>7, <1>8, <1>9, <1>10

\* All that survives the clearing is the one frame in hand.
LEMMA ClearKeeps ==
  ASSUME EpisodeInv, Clear
  PROVE EpisodeInv'
<1> USE DEF EpisodeInv
<1>1. /\ UNCHANGED <<up, topics, stopped, inHand, files, frameNo, saves, failed>>
      /\ frames' = <<>> /\ saving = "clear" /\ saving' = "none" /\ up
  BY DEF Clear
<1>2. Elems(frames)' = {} /\ Elems(inHand)' = Elems(inHand) /\ Memory' = Elems(inHand)
      /\ Elems(inHand) \subseteq Memory
  BY <1>1 DEF Memory, Elems
<1>3. CaptureTypeOK'
  BY <1>1 DEF CaptureTypeOK
<1>4. MemoryOK'
  <2>1. Current = saves /\ Current' = saves + 1
    BY <1>1 DEF Current
  <2>2. \A f \in Memory : f.episode \in Nat
    BY MemoryFrames
  <2>3. \A f \in Memory' : f.no <= frameNo /\ f.fields = Converted(topics)
                          /\ f.episode <= Current'
    BY <1>2, <2>1, <2>2 DEF MemoryOK, CaptureTypeOK
  <2>4. \A f, g \in Elems(inHand) : f = g
    BY DEF CaptureTypeOK, Elems
  <2>5. OneStray(Memory', Current', failed')
    BY <1>2, <2>4 DEF OneStray
  <2> QED BY <1>1, <1>2, <2>3, <2>5 DEF MemoryOK, InOrder, Converted, ArmTopics
<1>5. FilesOK'
  BY <1>1, <1>2, FilesKeep DEF CaptureTypeOK
<1>6. Apart'
  BY <1>1, <1>2, ApartKeep
<1> QED BY <1>3, <1>4, <1>5, <1>6

\* The launcher's steps, and those that do nothing.
LEMMA EpisodesUntouched ==
  ASSUME EpisodeInv, UNCHANGED recorderVars
  PROVE EpisodeInv'
<1> USE DEF EpisodeInv
<1>1. UNCHANGED <<up, topics, stopped, frames, inHand, saving, files, target, frameNo,
                  saves, failed>>
  BY DEF recorderVars
<1>2. UNCHANGED <<Memory, Current>> /\ Elems(frames)' = Elems(frames)
      /\ Elems(inHand)' = Elems(inHand)
  BY <1>1 DEF Memory, Current, Elems
<1>3. CaptureTypeOK'
  BY <1>1 DEF CaptureTypeOK
<1>4. MemoryOK'
  BY <1>1, <1>2 DEF MemoryOK, InOrder, OneStray, Elems, Converted, ArmTopics
<1>5. FilesOK'
  BY <1>1, <1>2 DEF FilesOK
<1>6. Apart'
  BY <1>1, <1>2, ApartKeep
<1> QED BY <1>3, <1>4, <1>5, <1>6

\* Memory and files keep the episodes apart, however the callback's append and
\* the steps of a save fall between each other.
THEOREM EpisodeInvHolds == CaptureSpec => []EpisodeInv
<1>1. CaptureInit => EpisodeInv
  <2> SUFFICES ASSUME RecorderInit PROVE EpisodeInv
    BY DEF CaptureInit
  <2>1. /\ ~up /\ topics = {} /\ stopped /\ frames = <<>> /\ inHand = <<>> /\ saving = "none"
        /\ files = <<>> /\ frameNo = 0 /\ saves = 0
    BY DEF RecorderInit
  <2>2. Memory = {} /\ DOMAIN files = {} /\ Whole = {}
    BY <2>1 DEF Memory, Elems, Whole
  <2>3. CaptureTypeOK
    <3>1. <<>> \in Seq(Frame) /\ <<>> \in Seq(File)
      OBVIOUS
    <3>2. files \in [DOMAIN files -> File]
      BY <2>1, <3>1
    <3>3. up \in BOOLEAN /\ stopped \in BOOLEAN
      BY Zenon DEF RecorderInit
    <3> QED BY <2>1, <3>1, <3>2, <3>3 DEF CaptureTypeOK
  <2> QED BY <2>1, <2>2, <2>3 DEF EpisodeInv, MemoryOK, InOrder, OneStray, FilesOK, Apart,
                                  Elems, Memory
<1>2. LauncherInv /\ EpisodeInv /\ [CaptureNext]_cvars => EpisodeInv'
  <2> SUFFICES ASSUME LauncherInv, EpisodeInv, [CaptureNext]_cvars
               PROVE EpisodeInv'
    OBVIOUS
  <2>1. CASE UNCHANGED recorderVars
    BY <2>1, EpisodesUntouched
  <2>2. CASE RecorderNext
    BY <2>2, ProcessKeeps, ReceiveKeeps, AppendFrameKeeps, WebKeeps, CountAndOpenKeeps,
       DumpKeeps, ClearKeeps DEF RecorderNext
  <2> QED BY <2>1, <2>2 DEF CaptureNext, cvars
<1> QED BY <1>1, <1>2, LauncherInvHolds, PTL DEF CaptureSpec

\* Whatever two threads without a common lock do to the flag and the list, a
\* whole file holds the frames of its own episode, in their order and with the
\* same fields, of an earlier one at most the frame that its save overtook, and
\* no frame of another whole file (DataRecorder.callback, save_episodes, save).
THEOREM EpisodesApartHolds == CaptureSpec => []EpisodesApart
<1>1. EpisodeInv => EpisodesApart
  <2> SUFFICES ASSUME EpisodeInv, NEW n \in Whole
               PROVE LET own == files[n].frames[Len(files[n].frames)].episode
                         strays == {f \in FramesOf(n) : f.episode < own /\ f.episode \notin failed}
                     IN /\ Cardinality(strays) <= 1
                        /\ \A i, j \in DOMAIN files[n].frames : i < j =>
                             /\ files[n].frames[i].no < files[n].frames[j].no
                             /\ files[n].frames[i].fields = files[n].frames[j].fields
                        /\ \A m \in Whole \ {n} : FramesOf(m) \cap FramesOf(n) = {}
    BY DEF EpisodesApart
  <2> DEFINE own == files[n].frames[Len(files[n].frames)].episode
             strays == {f \in FramesOf(n) : f.episode < own /\ f.episode \notin failed}
  <2>1. FileOK(files[n].frames, failed, Elems(inHand), frameNo)
    BY DEF EpisodeInv, FilesOK, Whole
  <2>2. \A f, g \in strays : f = g
    BY <2>1 DEF FileOK, OneStray, FramesOf, Elems
  <2>3. Cardinality(strays) <= 1
    <3> HIDE DEF strays
    <3>1. CASE strays = {}
      BY <3>1, FS_EmptySet
    <3>2. CASE strays # {}
      <4>1. PICK f : strays = {f}
        BY <2>2, <3>2
      <4> QED BY <4>1, FS_Singleton
    <3> QED BY <3>1, <3>2
  <2>4. \A i, j \in DOMAIN files[n].frames : i < j =>
          /\ files[n].frames[i].no < files[n].frames[j].no
          /\ files[n].frames[i].fields = files[n].frames[j].fields
    BY <2>1 DEF FileOK, InOrder
  <2>5. \A m \in Whole \ {n} : FramesOf(m) \cap FramesOf(n) = {}
    BY DEF EpisodeInv, Apart
  <2> QED BY <2>3, <2>4, <2>5
<1> QED BY <1>1, EpisodeInvHolds, PTL
=============================================================================
