------------------------------ MODULE PklProofs ------------------------------
(***************************************************************************)
(* The recorder keeps every episode in one file, and the replay sends what *)
(* a file holds in its order and ends with the stop, for every number of   *)
(* episodes, frames, restarts and signals and every command line.          *)
(***************************************************************************)
EXTENDS PklProps, FiniteSetTheorems, TLAPS

USE RecorderAssumption, ReplayAssumption

Data == Nat \X Nat
SaveSteps == {"none", "reset", "path", "write", "written"}
Mains == {"exited", "top", "spin", "append", "duration", "closing", "shutdown", "leaving"}

Save == [at : SaveSteps, path : Nat \cup {OutputFile}, payload : Seq(Data)]

\* What the recorder's variables hold. An episode has been started where there
\* are frames to append, and one can be started where one is asked for.
RecorderTypeOK ==
  /\ recording \in BOOLEAN /\ pending \in BOOLEAN
  /\ frames \in Seq(Data) /\ counter \in Nat
  /\ lock \in {"free", "main", "keyboard"}
  /\ main \in Mains /\ handler \in {"none", "save"}
  /\ save \in [Savers -> Save]
  /\ files \in [Paths -> {NoFile, Partial} \cup Seq(Data)]
  /\ episode \in 0..MaxEpisodes /\ sampled \in [Episodes -> Nat]
  /\ recording \/ main = "append" => episode # 0
  /\ pending => episode < MaxEpisodes

-----------------------------------------------------------------------------
(* The order a save goes by, until a signal is handled inside one.         *)

Idle == \A x \in Savers : save[x].at = "none"

\* One caller saves at a time, with the lock, and not while a frame is sampled.
OneSaves ==
  /\ lock = "free" => Idle /\ main # "append"
  /\ lock = "main" => \/ main = "append" /\ Idle
                      \/ save["main"].at # "none" /\ main # "append"
                      \/ save["handler"].at # "none" /\ main # "append"
  /\ lock = "keyboard" => save["keyboard"].at # "none" /\ main # "append"
  /\ save["handler"].at # "none" => handler = "save"
  /\ \A x, y \in Savers : save[x].at # "none" /\ save[y].at # "none" => x = y
  /\ \A x \in Savers : save[x].at # "none" => lock = Thread(x) /\ ~recording
  /\ main = "append" => recording
  /\ main = "exited" => Idle /\ ~recording /\ frames = <<>> /\ lock = "free"

\* Frames in memory are the current episode's, all of them. A new episode is
\* only asked for when none is left that a save could not write, or too late.
InMemory ==
  /\ recording \/ ~Idle \/ frames # <<>> => frames = Whole(episode) /\ episode # 0
  /\ pending => ~recording /\ Idle
  /\ Idle /\ ~recording /\ frames # <<>> =>
       keyboard = "dead" \/ main \in {"closing", "shutdown", "leaving"}
  /\ pending /\ frames # <<>> => main \in {"closing", "shutdown", "leaving"}
  /\ \A e \in Episodes : e > episode => sampled[e] = 0

\* The numbers are taken without a gap, and no numbered file is written while
\* --output-file is in use. Otherwise those below the counter are taken and the
\* ones above it are free; the counter's own has at most a file a save has begun,
\* or written.
Taken(n) == files[n] # NoFile
Numbered ==
  IF main = "exited" \/ outfile
  THEN \E m \in 0..episode : \A n \in Numbers : Taken(n) <=> n < m
  ELSE /\ counter <= episode
       /\ recording \/ ~Idle \/ frames # <<>> => counter < episode
       /\ \A n \in Numbers :
            /\ n < counter => Taken(n)
            /\ n > counter => ~Taken(n)
            /\ n = counter /\ Taken(n) =>
                 /\ counter < episode
                 /\ files[n] = Partial \/ \E x \in Savers : save[x].at = "written"

\* Each save writes what is in memory to the file it has chosen.
SavesMemory ==
  \A x \in Savers :
    /\ save[x].at \in {"path", "write", "written"} => save[x].path = OutputPath
    /\ save[x].at \in {"write", "written"} => save[x].payload = frames
    /\ save[x].at = "write" => files[OutputPath] = Partial
    /\ save[x].at = "written" => files[OutputPath] = frames

\* The current episode may be in a file: it gets no frame any more.
Settled ==
  ~recording /\ (frames = <<>> \/ \E x \in Savers : save[x].at = "written")

\* A whole file is one episode's; no two hold the same.
OneFileEach ==
  /\ \A p \in Paths : files[p] \notin {NoFile, Partial} =>
       \E e \in 1..episode : files[p] = Whole(e) /\ (e = episode => Settled)
  /\ \A e \in 1..episode : sampled[e] > 0 =>
       \A p, q \in Paths : files[p] = Whole(e) /\ files[q] = Whole(e) => p = q

\* No episode is lost but for the reasons given.
NoneLost ==
  \A e \in (1..episode) \ dropped : sampled[e] > 0 =>
    (e = episode /\ frames = Whole(e)) \/ \E p \in Paths : files[p] = Whole(e)

InOrder ==
  OneSaves /\ InMemory /\ Numbered /\ SavesMemory /\ OneFileEach /\ NoneLost

RecorderInv == RecorderTypeOK /\ (~nested => InOrder)

-----------------------------------------------------------------------------
(* The frames of an episode                                                *)

LEMMA WholeIsData ==
  ASSUME RecorderTypeOK, NEW e \in Episodes
  PROVE /\ Whole(e) \in Seq(Data) /\ Len(Whole(e)) = sampled[e]
        /\ Whole(e) \notin {NoFile, Partial}
        /\ Whole(e) = <<>> <=> sampled[e] = 0
        /\ \A i \in 1..sampled[e] : Whole(e)[i] = <<e, i>>
<1>1. sampled[e] \in Nat /\ e \in Nat
  BY DEF RecorderTypeOK, Episodes
<1>2. Whole(e) \in [1..sampled[e] -> Data]
  BY <1>1 DEF Whole, Data
<1>3. Whole(e) \in Seq(Data) /\ Len(Whole(e)) = sampled[e]
  BY <1>1, <1>2
<1>4. Whole(e) = <<>> <=> sampled[e] = 0
  BY <1>1, <1>3
<1>5. \A i \in 1..sampled[e] : Whole(e)[i] = <<e, i>>
  BY DEF Whole
<1> QED BY <1>3, <1>4, <1>5 DEF Data

LEMMA WholeDiffers ==
  ASSUME RecorderTypeOK, NEW e \in Episodes, NEW f \in Episodes,
         sampled[e] > 0, Whole(e) = Whole(f)
  PROVE e = f
<1>1. sampled[e] = sampled[f] /\ sampled[e] \in Nat
  BY WholeIsData DEF RecorderTypeOK
<1>2. Whole(e)[1] = <<e, 1>> /\ Whole(f)[1] = <<f, 1>>
  BY <1>1, WholeIsData
<1> QED BY <1>2

LEMMA NumbersAreNat == Numbers \subseteq Nat /\ OutputFile \notin Numbers
<1>1. MaxEpisodes + 2 * MaxSignals \in Int
  OBVIOUS
<1> QED BY <1>1 DEF Numbers

\* The fields of the record of a save.
LEMMA SaveAt ==
  ASSUME NEW r \in Save, NEW a \in SaveSteps
  PROVE /\ [r EXCEPT !.at = a] \in Save /\ [r EXCEPT !.at = a].at = a
        /\ [r EXCEPT !.at = a].path = r.path /\ [r EXCEPT !.at = a].payload = r.payload
BY DEF Save

LEMMA SavePath ==
  ASSUME NEW r \in Save, NEW a \in SaveSteps, NEW p \in Nat \cup {OutputFile}
  PROVE /\ [r EXCEPT !.at = a, !.path = p] \in Save
        /\ [r EXCEPT !.at = a, !.path = p].at = a
        /\ [r EXCEPT !.at = a, !.path = p].path = p
BY DEF Save

LEMMA SavePayload ==
  ASSUME NEW r \in Save, NEW a \in SaveSteps, NEW q \in Seq(Data)
  PROVE /\ [r EXCEPT !.at = a, !.payload = q] \in Save
        /\ [r EXCEPT !.at = a, !.payload = q].at = a
        /\ [r EXCEPT !.at = a, !.payload = q].path = r.path
        /\ [r EXCEPT !.at = a, !.payload = q].payload = q
BY DEF Save

LEMMA NoSaveIsSave == NoSave \in Save /\ NoSave.at = "none"
BY DEF NoSave, Save, SaveSteps

-----------------------------------------------------------------------------
(* Types                                                                   *)

LEMMA FinishType ==
  ASSUME RecorderTypeOK, NEW x \in Savers, Finish(x)
  PROVE RecorderTypeOK'
<1> USE DEF RecorderTypeOK
<1>0. Returned(x) => handler' \in {"none", "save"} /\ main' \in Mains
  BY DEF Returned, Mains
<1>9. /\ "reset" \in SaveSteps /\ "path" \in SaveSteps /\ "write" \in SaveSteps
      /\ "written" \in SaveSteps
  BY DEF SaveSteps
<1>1. CASE FinishNothing(x)
  <2>1. UNCHANGED <<recording, frames, counter, lock, save, files, episode, sampled>>
        /\ pending' = FALSE
    BY <1>1 DEF FinishNothing, history
  <2>2. Returned(x)
    BY <1>1 DEF FinishNothing
  <2> QED BY <1>0, <2>1, <2>2 DEF Returned
<1>2. CASE FinishBegins(x)
  <2>1. /\ UNCHANGED <<frames, counter, main, handler, files, episode, sampled>>
        /\ recording' = FALSE /\ pending' = FALSE
        /\ lock' \in {"free", "main", "keyboard"}
    BY <1>2 DEF FinishBegins, Thread
  <2>2. save' = [save EXCEPT ![x] = [save[x] EXCEPT !.at = "reset"]]
    BY <1>2 DEF FinishBegins
  <2>3. save' \in [Savers -> Save]
    BY <2>2, <1>9, SaveAt
  <2> QED BY <2>1, <2>3
<1>3. CASE ChoosePath(x)
  <2>1. /\ UNCHANGED <<recording, pending, frames, counter, lock, main, handler, files,
                       episode, sampled>>
        /\ save' = [save EXCEPT ![x] = [save[x] EXCEPT !.at = "path",
                                                          !.path = OutputPath]]
    BY <1>3 DEF ChoosePath, node, history
  <2>2. OutputPath \in Nat \cup {OutputFile}
    BY DEF OutputPath
  <2>3. save' \in [Savers -> Save]
    BY <2>1, <2>2, <1>9, SavePath
  <2> QED BY <2>1, <2>3
<1>4. CASE OpenFile(x)
  <2>1. /\ UNCHANGED <<recording, pending, frames, counter, lock, main, handler, episode, sampled>>
        /\ save' = [save EXCEPT ![x] = [save[x] EXCEPT !.at = "write", !.payload = frames]]
        /\ files' = [files EXCEPT ![save[x].path] = Partial]
    BY <1>4 DEF OpenFile, node, history
  <2>2. save' \in [Savers -> Save]
    BY <2>1, <1>9, SavePayload
  <2> QED BY <2>1, <2>2
<1>5. CASE Dump(x)
  <2>1. /\ UNCHANGED <<recording, pending, frames, counter, lock, main, handler, episode, sampled>>
        /\ save' = [save EXCEPT ![x] = [save[x] EXCEPT !.at = "written"]]
    BY <1>5 DEF Dump, node, history
  <2>2. save' \in [Savers -> Save]
    BY <2>1, <1>9, SaveAt
  <2>3. PICK c \in {save[x].payload} \cup {Partial} :
          files' = [files EXCEPT ![save[x].path] = c]
    BY <1>5 DEF Dump
  <2>4. c \in {NoFile, Partial} \cup Seq(Data)
    BY DEF Save
  <2> QED BY <2>1, <2>2, <2>3, <2>4
<1>6. CASE Saved(x)
  <2>1. /\ UNCHANGED <<recording, pending, files, episode, sampled>>
        /\ frames' = <<>> /\ counter' = counter + 1 /\ Returned(x)
        /\ save' = [save EXCEPT ![x] = NoSave] /\ lock' \in {"free", "main"}
    BY <1>6 DEF Saved, history, Unlocked
  <2>2. save' \in [Savers -> Save] /\ frames' \in Seq(Data)
    BY <2>1, NoSaveIsSave
  <2>3. main' = "append" => main = "append"
    BY <2>1 DEF Returned
  <2> QED BY <1>0, <2>1, <2>2, <2>3
<1>7. CASE SaveFails(x)
  <2>1. /\ UNCHANGED <<recording, pending, frames, counter, files, episode, sampled>>
        /\ lock' = "free" /\ handler' \in {"none", "save"} /\ main' \in Mains
        /\ main' = "append" => main = "append"
    BY <1>7 DEF SaveFails, node, history, Mains
  <2>2. save' \in [Savers -> Save]
    BY <1>7, NoSaveIsSave DEF SaveFails, Savers
  <2> QED BY <2>1, <2>2
<1> QED BY <1>1, <1>2, <1>3, <1>4, <1>5, <1>6, <1>7 DEF Finish

LEMMA MainType ==
  ASSUME RecorderTypeOK, MainThread \/ Killed
  PROVE RecorderTypeOK'
<1> USE DEF RecorderTypeOK
<1>1. CASE Loop \/ SpinReturns \/ Close
  BY <1>1 DEF Loop, SpinReturns, Close, node, history, Mains
<1>2. CASE SampleStarts
  <2>1. /\ pending' = FALSE /\ recording' = TRUE /\ frames' = <<>> /\ pending
        /\ episode' = episode + 1 /\ main' = "append" /\ lock' = "main"
        /\ UNCHANGED <<counter, handler, save, files, sampled>>
    BY <1>2 DEF SampleStarts
  <2>2. frames' \in Seq(Data)
    BY <2>1
  <2>4. recording' \in BOOLEAN /\ pending' \in BOOLEAN
    BY <2>1, Zenon
  <2>3. episode' \in 0..MaxEpisodes /\ episode' # 0
    BY <2>1
  <2> QED BY <2>1, <2>2, <2>3, <2>4 DEF Mains
<1>3. CASE Sample
  BY <1>3 DEF Sample, node, history, Mains
<1>4. CASE AppendFrame
  <2>1. /\ main = "append" /\ main' = "top" /\ lock' = "free"
        /\ sampled' = [sampled EXCEPT ![episode] = sampled[episode] + 1]
        /\ frames' = Append(frames, <<episode, sampled'[episode]>>)
        /\ UNCHANGED <<recording, pending, counter, handler, save, files, episode>>
    BY <1>4 DEF AppendFrame
  <2>2. episode \in Episodes
    BY <2>1 DEF Episodes
  <2>3. sampled' \in [Episodes -> Nat] /\ <<episode, sampled'[episode]>> \in Data
    BY <2>1, <2>2 DEF Data, Episodes
  <2>4. frames' \in Seq(Data)
    BY <2>1, <2>3
  <2> QED BY <2>1, <2>3, <2>4 DEF Mains
<1>5. CASE DurationReached
  <2>1. /\ recording' = FALSE /\ pending' = FALSE /\ main' = "duration" /\ lock' = "main"
        /\ save' = [save EXCEPT !["main"] = [save["main"] EXCEPT !.at = "reset"]]
        /\ UNCHANGED <<frames, counter, handler, files, episode, sampled>>
    BY <1>5 DEF DurationReached, history
  <2>2. save' \in [Savers -> Save]
    BY <2>1, SaveAt DEF SaveSteps, Savers
  <2> QED BY <2>1, <2>2 DEF Mains
<1>6. CASE Exits
  <2>1. /\ recording' = FALSE /\ pending' = FALSE /\ frames' = <<>> /\ counter' = 0
        /\ main' = "exited" /\ handler' = "none" /\ lock' = "free"
        /\ save' = [x \in Savers |-> NoSave]
        /\ UNCHANGED <<files, episode, sampled>>
    BY <1>6 DEF Exits
  <2>2. frames' \in Seq(Data)
    BY <2>1
  <2>4. recording' \in BOOLEAN /\ pending' \in BOOLEAN
    BY <2>1, Zenon
  <2>3. save' \in [Savers -> Save]
    BY <2>1, NoSaveIsSave
  <2> QED BY <2>1, <2>2, <2>3, <2>4 DEF Mains
<1> QED BY <1>1, <1>2, <1>3, <1>4, <1>5, <1>6 DEF MainThread, Killed, Leave

LEMMA OtherType ==
  ASSUME RecorderTypeOK, Start \/ Signal \/ Keyboard
  PROVE RecorderTypeOK'
<1> USE DEF RecorderTypeOK
<1>1. CASE Start
  <2> DEFINE taken == {n \in Numbers : files[n] # NoFile}
  <2>1. /\ recording' \in BOOLEAN /\ pending' = FALSE /\ frames' = <<>>
        /\ counter' = Cardinality(taken)
        /\ lock' = "free" /\ main' = "top" /\ handler' = "none"
        /\ UNCHANGED <<save, files, sampled>>
    BY <1>1 DEF Start, Boot
  <2>2. counter' \in Nat
    <3>1. MaxEpisodes + 2 * MaxSignals \in Int
      OBVIOUS
    <3>2. IsFiniteSet(Numbers)
      BY <3>1, FS_Interval DEF Numbers
    <3>3. IsFiniteSet(taken)
      BY <3>2, FS_Subset
    <3> HIDE DEF taken
    <3> QED BY <2>1, <3>3, FS_CardinalityType
  <2>3. episode' \in 0..MaxEpisodes /\ (recording' => episode' # 0)
    <3>1. recording' => episode < MaxEpisodes
      BY <1>1, Zenon DEF Start, Boot
    <3>2. episode' = IF recording' THEN episode + 1 ELSE episode
      BY <1>1 DEF Start, Boot
    <3> QED BY <3>1, <3>2
  <2> HIDE DEF taken
  <2>4. frames' \in Seq(Data)
    BY <2>1
  <2>5. pending' \in BOOLEAN
    BY <2>1, Zenon
  <2> QED BY <2>1, <2>2, <2>3, <2>4, <2>5 DEF Mains
<1>2. CASE Signal
  BY <1>2 DEF Signal, node, history
<1>3. CASE KeyLoop \/ KeySave \/ KeyQuit
  BY <1>3 DEF KeyLoop, KeySave, KeyQuit, node, history
<1>4. CASE KeyStart
  BY <1>4 DEF KeyStart, history
<1>5. CASE KeyDiscard
  <2>1. frames' \in Seq(Data)
    BY <1>5 DEF KeyDiscard
  <2>2. recording' \in BOOLEAN /\ pending' \in BOOLEAN
    BY <1>5, Zenon DEF KeyDiscard
  <2> QED BY <1>5, <2>1, <2>2 DEF KeyDiscard
<1> QED BY <1>1, <1>2, <1>3, <1>4, <1>5 DEF Keyboard

LEMMA RecorderType ==
  ASSUME RecorderTypeOK, RecorderNext
  PROVE RecorderTypeOK'
BY FinishType, MainType, OtherType DEF RecorderNext

-----------------------------------------------------------------------------
(* Steps that move no frame                                                *)

LEMMA Exclusive ==
  ASSUME OneSaves, NEW x \in Savers, save[x].at # "none"
  PROVE /\ lock = Thread(x) /\ ~recording /\ main \notin {"append", "exited"}
        /\ \A y \in Savers \ {x} : save[y].at = "none"
        /\ x = "handler" => handler = "save"
BY DEF OneSaves, Idle

\* Who finds the lock free, or begins a save that is not inside another, begins
\* with no other at it.
LEMMA BeginsAlone ==
  ASSUME RecorderTypeOK, OneSaves, NEW x \in Savers, FinishBegins(x), ~nested'
  PROVE lock = "free" /\ Idle /\ main \notin {"append", "exited"}
<1>1. /\ save[x].at = "none" /\ lock \in {"free", Thread(x)}
      /\ main # "exited" /\ (x = "main" => handler = "none" /\ main = "shutdown")
      /\ (x = "handler" => lock # "main")
  BY DEF FinishBegins, Wants, LockOpen, Undisturbed, Savers
<1>2. lock = "free"
  <2>1. CASE x = "keyboard"
    BY <1>1, <2>1 DEF Thread, OneSaves
  <2>2. CASE x = "handler"
    BY <1>1, <2>2 DEF Thread
  <2>3. CASE x = "main"
    BY <1>1, <2>3 DEF Thread, OneSaves
  <2> QED BY <2>1, <2>2, <2>3 DEF Savers
<1> QED BY <1>1, <1>2 DEF OneSaves

LEMMA FilesUntouched ==
  ASSUME OneFileEach, UNCHANGED <<files, episode, sampled>>, Settled => Settled'
  PROVE OneFileEach'
<1>1. \A e : Whole(e)' = Whole(e)
  BY DEF Whole
<1> QED BY <1>1 DEF OneFileEach

LEMMA NothingLost ==
  ASSUME NoneLost, UNCHANGED <<frames, files, episode, sampled>>,
         dropped \subseteq dropped'
  PROVE NoneLost'
<1>1. \A e : Whole(e)' = Whole(e)
  BY DEF Whole
<1> QED BY <1>1 DEF NoneLost

\* The loops of the threads, the keys and the signals, and a save that finds
\* nothing to write.
LEMMA MoveKeeps ==
  ASSUME InOrder,
         UNCHANGED <<recording, frames, counter, lock, save, files, episode, sampled,
                     dropped, outfile>>,
         pending' => pending,
         main' = "append" <=> main = "append", main' = "exited" <=> main = "exited",
         save["handler"].at # "none" => handler' = handler,
         keyboard = "dead" => keyboard' = "dead",
         main \in {"closing", "shutdown", "leaving"} =>
           main' \in {"closing", "shutdown", "leaving"}
  PROVE InOrder'
<1> USE DEF InOrder
<1>1. OneSaves'
  BY DEF OneSaves, Idle
<1>2. InMemory'
  <2>1. Whole(episode)' = Whole(episode) /\ Idle' = Idle
    BY DEF Whole, Idle
  <2> QED BY <2>1 DEF InMemory
<1>3. Numbered'
  <2>1. Idle' = Idle /\ \A n \in Numbers : Taken(n)' = Taken(n)
    BY DEF Idle, Taken
  <2>2. CASE main = "exited" \/ outfile
    BY <2>1, <2>2 DEF Numbered
  <2>3. CASE ~(main = "exited" \/ outfile)
    BY <2>1, <2>3 DEF Numbered
  <2> QED BY <2>2, <2>3
<1>4. SavesMemory'
  BY DEF SavesMemory, OutputPath
<1>5. OneFileEach'
  BY FilesUntouched DEF Settled
<1>6. NoneLost'
  BY NothingLost
<1> QED BY <1>1, <1>2, <1>3, <1>4, <1>5, <1>6

LEMMA LoopsKeep ==
  ASSUME InOrder, Loop \/ SpinReturns \/ Close
  PROVE InOrder'
<1>1. UNCHANGED <<recording, pending, frames, counter, lock, handler, keyboard, save, files,
                  episode, sampled, dropped, outfile>>
  BY DEF Loop, SpinReturns, Close, node, options, history
<1>2. /\ main' \notin {"append", "exited"} /\ main \notin {"append", "exited"}
      /\ main \in {"closing", "shutdown", "leaving"} =>
           main' \in {"closing", "shutdown", "leaving"}
  BY DEF Loop, SpinReturns, Close
<1> QED BY <1>1, <1>2, MoveKeeps

LEMMA SignalKeeps ==
  ASSUME InOrder, Signal
  PROVE InOrder'
<1>1. UNCHANGED <<recording, pending, frames, counter, lock, main, keyboard, save, files,
                  episode, sampled, dropped, outfile>> /\ handler = "none"
  BY DEF Signal, node, options, history
<1>2. save["handler"].at = "none"
  BY <1>1 DEF InOrder, OneSaves
<1> QED BY <1>1, <1>2, MoveKeeps

LEMMA KeysKeep ==
  ASSUME InOrder, KeyLoop \/ KeySave \/ KeyQuit
  PROVE InOrder'
<1>1. UNCHANGED <<recording, pending, frames, counter, lock, main, handler, save, files,
                  episode, sampled, dropped, outfile>>
  BY DEF KeyLoop, KeySave, KeyQuit, node, options, history
<1>2. keyboard # "dead"
  BY DEF KeyLoop, KeySave, KeyQuit
<1> QED BY <1>1, <1>2, MoveKeeps

LEMMA FinishNothingKeeps ==
  ASSUME InOrder, NEW x \in Savers, FinishNothing(x)
  PROVE InOrder'
<1>1. /\ UNCHANGED <<recording, frames, counter, lock, save, files, episode, sampled,
                     dropped, outfile>>
      /\ ~pending' /\ save[x].at = "none" /\ main # "exited" /\ Returned(x)
      /\ x = "main" => main = "shutdown"
      /\ x = "keyboard" => keyboard # "dead"
  BY DEF FinishNothing, options, history, Wants, Undisturbed
<1>2. /\ x = "main" => main' = "leaving" /\ UNCHANGED <<handler, keyboard>>
      /\ x = "handler" => UNCHANGED <<main, keyboard>>
      /\ x = "keyboard" => UNCHANGED <<main, handler>>
  BY <1>1 DEF Returned
<1> QED BY <1>1, <1>2, MoveKeeps DEF Savers

LEMMA KeyStartKeeps ==
  ASSUME InOrder, KeyStart
  PROVE InOrder'
<1> USE DEF InOrder
<1>1. /\ UNCHANGED <<recording, frames, counter, lock, main, handler, save, files, episode,
                     sampled, dropped, outfile>>
      /\ keyboard = "key" /\ lock = "free" /\ ~recording /\ main # "exited"
  BY DEF KeyStart, options, history
<1>2. Idle /\ UNCHANGED Idle
  BY <1>1 DEF OneSaves, Idle
<1>3. \A e : Whole(e)' = Whole(e)
  BY <1>1 DEF Whole
<1>4. frames # <<>> => main \in {"closing", "shutdown", "leaving"}
  BY <1>1, <1>2 DEF InMemory
<1>5. InMemory'
  BY <1>1, <1>2, <1>3, <1>4 DEF InMemory
<1>6. OneSaves'
  BY <1>1, <1>2 DEF OneSaves
<1>7. Numbered'
  BY <1>1, <1>2 DEF Numbered, Taken
<1>8. SavesMemory'
  BY <1>1 DEF SavesMemory, OutputPath
<1>9. OneFileEach' /\ NoneLost'
  BY <1>1, FilesUntouched, NothingLost DEF Settled
<1> QED BY <1>5, <1>6, <1>7, <1>8, <1>9

LEMMA SampleKeeps ==
  ASSUME InOrder, Sample
  PROVE InOrder'
<1> USE DEF InOrder
<1>1. /\ UNCHANGED <<recording, pending, frames, counter, handler, keyboard, save, files,
                     episode, sampled, dropped, outfile>>
      /\ main = "spin" /\ main' = "append" /\ lock = "free" /\ lock' = "main" /\ recording
  BY DEF Sample, node, options, history
<1>2. Idle /\ UNCHANGED Idle
  BY <1>1 DEF OneSaves, Idle
<1>3. \A e : Whole(e)' = Whole(e)
  BY <1>1 DEF Whole
<1>4. OneSaves'
  BY <1>1, <1>2 DEF OneSaves, Idle
<1>5. InMemory'
  BY <1>1, <1>2, <1>3 DEF InMemory
<1>6. Numbered'
  BY <1>1, <1>2 DEF Numbered, Taken
<1>7. SavesMemory'
  BY <1>1 DEF SavesMemory, OutputPath
<1>8. OneFileEach' /\ NoneLost'
  BY <1>1, FilesUntouched, NothingLost DEF Settled
<1> QED BY <1>4, <1>5, <1>6, <1>7, <1>8

-----------------------------------------------------------------------------
(* The steps of a save                                                     *)

\* An episode that is to be saved, by a key, a signal, the end of the process
\* or its duration, is in no file yet and gets no frame any more.
LEMMA BeginKeeps ==
  ASSUME RecorderTypeOK, InOrder, Idle, main # "exited",
         recording \/ frames # <<>>, NEW x \in Savers,
         save' = [save EXCEPT ![x].at = "reset"], lock' = Thread(x),
         recording' = FALSE, pending' = FALSE, main' \notin {"append", "exited"},
         x = "handler" => handler' = "save",
         UNCHANGED <<frames, counter, files, episode, sampled, dropped, outfile>>
  PROVE InOrder'
<1> USE DEF InOrder
<1>1. /\ save'[x].at = "reset" /\ \A y \in Savers \ {x} : save'[y] = save[y]
      /\ \A y \in Savers \ {x} : save[y].at = "none"
  <2>1. save' = [save EXCEPT ![x] = [save[x] EXCEPT !.at = "reset"]]
    OBVIOUS
  <2>2. [save[x] EXCEPT !.at = "reset"].at = "reset"
    BY SaveAt DEF RecorderTypeOK, SaveSteps
  <2> QED BY <2>1, <2>2 DEF RecorderTypeOK, Idle
<1>2. ~Idle' /\ \A e : Whole(e)' = Whole(e)
  BY <1>1 DEF Idle, Whole
<1>3. \A y \in Savers : save'[y].at # "none" => y = x
  BY <1>1
<1>4. OneSaves'
  <2>1. x = "main" \/ x = "handler" <=> lock' = "main"
    BY DEF Thread, Savers
  <2>2. lock' \in {"main", "keyboard"} /\ (lock' = "keyboard" => x = "keyboard")
    BY DEF Thread, Savers
  <2>3. recording' = FALSE
    OBVIOUS
  <2> QED BY <1>1, <1>3, <2>1, <2>2, <2>3 DEF OneSaves, Savers
<1>5. InMemory'
  BY <1>2 DEF InMemory
<1>6. Numbered'
  <2>1. \A n \in Numbers : Taken(n)' = Taken(n)
    BY DEF Taken
  <2>2. \A y \in Savers : save[y].at # "written"
    BY DEF Idle
  <2> QED BY <1>2, <2>1, <2>2 DEF Numbered
<1>7. SavesMemory'
  BY <1>1 DEF SavesMemory, OutputPath
<1>8. OneFileEach'
  BY FilesUntouched DEF Settled, Idle
<1>9. NoneLost'
  BY NothingLost
<1> QED BY <1>4, <1>5, <1>6, <1>7, <1>8, <1>9

LEMMA FinishBeginsKeeps ==
  ASSUME RecorderTypeOK, InOrder, NEW x \in Savers, FinishBegins(x), ~nested'
  PROVE InOrder'
<1>1. lock = "free" /\ Idle /\ main \notin {"append", "exited"}
  BY BeginsAlone DEF InOrder
<1>2. /\ save' = [save EXCEPT ![x].at = "reset"] /\ lock' = Thread(x)
      /\ recording' = FALSE /\ pending' = FALSE /\ (recording \/ frames # <<>>)
      /\ UNCHANGED <<frames, counter, main, handler, files, episode, sampled,
                     dropped, outfile>>
  BY DEF FinishBegins, options
<1>3. x = "handler" => handler' = "save"
  BY DEF FinishBegins, Wants
<1> QED BY <1>1, <1>2, <1>3, BeginKeeps

LEMMA DurationKeeps ==
  ASSUME RecorderTypeOK, InOrder, DurationReached
  PROVE InOrder'
<1>1. /\ save' = [save EXCEPT !["main"].at = "reset"] /\ lock = "free" /\ lock' = "main"
      /\ recording /\ recording' = FALSE /\ pending' = FALSE
      /\ main = "spin" /\ main' = "duration"
      /\ UNCHANGED <<frames, counter, files, episode, sampled, dropped, outfile>>
  BY DEF DurationReached, options, history
<1>2. Idle
  BY <1>1 DEF InOrder, OneSaves
<1>3. "main" \in Savers /\ Thread("main") = "main"
  BY DEF Savers, Thread
<1> QED BY <1>1, <1>2, <1>3, BeginKeeps

\* A step of a save that goes on leaves the order and the memory as they are.
LEMMA GoesOn ==
  ASSUME InOrder, NEW x \in Savers, save[x].at # "none", save'[x].at # "none",
         \A y \in Savers \ {x} : save'[y] = save[y],
         UNCHANGED <<recording, pending, frames, counter, lock, main, handler, keyboard,
                     episode, sampled>>
  PROVE OneSaves' /\ InMemory' /\ ~Idle /\ ~Idle'
<1> USE DEF InOrder
<1>1. ~Idle /\ ~Idle' /\ \A e : Whole(e)' = Whole(e)
  BY DEF Idle, Whole
<1>2. \A y \in Savers : save'[y].at # "none" <=> save[y].at # "none"
  OBVIOUS
<1>3. OneSaves'
  <2>1. main \notin {"append", "exited"} /\ ~recording /\ lock = Thread(x)
    BY Exclusive
  <2>2. lock \in {"main", "keyboard"}
    BY <2>1 DEF Thread
  <2> QED BY <1>2, <2>1, <2>2 DEF OneSaves, Savers
<1>4. InMemory'
  BY <1>1 DEF InMemory
<1> QED BY <1>1, <1>3, <1>4

\* What a caller that saves may count on: the episode is the one in memory, and
\* a number that the save may have chosen is its own, with no whole file.
LEMMA WhileSaving ==
  ASSUME RecorderTypeOK, InOrder, NEW x \in Savers, save[x].at # "none"
  PROVE /\ main \notin {"exited", "append"} /\ ~recording
        /\ frames = Whole(episode) /\ episode \in Episodes
        /\ \A y \in Savers : save[y].at = "written" => y = x
        /\ OutputPath \in Paths /\ (outfile <=> OutputPath = OutputFile)
        /\ outfile <=> OutputPath \notin Numbers
        /\ ~outfile => counter < episode /\ counter \in Numbers
        /\ ~outfile /\ save[x].at # "written" => files[counter] \in {NoFile, Partial}
<1> USE DEF InOrder
<1>1. main \notin {"exited", "append"} /\ ~recording /\ ~Idle
      /\ \A y \in Savers : save[y].at = "written" => y = x
  BY Exclusive DEF Idle
<1>2. frames = Whole(episode) /\ episode \in Episodes
  BY <1>1 DEF InMemory, RecorderTypeOK, Episodes
<1>3. ~outfile => counter < episode /\ counter \in Numbers
  <2>1. ~outfile => counter < episode
    BY <1>1 DEF Numbered
  <2>2. MaxSignals \in Nat /\ MaxEpisodes \in Nat
    OBVIOUS
  <2> QED BY <1>2, <2>1, <2>2 DEF Episodes, Numbers, RecorderTypeOK
<1>4. ~outfile /\ save[x].at # "written" => files[counter] \in {NoFile, Partial}
  BY <1>1, <1>3 DEF Numbered, Taken
<1>5. OutputFile \notin Numbers
  BY NumbersAreNat
<1>6. /\ OutputPath \in Paths /\ (outfile <=> OutputPath = OutputFile)
      /\ outfile <=> OutputPath \notin Numbers
  BY <1>3, <1>5 DEF OutputPath, Paths
<1> QED BY <1>1, <1>2, <1>3, <1>4, <1>6

LEMMA ChoosePathKeeps ==
  ASSUME RecorderTypeOK, InOrder, NEW x \in Savers, ChoosePath(x)
  PROVE InOrder'
<1> USE DEF InOrder
<1>1. /\ save' = [save EXCEPT ![x] = [save[x] EXCEPT !.at = "path", !.path = OutputPath]]
      /\ save[x].at = "reset"
      /\ UNCHANGED <<recording, pending, frames, counter, lock, main, handler, keyboard, files,
                     episode, sampled, dropped, outfile>>
  BY DEF ChoosePath, node, options, history
<1>2. /\ save'[x].at = "path" /\ save'[x].path = OutputPath
      /\ \A y \in Savers \ {x} : save'[y] = save[y]
  <2>1. save[x] \in Save /\ OutputPath \in Nat \cup {OutputFile} /\ "path" \in SaveSteps
    BY DEF RecorderTypeOK, SaveSteps, OutputPath
  <2> DEFINE r == [save[x] EXCEPT !.at = "path", !.path = OutputPath]
  <2> HIDE DEF OutputPath
  <2>2. r.at = "path" /\ r.path = OutputPath
    BY <2>1 DEF Save
  <2>3. save' = [save EXCEPT ![x] = r] /\ save \in [Savers -> Save]
    BY <1>1 DEF RecorderTypeOK
  <2> HIDE DEF r
  <2> QED BY <2>2, <2>3
<1>3. OneSaves' /\ InMemory' /\ ~Idle /\ ~Idle'
  BY <1>1, <1>2, GoesOn
<1>4. \A y \in Savers : save'[y].at = "written" <=> save[y].at = "written"
  BY <1>1, <1>2
<1>5. Numbered'
  BY <1>1, <1>3, <1>4, WhileSaving DEF Numbered, Taken
<1>6. SavesMemory'
  BY <1>1, <1>2 DEF SavesMemory, OutputPath
<1>7. OneFileEach' /\ NoneLost'
  BY <1>1, <1>4, FilesUntouched, NothingLost DEF Settled
<1> QED BY <1>3, <1>5, <1>6, <1>7

\* A numbered file, as it was, was no episode's; the episode that was in the
\* output file is among the replaced ones.
LEMMA OpenFileKeeps ==
  ASSUME RecorderTypeOK, InOrder, NEW x \in Savers, OpenFile(x)
  PROVE /\ InOrder'
        /\ save[x].path \in Numbers => files[save[x].path] \in {NoFile, Partial}
<1> USE DEF InOrder
<1>1. /\ save' = [save EXCEPT ![x] = [save[x] EXCEPT !.at = "write", !.payload = frames]]
      /\ save[x].at = "path" /\ files' = [files EXCEPT ![save[x].path] = Partial]
      /\ UNCHANGED <<recording, pending, frames, counter, lock, main, handler, keyboard,
                     episode, sampled, outfile>>
  BY DEF OpenFile, node, options
<1>2. /\ save'[x].at = "write" /\ save'[x].path = save[x].path
      /\ save'[x].payload = frames
      /\ \A y \in Savers \ {x} : save'[y] = save[y]
  <2>1. save[x] \in Save /\ frames \in Seq(Data) /\ "write" \in SaveSteps
    BY DEF RecorderTypeOK, SaveSteps
  <2> DEFINE r == [save[x] EXCEPT !.at = "write", !.payload = frames]
  <2>2. r.at = "write" /\ r.path = save[x].path /\ r.payload = frames
    BY <2>1 DEF Save
  <2>3. save' = [save EXCEPT ![x] = r] /\ save \in [Savers -> Save]
    BY <1>1 DEF RecorderTypeOK
  <2> HIDE DEF r
  <2> QED BY <2>2, <2>3
<1>3. OneSaves' /\ InMemory' /\ ~Idle /\ ~Idle'
  BY <1>1, <1>2, GoesOn
<1>4. \A y \in Savers : save'[y].at # "written" /\ save[y].at # "written"
  BY <1>1, <1>2, WhileSaving
<1>5. /\ save[x].path = OutputPath /\ OutputPath \in Paths
      /\ outfile <=> OutputPath = OutputFile
      /\ outfile <=> OutputPath \notin Numbers
      /\ ~outfile => /\ OutputPath = counter /\ counter \in Numbers
                     /\ files[counter] \in {NoFile, Partial} /\ counter < episode
  BY <1>1, WhileSaving DEF SavesMemory, OutputPath
<1>6. files'[OutputPath] = Partial /\ \A p \in Paths \ {OutputPath} : files'[p] = files[p]
  BY <1>1, <1>5 DEF RecorderTypeOK
<1>7. Numbered'
  <2>1. CASE outfile
    <3>1. \A n \in Numbers : Taken(n)' <=> Taken(n)
      BY <1>5, <1>6, <2>1 DEF Taken, Paths
    <3> QED BY <1>1, <2>1, <3>1 DEF Numbered
  <2>2. CASE ~outfile
    <3>1. files'[counter] = Partial /\ \A n \in Numbers \ {counter} : files'[n] = files[n]
      BY <1>5, <1>6, <2>2 DEF Paths
    <3>2. main # "exited"
      BY <1>1, WhileSaving
    <3> QED BY <1>1, <1>3, <1>4, <1>5, <2>2, <3>1, <3>2 DEF Numbered, Taken
  <2> QED BY <2>1, <2>2
<1>8. SavesMemory'
  <2>1. \A y \in Savers \ {x} : save[y].at = "none"
    BY <1>1, Exclusive
  <2>2. OutputPath' = OutputPath
    BY <1>1 DEF OutputPath
  <2> QED BY <1>1, <1>2, <1>5, <1>6, <2>1, <2>2 DEF SavesMemory
<1>9. \A e \in Episodes : Whole(e)' = Whole(e) /\ Whole(e) \notin {NoFile, Partial}
  BY <1>1, WholeIsData DEF Whole
<1>10. \A e \in 1..episode : e \in Episodes
  BY DEF RecorderTypeOK, Episodes
<1>11. \A p \in Paths : files'[p] \notin {NoFile, Partial} =>
         files'[p] = files[p] /\ files[p] \notin {NoFile, Partial}
  BY <1>6
<1>12. OneFileEach'
  <2>1. Settled' <=> Settled
    BY <1>1, <1>4 DEF Settled
  <2>2. \A e \in 1..episode, p \in Paths : files'[p] = Whole(e) => files[p] = Whole(e)
    BY <1>9, <1>10, <1>11
  <2> QED BY <1>1, <1>9, <1>10, <1>11, <2>1, <2>2 DEF OneFileEach
<1>13. NoneLost'
  <2> SUFFICES ASSUME NEW e \in (1..episode) \ dropped', sampled[e] > 0
               PROVE (e = episode /\ frames = Whole(e)) \/ \E p \in Paths : files'[p] = Whole(e)
    BY <1>1, <1>9, <1>10 DEF NoneLost
  <2>1. e \notin dropped /\ ~(outfile /\ files[OutputFile] = Whole(e))
    BY DEF OpenFile
  <2>2. CASE e = episode /\ frames = Whole(e)
    BY <2>2
  <2>3. CASE ~(e = episode /\ frames = Whole(e))
    <3>1. PICK p \in Paths : files[p] = Whole(e)
      BY <2>1, <2>3 DEF NoneLost
    <3>2. p # OutputPath
      BY <1>5, <1>9, <1>10, <2>1, <3>1
    <3> QED BY <1>6, <3>1, <3>2
  <2> QED BY <2>2, <2>3
<1>14. save[x].path \in Numbers => files[save[x].path] \in {NoFile, Partial}
  BY <1>5
<1> QED BY <1>3, <1>7, <1>8, <1>12, <1>13, <1>14

\* The file becomes the current episode's, which no other file holds.
LEMMA DumpKeeps ==
  ASSUME RecorderTypeOK, InOrder, NEW x \in Savers, Dump(x), ~nested
  PROVE InOrder' /\ files[save[x].path] = Partial
<1> USE DEF InOrder
<1>1. /\ save' = [save EXCEPT ![x] = [save[x] EXCEPT !.at = "written"]]
      /\ save[x].at = "write" /\ files' = [files EXCEPT ![save[x].path] = save[x].payload]
      /\ UNCHANGED <<recording, pending, frames, counter, lock, main, handler, keyboard,
                     episode, sampled, dropped, outfile>>
  BY DEF Dump, node, options, history
<1>2. /\ save'[x].at = "written" /\ save'[x].path = save[x].path
      /\ save'[x].payload = save[x].payload
      /\ \A y \in Savers \ {x} : save'[y] = save[y]
  <2>1. save[x] \in Save /\ "written" \in SaveSteps
    BY DEF RecorderTypeOK, SaveSteps
  <2> DEFINE r == [save[x] EXCEPT !.at = "written"]
  <2>2. r.at = "written" /\ r.path = save[x].path /\ r.payload = save[x].payload
    BY <2>1, SaveAt
  <2>3. save' = [save EXCEPT ![x] = r] /\ save \in [Savers -> Save]
    BY <1>1 DEF RecorderTypeOK
  <2> HIDE DEF r
  <2> QED BY <2>2, <2>3
<1>3. OneSaves' /\ InMemory' /\ ~Idle /\ ~Idle'
  BY <1>1, <1>2, GoesOn
<1>4. \A y \in Savers : save[y].at # "written"
  BY <1>1, WhileSaving
<1>5. /\ save[x].path = OutputPath /\ save[x].payload = frames /\ files[OutputPath] = Partial
      /\ OutputPath \in Paths /\ (outfile <=> OutputPath \notin Numbers)
      /\ main # "exited" /\ ~recording
      /\ frames = Whole(episode) /\ episode \in Episodes
  BY <1>1, WhileSaving DEF SavesMemory
<1>6. files'[OutputPath] = frames /\ \A p \in Paths \ {OutputPath} : files'[p] = files[p]
  BY <1>1, <1>5 DEF RecorderTypeOK
<1>7. \A e \in Episodes : Whole(e)' = Whole(e) /\ Whole(e) \notin {NoFile, Partial}
  BY <1>1, WholeIsData DEF Whole
<1>8. \A e \in 1..episode : e \in Episodes
  BY DEF RecorderTypeOK, Episodes
<1>9. Numbered'
  <2>1. CASE outfile
    <3>1. \A n \in Numbers : Taken(n)' <=> Taken(n)
      BY <1>5, <1>6, <2>1 DEF Taken, Paths
    <3> QED BY <1>1, <2>1, <3>1 DEF Numbered
  <2>2. CASE ~outfile
    <3>1. /\ OutputPath = counter /\ counter \in Numbers /\ counter < episode
          /\ files[counter] = Partial
      BY <1>1, <1>5, <2>2, WhileSaving DEF OutputPath
    <3>2. /\ files'[counter] = frames /\ frames \notin {NoFile, Partial}
          /\ \A n \in Numbers \ {counter} : files'[n] = files[n]
      BY <1>5, <1>6, <1>7, <3>1 DEF Paths
    <3> QED BY <1>1, <1>2, <1>3, <1>5, <2>2, <3>1, <3>2 DEF Numbered, Taken
  <2> QED BY <2>1, <2>2
<1>10. SavesMemory'
  <2>1. \A y \in Savers \ {x} : save[y].at = "none"
    BY <1>1, Exclusive
  <2>2. OutputPath' = OutputPath
    BY <1>1 DEF OutputPath
  <2> QED BY <1>1, <1>2, <1>5, <1>6, <2>1, <2>2 DEF SavesMemory
<1>11. Settled'
  BY <1>1, <1>2, <1>5 DEF Settled
<1>12. OneFileEach'
  <2>1. ASSUME NEW p \in Paths, files'[p] \notin {NoFile, Partial}
        PROVE \E e \in 1..episode : files'[p] = Whole(e)
    <3>1. CASE p = OutputPath
      <4>1. episode \in 1..episode
        BY <1>5 DEF Episodes
      <4> QED BY <1>5, <1>6, <3>1, <4>1
    <3>2. CASE p # OutputPath
      BY <1>6, <2>1, <3>2 DEF OneFileEach
    <3> QED BY <3>1, <3>2
  <2>2. ASSUME NEW p \in Paths \ {OutputPath}, NEW e \in 1..episode, sampled[e] > 0,
               files[p] = Whole(e), Whole(e) = frames
        PROVE FALSE
    <3>1. e = episode
      BY <1>5, <1>8, <2>2, WholeDiffers
    <3>2. PICK f \in 1..episode : files[p] = Whole(f) /\ (f = episode => Settled)
      BY <1>7, <1>8, <2>2 DEF OneFileEach
    <3>3. f = e
      BY <1>8, <2>2, <3>2, WholeDiffers
    <3>4. frames = <<>>
      BY <1>4, <3>1, <3>2, <3>3 DEF Settled
    <3>5. sampled[e] = 0
      BY <1>8, <2>2, <3>4, WholeIsData
    <3> QED BY <2>2, <3>5
  <2>3. ASSUME NEW e \in 1..episode, sampled[e] > 0, NEW p \in Paths, NEW q \in Paths,
               files'[p] = Whole(e), files'[q] = Whole(e)
        PROVE p = q
    <3>1. CASE p = OutputPath /\ q # OutputPath
      BY <1>6, <2>2, <2>3, <3>1
    <3>2. CASE q = OutputPath /\ p # OutputPath
      BY <1>6, <2>2, <2>3, <3>2
    <3>3. CASE p # OutputPath /\ q # OutputPath
      BY <1>6, <2>3, <3>3 DEF OneFileEach
    <3> QED BY <3>1, <3>2, <3>3
  <2>4. \A e \in 1..episode : Whole(e)' = Whole(e)
    BY <1>7, <1>8
  <2> QED BY <1>1, <1>11, <2>1, <2>3, <2>4 DEF OneFileEach
<1>13. NoneLost'
  <2>1. \A e \in 1..episode, p \in Paths : files[p] = Whole(e) => files'[p] = Whole(e)
    BY <1>5, <1>6, <1>7, <1>8
  <2>2. \A e \in 1..episode : Whole(e)' = Whole(e)
    BY <1>7, <1>8
  <2> QED BY <1>1, <2>1, <2>2 DEF NoneLost
<1> QED BY <1>3, <1>5, <1>9, <1>10, <1>12, <1>13

\* The episode is in its file and its number is spent.
LEMMA SavedKeeps ==
  ASSUME RecorderTypeOK, InOrder, NEW x \in Savers, Saved(x)
  PROVE InOrder'
<1> USE DEF InOrder
<1>1. /\ save[x].at = "written" /\ save' = [save EXCEPT ![x] = NoSave]
      /\ frames' = <<>> /\ counter' = counter + 1 /\ lock' = Unlocked(x) /\ Returned(x)
      /\ UNCHANGED <<recording, pending, files, episode, sampled, dropped, outfile>>
  BY DEF Saved, options, history
<1>2. /\ main \notin {"exited", "append"} /\ ~recording
      /\ frames = Whole(episode) /\ episode \in Episodes
      /\ ~outfile => counter < episode /\ counter \in Numbers
      /\ OutputPath \in Paths /\ files[OutputPath] = frames
      /\ \A y \in Savers \ {x} : save[y].at = "none"
  BY <1>1, WhileSaving, Exclusive DEF SavesMemory
<1>3. lock' = "free"
  BY <1>1, <1>2 DEF Unlocked, Savers
<1>4. save' \in [Savers -> Save] /\ Idle'
  BY <1>1, <1>2, NoSaveIsSave DEF RecorderTypeOK, Idle
<1>5. main' \notin {"append", "exited"}
  BY <1>1, <1>2 DEF Returned
<1>6. \A e : Whole(e)' = Whole(e)
  BY <1>1 DEF Whole
<1>7. OneSaves'
  BY <1>1, <1>2, <1>3, <1>4, <1>5 DEF OneSaves, Idle, Savers
<1>8. InMemory'
  <2>1. ~Idle
    BY <1>1 DEF Idle
  <2> QED BY <1>1, <1>2, <1>4, <2>1 DEF InMemory
<1>9. Numbered'
  <2>1. CASE outfile
    BY <1>1, <2>1 DEF Numbered, Taken
  <2>2. CASE ~outfile
    <3>1. counter \in Nat /\ episode \in Nat /\ \A n \in Numbers : n \in Int
      BY DEF RecorderTypeOK, Numbers
    <3>2. files[counter] = frames /\ frames \notin {NoFile, Partial}
      BY <1>2, <2>2, WholeIsData DEF OutputPath
    <3>3. \A n \in Numbers : /\ n < counter + 1 => Taken(n)
                             /\ n > counter => n = counter \/ ~Taken(n)
      BY <1>2, <2>2, <3>1, <3>2 DEF Numbered, Taken
    <3>4. \A n \in Numbers : n > counter + 1 \/ n = counter + 1 => ~Taken(n)
      BY <3>1, <3>3
    <3> QED BY <1>1, <1>2, <1>4, <1>5, <2>2, <3>1, <3>3, <3>4 DEF Numbered, Taken
  <2> QED BY <2>1, <2>2
<1>10. SavesMemory'
  BY <1>4 DEF SavesMemory, Idle
<1>11. OneFileEach'
  BY <1>1, <1>2, FilesUntouched DEF Settled
<1>12. NoneLost'
  BY <1>1, <1>2, <1>6 DEF NoneLost
<1> QED BY <1>7, <1>8, <1>9, <1>10, <1>11, <1>12

\* The frames stay in memory, the number unspent, and the thread that failed
\* asks for no further episode.
LEMMA SaveFailsKeeps ==
  ASSUME RecorderTypeOK, InOrder, NEW x \in Savers, SaveFails(x)
  PROVE InOrder'
<1> USE DEF InOrder
<1>1. /\ save[x].at \in {"reset", "path", "write"} /\ lock' = "free"
      /\ save' = [save EXCEPT ![x] = NoSave,
                              !["main"] = IF x = "handler" THEN NoSave ELSE @]
      /\ UNCHANGED <<recording, pending, frames, counter, files, episode, sampled,
                     dropped, outfile>>
  BY DEF SaveFails, node, options, history
<1>2. /\ main \notin {"exited", "append"} /\ ~recording /\ ~Idle
      /\ ~outfile => counter < episode /\ counter \in Numbers
      /\ \A y \in Savers \ {x} : save[y].at = "none"
      /\ \A y \in Savers : save[y].at # "written"
  BY <1>1, WhileSaving, Exclusive DEF Idle
<1>3. Idle'
  BY <1>1, <1>2, NoSaveIsSave DEF RecorderTypeOK, Idle, Savers
<1>4. /\ main' \notin {"append", "exited"}
      /\ keyboard' = "dead" \/ main' \in {"closing", "shutdown", "leaving"}
  BY <1>2 DEF SaveFails
<1>5. OneSaves'
  BY <1>1, <1>2, <1>3, <1>4 DEF OneSaves, Idle, Savers
<1>6. InMemory'
  <2>1. \A e : Whole(e)' = Whole(e)
    BY <1>1 DEF Whole
  <2> QED BY <1>1, <1>2, <1>3, <1>4, <2>1 DEF InMemory
<1>7. Numbered'
  BY <1>1, <1>2, <1>4 DEF Numbered, Taken
<1>8. SavesMemory'
  BY <1>3 DEF SavesMemory, Idle
<1>9. OneFileEach' /\ NoneLost'
  BY <1>1, <1>2, FilesUntouched, NothingLost DEF Settled
<1> QED BY <1>5, <1>6, <1>7, <1>8, <1>9

-----------------------------------------------------------------------------
(* Steps that begin an episode, grow it or drop it                         *)

LEMMA SampleStartsKeeps ==
  ASSUME RecorderTypeOK, InOrder, SampleStarts
  PROVE InOrder'
<1> USE DEF InOrder
<1>1. /\ main = "spin" /\ lock = "free" /\ pending /\ ~pending' /\ recording'
      /\ frames' = <<>> /\ episode' = episode + 1 /\ main' = "append" /\ lock' = "main"
      /\ UNCHANGED <<counter, handler, keyboard, save, files, sampled, dropped, outfile>>
  BY DEF SampleStarts, options
<1>2. Idle /\ UNCHANGED Idle /\ ~recording /\ frames = <<>>
  BY <1>1 DEF InMemory, OneSaves, Idle
<1>3. /\ episode' \in Episodes /\ episode' > episode /\ episode' # 0 /\ sampled[episode'] = 0
      /\ episode \in Nat /\ \A e \in 1..episode' : e \in Episodes /\ (e # episode' => e \in 1..episode)
  <2>1. episode \in 0..MaxEpisodes /\ episode < MaxEpisodes
    BY <1>1 DEF RecorderTypeOK
  <2>2. episode' \in Episodes /\ episode' > episode /\ episode' # 0 /\ episode \in Nat
        /\ \A e \in 1..episode' : e \in Episodes /\ (e # episode' => e \in 1..episode)
    BY <1>1, <2>1 DEF Episodes
  <2> QED BY <2>2 DEF InMemory
<1>4. \A e : Whole(e)' = Whole(e)
  BY <1>1 DEF Whole
<1>5. OneSaves'
  BY <1>1, <1>2 DEF OneSaves, Idle, Savers
<1>6. InMemory'
  <2>1. Whole(episode') = <<>>
    BY <1>3, WholeIsData
  <2>2. \A e \in Episodes : e > episode' => e > episode
    BY <1>1, <1>3 DEF Episodes
  <2> QED BY <1>1, <1>2, <1>3, <1>4, <2>1, <2>2 DEF InMemory
<1>7. Numbered'
  <2>1. CASE outfile
    <3>1. PICK m \in 0..episode : \A n \in Numbers : Taken(n) <=> n < m
      BY <2>1 DEF Numbered
    <3>2. m \in 0..episode'
      BY <1>1, <1>3
    <3> QED BY <1>1, <2>1, <3>1, <3>2 DEF Numbered, Taken
  <2>2. CASE ~outfile
    <3>1. counter <= episode /\ counter \in Nat /\ \A n \in Numbers :
            /\ n < counter => Taken(n)
            /\ n > counter => ~Taken(n)
            /\ n = counter /\ Taken(n) => counter < episode /\ files[n] = Partial
      BY <1>1, <1>2, <2>2 DEF Numbered, Idle, RecorderTypeOK
    <3> QED BY <1>1, <1>3, <2>2, <3>1 DEF Numbered, Taken
  <2> QED BY <2>1, <2>2
<1>8. SavesMemory'
  BY <1>1, <1>2 DEF SavesMemory, Idle
<1>9. OneFileEach'
  <2>1. \A e \in 1..episode : e # episode' /\ e \in 1..episode'
    BY <1>1, <1>3
  <2>2. \A p \in Paths : files[p] \notin {NoFile, Partial} =>
          \E e \in 1..episode' : files[p] = Whole(e) /\ e # episode'
    BY <2>1 DEF OneFileEach
  <2>3. \A e \in 1..episode' : sampled[e] > 0 => e \in 1..episode
    BY <1>3
  <2> QED BY <1>1, <1>4, <2>2, <2>3 DEF OneFileEach
<1>10. NoneLost'
  <2>1. \A e \in 1..episode' : sampled[e] > 0 => e \in 1..episode
    BY <1>3
  <2>2. \A e \in 1..episode : sampled[e] > 0 => frames # Whole(e)
    <3>1. \A e \in 1..episode : e \in Episodes
      BY DEF RecorderTypeOK, Episodes
    <3> QED BY <1>2, <3>1, WholeIsData
  <2> QED BY <1>1, <1>4, <2>1, <2>2 DEF NoneLost
<1> QED BY <1>5, <1>6, <1>7, <1>8, <1>9, <1>10

\* The current episode grows by a frame, which no file has to have.
LEMMA AppendFrameKeeps ==
  ASSUME RecorderTypeOK, InOrder, AppendFrame
  PROVE InOrder'
<1> USE DEF InOrder
<1>1. /\ main = "append" /\ main' = "top" /\ lock' = "free"
      /\ sampled' = [sampled EXCEPT ![episode] = sampled[episode] + 1]
      /\ frames' = Append(frames, <<episode, sampled'[episode]>>)
      /\ UNCHANGED <<recording, pending, counter, handler, keyboard, save, files, episode,
                     dropped, outfile>>
  BY DEF AppendFrame, options
<1>2. recording /\ Idle /\ UNCHANGED Idle /\ ~pending
  BY <1>1 DEF OneSaves, Idle, InMemory
<1>3. /\ episode \in Episodes /\ sampled[episode] \in Nat
      /\ frames = Whole(episode) /\ frames \in Seq(Data) /\ Len(frames) = sampled[episode]
      /\ \A i \in 1..sampled[episode] : frames[i] = <<episode, i>>
  <2>1. episode \in Episodes /\ frames = Whole(episode)
    BY <1>2 DEF InMemory, RecorderTypeOK, Episodes
  <2> QED BY <2>1, WholeIsData DEF RecorderTypeOK
<1>4. /\ sampled'[episode] = sampled[episode] + 1
      /\ \A e \in Episodes \ {episode} : sampled'[e] = sampled[e]
  BY <1>1, <1>3 DEF RecorderTypeOK
<1>5. \A e \in Episodes \ {episode} : Whole(e)' = Whole(e)
  BY <1>4 DEF Whole
<1>6. frames' = Whole(episode)'
  <2> DEFINE k == sampled[episode] + 1
  <2>1. frames' = Append(frames, <<episode, k>>)
    BY <1>1, <1>4
  <2>2. <<episode, k>> \in Data
    BY <1>3 DEF Data, Episodes
  <2>3. frames' \in Seq(Data) /\ Len(frames') = k
    BY <1>3, <2>1, <2>2
  <2>4. \A i \in 1..k : frames'[i] = <<episode, i>>
    BY <1>3, <2>1, <2>2
  <2>5. Whole(episode)' = [i \in 1..k |-> <<episode, i>>]
    BY <1>1, <1>4 DEF Whole
  <2> HIDE DEF k
  <2> QED BY <2>3, <2>4, <2>5
<1>7. RecorderTypeOK'
  BY <1>1, MainType DEF MainThread, AppendFrame
<1>8. \A e \in 1..episode : e \in Episodes
  BY DEF RecorderTypeOK, Episodes
<1>9. ~Settled
  BY <1>2 DEF Settled, Idle
<1>10. ASSUME NEW p \in Paths, files[p] = Whole(episode)'
       PROVE FALSE
  <2>0. episode' = episode /\ sampled'[episode] > 0
    BY <1>1, <1>3, <1>4
  <2>1. Whole(episode)' \notin {NoFile, Partial}
    <3>1. frames' \in Seq(Data)
      BY <1>7 DEF RecorderTypeOK
    <3> QED BY <1>6, <3>1 DEF Data
  <2>2. PICK e \in 1..episode : files[p] = Whole(e) /\ (e = episode => Settled)
    BY <1>10, <2>1 DEF OneFileEach
  <2>3. e \in Episodes \ {episode} /\ Whole(e)' = Whole(e)
    BY <1>5, <1>8, <1>9, <2>2
  <2>4. Whole(e) = frames' /\ Len(Whole(e)) = sampled[e] /\ sampled[e] \in Nat
        /\ \A i \in 1..sampled[e] : Whole(e)[i] = <<e, i>>
    BY <1>6, <1>10, <2>2, <2>3, WholeIsData DEF RecorderTypeOK
  <2>5. frames'[1] = <<episode, 1>> /\ Len(frames') = sampled'[episode]
    <3>1. frames' = [i \in 1..sampled'[episode] |-> <<episode, i>>]
      BY <1>1, <1>6 DEF Whole
    <3>2. 1 \in 1..sampled'[episode] /\ sampled'[episode] \in Nat
      BY <1>3, <1>4
    <3> QED BY <3>1, <3>2
  <2>6. 1 \in 1..sampled[e]
    BY <2>0, <2>4, <2>5
  <2>7. <<e, 1>> = <<episode, 1>>
    BY <2>4, <2>5, <2>6
  <2> QED BY <2>3, <2>7
<1>11. OneSaves'
  BY <1>1, <1>2 DEF OneSaves, Idle, Savers
<1>12. InMemory'
  <2>1. \A e \in Episodes : e > episode' => sampled'[e] = 0
    BY <1>1, <1>3, <1>4 DEF InMemory, Episodes
  <2> QED BY <1>1, <1>2, <1>3, <1>6, <2>1 DEF InMemory, Episodes
<1>13. Numbered'
  BY <1>1, <1>2 DEF Numbered, Taken
<1>14. SavesMemory'
  BY <1>1, <1>2 DEF SavesMemory, Idle
<1>15. OneFileEach'
  <2>1. \A p \in Paths : files[p] \notin {NoFile, Partial} =>
          \E e \in 1..episode : files[p] = Whole(e)' /\ e # episode
    BY <1>5, <1>8, <1>9 DEF OneFileEach
  <2>2. ASSUME NEW e \in 1..episode, sampled'[e] > 0, NEW p \in Paths, NEW q \in Paths,
               files[p] = Whole(e)', files[q] = Whole(e)'
        PROVE p = q
    <3>1. e # episode
      BY <1>1, <1>10, <2>2 DEF Whole
    <3> QED BY <1>4, <1>5, <1>8, <2>2, <3>1 DEF OneFileEach
  <2> QED BY <1>1, <2>1, <2>2 DEF OneFileEach
<1>16. NoneLost'
  <2>1. \A e \in (1..episode) \ dropped : sampled'[e] > 0 =>
          (e = episode /\ frames' = Whole(e)') \/ \E p \in Paths : files[p] = Whole(e)'
    <3> SUFFICES ASSUME NEW e \in (1..episode) \ dropped, sampled'[e] > 0, e # episode
                 PROVE \E p \in Paths : files[p] = Whole(e)'
      BY <1>1, <1>6 DEF Whole
    <3>1. sampled[e] > 0 /\ Whole(e)' = Whole(e)
      BY <1>4, <1>5, <1>8
    <3> QED BY <3>1 DEF NoneLost
  <2> QED BY <1>1, <2>1 DEF NoneLost
<1> QED BY <1>11, <1>12, <1>13, <1>14, <1>15, <1>16

\* The frames in memory are those of a discarded episode.
LEMMA KeyDiscardKeeps ==
  ASSUME RecorderTypeOK, InOrder, KeyDiscard
  PROVE InOrder'
<1> USE DEF InOrder
<1>1. /\ lock = "free" /\ main # "exited" /\ ~pending' /\ ~recording' /\ frames' = <<>>
      /\ dropped' = (IF recording \/ frames # <<>> THEN dropped \cup {episode} ELSE dropped)
      /\ UNCHANGED <<counter, lock, main, handler, save, files, episode, sampled,
                     outfile>>
  BY DEF KeyDiscard, options
<1>2. Idle /\ UNCHANGED Idle /\ main # "append"
  BY <1>1 DEF OneSaves, Idle
<1>3. \A e : Whole(e)' = Whole(e)
  BY <1>1 DEF Whole
<1>4. OneSaves'
  BY <1>1, <1>2 DEF OneSaves, Idle, Savers
<1>5. InMemory'
  BY <1>1, <1>2, <1>3 DEF InMemory
<1>6. Numbered'
  BY <1>1, <1>2 DEF Numbered, Taken
<1>7. SavesMemory'
  BY <1>1, <1>2 DEF SavesMemory, Idle
<1>8. OneFileEach'
  BY <1>1, FilesUntouched DEF Settled
<1>9. NoneLost'
  <2>1. \A e \in 1..episode : e \in Episodes
    BY DEF RecorderTypeOK, Episodes
  <2>2. \A e \in (1..episode) \ dropped' :
          e = episode /\ frames = Whole(e) => sampled[e] = 0
    BY <1>1, <2>1, WholeIsData
  <2>3. \A e \in (1..episode) \ dropped' : e \notin dropped
    BY <1>1
  <2>4. \A e \in (1..episode) \ dropped' : sampled[e] > 0 =>
          \E p \in Paths : files[p] = Whole(e)
    BY <2>2, <2>3 DEF NoneLost
  <2> QED BY <1>1, <1>3, <2>4 DEF NoneLost
<1> QED BY <1>4, <1>5, <1>6, <1>7, <1>8, <1>9

\* What was in memory is gone; the numbers in use are those below the counter,
\* and the counter's own if a save had begun its file.
LEMMA ExitsKeeps ==
  ASSUME RecorderTypeOK, InOrder, main # "exited", Exits
  PROVE InOrder'
<1> USE DEF InOrder
<1>1. /\ dropped' = (IF frames = <<>> THEN dropped ELSE dropped \cup {episode})
      /\ ~recording' /\ ~pending' /\ frames' = <<>> /\ main' = "exited" /\ lock' = "free"
      /\ save' = [x \in Savers |-> NoSave]
      /\ UNCHANGED <<files, episode, sampled>>
  BY DEF Exits
<1>2. Idle'
  BY <1>1, NoSaveIsSave DEF Idle
<1>3. \A e : Whole(e)' = Whole(e)
  BY <1>1 DEF Whole
<1>4. OneSaves'
  BY <1>1, <1>2 DEF OneSaves, Idle, Savers
<1>5. InMemory'
  BY <1>1, <1>2, <1>3 DEF InMemory
<1>6. Numbered'
  <2>1. counter \in Nat /\ episode \in Nat /\ \A n \in Numbers : n \in Int
    BY DEF RecorderTypeOK, Numbers
  <2>2. ~outfile => /\ counter <= episode
                    /\ \A n \in Numbers :
                         /\ n < counter => Taken(n)
                         /\ n > counter => ~Taken(n)
                         /\ n = counter /\ Taken(n) => counter < episode
    BY DEF Numbered
  <2>3. \E m \in 0..episode : \A n \in Numbers : Taken(n) <=> n < m
    <3>0. CASE outfile
      BY <3>0 DEF Numbered
    <3>1. CASE ~outfile /\ \E n \in Numbers : n = counter /\ Taken(n)
      <4>0. /\ counter <= episode
            /\ \A n \in Numbers :
                 /\ n < counter => Taken(n)
                 /\ n > counter => ~Taken(n)
                 /\ n = counter /\ Taken(n) => counter < episode
        BY <2>2, <3>1
      <4>1. counter + 1 \in 0..episode
        BY <2>1, <4>0, <3>1
      <4>2. Taken(counter)
        BY <3>1
      <4>3. \A n \in Numbers : n < counter + 1 <=> n < counter \/ n = counter
        BY <2>1
      <4>4. \A n \in Numbers : n > counter \/ n < counter \/ n = counter
        BY <2>1
      <4>5. \A n \in Numbers : Taken(n) <=> n < counter + 1
        BY <4>0, <4>2, <4>3, <4>4
      <4> QED BY <4>1, <4>5
    <3>2. CASE ~outfile /\ ~\E n \in Numbers : n = counter /\ Taken(n)
      <4>0. /\ counter <= episode
            /\ \A n \in Numbers : (n < counter => Taken(n)) /\ (n > counter => ~Taken(n))
        BY <2>2, <3>2
      <4>1. counter \in 0..episode
        BY <2>1, <4>0
      <4>2. \A n \in Numbers : Taken(n) <=> n < counter
        BY <2>1, <4>0, <3>2
      <4> QED BY <4>1, <4>2
    <3> QED BY <3>0, <3>1, <3>2
  <2> QED BY <1>1, <2>3 DEF Numbered, Taken
<1>7. SavesMemory'
  BY <1>2 DEF SavesMemory, Idle
<1>8. OneFileEach'
  BY <1>1, FilesUntouched DEF Settled
<1>9. NoneLost'
  <2>1. \A e \in 1..episode : e \in Episodes
    BY DEF RecorderTypeOK, Episodes
  <2>2. \A e \in (1..episode) \ dropped' :
          e = episode /\ frames = Whole(e) => sampled[e] = 0
    BY <1>1, <2>1, WholeIsData
  <2>3. \A e \in (1..episode) \ dropped' : e \notin dropped
    BY <1>1
  <2>4. \A e \in (1..episode) \ dropped' : sampled[e] > 0 =>
          \E p \in Paths : files[p] = Whole(e)
    BY <2>2, <2>3 DEF NoneLost
  <2> QED BY <1>1, <1>3, <2>4 DEF NoneLost
<1> QED BY <1>4, <1>5, <1>6, <1>7, <1>8, <1>9

\* The files in use are numbered without a gap, so their count is the first free
\* number.
LEMMA CountIsFree ==
  ASSUME NEW m \in 0..MaxEpisodes, \A n \in Numbers : Taken(n) <=> n < m
  PROVE Cardinality({n \in Numbers : files[n] # NoFile}) = m
<1>1. {n \in Numbers : files[n] # NoFile} = 0..(m - 1)
  <2>1. MaxEpisodes \in Nat /\ MaxSignals \in Nat
    OBVIOUS
  <2>2. \A n \in 0..(m - 1) : n \in Numbers /\ n < m
    BY <2>1 DEF Numbers
  <2>3. \A n \in Numbers : n < m => n \in 0..(m - 1)
    BY <2>1 DEF Numbers
  <2> QED BY <2>2, <2>3 DEF Taken
<1>2. Cardinality(0..(m - 1)) = m
  <2>1. CASE m = 0
    BY <2>1, FS_EmptySet
  <2>2. CASE m # 0
    BY <2>2, FS_Interval
  <2> QED BY <2>1, <2>2
<1> QED BY <1>1, <1>2

LEMMA StartKeeps ==
  ASSUME RecorderTypeOK, InOrder, Start
  PROVE InOrder'
<1> USE DEF InOrder
<1>1. /\ main = "exited" /\ episode' = (IF recording' THEN episode + 1 ELSE episode)
      /\ ~pending' /\ frames' = <<>> /\ main' = "top" /\ lock' = "free"
      /\ handler' = "none" /\ keyboard' = "top"
      /\ counter' = Cardinality({n \in Numbers : files[n] # NoFile})
      /\ UNCHANGED <<save, files, sampled, dropped>>
  BY DEF Start, Boot
<1>2. Idle /\ UNCHANGED Idle /\ frames = <<>> /\ ~recording
  BY <1>1 DEF OneSaves, Idle
<1>3. PICK m \in 0..episode : \A n \in Numbers : Taken(n) <=> n < m
  BY <1>1 DEF Numbered
<1>4. counter' = m
  <2>1. m \in 0..MaxEpisodes
    BY DEF RecorderTypeOK
  <2> QED BY <1>1, <1>3, <2>1, CountIsFree
<1>5. RecorderTypeOK'
  BY OtherType
<1>6. /\ episode \in Nat /\ episode' \in Nat /\ episode <= episode'
      /\ recording' => episode' = episode + 1 /\ episode' \in Episodes
      /\ ~recording' => episode' = episode
  BY <1>1, <1>5 DEF RecorderTypeOK, Episodes
<1>7. \A e : Whole(e)' = Whole(e)
  BY <1>1 DEF Whole
<1>8. \A e \in 1..episode' : e \in Episodes /\ (sampled[e] > 0 => e \in 1..episode)
  <2>1. \A e \in 1..episode' : e \in Episodes
    BY <1>5 DEF RecorderTypeOK, Episodes
  <2>2. \A e \in 1..episode' : e > episode \/ e \in 1..episode
    BY <1>6
  <2> QED BY <2>1, <2>2 DEF InMemory
<1>9. OneSaves'
  BY <1>1, <1>2 DEF OneSaves, Idle, Savers
<1>10. InMemory'
  <2>1. recording' => Whole(episode') = <<>>
    <3> SUFFICES ASSUME recording' PROVE Whole(episode') = <<>>
      OBVIOUS
    <3>1. episode' \in Episodes /\ episode' > episode
      BY <1>6
    <3>2. sampled[episode'] = 0
      BY <3>1 DEF InMemory
    <3> QED BY <3>1, <3>2, WholeIsData
  <2>2. \A e \in Episodes : e > episode' => sampled[e] = 0
    BY <1>6 DEF InMemory, Episodes
  <2> QED BY <1>1, <1>2, <1>6, <1>7, <2>1, <2>2 DEF InMemory
<1>11. Numbered'
  <2>1. m \in Nat /\ m <= episode /\ \A n \in Numbers : n \in Int
    BY <1>6 DEF Numbers
  <2>2. \A n \in Numbers : Taken(n)' = Taken(n)
    BY <1>1 DEF Taken
  <2>3. counter' <= episode' /\ (recording' => counter' < episode')
    BY <1>4, <1>6, <2>1
  <2>4. \A n \in Numbers : /\ n < counter' => Taken(n)
                           /\ n > counter' => ~Taken(n)
                           /\ n = counter' => ~Taken(n)
    BY <1>3, <1>4, <2>1
  <2>5. main' # "exited" /\ frames' = <<>> /\ Idle'
    BY <1>1, <1>2
  <2>6. CASE outfile'
    <3>1. m \in 0..episode'
      BY <1>6, <2>1
    <3>2. \A n \in Numbers : Taken(n)' <=> n < m
      BY <1>3, <2>2
    <3> QED BY <2>6, <3>1, <3>2 DEF Numbered
  <2>7. CASE ~outfile'
    BY <2>2, <2>3, <2>4, <2>5, <2>7 DEF Numbered
  <2> QED BY <2>6, <2>7
<1>12. SavesMemory'
  BY <1>1, <1>2 DEF SavesMemory, Idle
<1>13. OneFileEach'
  <2>1. \A e \in 1..episode : e \in 1..episode' /\ (e = episode' => ~recording')
    BY <1>6
  <2>2. ~recording' => Settled'
    BY <1>1 DEF Settled
  <2>3. \A p \in Paths : files[p] \notin {NoFile, Partial} =>
          \E e \in 1..episode' : files[p] = Whole(e) /\ (e = episode' => Settled')
    BY <2>1, <2>2 DEF OneFileEach
  <2> QED BY <1>1, <1>7, <1>8, <2>3 DEF OneFileEach
<1>14. NoneLost'
  <2>1. \A e \in 1..episode : sampled[e] > 0 => frames # Whole(e)
    BY <1>2, <1>6, <1>8, WholeIsData
  <2> QED BY <1>1, <1>7, <1>8, <2>1 DEF NoneLost
<1> QED BY <1>9, <1>10, <1>11, <1>12, <1>13, <1>14

-----------------------------------------------------------------------------
(* The recorder's theorems                                                 *)

LEMMA NestedStays ==
  ASSUME RecorderNext, nested
  PROVE nested'
<1>1. CASE Start \/ Killed \/ Signal
  BY <1>1 DEF Start, Boot, Killed, Exits, Signal, history
<1>2. CASE MainThread
  BY <1>2 DEF MainThread, Loop, SpinReturns, SampleStarts, Sample, AppendFrame,
              DurationReached, Close, Leave, Exits, history
<1>3. CASE Keyboard
  BY <1>3 DEF Keyboard, KeyLoop, KeyStart, KeySave, KeyDiscard, KeyQuit, history
<1>4. CASE \E x \in Savers : Finish(x)
  BY <1>4 DEF Finish, FinishNothing, FinishBegins, ChoosePath, OpenFile, Dump, Saved,
              SaveFails, history
<1> QED BY <1>1, <1>2, <1>3, <1>4 DEF RecorderNext

LEMMA FinishKeeps ==
  ASSUME RecorderTypeOK, InOrder, ~nested, ~nested', NEW x \in Savers, Finish(x)
  PROVE InOrder'
BY FinishNothingKeeps, FinishBeginsKeeps, ChoosePathKeeps, OpenFileKeeps, DumpKeeps,
   SavedKeeps, SaveFailsKeeps DEF Finish

LEMMA RecorderKeeps ==
  ASSUME RecorderInv, RecorderNext
  PROVE RecorderInv'
<1>1. RecorderTypeOK'
  BY RecorderType DEF RecorderInv
<1>2. SUFFICES ASSUME ~nested' PROVE InOrder'
  BY <1>1 DEF RecorderInv
<1>3. ~nested /\ RecorderTypeOK /\ InOrder
  BY <1>2, NestedStays DEF RecorderInv
<1>4. CASE Start
  BY <1>3, <1>4, StartKeeps
<1>5. CASE Killed \/ Leave
  <2>1. main # "exited" /\ Exits
    BY <1>5 DEF Killed, Leave
  <2> QED BY <1>3, <2>1, ExitsKeeps
<1>6. CASE Signal
  BY <1>3, <1>6, SignalKeeps
<1>7. CASE MainThread /\ ~Leave
  BY <1>3, <1>7, LoopsKeep, SampleStartsKeeps, SampleKeeps, AppendFrameKeeps,
     DurationKeeps DEF MainThread
<1>8. CASE Keyboard
  BY <1>3, <1>8, KeysKeep, KeyStartKeeps, KeyDiscardKeeps DEF Keyboard
<1>9. CASE \E x \in Savers : Finish(x)
  BY <1>2, <1>3, <1>9, FinishKeeps
<1> QED BY <1>4, <1>5, <1>6, <1>7, <1>8, <1>9 DEF RecorderNext

LEMMA RecorderUntouched ==
  ASSUME RecorderInv, UNCHANGED recorder
  PROVE RecorderInv'
<1>1. UNCHANGED <<recording, pending, frames, counter, lock, main, handler, keyboard, save,
                  files, episode, sampled, dropped, nested, outfile>>
  BY DEF recorder, node, options, threads, history
<1>2. RecorderTypeOK'
  BY <1>1 DEF RecorderInv, RecorderTypeOK
<1>3. InOrder => InOrder'
  BY <1>1, MoveKeeps
<1> QED BY <1>1, <1>2, <1>3 DEF RecorderInv

\* A step of the pipeline is one of the recorder's, or leaves it alone.
LEMMA PipelineStep ==
  ASSUME [Next]_pipeline
  PROVE RecorderNext \/ UNCHANGED recorder
BY DEF Next, Replays, pipeline

LEMMA RecorderStarts == Init => RecorderInv
<1> SUFFICES ASSUME RecorderInit PROVE RecorderInv
  BY DEF Init
<1> USE DEF RecorderInit
<1>1. <<>> \in Seq(Data)
  OBVIOUS
<1>2. RecorderTypeOK
  <2>1. recording \in BOOLEAN /\ pending \in BOOLEAN
    BY Zenon
  <2>2. save \in [Savers -> Save]
    BY NoSaveIsSave
  <2> QED BY <1>1, <2>1, <2>2 DEF RecorderTypeOK, Mains
<1>3. Idle
  BY NoSaveIsSave DEF Idle
<1>4. OneSaves
  BY <1>3 DEF OneSaves, Idle, Savers
<1>5. InMemory
  BY <1>3 DEF InMemory
<1>6. Numbered
  <2>1. \A n \in Numbers : Taken(n) <=> n < 0
    BY NumbersAreNat DEF Taken, Paths
  <2> QED BY <2>1 DEF Numbered
<1>7. SavesMemory
  BY <1>3 DEF SavesMemory, Idle
<1>8. OneFileEach /\ NoneLost
  BY DEF OneFileEach, NoneLost
<1> QED BY <1>2, <1>4, <1>5, <1>6, <1>7, <1>8 DEF RecorderInv, InOrder

\* The order a save goes by: one caller at a time, to the first free number or to
\* the output file, of all that was sampled; nothing is lost but what is discarded,
\* ends with the process or is replaced in the output file, and nothing is saved
\* twice.
THEOREM RecorderInvHolds == Spec => []RecorderInv
<1>1. RecorderInv /\ [Next]_pipeline => RecorderInv'
  BY PipelineStep, RecorderKeeps, RecorderUntouched
<1> QED BY <1>1, RecorderStarts, PTL DEF Spec

\* Every episode that was not discarded, nor ended with the process, nor was
\* replaced in the output file by a later one, is whole in memory or in exactly
\* one file, through failed saves and restarts, as long as no signal is handled
\* inside a save (finish_episode, _output_path_for_current_episode, handle_signal,
\* _count_existing_episodes).
THEOREM WholeEpisodeHolds == Spec => []WholeEpisode
<1>1. RecorderInv => WholeEpisode
  <2> SUFFICES ASSUME RecorderTypeOK, InOrder,
                      NEW e \in (1..episode) \ dropped, sampled[e] > 0
               PROVE LET holding == {p \in Paths : files[p] = Whole(e)} IN
                       (frames = Whole(e) \/ holding # {}) /\ Cardinality(holding) <= 1
    BY DEF RecorderInv, WholeEpisode
  <2> DEFINE holding == {p \in Paths : files[p] = Whole(e)}
  <2>1. frames = Whole(e) \/ holding # {}
    BY DEF InOrder, NoneLost
  <2>2. \A p, q \in holding : p = q
    BY DEF InOrder, OneFileEach
  <2>3. Cardinality(holding) <= 1
    <3> HIDE DEF holding
    <3>1. CASE holding = {}
      BY <3>1, FS_EmptySet
    <3>2. CASE holding # {}
      <4>0. PICK p \in holding : TRUE
        BY <3>2
      <4>1. holding = {p}
        BY <2>2, <4>0
      <4>2. Cardinality({p}) = 1
        BY FS_Singleton
      <4> QED BY <4>1, <4>2
    <3> QED BY <3>1, <3>2
  <2> QED BY <2>1, <2>3
<1> QED BY <1>1, RecorderInvHolds, PTL

\* A step of the recorder that is no save's opens nor writes a file.
LEMMA FilesStay ==
  ASSUME RecorderNext, ~\E x \in Savers : OpenFile(x) \/ Dump(x)
  PROVE UNCHANGED files
<1>1. CASE Start \/ Killed \/ Signal
  BY <1>1 DEF Start, Boot, Killed, Exits, Signal
<1>2. CASE MainThread
  BY <1>2 DEF MainThread, Loop, SpinReturns, SampleStarts, Sample, AppendFrame,
              DurationReached, Close, Leave, Exits
<1>3. CASE Keyboard
  BY <1>3 DEF Keyboard, KeyLoop, KeyStart, KeySave, KeyDiscard, KeyQuit
<1>4. CASE \E x \in Savers : Finish(x)
  BY <1>4 DEF Finish, FinishNothing, FinishBegins, ChoosePath, Saved, SaveFails
<1> QED BY <1>1, <1>2, <1>3, <1>4 DEF RecorderNext

\* No save, however often the process was started again, with --output-file or
\* without, and whatever saves failed, writes to a numbered file that is wholly
\* written, unless a signal is handled inside a save
\* (_output_path_for_current_episode, _count_existing_episodes).
THEOREM FilesKeptHolds == Spec => FilesKept
<1> DEFINE Kept == \A n \in Numbers :
             files[n] \notin {NoFile, Partial} => files'[n] = files[n] \/ nested'
<1>1. RecorderInv /\ [Next]_pipeline => Kept
  <2> SUFFICES ASSUME RecorderInv, [Next]_pipeline, NEW n \in Numbers,
                      files[n] \notin {NoFile, Partial}, ~nested'
               PROVE files'[n] = files[n]
    OBVIOUS
  <2>1. CASE UNCHANGED recorder
    BY <2>1 DEF recorder
  <2>2. CASE RecorderNext
    <3>1. RecorderTypeOK /\ InOrder /\ ~nested
      BY <2>2, NestedStays DEF RecorderInv
    <3>2. CASE \E x \in Savers : OpenFile(x) \/ Dump(x)
      <4>1. PICK x \in Savers : OpenFile(x) \/ Dump(x)
        BY <3>2
      <4>2. save[x].path \in Numbers => files[save[x].path] \in {NoFile, Partial}
        BY <3>1, <4>1, OpenFileKeeps, DumpKeeps
      <4>3. \E c : files' = [files EXCEPT ![save[x].path] = c]
        BY <4>1 DEF OpenFile, Dump
      <4> QED BY <3>1, <4>2, <4>3 DEF RecorderTypeOK, Paths
    <3> QED BY <2>2, <3>2, FilesStay
  <2> QED BY <2>1, <2>2, PipelineStep
<1> HIDE DEF Kept
<1>2. RecorderInv /\ [Next]_pipeline => [Kept]_pipeline
  BY <1>1
<1>3. Spec => [][Kept]_pipeline
  BY <1>2, RecorderInvHolds, PTL DEF Spec
<1> QED BY <1>3 DEF Kept, FilesKept

-----------------------------------------------------------------------------
(* The replay                                                              *)

Steps == {"idle", "start", "discovery", "teleop", "sync", "ramp", "prep", "replay",
          "finally", "over"}
Commands == [frame : Data, joints : BOOLEAN]
Messages == [what : {"switch_teleop", "switch_stop"}] \cup [what : {"sync"}, i : Nat]
              \cup [what : {"frame"}, frame : Data]

\* A replay that has begun has a command to send, and the one it sends next is
\* among its commands.
ReplayTypeOK ==
  /\ step \in Steps /\ plan \in Arguments /\ commands \in Seq(Commands)
  /\ index \in Nat /\ published \in Seq(Messages) /\ cut \in BOOLEAN
  /\ step \notin {"idle", "over"} => commands # <<>>
  /\ step = "replay" => index < Len(commands)

NoJoints == \A k \in DOMAIN published : ~Joints(published[k])

\* No joint command goes out before the way to the first state, and what was
\* published last when the replay is over is the stop.
StopComes ==
  /\ step \in {"idle", "start", "discovery", "teleop", "sync"} => NoJoints
  /\ step = "over" /\ plan.finish /\ ~cut =>
       NoJoints \/ (published # <<>> /\ published[Len(published)].what = "switch_stop")

\* One frame is another's successor in an episode, or that frame itself.
NotAfter(f, g) == f[1] = g[1] /\ f[2] <= g[2]

FramesSent == {k \in DOMAIN published : published[k].what = "frame"}

\* The commands that may still be sent.
Unsent ==
  IF step = "replay" THEN index + 1..Len(commands)
  ELSE IF step \in {"finally", "over"} THEN {}
  ELSE DOMAIN commands

\* The commands are in the order of the episode, and so is what was sent of
\* them, none of it after one that may still be sent.
SendsInOrder ==
  /\ \A i, j \in DOMAIN commands : i <= j => NotAfter(commands[i].frame, commands[j].frame)
  /\ \A j, k \in FramesSent : j < k => NotAfter(published[j].frame, published[k].frame)
  /\ \A k \in FramesSent, i \in Unsent : NotAfter(published[k].frame, commands[i].frame)

ReplayInv == ReplayTypeOK /\ StopComes /\ (~nested => SendsInOrder)

LEMMA SeqGrows ==
  ASSUME NEW S, NEW T, S \subseteq T, NEW s \in Seq(S)
  PROVE s \in Seq(T)
<1>1. s = [k \in 1..Len(s) |-> s[k]] /\ Len(s) \in Nat
  OBVIOUS
<1>2. \A k \in 1..Len(s) : s[k] \in T
  OBVIOUS
<1> QED BY <1>1, <1>2

\* range's elements are within its ends, and rise (select_frame_indices).
LEMMA RangeRises ==
  ASSUME NEW from \in Int, NEW until \in Int, NEW by \in Nat \ {0}, from < until
  PROVE LET r == PyRange(from, until, by) IN
          /\ r \in Seq(from..until - 1)
          /\ \A j, k \in DOMAIN r : j <= k => r[j] <= r[k]
<1> DEFINE r == PyRange(from, until, by)
           span == until - from + by - 1
           n == span \div by
<1>1. span \in Nat /\ n \in Nat /\ n * by <= span
  <2>1. span \in Nat
    OBVIOUS
  <2>2. n \in Int /\ n * by <= span /\ span < n * by + by
    <3> HIDE DEF span
    <3>1. span \in Int /\ by \in Int /\ by > 0
      BY <2>1
    <3>2. n = span \div by
      OBVIOUS
    <3> QED BY <3>1, <3>2, SMTT(30)
  <2>3. n >= 0
    <3> HIDE DEF span, n
    <3>1. n < 0 => n * by <= -by
      BY <2>2
    <3> QED BY <2>1, <2>2, <3>1
  <2> QED BY <2>1, <2>2, <2>3
<1>2. r = [k \in 1..n |-> from + (k - 1) * by]
  BY DEF PyRange
<1> HIDE DEF n, r
<1>3. \A k \in 1..n : from + (k - 1) * by \in from..until - 1
  <2> SUFFICES ASSUME NEW k \in 1..n
               PROVE (k - 1) * by >= 0 /\ (k - 1) * by <= until - from - 1
                     /\ (k - 1) * by \in Int
    BY <1>1
  <2>1. k - 1 \in Nat /\ k - 1 <= n - 1
    BY <1>1
  <2>2. (k - 1) * by \in Int /\ (k - 1) * by >= 0
    BY <2>1
  <2>3. (k - 1) * by <= (n - 1) * by
    BY <1>1, <2>1
  <2>4. (n - 1) * by = n * by - by
    BY <1>1
  <2>5. n * by \in Int
    BY <1>1
  <2> HIDE DEF span
  <2>6. span = until - from + by - 1
    BY DEF span
  <2> QED BY <1>1, <2>2, <2>3, <2>4, <2>5, <2>6
<1>4. r \in Seq(from..until - 1) /\ DOMAIN r = 1..n
  BY <1>1, <1>2, <1>3
<1>5. ASSUME NEW j \in 1..n, NEW k \in 1..n, j <= k
      PROVE r[j] <= r[k]
  <2>1. j - 1 \in Nat /\ k - 1 \in Nat /\ j - 1 <= k - 1
    BY <1>1, <1>5
  <2>2. (j - 1) * by <= (k - 1) * by
    BY <2>1
  <2>3. (j - 1) * by \in Int /\ (k - 1) * by \in Int
    BY <2>1
  <2> QED BY <1>2, <2>2, <2>3
<1> QED BY <1>4, <1>5 DEF r

\* The frames selected are frames of the episode, in its order.
LEMMA SelectedRise ==
  ASSUME NEW total \in Nat, NEW p \in Arguments, ~RangeIsEmpty(total, p)
  PROVE LET selected == SelectFrames(total, p) IN
          /\ selected \in Seq(0..total - 1)
          /\ \A j, k \in DOMAIN selected : j <= k => selected[j] <= selected[k]
<1> DEFINE from == AtLeast(0, p.start)
           until == AtMost(total, p.end)
           by == AtLeast(1, p.stride)
<1>1. p.start \in Int /\ p.end \in Int /\ p.stride \in Int
  BY DEF Arguments
<1>2. from \in Nat /\ until \in Int /\ until <= total /\ by \in Nat \ {0} /\ from < until
  BY <1>1 DEF AtLeast, AtMost, RangeIsEmpty
<1>3. SelectFrames(total, p) = PyRange(from, until, by)
  BY DEF SelectFrames
<1> HIDE DEF from, until, by
<1>4. /\ PyRange(from, until, by) \in Seq(from..until - 1)
      /\ \A j, k \in DOMAIN PyRange(from, until, by) :
           j <= k => PyRange(from, until, by)[j] <= PyRange(from, until, by)[k]
  BY <1>2, RangeRises
<1>5. PyRange(from, until, by) \in Seq(0..total - 1)
  <2> DEFINE S == from..until - 1
             T == 0..total - 1
  <2>1. S \subseteq T /\ PyRange(from, until, by) \in Seq(S)
    BY <1>2, <1>4
  <2> HIDE DEF S, T
  <2>2. PyRange(from, until, by) \in Seq(T)
    BY <2>1, SeqGrows
  <2> QED BY <2>2 DEF T
<1> QED BY <1>3, <1>4, <1>5

\* The commands send frames of an episode, in its order.
Follow(cmds, content) ==
  \A i, j \in DOMAIN cmds : i <= j =>
    \E m, n \in DOMAIN content :
      m <= n /\ cmds[i].frame = content[m] /\ cmds[j].frame = content[n]

\* What Load makes of a file: commands of its frames, in their order.
LEMMA Loaded ==
  ASSUME NEW content \in Seq(Data), NEW p \in Arguments, ~RangeIsEmpty(Len(content), p),
         NEW usable \in SUBSET DOMAIN content
  PROVE LET cmds == BuildCommands(content, SelectFrames(Len(content), p), usable) IN
          cmds \in Seq(Commands) /\ Follow(cmds, content)
<1> DEFINE selected == SelectFrames(Len(content), p)
           cmds == BuildCommands(content, selected, usable)
           At(k) == Position(Len(content), selected[k])
<1>1. /\ selected \in Seq(0..Len(content) - 1)
      /\ \A j, k \in DOMAIN selected : j <= k => selected[j] <= selected[k]
  BY SelectedRise
<1>2. cmds = [k \in DOMAIN selected |->
                [frame |-> content[At(k)], joints |-> At(k) \in usable]]
  BY DEF BuildCommands
<1> HIDE DEF selected, cmds
<1>3. \A k \in DOMAIN selected : At(k) = selected[k] + 1 /\ At(k) \in DOMAIN content
  BY <1>1 DEF Position
<1> HIDE DEF At
<1>4. \A k \in DOMAIN selected : content[At(k)] \in Data
  BY <1>3
<1>5. cmds \in Seq(Commands)
  <2>1. DOMAIN selected = 1..Len(selected) /\ Len(selected) \in Nat
    BY <1>1
  <2>2. \A k \in DOMAIN selected : (At(k) \in usable) \in BOOLEAN
    OBVIOUS
  <2>3. cmds \in [1..Len(selected) -> Commands]
    BY <1>2, <1>4, <2>1, <2>2 DEF Commands
  <2> QED BY <2>1, <2>3
<1>6. ASSUME NEW i \in DOMAIN cmds, NEW j \in DOMAIN cmds, i <= j
      PROVE At(i) \in DOMAIN content /\ At(j) \in DOMAIN content /\ At(i) <= At(j)
            /\ cmds[i].frame = content[At(i)] /\ cmds[j].frame = content[At(j)]
  <2>1. i \in DOMAIN selected /\ j \in DOMAIN selected
    BY <1>2
  <2>2. selected[i] <= selected[j] /\ selected[i] \in Int /\ selected[j] \in Int
    BY <1>1, <1>6, <2>1
  <2> QED BY <1>2, <1>3, <2>1, <2>2
<1>7. Follow(cmds, content)
  BY <1>6 DEF Follow
<1> QED BY <1>5, <1>7 DEF selected, cmds

LEMMA ReplayStarts == Init => ReplayInv
<1> SUFFICES ASSUME Init PROVE ReplayInv
  OBVIOUS
<1> USE DEF Init, ReplayInit
<1>1. NoPlan \in Arguments
  BY DEF NoPlan, Arguments
<1>2. <<>> \in Seq(Commands) /\ <<>> \in Seq(Messages)
  OBVIOUS
<1>3. ReplayTypeOK
  BY <1>1, <1>2 DEF ReplayTypeOK, Steps
<1>4. StopComes
  BY DEF StopComes, NoJoints
<1>5. SendsInOrder
  BY DEF SendsInOrder, FramesSent
<1> QED BY <1>3, <1>4, <1>5 DEF ReplayInv

\* Publishing the command of a frame, or nothing if it has no joints.
LEMMA PublishType ==
  ASSUME published \in Seq(Messages), NEW c \in Commands, Publish(c)
  PROVE /\ published' \in Seq(Messages)
        /\ \/ UNCHANGED published
           \/ published' = Append(published, [what |-> "frame", frame |-> c.frame])
<1>1. [what |-> "frame", frame |-> c.frame] \in Messages
  BY DEF Commands, Messages
<1> QED BY <1>1 DEF Publish

LEMMA ReplayType ==
  ASSUME ReplayTypeOK, ReplayNext
  PROVE ReplayTypeOK'
<1> USE DEF ReplayTypeOK, Steps, Goes
<1>1. CASE Starts
  BY <1>1 DEF Starts
<1>2. CASE Discovery
  BY <1>2 DEF Discovery, Raises
<1>3. CASE SwitchTeleop
  <2>1. [what |-> "switch_teleop"] \in Messages
    BY DEF Messages
  <2> QED BY <1>3, <2>1 DEF SwitchTeleop
<1>4. CASE SyncStarts
  BY <1>4 DEF SyncStarts, Raises
<1>5. CASE SyncStep
  <2>1. [what |-> "sync", i |-> index] \in Messages
    BY DEF Messages
  <2> QED BY <1>5, <2>1 DEF SyncStep
<1>6. CASE Prep
  <2>1. commands[1] \in Commands /\ Len(commands) > 0
    BY <1>6 DEF Prep
  <2>2. published' \in Seq(Messages)
    BY <1>6, <2>1, PublishType DEF Prep
  <2> QED BY <1>6, <2>1, <2>2 DEF Prep
<1>7. CASE ReplayFrame
  <2>1. commands[index + 1] \in Commands
    BY <1>7 DEF ReplayFrame
  <2>2. published' \in Seq(Messages)
    BY <1>7, <2>1, PublishType DEF ReplayFrame
  <2> QED BY <1>7, <2>2 DEF ReplayFrame
<1>8. CASE Finally
  <2>1. [what |-> "switch_stop"] \in Messages
    BY DEF Messages
  <2> QED BY <1>8, <2>1 DEF Finally
<1>9. CASE Interrupt
  <2>1. cut' \in BOOLEAN
    BY <1>9 DEF Interrupt
  <2> QED BY <1>9, <2>1 DEF Interrupt
<1> QED BY <1>1, <1>2, <1>3, <1>4, <1>5, <1>6, <1>7, <1>8, <1>9 DEF ReplayNext

\* The stop is the last thing published in the clean-up, and only a signal in
\* the clean-up leaves it out (execute_replay's finally).
LEMMA StopComesStep ==
  ASSUME ReplayTypeOK, StopComes, ReplayNext
  PROVE StopComes'
<1> USE DEF ReplayTypeOK, Steps, StopComes, NoJoints, Goes
<1>1. CASE Starts
  BY <1>1 DEF Starts
<1>2. CASE Discovery
  BY <1>2 DEF Discovery, Raises
<1>3. CASE SwitchTeleop
  <2>1. published' = Append(published, [what |-> "switch_teleop"])
    BY <1>3 DEF SwitchTeleop
  <2>2. \A k \in DOMAIN published' : ~Joints(published'[k])
    BY <1>3, <2>1 DEF SwitchTeleop, Joints
  <2> QED BY <1>3, <2>2 DEF SwitchTeleop
<1>4. CASE SyncStarts
  BY <1>4 DEF SyncStarts, Raises
<1>5. CASE SyncStep
  BY <1>5 DEF SyncStep
<1>6. CASE Prep
  BY <1>6 DEF Prep
<1>7. CASE ReplayFrame
  BY <1>7 DEF ReplayFrame
<1>8. CASE Finally
  BY <1>8 DEF Finally
<1>9. CASE Interrupt
  <2>1. CASE step = "finally"
    <3>1. cut' = TRUE /\ step' = "over"
      BY <1>9, <2>1 DEF Interrupt
    <3> QED BY <3>1
  <2>2. CASE step = "start"
    BY <1>9, <2>2 DEF Interrupt
  <2>3. CASE step \notin {"start", "finally"}
    BY <1>9, <2>3 DEF Interrupt
  <2> QED BY <2>1, <2>2, <2>3
<1> QED BY <1>1, <1>2, <1>3, <1>4, <1>5, <1>6, <1>7, <1>8, <1>9 DEF ReplayNext

\* A step that sends no frame, and sets back what may still be sent to nothing
\* more than before, keeps the order.
LEMMA NoFrameKeeps ==
  ASSUME SendsInOrder, UNCHANGED commands, Unsent' \subseteq Unsent, published \in Seq(Messages),
         \/ UNCHANGED published
         \/ \E m : m.what # "frame" /\ published' = Append(published, m)
  PROVE SendsInOrder'
<1>1. \A k \in FramesSent' : k \in FramesSent /\ published'[k] = published[k]
  <2>1. CASE UNCHANGED published
    BY <2>1 DEF FramesSent
  <2>2. CASE \E m : m.what # "frame" /\ published' = Append(published, m)
    BY <2>2 DEF FramesSent
  <2> QED BY <2>1, <2>2
<1> QED BY <1>1 DEF SendsInOrder

\* One that sends the frame of a command that may be sent, and none before it
\* any more, does too.
LEMMA FrameKeeps ==
  ASSUME ReplayTypeOK, SendsInOrder, UNCHANGED commands,
         NEW i \in Unsent, i \in DOMAIN commands,
         Unsent' \subseteq Unsent, Unsent' \subseteq {j \in DOMAIN commands : i <= j},
         Publish(commands[i])
  PROVE SendsInOrder'
<1>1. CASE UNCHANGED published
  BY <1>1 DEF SendsInOrder, FramesSent
<1>2. CASE published' = Append(published, [what |-> "frame", frame |-> commands[i].frame])
  <2> DEFINE last == Len(published) + 1
  <2>1. Len(published) \in Nat /\ DOMAIN published = 1..Len(published)
    BY DEF ReplayTypeOK
  <2>2. /\ \A k \in FramesSent' : k # last => k \in FramesSent /\ k < last
                                              /\ published'[k] = published[k]
        /\ published'[last].frame = commands[i].frame
        /\ \A k \in FramesSent' : k <= last
    BY <1>2, <2>1 DEF FramesSent, ReplayTypeOK
  <2> HIDE DEF last
  <2>3. ASSUME NEW j \in FramesSent', NEW k \in FramesSent', j < k
        PROVE NotAfter(published'[j].frame, published'[k].frame)
    <3>1. j # last /\ j \in FramesSent /\ published'[j] = published[j]
      BY <2>1, <2>2, <2>3 DEF last, FramesSent
    <3>2. CASE k = last
      BY <2>2, <3>1, <3>2 DEF SendsInOrder
    <3>3. CASE k # last
      BY <2>2, <2>3, <3>1, <3>3 DEF SendsInOrder
    <3> QED BY <3>2, <3>3
  <2>4. ASSUME NEW k \in FramesSent', NEW j \in Unsent'
        PROVE NotAfter(published'[k].frame, commands[j].frame)
    <3>1. CASE k = last
      BY <2>2, <2>4, <3>1 DEF SendsInOrder
    <3>2. CASE k # last
      BY <2>2, <2>4, <3>2 DEF SendsInOrder
    <3> QED BY <3>1, <3>2
  <2> QED BY <2>3, <2>4 DEF SendsInOrder
<1> QED BY <1>1, <1>2 DEF Publish

LEMMA SendsInOrderStep ==
  ASSUME ReplayTypeOK, StopComes, SendsInOrder, ReplayNext
  PROVE SendsInOrder'
<1> USE DEF ReplayTypeOK, Steps, Goes
<1>1. CASE Starts \/ Discovery \/ SyncStarts \/ Interrupt
  <2>1. UNCHANGED <<commands, published>> /\ Unsent' \subseteq Unsent
    BY <1>1 DEF Starts, Discovery, SyncStarts, Interrupt, Raises, Unsent
  <2> QED BY <2>1, NoFrameKeeps
<1>2. CASE SwitchTeleop
  <2>1. UNCHANGED commands /\ Unsent' \subseteq Unsent
    BY <1>2 DEF SwitchTeleop, Unsent
  <2> QED BY <1>2, <2>1, NoFrameKeeps DEF SwitchTeleop
<1>3. CASE SyncStep
  <2>1. UNCHANGED commands /\ Unsent' \subseteq Unsent
    BY <1>3 DEF SyncStep, Unsent
  <2> QED BY <1>3, <2>1, NoFrameKeeps DEF SyncStep
<1>4. CASE Finally
  <2>1. UNCHANGED commands /\ Unsent' \subseteq Unsent
    BY <1>4 DEF Finally, Unsent
  <2> QED BY <1>4, <2>1, NoFrameKeeps DEF Finally
<1>5. CASE Prep
  <2>1. UNCHANGED commands /\ Unsent = DOMAIN commands /\ Unsent' \subseteq DOMAIN commands
    BY <1>5 DEF Prep, Unsent
  <2>2. 1 \in DOMAIN commands /\ \A j \in DOMAIN commands : 1 <= j
    BY <1>5 DEF Prep
  <2>3. CASE UNCHANGED published
    BY <2>1, <2>3, NoFrameKeeps
  <2>4. CASE Publish(commands[1])
    BY <2>1, <2>2, <2>4, FrameKeeps
  <2> QED BY <1>5, <2>3, <2>4 DEF Prep
<1>6. CASE ReplayFrame
  <2> DEFINE i == index + 1
  <2>1. UNCHANGED commands /\ Publish(commands[i]) /\ i \in Unsent /\ i \in DOMAIN commands
    BY <1>6 DEF ReplayFrame, Unsent
  <2>2. Unsent' \subseteq Unsent /\ Unsent' \subseteq {j \in DOMAIN commands : i <= j}
    BY <1>6 DEF ReplayFrame, Unsent
  <2> HIDE DEF i
  <2> QED BY <2>1, <2>2, FrameKeeps
<1> QED BY <1>1, <1>2, <1>3, <1>4, <1>5, <1>6 DEF ReplayNext

\* A file of the recorder is one episode's frames from the first on, unless a
\* signal was handled inside a save: so are the commands made of it.
LEMMA LoadKeeps ==
  ASSUME RecorderInv, ReplayInv, NEW n \in Paths, files[n] \notin {NoFile, Partial},
         Load(files[n]), UNCHANGED nested
  PROVE ReplayInv'
<1>1. PICK p \in Plans, usable \in SUBSET DOMAIN files[n], state \in BOOLEAN :
        /\ plan' = p
        /\ LET cmds == BuildCommands(files[n], SelectFrames(Len(files[n]), p), usable) IN
             IF files[n] = <<>> \/ RangeIsEmpty(Len(files[n]), p)
                  \/ (\A k \in DOMAIN cmds : ~cmds[k].joints) \/ ~p.execute
             THEN step' = "over" /\ UNCHANGED <<commands, first>>
             ELSE step' = "start" /\ commands' = cmds /\ first' = state
  BY DEF Load
<1>2. step = "idle" /\ NoJoints /\ UNCHANGED <<index, published, interrupts, cut>>
  BY DEF Load, ReplayInv, StopComes
<1>3. FramesSent = {} /\ FramesSent' = {}
  BY <1>2 DEF NoJoints, Joints, FramesSent
<1>4. files[n] \in Seq(Data)
  BY DEF RecorderInv, RecorderTypeOK
<1>5. p \in Arguments
  OBVIOUS
<1>6. CASE step' = "over" /\ UNCHANGED commands
  <2>1. ReplayTypeOK'
    BY <1>1, <1>2, <1>5, <1>6 DEF ReplayInv, ReplayTypeOK, Steps
  <2>2. NoJoints'
    BY <1>2 DEF NoJoints, Joints
  <2>3. StopComes'
    BY <1>6, <2>2 DEF StopComes
  <2>4. SendsInOrder => SendsInOrder'
    BY <1>3, <1>6 DEF SendsInOrder
  <2> QED BY <2>1, <2>3, <2>4 DEF ReplayInv
<1>7. ASSUME step' = "start", ~RangeIsEmpty(Len(files[n]), p),
             commands' = BuildCommands(files[n], SelectFrames(Len(files[n]), p), usable),
             ~\A k \in DOMAIN commands' : ~commands'[k].joints
      PROVE ReplayInv'
  <2>1. commands' \in Seq(Commands) /\ Follow(commands', files[n])
    <3> DEFINE content == files[n]
               cmds == BuildCommands(content, SelectFrames(Len(content), p), usable)
    <3>1. content \in Seq(Data) /\ usable \in SUBSET DOMAIN content
          /\ ~RangeIsEmpty(Len(content), p)
          /\ commands' = cmds
      BY <1>4, <1>7
    <3> HIDE DEF content
    <3>2. cmds \in Seq(Commands) /\ Follow(cmds, content)
      BY <1>5, <3>1, Loaded
    <3> QED BY <3>1, <3>2 DEF content
  <2>2. ReplayTypeOK'
    BY <1>1, <1>2, <1>5, <1>7, <2>1 DEF ReplayInv, ReplayTypeOK, Steps
  <2>3. StopComes'
    <3>1. NoJoints'
      BY <1>2 DEF NoJoints, Joints
    <3> QED BY <1>7, <3>1 DEF StopComes
  <2>4. ASSUME ~nested PROVE SendsInOrder'
    <3>1. PICK e \in 1..episode : files[n] = Whole(e)
      BY <2>4 DEF RecorderInv, InOrder, OneFileEach
    <3>2. e \in Episodes
      BY DEF RecorderInv, RecorderTypeOK, Episodes
    <3>3. \A l \in DOMAIN files[n] : files[n][l] = <<e, l>>
      <4>1. /\ Whole(e) \in Seq(Data) /\ Len(Whole(e)) = sampled[e]
            /\ \A i \in 1..sampled[e] : Whole(e)[i] = <<e, i>>
        BY <3>2, WholeIsData DEF RecorderInv
      <4>2. DOMAIN Whole(e) = 1..sampled[e]
        BY <4>1
      <4> QED BY <3>1, <4>1, <4>2
    <3>4. \A i, j \in DOMAIN commands' : i <= j =>
            NotAfter(commands'[i].frame, commands'[j].frame)
      BY <2>1, <3>3 DEF Follow, NotAfter
    <3> QED BY <1>3, <3>4 DEF SendsInOrder
  <2> QED BY <2>2, <2>3, <2>4 DEF ReplayInv
<1> QED BY <1>1, <1>6, <1>7

\* The replay's invariant, on the recorder's.
LEMMA ReplayKeeps ==
  ASSUME RecorderInv, ReplayInv, [Next]_pipeline
  PROVE ReplayInv'
<1>1. CASE UNCHANGED pipeline
  <2>1. UNCHANGED replay /\ UNCHANGED nested
    BY <1>1 DEF pipeline, recorder, history
  <2> QED BY <2>1 DEF replay, ReplayInv, ReplayTypeOK, StopComes, NoJoints, SendsInOrder,
                      FramesSent, Unsent
<1>2. CASE RecorderNext /\ UNCHANGED replay
  <2>1. ~nested' => ~nested
    BY <1>2, NestedStays
  <2> QED BY <1>2, <2>1 DEF replay, ReplayInv, ReplayTypeOK, StopComes, NoJoints,
                            SendsInOrder, FramesSent, Unsent
<1>3. CASE Replays
  BY <1>3, LoadKeeps DEF Replays, recorder, history
<1>4. CASE ReplayNext /\ UNCHANGED recorder
  <2>1. UNCHANGED nested
    BY <1>4 DEF recorder, history
  <2> QED BY <1>4, <2>1, ReplayType, StopComesStep, SendsInOrderStep DEF ReplayInv
<1> QED BY <1>1, <1>2, <1>3, <1>4 DEF Next

\* The inductive invariant of a replay: what it sends, in which order and with
\* what end (execute_replay).
THEOREM ReplayInvHolds == Spec => []ReplayInv
<1>1. Init => ReplayInv
  BY ReplayStarts
<1>2. RecorderInv /\ ReplayInv /\ [Next]_pipeline => ReplayInv'
  BY ReplayKeeps
<1> QED BY <1>1, <1>2, RecorderInvHolds, PTL DEF Spec

\* Whatever failed and whatever signals came, a replay that published a joint
\* command ends with switch_stop if it was asked to, but for a signal in the
\* clean-up itself (execute_replay's finally).
THEOREM StopFollowsJointsHolds == Spec => []StopFollowsJoints
<1>1. ReplayInv => StopFollowsJoints
  BY DEF ReplayInv, StopComes, NoJoints, StopFollowsJoints
<1> QED BY <1>1, ReplayInvHolds, PTL

\* For every command line and every episode the recorder wrote, the frames go
\* out in the order they were sampled, and are of one episode
\* (select_frame_indices, execute_replay).
THEOREM ReplayedAsRecordedHolds == Spec => []ReplayedAsRecorded
<1>1. ReplayInv => ReplayedAsRecorded
  BY DEF ReplayInv, SendsInOrder, FramesSent, NotAfter, ReplayedAsRecorded
<1> QED BY <1>1, ReplayInvHolds, PTL
=============================================================================
