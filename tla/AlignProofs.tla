----------------------------- MODULE AlignProofs -----------------------------
(***************************************************************************)
(* Streaming only at the slow speed, for any arms, hold frames and requests *)
(* in flight.  The driver serves requests in the order sent, and the        *)
(* callback thread sends one at a time, so the answer to the last one comes *)
(* when no request is left that could undo it.                              *)
(***************************************************************************)
EXTENDS AlignProps, SequenceTheorems, TLAPS

Requests == [what : Kinds, arms : SUBSET Arm, owned : BOOLEAN]

\* A session that still aligns has not held its frames (align_logic.py:93).
FramesLeft == \A a \in Arm : phase[a] = "ALIGNING" => frames[a] < HoldFrames

TypeInv == TypeOK /\ FramesLeft

Waited == [what |-> Request, arms |-> pc.arms, owned |-> TRUE]

\* Only the last request can be one that is waited for, and then it is that of
\* the call the thread is in (_wait_future).
LastIsWaitedFor ==
  exit = "no" =>
    /\ \A i \in 1..Len(queue) : queue[i].owned => i = Len(queue) /\ call = "sent"
    /\ call = "sent" => queue # <<>> /\ queue[Len(queue)] = Waited

FreeMeansNoCall == pc = Free => call = "none"

\* An answer to the slow request finds the arms slow and nothing left to serve.
SlowAnswered == pc.at = "align" /\ call = "ok" => queue = <<>> /\ slow = pc.arms

\* Nothing is sent while the node streams.
StreamsAlone ==
  streaming => exit = "no" /\ pc = Free /\ queue = <<>> /\ active \subseteq slow

SlowInv == LastIsWaitedFor /\ FreeMeansNoCall /\ SlowAnswered /\ StreamsAlone

--------------------------------------------------------------------------
(* Types *)

LEMMA TypeFirst == Init => TypeInv
<1> SUFFICES ASSUME Init PROVE TypeInv
  OBVIOUS
<1>1. phase \in [Arm -> Phases] /\ frames \in [Arm -> 0..HoldFrames] /\ FramesLeft
  BY AlignAssumption DEF Init, FramesLeft, Phases
<1>2. queue \in Seq([what : Kinds, arms : SUBSET Arm, owned : BOOLEAN])
  BY DEF Init
<1>3. pc \in [at : {"free", "align", "undo", "hold", "restore"}, arms : SUBSET Arm, end : Phases]
  BY DEF Init, Free, Phases
<1> QED
  BY <1>1, <1>2, <1>3 DEF Init, TypeInv, TypeOK, Phases, Ages

LEMMA CancelledTyped ==
  ASSUME NEW arms, TypeInv, Cancelled(arms)
  PROVE  /\ phase' \in [Arm -> Phases] /\ frames' \in [Arm -> 0..HoldFrames]
         /\ expired' \in BOOLEAN
         /\ FramesLeft'
<1>1. HoldFrames \in Nat /\ phase \in [Arm -> Phases] /\ frames \in [Arm -> 0..HoldFrames]
  BY AlignAssumption DEF TypeInv, TypeOK
<1>2. expired' \in BOOLEAN
  BY DEF Cancelled
<1>3. phase' \in [Arm -> Phases]
  BY <1>1 DEF Cancelled, Phases
<1>4. frames' \in [Arm -> 0..HoldFrames]
  BY <1>1 DEF Cancelled
<1>5. FramesLeft'
  BY <1>1 DEF Cancelled, FramesLeft, TypeInv
<1> QED
  BY <1>2, <1>3, <1>4, <1>5

\* Giving up on a request leaves the requests and what they ask for.
LEMMA Disowned ==
  ASSUME queue \in Seq(Requests),
         queue' = [i \in DOMAIN queue |-> [queue[i] EXCEPT !.owned = FALSE]]
  PROVE  /\ queue' \in Seq(Requests)
         /\ Len(queue') = Len(queue)
         /\ \A i \in 1..Len(queue) : ~queue'[i].owned
<1>1. Len(queue) \in Nat /\ DOMAIN queue = 1..Len(queue)
  BY LenProperties
<1>2. \A i \in 1..Len(queue) : queue[i] \in Requests
  BY ElementOfSeq
<1>3. \A i \in 1..Len(queue) : queue'[i] \in Requests /\ ~queue'[i].owned
  BY <1>1, <1>2 DEF Requests
<1>4. queue' \in [1..Len(queue) -> Requests]
  BY <1>1, <1>3
<1>5. queue' \in Seq(Requests)
  BY <1>1, <1>4, SeqDef
<1> QED
  BY <1>1, <1>3, <1>4, <1>5, LenProperties

LEMMA CallsTyped ==
  ASSUME TypeInv, Calls
  PROVE  TypeInv'
<1> USE DEF TypeInv, TypeOK, FramesLeft, sessions, stream, inputs
<1>1. CASE SendRequest
  <2>1. [what |-> Request, arms |-> pc.arms, owned |-> TRUE] \in Requests
    BY DEF Request, Requests, Kinds
  <2>2. queue' \in Seq(Requests)
    BY <1>1, <2>1, AppendProperties DEF SendRequest, Requests
  <2> QED
    BY <1>1, <2>2 DEF SendRequest, Requests
<1>2. CASE ServiceMissing
  BY <1>2 DEF ServiceMissing, Failed
<1>3. CASE CallTimesOut
  <2>1. queue' \in Seq(Requests)
    BY <1>3, Disowned DEF CallTimesOut, Requests
  <2> QED
    BY <1>3, <2>1 DEF CallTimesOut, Requests
<1> QED
  BY <1>1, <1>2, <1>3 DEF Calls

LEMMA ContinuesTyped ==
  ASSUME TypeInv, Continues
  PROVE  TypeInv'
<1> USE DEF TypeInv, TypeOK, Answered
<1>1. CASE StreamStarts
  BY <1>1 DEF StreamStarts, FramesLeft, sessions, inputs, driver, Free, Phases
<1>2. CASE AlignFails
  BY <1>2 DEF AlignFails, FramesLeft, sessions, stream, inputs, driver
<1>3. CASE Undone
  BY <1>3, CancelledTyped DEF Undone, stream, inputs, driver, Free, Phases
<1>4. CASE Held
  BY <1>4 DEF Held, FramesLeft, sessions, stream, inputs, driver
<1>5. CASE Restored
  BY <1>5, CancelledTyped DEF Restored, driver, Free, Phases
<1> QED
  BY <1>1, <1>2, <1>3, <1>4, <1>5 DEF Continues

LEMMA CombinedTyped ==
  ASSUME NEW p, NEW arms
  PROVE  CombinedOf(p, arms) \in Phases
BY DEF CombinedOf, Phases

LEMMA StopTyped ==
  ASSUME TypeInv, NEW end \in Phases, StopStreaming(end)
  PROVE  /\ streaming' \in BOOLEAN /\ active' \subseteq Arm /\ status' \in Phases
         /\ pc' \in [at : {"free", "align", "undo", "hold", "restore"},
                     arms : SUBSET Arm, end : Phases]
BY DEF TypeInv, TypeOK, StopStreaming

LEMMA TimerTyped ==
  ASSUME TypeInv, Timer
  PROVE  TypeInv'
<1> USE DEF TypeInv, TypeOK
<1>1. CASE AbortStale
  BY <1>1, CancelledTyped DEF AbortStale, StopStreaming, driver, Phases
<1>2. CASE Advance
  <2> PICK close \in SUBSET active :
         /\ phase' = [a \in Arm |-> PhaseAfter(a, close)]
         /\ frames' = [a \in Arm |-> FramesAfter(a, close)]
    BY <1>2 DEF Advance
  <2>1. \A a \in Arm : PhaseAfter(a, close) \in Phases
    BY DEF PhaseAfter, Phases
  <2>2. \A a \in Arm : FramesAfter(a, close) \in 0..HoldFrames
    BY AlignAssumption DEF FramesAfter, FramesLeft
  <2>3. FramesLeft'
    BY AlignAssumption DEF FramesLeft, FramesAfter, PhaseAfter
  <2>4. CASE CombinedOf(phase', active) \in {"ALIGNED", "TIMEOUT_WARN"}
    <3>1. PICK end \in Phases : StopStreaming(end)
      BY <1>2, <2>4, CombinedTyped DEF Advance
    <3> QED
      BY <1>2, <2>1, <2>2, <2>3, <3>1, StopTyped DEF Advance
  <2>5. CASE CombinedOf(phase', active) \notin {"ALIGNED", "TIMEOUT_WARN"}
    <3>1. UNCHANGED <<streaming, active, status, pc>>
      BY <1>2, <2>5 DEF Advance, stream
    <3> QED
      BY <1>2, <2>1, <2>2, <2>3, <3>1 DEF Advance
  <2> QED
    BY <2>4, <2>5
<1> QED
  BY <1>1, <1>2 DEF Timer

LEMMA ServeTyped ==
  ASSUME TypeInv, Serve
  PROVE  TypeInv'
<1>1. Head(queue) \in Requests /\ Tail(queue) \in Seq(Requests)
  BY HeadTailProperties DEF Serve, TypeInv, TypeOK, Requests
<1> QED
  BY <1>1 DEF Serve, TypeInv, TypeOK, FramesLeft, Requests, sessions, stream, inputs

LEMMA InterruptTyped ==
  ASSUME TypeInv, Interrupt
  PROVE  TypeInv'
<1> DEFINE Hold == [what |-> "hold", arms |-> {}, owned |-> FALSE]
           Normal == [what |-> "normal", arms |-> {}, owned |-> FALSE]
<1>1. Hold \in Requests /\ Normal \in Requests
  BY DEF Requests, Kinds
<1>2. <<Hold, Normal>> \in Seq(Requests)
  BY <1>1
<1>3. queue \in Seq(Requests)
  BY DEF TypeInv, TypeOK, Requests
<1>4. queue \o <<Hold, Normal>> \in Seq(Requests)
  BY <1>2, <1>3, ConcatProperties
<1>5. queue' \in Seq(Requests)
  BY <1>3, <1>4 DEF Interrupt
<1> QED
  BY <1>5, CancelledTyped DEF Interrupt, TypeInv, TypeOK, Requests, Free, Phases, Ages

LEMMA TypeStep == TypeInv /\ [Next]_vars => TypeInv'
<1> SUFFICES ASSUME TypeInv, [Next]_vars PROVE TypeInv'
  OBVIOUS
<1> USE DEF TypeInv, TypeOK
<1>1. CASE \E arms \in (SUBSET Arm) \ {{}} : AlignRequest(arms)
  <2> PICK arms \in (SUBSET Arm) \ {{}} : AlignRequest(arms)
    BY <1>1
  <2>1. phase' \in [Arm -> Phases] /\ frames' \in [Arm -> 0..HoldFrames] /\ FramesLeft'
    BY AlignAssumption DEF AlignRequest, FramesLeft, Phases
  <2> QED
    BY <2>1 DEF AlignRequest, stream, inputs, driver, Phases
<1>2. CASE Cancel
  <2>1. /\ phase' \in [Arm -> Phases] /\ frames' \in [Arm -> 0..HoldFrames]
        /\ expired' \in BOOLEAN /\ FramesLeft'
    BY <1>2, CancelledTyped DEF Cancel
  <2>2. /\ streaming' \in BOOLEAN /\ active' \subseteq Arm /\ status' \in Phases
        /\ pc' \in [at : {"free", "align", "undo", "hold", "restore"},
                    arms : SUBSET Arm, end : Phases]
    <3>1. "IDLE" \in Phases
      BY DEF Phases
    <3>2. CASE StopStreaming("IDLE")
      BY <3>1, <3>2, StopTyped
    <3>3. CASE streaming' = FALSE /\ status' = "IDLE" /\ UNCHANGED <<active, pc>>
      BY <3>1, <3>3
    <3> QED
      BY <1>2, <3>2, <3>3 DEF Cancel
  <2> QED
    BY <1>2, <2>1, <2>2 DEF Cancel, driver
<1>3. CASE BigMessage \/ LeaderMessages
  BY <1>3 DEF BigMessage, LeaderMessages, FramesLeft, sessions, stream, thread, driver, Ages
<1>4. CASE Time
  BY <1>4 DEF Time, Expire, BigAges, LeaderAges, FramesLeft, sessions, stream, inputs,
              thread, driver, Ages
<1>5. CASE UNCHANGED vars
  BY <1>5 DEF vars, FramesLeft, sessions, stream, inputs, thread, driver
<1> QED
  BY <1>1, <1>2, <1>3, <1>4, <1>5, CallsTyped, ContinuesTyped, TimerTyped, ServeTyped,
     InterruptTyped
  DEF Next, Messages

\* Every variable keeps its type; the counted frames never pass HoldFrames
\* (align_logic.py:93).
THEOREM TypeOKHolds == Spec => []TypeOK
<1>1. TypeInv => TypeOK
  BY DEF TypeInv
<1> QED
  BY <1>1, TypeFirst, TypeStep, PTL DEF Spec

--------------------------------------------------------------------------
(* Slow while streaming *)

LEMMA SlowFirst == Init => SlowInv
BY DEF Init, SlowInv, LastIsWaitedFor, FreeMeansNoCall, SlowAnswered, StreamsAlone, Free

LEMMA CallsSlow ==
  ASSUME TypeInv, SlowInv, Calls
  PROVE  SlowInv'
<1>0. queue \in Seq(Requests) /\ Len(queue) \in Nat
  BY LenProperties DEF TypeInv, TypeOK, Requests
<1>1. CASE SendRequest
  <2>1. Waited \in Requests /\ Waited' = Waited /\ Waited.owned
    BY <1>1 DEF SendRequest, Waited, Request, Requests, Kinds, TypeInv, TypeOK
  <2>2. queue' = Append(queue, Waited)
    BY <1>1 DEF SendRequest, Waited
  <2>3. /\ Len(queue') = Len(queue) + 1 /\ queue' # <<>>
        /\ \A i \in 1..Len(queue) : queue'[i] = queue[i]
        /\ queue'[Len(queue')] = Waited
    BY <1>0, <2>1, <2>2, AppendProperties
  <2>4. LastIsWaitedFor'
    BY <1>0, <1>1, <2>1, <2>3 DEF SendRequest, SlowInv, LastIsWaitedFor
  <2>5. ~streaming /\ UNCHANGED streaming
    BY <1>1 DEF SendRequest, SlowInv, StreamsAlone, stream
  <2> QED
    BY <1>1, <2>4, <2>5
    DEF SendRequest, SlowInv, FreeMeansNoCall, SlowAnswered, StreamsAlone
<1>2. CASE ServiceMissing
  BY <1>2 DEF ServiceMissing, SlowInv, LastIsWaitedFor, FreeMeansNoCall, SlowAnswered,
              StreamsAlone, Waited, Request, stream
<1>3. CASE CallTimesOut
  <2>1. Len(queue') = Len(queue) /\ \A i \in 1..Len(queue) : ~queue'[i].owned
    BY <1>0, <1>3, Disowned DEF CallTimesOut
  <2>2. call = "sent" /\ call' = "failed" /\ UNCHANGED <<pc, streaming>>
    BY <1>3 DEF CallTimesOut, stream
  <2>3. LastIsWaitedFor'
    BY <2>1, <2>2 DEF LastIsWaitedFor
  <2> QED
    BY <2>2, <2>3 DEF SlowInv, FreeMeansNoCall, SlowAnswered, StreamsAlone
<1> QED
  BY <1>1, <1>2, <1>3 DEF Calls

LEMMA ServeSlow ==
  ASSUME TypeInv, SlowInv, Serve
  PROVE  SlowInv'
<1>0. /\ queue \in Seq(Requests) /\ queue # <<>> /\ queue' = Tail(queue)
      /\ Len(queue) \in Nat \ {0}
  BY EmptySeq DEF TypeInv, TypeOK, Requests, Serve
<1>1. /\ Head(queue) = queue[1] /\ queue' \in Seq(Requests)
      /\ Len(queue') = Len(queue) - 1
      /\ \A i \in 1..Len(queue') : queue'[i] = queue[i + 1]
  BY <1>0, HeadTailProperties
<1>2. Waited' = Waited /\ UNCHANGED <<pc, exit, streaming, active>>
  BY DEF Serve, Waited, Request, stream
<1>3. ~streaming /\ ~(pc.at = "align" /\ call = "ok")
  BY <1>0 DEF SlowInv, StreamsAlone, SlowAnswered
<1>4. CASE exit = "no" /\ queue[1].owned
  <2>1. Len(queue) = 1 /\ call = "sent" /\ queue[1] = Waited
    <3>1. 1 \in 1..Len(queue)
      BY <1>0
    <3>2. 1 = Len(queue) /\ call = "sent"
      BY <1>4, <3>1 DEF SlowInv, LastIsWaitedFor
    <3> QED
      BY <1>4, <3>2 DEF SlowInv, LastIsWaitedFor
  <2>2. queue' = <<>>
    BY <1>1, <2>1, EmptySeq
  <2>3. call' # "sent" /\ (call' = "ok" /\ pc.at = "align" => slow' = pc.arms)
    BY <1>1, <1>4, <2>1 DEF Serve, Waited, Request
  <2>4. pc # Free
    BY <2>1 DEF SlowInv, FreeMeansNoCall
  <2>5. LastIsWaitedFor'
    BY <1>1, <2>1, <2>3 DEF LastIsWaitedFor
  <2> QED
    BY <1>2, <1>3, <2>2, <2>3, <2>4, <2>5
    DEF SlowInv, FreeMeansNoCall, SlowAnswered, StreamsAlone
<1>5. CASE ~(exit = "no" /\ queue[1].owned)
  <2>1. UNCHANGED call
    BY <1>1, <1>5 DEF Serve
  <2>2. LastIsWaitedFor'
    <3> SUFFICES ASSUME exit = "no"
                 PROVE  LastIsWaitedFor'
      BY <1>2 DEF LastIsWaitedFor
    <3>1. ASSUME NEW i \in 1..Len(queue'), queue'[i].owned
          PROVE  i = Len(queue') /\ call = "sent"
      <4>1. i + 1 \in 1..Len(queue) /\ queue[i + 1].owned
        BY <1>0, <1>1, <3>1
      <4>2. i + 1 = Len(queue) /\ call = "sent"
        BY <4>1 DEF SlowInv, LastIsWaitedFor
      <4>3. Len(queue') = Len(queue) - 1 /\ Len(queue) \in Nat /\ i \in Nat
        BY <1>0, <1>1
      <4>4. i = Len(queue')
        BY <4>2, <4>3
      <4> QED
        BY <4>2, <4>4
    <3>2. ASSUME call = "sent"
          PROVE  queue' # <<>> /\ queue'[Len(queue')] = Waited
      <4>1. queue[Len(queue)] = Waited /\ Waited.owned
        BY <3>2 DEF SlowInv, LastIsWaitedFor, Waited
      <4>2. Len(queue) # 1
        BY <1>5, <4>1
      <4>3. Len(queue') \in 1..Len(queue')
        BY <1>0, <1>1, <4>2
      <4>4. queue'[Len(queue')] = queue[Len(queue)]
        BY <1>0, <1>1, <4>3
      <4> QED
        BY <4>1, <4>3, <4>4, EmptySeq
    <3> QED
      BY <1>2, <2>1, <3>1, <3>2 DEF LastIsWaitedFor
  <2> QED
    BY <1>2, <1>3, <2>1, <2>2 DEF SlowInv, FreeMeansNoCall, SlowAnswered, StreamsAlone
<1> QED
  BY <1>4, <1>5

LEMMA ContinuesSlow ==
  ASSUME TypeInv, SlowInv, Continues
  PROVE  SlowInv'
<1>1. UNCHANGED queue /\ call # "sent" /\ call' = "none" /\ exit = "no" /\ UNCHANGED exit
  BY DEF Continues, StreamStarts, AlignFails, Undone, Held, Restored, Answered, driver
<1>2. LastIsWaitedFor' /\ FreeMeansNoCall' /\ SlowAnswered'
  BY <1>1 DEF SlowInv, LastIsWaitedFor, FreeMeansNoCall, SlowAnswered
<1>3. StreamsAlone'
  <2>1. CASE StreamStarts
    BY <1>1, <2>1 DEF StreamStarts, SlowInv, SlowAnswered, StreamsAlone, driver
  <2>2. CASE AlignFails \/ Undone \/ Held \/ Restored
    <3>1. pc # Free /\ UNCHANGED streaming
      BY <2>2 DEF AlignFails, Undone, Held, Restored, Free, stream
    <3> QED
      BY <3>1 DEF SlowInv, StreamsAlone
  <2> QED
    BY <2>1, <2>2 DEF Continues
<1> QED
  BY <1>2, <1>3 DEF SlowInv

LEMMA TimerSlow ==
  ASSUME TypeInv, SlowInv, Timer \/ Cancel
  PROVE  SlowInv'
<1>1. /\ pc = Free /\ call = "none" /\ exit = "no" /\ UNCHANGED <<queue, call, slow, exit>>
  BY DEF Timer, AbortStale, Advance, Cancel, Ticks, driver, SlowInv, FreeMeansNoCall
<1>2. LastIsWaitedFor' /\ FreeMeansNoCall' /\ SlowAnswered'
  BY <1>1 DEF SlowInv, LastIsWaitedFor, FreeMeansNoCall, SlowAnswered
<1>3. streaming' = FALSE \/ UNCHANGED <<streaming, active, pc>>
  BY DEF Timer, AbortStale, Advance, Cancel, StopStreaming, stream
<1> QED
  BY <1>1, <1>2, <1>3 DEF SlowInv, StreamsAlone

LEMMA OthersSlow ==
  ASSUME TypeInv, SlowInv, BigMessage \/ LeaderMessages \/ Time \/ UNCHANGED vars
  PROVE  SlowInv'
<1>1. UNCHANGED <<streaming, active, pc, call, queue, slow, exit>>
  BY DEF BigMessage, LeaderMessages, Time, Expire, BigAges, LeaderAges, vars, stream,
         thread, driver
<1> QED
  BY <1>1 DEF SlowInv, LastIsWaitedFor, FreeMeansNoCall, SlowAnswered, StreamsAlone,
              Waited, Request

LEMMA InterruptSlow ==
  ASSUME Interrupt
  PROVE  SlowInv'
BY DEF Interrupt, SlowInv, LastIsWaitedFor, FreeMeansNoCall, SlowAnswered, StreamsAlone, Free

LEMMA RequestSlow ==
  ASSUME TypeInv, SlowInv, NEW arms, AlignRequest(arms)
  PROVE  SlowInv'
<1>1. /\ call = "none" /\ ~streaming /\ UNCHANGED <<call, streaming, queue, exit>>
  BY DEF AlignRequest, stream, driver, SlowInv, FreeMeansNoCall
<1> QED
  BY <1>1 DEF SlowInv, LastIsWaitedFor, FreeMeansNoCall, SlowAnswered, StreamsAlone

LEMMA SlowStep == TypeInv /\ SlowInv /\ [Next]_vars => SlowInv'
BY CallsSlow, ServeSlow, ContinuesSlow, TimerSlow, OthersSlow, InterruptSlow, RequestSlow
DEF Next, Messages

\* While absolute commands are streamed, the arms that follow them are slow, for
\* any requests given up or served late (follower_align_node.py:224).
THEOREM SlowWhileStreamingHolds == Spec => []SlowWhileStreaming
<1>1. SlowInv => SlowWhileStreaming
  BY DEF SlowInv, StreamsAlone, SlowWhileStreaming
<1> QED
  BY <1>1, TypeFirst, TypeStep, SlowFirst, SlowStep, PTL DEF Spec

--------------------------------------------------------------------------
(* Restored after an alignment *)

\* What the callback thread is doing, against what the sessions and the status say.
Courses ==
  /\ pc # Free => pc.at # "free"
  /\ pc.at = "align" => pc.arms # {} /\ \A a \in pc.arms : phase[a] = "ALIGNING"
  /\ pc.at \in {"hold", "restore"} => pc.end # "ALIGNING"
  /\ exit # "no" => pc = Free /\ ~streaming
  /\ streaming => /\ active # {}
                  /\ \A a \in active : phase[a] \in {"ALIGNING", "ALIGNED"}
                  /\ \E a \in active : phase[a] = "ALIGNING"
  /\ status = "ALIGNING" => streaming \/ pc.at \in {"hold", "restore"}

\* The arms have their speed back, or get it by a request the driver has, or a
\* request for it has failed.
RatesSettled ==
  \/ "rates" \in unmet
  \/ \E i \in 1..Len(queue) :
       queue[i].what = "normal" /\ \A j \in i..Len(queue) : queue[j].what # "slow"
  \/ slow = {} /\ \A i \in 1..Len(queue) : queue[i].what # "slow"

\* The node has still to ask for the speed.
RatesOwed ==
  \/ streaming
  \/ pc.at \in {"align", "hold"}
  \/ pc.at \in {"undo", "restore"} /\ call = "none"

\* No request in the queue makes an arm follow, so a hold among them is enough.
HoldSettled ==
  \/ "hold" \in unmet
  \/ \E i \in 1..Len(queue) : queue[i].what = "hold"
  \/ following = {}
HoldOwed == streaming \/ (pc.at = "hold" /\ call = "none")

Restores ==
  exit # "closing" => (RatesOwed \/ RatesSettled) /\ (HoldOwed \/ HoldSettled)

RestoreInv == Courses /\ Restores

LEMMA RestoreFirst == Init => RestoreInv
BY DEF Init, RestoreInv, Courses, Restores, RatesSettled, RatesOwed, HoldSettled, HoldOwed,
       Free

LEMMA CallsCourse ==
  ASSUME Courses, Calls
  PROVE  Courses'
BY DEF Calls, SendRequest, ServiceMissing, CallTimesOut, Courses, sessions, stream

LEMMA ContinuesCourse ==
  ASSUME TypeInv, SlowInv, Courses, Continues
  PROVE  Courses'
<1>0. streaming => pc = Free
  BY DEF SlowInv, StreamsAlone
<1> USE DEF Courses, Answered, Free
<1>1. CASE StreamStarts
  BY <1>1 DEF StreamStarts, sessions
<1>2. CASE AlignFails
  BY <1>2 DEF AlignFails, sessions, stream, TypeInv, TypeOK
<1>3. CASE Undone
  BY <1>0, <1>3 DEF Undone, stream
<1>4. CASE Held
  BY <1>4 DEF Held, sessions, stream, TypeInv, TypeOK
<1>5. CASE Restored
  BY <1>0, <1>5 DEF Restored
<1> QED
  BY <1>1, <1>2, <1>3, <1>4, <1>5 DEF Continues

LEMMA StopCourse ==
  ASSUME Courses, NEW end \in Phases, end # "ALIGNING", StopStreaming(end), exit = "no",
         UNCHANGED exit
  PROVE  Courses'
BY DEF Courses, StopStreaming, Free

\* An alignment that goes on has arms that still align, and none that gave up.
LEMMA CombinedAligns ==
  ASSUME NEW p, NEW arms, arms # {}, CombinedOf(p, arms) \notin {"ALIGNED", "TIMEOUT_WARN"},
         \A a \in arms : p[a] \in {"ALIGNING", "ALIGNED", "TIMEOUT_WARN"}
  PROVE  /\ \A a \in arms : p[a] \in {"ALIGNING", "ALIGNED"}
         /\ \E a \in arms : p[a] = "ALIGNING"
BY DEF CombinedOf

LEMMA TimerCourse ==
  ASSUME TypeInv, SlowInv, Courses, Timer
  PROVE  Courses'
<1>1. CASE AbortStale
  BY <1>1, StopCourse DEF AbortStale, Ticks, Phases
<1>2. CASE Advance
  <2> PICK close \in SUBSET active : phase' = [a \in Arm |-> PhaseAfter(a, close)]
    BY <1>2 DEF Advance
  <2>1. streaming /\ active # {} /\ active \subseteq Arm /\ exit = "no" /\ UNCHANGED exit
    BY <1>2 DEF Advance, Ticks, Courses, TypeInv, TypeOK
  <2>2. CASE CombinedOf(phase', active) \in {"ALIGNED", "TIMEOUT_WARN"}
    BY <1>2, <2>1, <2>2, StopCourse DEF Advance, Phases
  <2>3. CASE CombinedOf(phase', active) \notin {"ALIGNED", "TIMEOUT_WARN"}
    <3>1. UNCHANGED <<streaming, active, status, pc>>
      BY <1>2, <2>3 DEF Advance, stream
    <3>2. \A a \in active : phase'[a] \in {"ALIGNING", "ALIGNED", "TIMEOUT_WARN"}
      BY <2>1 DEF Courses, PhaseAfter
    <3>3. /\ \A a \in active : phase'[a] \in {"ALIGNING", "ALIGNED"}
          /\ \E a \in active : phase'[a] = "ALIGNING"
      BY <2>1, <2>3, <3>2, CombinedAligns
    <3>4. pc = Free
      BY <1>2 DEF Advance, Ticks
    <3> QED
      BY <2>1, <3>1, <3>3, <3>4 DEF Courses, Free
  <2> QED
    BY <2>2, <2>3
<1> QED
  BY <1>1, <1>2 DEF Timer

LEMMA CancelCourse ==
  ASSUME TypeInv, Courses, Cancel
  PROVE  Courses'
<1>1. CASE Phase = "ALIGNING"
  BY <1>1, StopCourse DEF Cancel, Phases
<1>2. CASE Phase # "ALIGNING"
  BY <1>2 DEF Cancel, Courses, Free
<1> QED
  BY <1>1, <1>2

LEMMA OthersCourse ==
  ASSUME TypeInv, SlowInv, Courses,
         BigMessage \/ LeaderMessages \/ Time \/ Serve \/ Interrupt \/ UNCHANGED vars
  PROVE  Courses'
<1>1. CASE Interrupt
  BY <1>1 DEF Interrupt, Courses, Free
<1>2. CASE ~Interrupt
  <2>1. UNCHANGED <<phase, streaming, active, status, pc, exit>>
    BY <1>2 DEF BigMessage, LeaderMessages, Time, Expire, BigAges, LeaderAges, Serve, vars,
              sessions, stream, thread
  <2> QED
    BY <2>1 DEF Courses
<1> QED
  BY <1>1, <1>2

LEMMA RequestCourse ==
  ASSUME TypeInv, Courses, NEW arms \in (SUBSET Arm) \ {{}}, AlignRequest(arms)
  PROVE  Courses'
BY DEF AlignRequest, Courses, stream, Free, TypeInv, TypeOK

LEMMA CourseStep == TypeInv /\ SlowInv /\ Courses /\ [Next]_vars => Courses'
BY CallsCourse, ContinuesCourse, TimerCourse, CancelCourse, OthersCourse, RequestCourse
DEF Next, Messages

\* A request at the end of the queue: what it makes of the debts.
LEMMA SentSettles ==
  ASSUME queue \in Seq(Requests), NEW r \in Requests, queue' = Append(queue, r),
         UNCHANGED <<slow, following>>
  PROVE  /\ r.what = "normal" => RatesSettled'
         /\ r.what = "hold" => HoldSettled'
         /\ RatesSettled /\ r.what # "slow" /\ ("rates" \in unmet => "rates" \in unmet')
              => RatesSettled'
         /\ HoldSettled /\ ("hold" \in unmet => "hold" \in unmet') => HoldSettled'
<1>1. /\ Len(queue) \in Nat /\ Len(queue') = Len(queue) + 1
      /\ \A i \in 1..Len(queue) : queue'[i] = queue[i]
      /\ queue'[Len(queue')] = r
  BY LenProperties, AppendProperties
<1>2. r.what = "normal" => RatesSettled'
  <2> SUFFICES ASSUME r.what = "normal" PROVE RatesSettled'
    OBVIOUS
  <2>1. Len(queue') \in 1..Len(queue') /\ \A j \in Len(queue')..Len(queue') : j = Len(queue')
    BY <1>1
  <2>2. queue'[Len(queue')].what = "normal"
        /\ \A j \in Len(queue')..Len(queue') : queue'[j].what # "slow"
    BY <1>1, <2>1
  <2> QED
    BY <2>1, <2>2 DEF RatesSettled
<1>3. r.what = "hold" => HoldSettled'
  BY <1>1 DEF HoldSettled
<1>4. ASSUME RatesSettled, r.what # "slow", "rates" \in unmet => "rates" \in unmet'
      PROVE  RatesSettled'
  <2>1. CASE "rates" \in unmet
    BY <1>4, <2>1 DEF RatesSettled
  <2>2. ASSUME NEW i \in 1..Len(queue), queue[i].what = "normal",
               \A j \in i..Len(queue) : queue[j].what # "slow"
        PROVE  RatesSettled'
    <3>1. i \in 1..Len(queue') /\ queue'[i].what = "normal"
      BY <1>1, <2>2
    <3>2. \A j \in i..Len(queue') : queue'[j].what # "slow"
      BY <1>1, <1>4, <2>2
    <3> QED
      BY <3>1, <3>2 DEF RatesSettled
  <2>3. CASE slow = {} /\ \A i \in 1..Len(queue) : queue[i].what # "slow"
    BY <1>1, <1>4, <2>3 DEF RatesSettled
  <2> QED
    BY <1>4, <2>1, <2>2, <2>3 DEF RatesSettled
<1>5. ASSUME HoldSettled, "hold" \in unmet => "hold" \in unmet'
      PROVE  HoldSettled'
  BY <1>1, <1>5 DEF HoldSettled
<1> QED
  BY <1>2, <1>3, <1>4, <1>5

LEMMA CallsRestore ==
  ASSUME TypeInv, SlowInv, RestoreInv, Calls
  PROVE  Restores'
<1>0. queue \in Seq(Requests)
  BY DEF TypeInv, TypeOK, Requests
<1>1. CASE SendRequest
  <2>1. Waited \in Requests /\ queue' = Append(queue, Waited)
    BY <1>1 DEF SendRequest, Waited, Request, Requests, Kinds, TypeInv, TypeOK
  <2>2. /\ UNCHANGED <<slow, following, pc, streaming, exit>> /\ call = "none"
        /\ unmet' = unmet \ Failed
    BY <1>1 DEF SendRequest, stream
  <2>3. pc.at \in {"align", "undo", "hold", "restore"}
    BY <1>1 DEF SendRequest, RestoreInv, Courses, TypeInv, TypeOK
  <2>4. (RatesOwed \/ RatesSettled)'
    <3>1. CASE pc.at \in {"align", "hold"}
      BY <2>2, <3>1 DEF RatesOwed
    <3>2. CASE pc.at \in {"undo", "restore"}
      BY <1>0, <2>1, <2>2, <3>2, SentSettles DEF Waited, Request
    <3> QED
      BY <2>3, <3>1, <3>2
  <2>5. exit # "closing" => (HoldOwed \/ HoldSettled)'
    <3>1. CASE pc.at = "hold"
      BY <1>0, <2>1, <2>2, <3>1, SentSettles DEF Waited, Request
    <3>2. CASE pc.at # "hold"
      <4>1. "hold" \in unmet => "hold" \in unmet'
        BY <2>2, <3>2 DEF Failed
      <4> QED
        BY <1>0, <2>1, <2>2, <3>2, <4>1, SentSettles DEF RestoreInv, Restores, HoldOwed
    <3> QED
      BY <3>1, <3>2
  <2> QED
    BY <2>2, <2>4, <2>5 DEF Restores
<1>2. CASE ServiceMissing
  BY <1>2 DEF ServiceMissing, Failed, RestoreInv, Courses, Restores, RatesOwed, RatesSettled,
              HoldOwed, HoldSettled, stream, TypeInv, TypeOK
<1>3. CASE CallTimesOut
  <2>1. /\ Len(queue') = Len(queue) /\ Len(queue) \in Nat
        /\ \A i \in 1..Len(queue) : queue'[i].what = queue[i].what
    BY <1>0, <1>3, Disowned, LenProperties, ElementOfSeq DEF CallTimesOut, Requests
  <2>2. RatesSettled => RatesSettled'
    BY <1>3, <2>1 DEF CallTimesOut, RatesSettled
  <2>3. HoldSettled => HoldSettled'
    BY <1>3, <2>1 DEF CallTimesOut, HoldSettled
  <2> QED
    BY <1>3, <2>2, <2>3 DEF CallTimesOut, RestoreInv, Restores, RatesOwed, HoldOwed, stream
<1> QED
  BY <1>1, <1>2, <1>3 DEF Calls

\* Serving a request keeps what is settled: the driver obeys it or notes that it failed.
LEMMA ServedSettles ==
  ASSUME TypeInv, Serve
  PROVE  /\ RatesSettled => RatesSettled'
         /\ HoldSettled => HoldSettled'
<1>1. /\ queue \in Seq(Requests) /\ queue # <<>> /\ queue' = Tail(queue)
      /\ Len(queue) \in Nat \ {0}
  BY EmptySeq DEF TypeInv, TypeOK, Requests, Serve
<1>2. /\ Head(queue) = queue[1] /\ Len(queue') = Len(queue) - 1
      /\ \A i \in 1..Len(queue') : queue'[i] = queue[i + 1]
  BY <1>1, HeadTailProperties
<1>3. PICK ok \in BOOLEAN :
        /\ slow' = IF ~ok \/ queue[1].what = "hold" THEN slow
                   ELSE IF queue[1].what = "slow" THEN queue[1].arms ELSE {}
        /\ following' = IF ok /\ queue[1].what = "hold" THEN {} ELSE following
        /\ unmet' = IF ok THEN unmet
                    ELSE unmet \cup (IF queue[1].what = "hold" THEN {"hold"}
                                     ELSE IF queue[1].what = "normal" THEN {"rates"} ELSE {})
  BY <1>2 DEF Serve
<1>4. \A i \in 2..Len(queue) : i - 1 \in 1..Len(queue') /\ queue'[i - 1] = queue[i]
  BY <1>1, <1>2
<1>5. ASSUME RatesSettled
      PROVE  RatesSettled'
  <2>1. CASE "rates" \in unmet
    BY <1>3, <2>1 DEF RatesSettled
  <2>2. ASSUME NEW i \in 1..Len(queue), queue[i].what = "normal",
               \A j \in i..Len(queue) : queue[j].what # "slow"
        PROVE  RatesSettled'
    <3>1. CASE i = 1
      <4>1. \A j \in 1..Len(queue') : queue'[j].what # "slow"
        BY <1>1, <1>2, <2>2, <3>1
      <4>2. slow' = {} \/ "rates" \in unmet'
        BY <1>3, <2>2, <3>1
      <4> QED
        BY <4>1, <4>2 DEF RatesSettled
    <3>2. CASE i # 1
      <4>1. i - 1 \in 1..Len(queue') /\ queue'[i - 1].what = "normal"
        BY <1>1, <1>4, <2>2, <3>2
      <4>2. \A j \in (i - 1)..Len(queue') : queue'[j].what # "slow"
        BY <1>1, <1>2, <2>2, <3>2
      <4> QED
        BY <4>1, <4>2 DEF RatesSettled
    <3> QED
      BY <3>1, <3>2
  <2>3. CASE slow = {} /\ \A i \in 1..Len(queue) : queue[i].what # "slow"
    <3>1. \A j \in 1..Len(queue') : queue'[j].what # "slow"
      BY <1>1, <1>2, <2>3
    <3>2. slow' = {}
      BY <1>1, <1>3, <2>3
    <3> QED
      BY <3>1, <3>2 DEF RatesSettled
  <2> QED
    BY <1>5, <2>1, <2>2, <2>3 DEF RatesSettled
<1>6. ASSUME HoldSettled
      PROVE  HoldSettled'
  <2>1. CASE "hold" \in unmet \/ following = {}
    BY <1>3, <2>1 DEF HoldSettled
  <2>2. ASSUME NEW i \in 1..Len(queue), queue[i].what = "hold"
        PROVE  HoldSettled'
    <3>1. CASE i = 1
      BY <1>3, <2>2, <3>1 DEF HoldSettled
    <3>2. CASE i # 1
      <4>1. i - 1 \in 1..Len(queue') /\ queue'[i - 1].what = "hold"
        BY <1>1, <1>4, <2>2, <3>2
      <4> QED
        BY <4>1 DEF HoldSettled
    <3> QED
      BY <3>1, <3>2
  <2> QED
    BY <1>6, <2>1, <2>2 DEF HoldSettled
<1> QED
  BY <1>5, <1>6

LEMMA ServeRestore ==
  ASSUME TypeInv, SlowInv, RestoreInv, Serve
  PROVE  Restores'
<1>1. UNCHANGED <<pc, streaming, exit>>
  BY DEF Serve, stream
<1>2. call = "none" => UNCHANGED call
  <2>1. Len(queue) \in Nat \ {0} /\ Head(queue) = queue[1]
    BY EmptySeq, HeadTailProperties DEF TypeInv, TypeOK, Serve
  <2>2. 1 \in 1..Len(queue)
    BY <2>1
  <2>3. exit = "no" /\ Head(queue).owned => call = "sent"
    BY <2>1, <2>2 DEF SlowInv, LastIsWaitedFor
  <2> QED
    BY <2>3 DEF Serve
<1>3. RatesOwed => RatesOwed'
  BY <1>1, <1>2 DEF RatesOwed
<1>4. HoldOwed => HoldOwed'
  BY <1>1, <1>2 DEF HoldOwed
<1> QED
  BY <1>1, <1>3, <1>4, ServedSettles DEF RestoreInv, Restores

LEMMA ContinuesRestore ==
  ASSUME TypeInv, SlowInv, RestoreInv, Continues
  PROVE  Restores'
<1>1. UNCHANGED <<queue, slow, following, unmet, exit>> /\ exit = "no"
  BY DEF Continues, StreamStarts, AlignFails, Undone, Held, Restored, Answered, driver
<1>2. RatesSettled => RatesSettled'
  BY <1>1 DEF RatesSettled
<1>3. HoldSettled => HoldSettled'
  BY <1>1 DEF HoldSettled
<1>4. call \in {"ok", "failed"} /\ call' = "none"
  BY DEF Continues, StreamStarts, AlignFails, Undone, Held, Restored, Answered
<1>5. RatesOwed' \/ RatesSettled
  <2>1. CASE StreamStarts \/ AlignFails \/ Held
    BY <1>4, <2>1 DEF StreamStarts, AlignFails, Held, RatesOwed, TypeInv, TypeOK
  <2>2. CASE Undone \/ Restored
    <3>1. pc.at \in {"undo", "restore"} /\ ~streaming
      BY <2>2 DEF Undone, Restored, SlowInv, StreamsAlone, Free
    <3> QED
      BY <1>1, <1>4, <3>1 DEF RestoreInv, Restores, RatesOwed
  <2> QED
    BY <2>1, <2>2 DEF Continues
<1>6. HoldOwed' \/ HoldSettled
  <2>1. CASE StreamStarts
    BY <2>1 DEF StreamStarts, HoldOwed
  <2>2. CASE AlignFails \/ Held \/ Undone \/ Restored
    <3>1. ~streaming
      BY <2>2 DEF AlignFails, Held, Undone, Restored, SlowInv, StreamsAlone, Free
    <3> QED
      BY <1>1, <1>4, <3>1 DEF RestoreInv, Restores, HoldOwed
  <2> QED
    BY <2>1, <2>2 DEF Continues
<1> QED
  BY <1>2, <1>3, <1>5, <1>6 DEF Restores

LEMMA TimerRestore ==
  ASSUME TypeInv, SlowInv, RestoreInv, Timer
  PROVE  Restores'
<1>1. streaming /\ call = "none" /\ UNCHANGED call
  BY DEF Timer, AbortStale, Advance, Ticks, SlowInv, FreeMeansNoCall
<1>2. streaming' \/ pc'.at = "hold"
  <2>1. CASE AbortStale
    BY <2>1 DEF AbortStale, StopStreaming
  <2>2. CASE Advance
    <3> DEFINE p == CombinedOf(phase', active)
    <3>1. IF p \in {"ALIGNED", "TIMEOUT_WARN"} THEN StopStreaming(p)
                                             ELSE UNCHANGED <<stream, pc>>
      BY <2>2 DEF Advance
    <3>2. CASE p \in {"ALIGNED", "TIMEOUT_WARN"}
      <4> HIDE DEF p
      <4> QED
        BY <3>1, <3>2 DEF StopStreaming
    <3>3. CASE p \notin {"ALIGNED", "TIMEOUT_WARN"}
      <4> HIDE DEF p
      <4> QED
        BY <1>1, <3>1, <3>3 DEF stream
    <3> QED
      BY <3>2, <3>3
  <2> QED
    BY <2>1, <2>2 DEF Timer
<1> QED
  BY <1>1, <1>2 DEF Restores, RatesOwed, HoldOwed

LEMMA CancelRestore ==
  ASSUME TypeInv, SlowInv, RestoreInv, Cancel
  PROVE  Restores'
<1>1. /\ call = "none" /\ pc = Free
      /\ UNCHANGED <<call, queue, slow, following, unmet, exit>>
  BY DEF Cancel, driver, SlowInv, FreeMeansNoCall
<1>2. CASE Phase = "ALIGNING"
  BY <1>1, <1>2 DEF Cancel, StopStreaming, Restores, RatesOwed, HoldOwed
<1>3. CASE Phase # "ALIGNING"
  <2>1. ~streaming
    <3> SUFFICES ASSUME streaming PROVE FALSE
      OBVIOUS
    <3>1. /\ active # {} /\ \E a \in active : phase[a] = "ALIGNING"
          /\ \A a \in active : phase[a] # "TIMEOUT_WARN"
      BY DEF RestoreInv, Courses
    <3> QED
      BY <1>3, <3>1 DEF Phase, CombinedOf
  <2>2. ~RatesOwed /\ ~HoldOwed
    BY <1>1, <2>1 DEF RatesOwed, HoldOwed, Free
  <2>3. (RatesSettled => RatesSettled') /\ (HoldSettled => HoldSettled')
    BY <1>1 DEF RatesSettled, HoldSettled
  <2> QED
    BY <1>1, <2>2, <2>3 DEF RestoreInv, Restores
<1> QED
  BY <1>2, <1>3

LEMMA InterruptRestore ==
  ASSUME TypeInv, SlowInv, RestoreInv, Interrupt
  PROVE  Restores'
<1>0. UNCHANGED <<slow, following>> /\ pc' = Free /\ ~streaming'
  BY DEF Interrupt
<1>1. CASE ~streaming /\ Phase # "ALIGNING"
  <2>1. UNCHANGED <<queue, unmet>> /\ exit' = IF pc = Free THEN "idle" ELSE "closing"
    BY <1>1 DEF Interrupt
  <2>2. exit = "no" /\ (pc = Free => ~RatesOwed /\ ~HoldOwed)
    BY <1>1 DEF Interrupt, RatesOwed, HoldOwed, Free
  <2>3. (RatesSettled => RatesSettled') /\ (HoldSettled => HoldSettled')
    BY <1>0, <2>1 DEF RatesSettled, HoldSettled
  <2> QED
    BY <2>1, <2>2, <2>3 DEF RestoreInv, Restores
<1>2. CASE ~(~streaming /\ Phase # "ALIGNING")
  <2> DEFINE Hold == [what |-> "hold", arms |-> {}, owned |-> FALSE]
             Normal == [what |-> "normal", arms |-> {}, owned |-> FALSE]
  <2>1. CASE unmet' = {"hold", "rates"}
    BY <2>1 DEF Restores, RatesSettled, HoldSettled
  <2>2. CASE queue' = queue \o <<Hold, Normal>>
    <3>1. queue \in Seq(Requests) /\ Hold \in Requests /\ Normal \in Requests
      BY DEF TypeInv, TypeOK, Requests, Kinds
    <3>2. Len(queue) \in Nat /\ <<Hold, Normal>> \in Seq(Requests) /\ Len(<<Hold, Normal>>) = 2
      BY <3>1, LenProperties
    <3>3. /\ Len(queue') = Len(queue) + 2
          /\ queue'[Len(queue) + 1] = Hold
          /\ queue'[Len(queue) + 2] = Normal
      BY <2>2, <3>1, <3>2, ConcatProperties
    <3>4. HoldSettled'
      <4>1. Len(queue) + 1 \in 1..Len(queue')
        BY <3>2, <3>3
      <4> QED
        BY <3>3, <4>1 DEF HoldSettled
    <3>5. RatesSettled'
      <4>1. /\ Len(queue) + 2 \in 1..Len(queue')
            /\ \A j \in (Len(queue) + 2)..Len(queue') : j = Len(queue) + 2
        BY <3>2, <3>3
      <4>2. \A j \in (Len(queue) + 2)..Len(queue') : queue'[j].what # "slow"
        BY <3>3, <4>1
      <4> QED
        BY <3>3, <4>1, <4>2 DEF RatesSettled
    <3> QED
      BY <3>4, <3>5 DEF Restores
  <2> QED
    BY <1>2, <2>1, <2>2 DEF Interrupt
<1> QED
  BY <1>1, <1>2

LEMMA OthersRestore ==
  ASSUME RestoreInv,
         \/ BigMessage \/ LeaderMessages \/ Time \/ UNCHANGED vars
         \/ \E arms \in (SUBSET Arm) \ {{}} : AlignRequest(arms)
  PROVE  Restores'
<1>1. UNCHANGED <<streaming, call, queue, slow, following, unmet, exit>>
  BY DEF BigMessage, LeaderMessages, Time, Expire, BigAges, LeaderAges, AlignRequest, vars,
         stream, thread, driver
<1>2. (pc'.at = "align" /\ pc = Free) \/ UNCHANGED pc
  BY DEF BigMessage, LeaderMessages, Time, Expire, BigAges, LeaderAges, AlignRequest, vars,
         thread
<1>3. (RatesOwed => RatesOwed') /\ (HoldOwed => HoldOwed')
  BY <1>1, <1>2 DEF RatesOwed, HoldOwed, Free
<1>4. (RatesSettled => RatesSettled') /\ (HoldSettled => HoldSettled')
  BY <1>1 DEF RatesSettled, HoldSettled
<1> QED
  BY <1>1, <1>3, <1>4 DEF RestoreInv, Restores

LEMMA RestoreStep == TypeInv /\ SlowInv /\ RestoreInv /\ [Next]_vars => RestoreInv'
BY CourseStep, CallsRestore, ServeRestore, ContinuesRestore, TimerRestore, CancelRestore,
   InterruptRestore, OthersRestore
DEF Next, Messages, RestoreInv

LEMMA RestoreInvGives == TypeInv /\ SlowInv /\ RestoreInv => RestoredAfterAlign
<1> SUFFICES ASSUME TypeInv, SlowInv, RestoreInv, pc = Free, ~streaming
             PROVE  /\ status # "ALIGNING"
                    /\ queue = <<>> /\ exit # "closing" =>
                         /\ "rates" \notin unmet => slow = {}
                         /\ "hold" \notin unmet => following = {}
  BY DEF RestoredAfterAlign
<1>1. status # "ALIGNING"
  BY DEF RestoreInv, Courses, Free
<1>2. ~RatesOwed /\ ~HoldOwed
  BY DEF RatesOwed, HoldOwed, Free
<1>3. queue = <<>> => 1..Len(queue) = {}
  OBVIOUS
<1> QED
  BY <1>1, <1>2, <1>3 DEF RestoreInv, Restores, RatesSettled, HoldSettled

\* However an alignment ended, the arms hold and have their speed back once the
\* driver has served what was sent, for any arms and any requests given up,
\* refused or served late (_finish_align, _abort_align, _shutdown_cleanup).
THEOREM RestoredAfterAlignHolds == Spec => []RestoredAfterAlign
BY TypeFirst, TypeStep, SlowFirst, SlowStep, RestoreFirst, RestoreStep, RestoreInvGives, PTL
DEF Spec
=============================================================================
