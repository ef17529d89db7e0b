------------------------ MODULE DecoderWorkerProofs ------------------------
(***************************************************************************)
(* For any number of frames, configurations and codec buffers: the decoder *)
(* gives back every buffer, pictures come out in the order in which their  *)
(* frames went in and with labels that never go back, and Release leaves   *)
(* neither a worker nor a codec behind.                                    *)
(***************************************************************************)
EXTENDS DecoderWorker, SequenceTheorems, TLAPS

Jobs == [kind : {"configure", "destroy", "frame"}, frame : 0..MaxFrames]
Loop == {"top", "waiting", "woken", "inner"}
Busy == {"frame", "feed", "drain", "output"}

-----------------------------------------------------------------------------
(* The hand-over between the caller and the worker.                        *)

OnlyFrames == \A i \in 1..Len(tasks) : tasks[i].kind = "frame"

\* The caller waits for the task of kind k: it is queued alone, or it runs, or it
\* has run.
Awaits(k) ==
  \/ ready /\ tasks = <<>> /\ worker \in Loop
  \/ ~ready /\ tasks = <<Task(k, 0)>> /\ worker \in Loop \cup Busy
  \/ ~ready /\ tasks = <<>> /\ worker = k

Stopped == ~running /\ tasks = <<>> /\ ~codec

HandOver ==
  \/ caller \in {"idle", "releasing", "stopping"} /\ Stopped /\ worker = "none"
  \/ caller \in {"idle", "releasing"} /\ running /\ OnlyFrames
       /\ worker \in Loop \cup Busy
  \/ caller = "configuring" /\ running /\ Awaits("configure")
  \/ caller = "waiting" /\ running /\ Awaits("destroy") /\ (ready => ~codec)
  \/ caller = "joining" /\ Stopped
       /\ worker \in {"none", "exited", "top", "woken", "inner"}

\* What the worker holds while it processes a frame.
Holds ==
  /\ inHeld => worker = "feed"
  /\ outHeld # 0 <=> worker = "output"
  /\ worker \in {"drain", "output"} => drains # 0
  /\ worker \in Busy => job # 0

\* Tasks have numbers of frames that were given to Decode.
Numbered ==
  /\ \A i \in 1..Len(tasks) : /\ tasks[i].frame <= frames
                              /\ tasks[i].kind = "frame" <=> tasks[i].frame # 0
  /\ job <= frames

-----------------------------------------------------------------------------
(* The order of frames.                                                    *)

\* The frames in a sequence of buffers, where 0 is an empty one, of tasks, and of
\* pictures delivered.
In(s) == {s[i] : i \in 1..Len(s)} \ {0}
Queued(s) == {s[i].frame : i \in 1..Len(s)} \ {0}
Shown(s) == {s[i].output : i \in 1..Len(s)}
Labels(s) == {s[i].label : i \in 1..Len(s)}

Rising(s) ==
  \A i, j \in 1..Len(s) : i < j /\ s[i] # 0 /\ s[j] # 0 => s[i] < s[j]
RisingTasks(s) ==
  \A i, j \in 1..Len(s) : i < j /\ s[i].frame # 0 /\ s[j].frame # 0
                            => s[i].frame < s[j].frame
Sorted == RisingTasks(tasks) /\ Rising(inQ) /\ Rising(outQ)

\* Frames go from the queue Q through the worker T, the codec's input I and output
\* O and the worker again H to the callback D, and none overtakes another.
Ahead(A, B) == \A x \in A, y \in B : x < y
Chain(D, H, O, I, T, Q) ==
  /\ Ahead(D, H) /\ Ahead(D, O) /\ Ahead(D, I) /\ Ahead(D, T) /\ Ahead(D, Q)
  /\ Ahead(H, O) /\ Ahead(H, I) /\ Ahead(H, T) /\ Ahead(H, Q)
  /\ Ahead(O, I) /\ Ahead(O, T) /\ Ahead(O, Q)
  /\ Ahead(I, T) /\ Ahead(I, Q)

Taken == IF worker \in {"frame", "feed"} THEN {job} ELSE {}
Held == {outHeld} \ {0}
Passing == Chain(Shown(delivered), Held, In(outQ), In(inQ), Taken, Queued(tasks))

\* The frame being processed is not ahead of anything in the codec or delivered,
\* and behind what is queued; so are the labels it has given.
InCodec == Held \cup In(outQ) \cup In(inQ)
Labelling ==
  /\ Ahead(Labels(delivered), Queued(tasks))
  /\ worker \in Busy => /\ Ahead({job}, Queued(tasks))
                        /\ \A f \in Labels(delivered) \cup InCodec : f <= job

\* Only frames that were given to Decode have gone anywhere.
Given == \A f \in Shown(delivered) \cup Labels(delivered) \cup InCodec : f <= frames

OrderInv ==
  Sorted /\ Passing /\ Labelling /\ Given /\ DeliveredInOrder /\ LabelNotEarlier

-----------------------------------------------------------------------------
(* Queues.                                                                 *)

\* The task queue when a task is taken ...
LEMMA JobsPop ==
  ASSUME NEW s \in Seq(Jobs), s # <<>>
  PROVE  /\ Tail(s) \in Seq(Jobs) /\ Len(s) \in Nat /\ Len(s) > 0
         /\ Len(Tail(s)) = Len(s) - 1 /\ Head(s) = s[1] /\ Head(s) \in Jobs
         /\ \A i \in 1..Len(Tail(s)) : Tail(s)[i] = s[i + 1] /\ i + 1 \in 1..Len(s)
         /\ \A i \in 2..Len(s) : Tail(s)[i - 1] = s[i] /\ i - 1 \in 1..Len(Tail(s))
  BY HeadTailProperties, EmptySeq, LenProperties, ElementOfSeq

\* ... and when a task is added.
LEMMA JobsPush ==
  ASSUME NEW s \in Seq(Jobs), NEW e \in Jobs
  PROVE  /\ Append(s, e) \in Seq(Jobs) /\ Len(s) \in Nat
         /\ Len(Append(s, e)) = Len(s) + 1 /\ Append(s, e)[Len(s) + 1] = e
         /\ \A i \in 1..Len(s) : Append(s, e)[i] = s[i]
         /\ \A i \in 1..Len(Append(s, e)) : i \in 1..Len(s) \/ i = Len(s) + 1
  BY AppendProperties, LenProperties

\* Configure and Release replace the queue by one task.
LEMMA JobsOne ==
  ASSUME NEW e \in Jobs
  PROVE  /\ <<e>> \in Seq(Jobs) /\ Len(<<e>>) = 1 /\ <<e>>[1] = e /\ <<e>> # <<>>
         /\ Head(<<e>>) = e /\ Tail(<<e>>) = <<>>
  OBVIOUS

\* A task of the decoder is a task.
LEMMA TaskType ==
  ASSUME NEW k \in {"configure", "destroy", "frame"}, NEW f \in 0..MaxFrames
  PROVE  Task(k, f) \in Jobs /\ Task(k, f).kind = k /\ Task(k, f).frame = f
  BY DEF Task, Jobs

-----------------------------------------------------------------------------
(* The hand-over.                                                          *)

\* Calls keep it.
LEMMA HandOverCall == TypeOK /\ HandOver /\ Call => HandOver'
<1> SUFFICES ASSUME TypeOK, HandOver, Call PROVE HandOver'
  OBVIOUS
<1>1. tasks \in Seq(Jobs) /\ frames \in Nat /\ MaxFrames \in Nat
  BY DecoderAssumption DEF TypeOK, Jobs
<1>2. CASE Configure
  <2>1. running => Notified \in Loop \cup Busy
    BY <1>2 DEF Configure, HandOver, Stopped, Notified, Loop, Busy
  <2>2. QED
    BY <1>2, <2>1 DEF Configure, HandOver, Awaits, Loop
<1>3. CASE Decode
  <2>1. CASE running
    <3>1. Task("frame", frames + 1) \in Jobs /\ Task("frame", frames + 1).kind = "frame"
      BY <1>1, <1>3, TaskType DEF Decode
    <3>2. /\ tasks' = Append(tasks, Task("frame", frames + 1)) /\ worker' = Notified
          /\ running' /\ caller' = "idle"
      BY <1>3, <2>1 DEF Decode
    <3>3. OnlyFrames /\ worker \in Loop \cup Busy
      BY <1>3, <2>1 DEF Decode, HandOver, Stopped
    <3>4. OnlyFrames'
      BY <1>1, <3>1, <3>2, <3>3, JobsPush DEF OnlyFrames
    <3>5. worker' \in Loop \cup Busy
      BY <3>2, <3>3 DEF Notified, Loop
    <3>6. QED
      BY <3>2, <3>4, <3>5 DEF HandOver
  <2>2. CASE ~running
    BY <1>3, <2>2 DEF Decode, HandOver, Stopped
  <2>3. QED
    BY <2>1, <2>2
<1>4. CASE Release \/ \E c \in Callbacks : RegisterDecodeCompleteCallback(c)
  BY <1>4 DEF Release, RegisterDecodeCompleteCallback, HandOver, Stopped, OnlyFrames
<1>5. QED
  BY <1>2, <1>3, <1>4 DEF Call

\* The caller's other steps keep it.
LEMMA HandOverReturn == HandOver /\ Return => HandOver'
<1> SUFFICES ASSUME HandOver, Return PROVE HandOver'
  OBVIOUS
<1>1. CASE ConfigureReturn
  BY <1>1, EmptySeq DEF ConfigureReturn, queue, HandOver, Awaits, OnlyFrames
<1>2. CASE ReleaseQueue
  <2>1. running => Notified \in Loop \cup Busy
    BY <1>2 DEF ReleaseQueue, HandOver, Stopped, Notified, Loop, Busy
  <2>2. QED
    BY <1>2, <2>1 DEF ReleaseQueue, HandOver, Awaits, Stopped
<1>3. CASE StopWorker
  BY <1>3 DEF StopWorker, HandOver, Awaits, Stopped, Notified, Loop
<1>4. CASE StopWorkerJoin
  BY <1>4 DEF StopWorkerJoin, queue, HandOver, Stopped
<1>5. QED
  BY <1>1, <1>2, <1>3, <1>4 DEF Return

\* The worker's loop keeps it.
LEMMA HandOverLoop == TypeOK /\ HandOver /\ (WorkerTop \/ WorkerInner) => HandOver'
<1> SUFFICES ASSUME TypeOK, HandOver, WorkerTop \/ WorkerInner PROVE HandOver'
  OBVIOUS
<1>1. CASE WorkerTop
  BY <1>1 DEF WorkerTop, queue, HandOver, Awaits, Stopped, OnlyFrames, Loop
<1>2. CASE WorkerInner /\ tasks = <<>>
  BY <1>2 DEF WorkerInner, HandOver, Awaits, Stopped, OnlyFrames, Loop
<1>3. CASE WorkerInner /\ tasks # <<>>
  <2>1. /\ worker = "inner" /\ worker' = Head(tasks).kind /\ tasks' = Tail(tasks)
        /\ UNCHANGED <<caller, running, ready, codec>>
    BY <1>3 DEF WorkerInner
  <2>2. tasks \in Seq(Jobs)
    BY DEF TypeOK, Jobs
  <2>3. CASE OnlyFrames /\ caller \in {"idle", "releasing"} /\ running
    <3>1. OnlyFrames' /\ worker' = "frame"
      BY <1>3, <2>1, <2>2, <2>3, JobsPop DEF OnlyFrames
    <3>2. QED
      BY <2>1, <2>3, <3>1 DEF HandOver, Busy
  <2>4. ASSUME NEW k \in {"configure", "destroy"}, Awaits(k) PROVE Awaits(k)'
    <3>1. ~ready /\ tasks = <<Task(k, 0)>>
      BY <1>3, <2>1, <2>4 DEF Awaits
    <3>2. Task(k, 0) \in Jobs /\ Task(k, 0).kind = k
      BY DecoderAssumption, TaskType
    <3>3. tasks' = <<>> /\ worker' = k
      BY <2>1, <3>1, <3>2, JobsOne
    <3>4. QED
      BY <2>1, <3>1, <3>3 DEF Awaits
  <2>5. QED
    BY <1>3, <2>1, <2>3, <2>4 DEF HandOver, Stopped
<1>4. QED
  BY <1>1, <1>2, <1>3

\* The worker's tasks keep it.
LEMMA HandOverTask ==
  HandOver /\ WorkerStep /\ ~WorkerTop /\ ~WorkerInner => HandOver'
<1> SUFFICES ASSUME HandOver, WorkerStep, ~WorkerTop, ~WorkerInner PROVE HandOver'
  OBVIOUS
<1>1. CASE ConfigureOnWorker \/ DestroyOnWorker
  BY <1>1 DEF ConfigureOnWorker, DestroyOnWorker, queue, HandOver, Awaits, Stopped,
              Loop, Busy
<1>2. ASSUME worker \in Busy, worker' \in {"inner"} \cup Busy,
             UNCHANGED <<caller, running, tasks, ready, codec>>
      PROVE  HandOver'
  BY <1>2 DEF HandOver, Awaits, Stopped, OnlyFrames, Loop, Busy
<1>3. CASE SkipFrame \/ DequeueInputFails \/ DequeueInput
  BY <1>2, <1>3 DEF SkipFrame, DequeueInputFails, DequeueInput, queue, Busy
<1>4. CASE FeedFails \/ QueueInput
  BY <1>2, <1>4 DEF FeedFails, QueueInput, queue, Busy
<1>5. CASE DequeueOutput \/ Deliver \/ DropOutput \/ DrainEnd
  BY <1>2, <1>5 DEF DequeueOutput, Deliver, DropOutput, DrainEnd, queue, Busy
<1>6. QED
  BY <1>1, <1>3, <1>4, <1>5 DEF WorkerStep

\* Every step keeps it.
LEMMA HandOverStep == TypeOK /\ HandOver /\ [Next]_vars => HandOver'
<1> SUFFICES ASSUME TypeOK, HandOver, [Next]_vars PROVE HandOver'
  OBVIOUS
<1>1. CASE CodecDecodes \/ UNCHANGED vars
  BY <1>1 DEF CodecDecodes, vars, queue, HandOver, Awaits, Stopped, OnlyFrames
<1>2. QED
  BY <1>1, HandOverCall, HandOverReturn, HandOverLoop, HandOverTask DEF Next

-----------------------------------------------------------------------------
(* Types, and what the worker holds.                                       *)

Inv == TypeOK /\ HandOver /\ Holds /\ Numbered

\* What is assumed of the constants.
LEMMA Sizes == MaxFrames \in Nat /\ MaxConfigs \in Nat /\ 0 \notin Callbacks
  BY DecoderAssumption

\* A new decoder has the types and holds nothing.
LEMMA TypeInit == Init => Inv
<1> SUFFICES ASSUME Init PROVE Inv
  OBVIOUS
<1> DEFINE Decs == [output : Frames, label : Frames, cb : Callbacks]
<1>1. TypeOK
  <2>1. /\ <<>> \in Seq(Jobs) /\ <<>> \in Seq(0..MaxFrames) /\ <<>> \in Seq(Frames)
        /\ <<>> \in Seq(Decs)
    BY EmptySeq
  <2>2. 0 \in 0..MaxFrames /\ 0 \in 0..MaxConfigs
    BY Sizes
  <2> HIDE DEF Decs
  <2>3. delivered \in Seq(Decs)
    BY <2>1 DEF Init
  <2>4. tasks \in Seq(Jobs) /\ inQ \in Seq(0..MaxFrames) /\ outQ \in Seq(Frames)
    BY <2>1 DEF Init
  <2>5. /\ frames \in 0..MaxFrames /\ configs \in 0..MaxConfigs /\ job \in 0..MaxFrames
        /\ drains \in 0..2 /\ outHeld \in 0..MaxFrames
        /\ callback \in Callbacks \cup {0} /\ cb \in Callbacks \cup {0}
    BY <2>2 DEF Init
  <2>6. QED
    BY <2>3, <2>4, <2>5 DEF Init, TypeOK, Jobs, Decs
<1>2. HandOver /\ Holds
  BY DEF Init, HandOver, Stopped, Holds, Busy
<1>3. Len(tasks) = 0 /\ job <= frames
  BY DEF Init
<1>4. Numbered
  BY <1>3 DEF Numbered
<1>5. QED
  BY <1>1, <1>2, <1>4 DEF Inv

\* Calls keep the types and what is held.
LEMMA InvCall == Inv /\ Call => TypeOK' /\ Holds' /\ Numbered'
<1> SUFFICES ASSUME Inv, Call PROVE TypeOK' /\ Holds' /\ Numbered'
  OBVIOUS
<1>1. /\ tasks \in Seq(Jobs) /\ frames \in 0..MaxFrames /\ job \in 0..MaxFrames
      /\ TypeOK /\ HandOver /\ Holds /\ Numbered
  BY DEF Inv, TypeOK, Jobs
<1>2. CASE Configure
  <2>1. Task("configure", 0) \in Jobs /\ Task("configure", 0).kind = "configure"
        /\ Task("configure", 0).frame = 0
    BY Sizes, TaskType
  <2>2. \/ worker' = "top" /\ worker = "none"
        \/ worker' = worker
        \/ worker' = "woken" /\ worker = "waiting"
    BY <1>1, <1>2 DEF Configure, HandOver, Stopped, Notified
  <2>3. tasks' \in Seq(Jobs)
    BY <1>2, <2>1, JobsOne DEF Configure
  <2>4. TypeOK'
    <3>1. configs' \in 0..MaxConfigs
      BY <1>1, <1>2, Sizes DEF Configure, TypeOK
    <3>2. worker' \in {"none", "top", "waiting", "woken", "inner", "exited",
                      "configure", "destroy", "frame", "feed", "drain", "output"}
      BY <1>1, <2>2 DEF TypeOK
    <3>3. QED
      BY <1>1, <1>2, <2>3, <3>1, <3>2 DEF Configure, buffers, TypeOK, Jobs
  <2>5. Holds'
    BY <1>1, <1>2, <2>2 DEF Configure, buffers, Holds, Busy
  <2>6. Numbered'
    BY <1>1, <1>2, <2>1, JobsOne DEF Configure, Numbered
  <2>7. QED
    BY <2>4, <2>5, <2>6
<1>3. CASE Decode
  <2>1. frames + 1 \in 0..MaxFrames /\ frames' = frames + 1
    BY <1>1, <1>3, Sizes DEF Decode
  <2>2. /\ Task("frame", frames + 1) \in Jobs /\ Task("frame", frames + 1).kind = "frame"
        /\ Task("frame", frames + 1).frame = frames + 1
    BY <2>1, TaskType
  <2>3. worker' = worker \/ (worker = "waiting" /\ worker' = "woken")
    BY <1>3 DEF Decode, Notified
  <2>4. tasks' = tasks \/ tasks' = Append(tasks, Task("frame", frames + 1))
    BY <1>3 DEF Decode
  <2>5. tasks' \in Seq(Jobs)
    BY <1>1, <2>2, <2>4, JobsPush
  <2>6. TypeOK'
    <3>1. worker' \in {"none", "top", "waiting", "woken", "inner", "exited",
                      "configure", "destroy", "frame", "feed", "drain", "output"}
      BY <1>1, <2>3 DEF TypeOK
    <3>2. UNCHANGED <<caller, configs, ready, running, callback, job, drains, cb, codec,
                      inHeld, outHeld, inQ, outQ, delivered>>
      BY <1>3 DEF Decode, buffers
    <3>3. QED
      BY <1>1, <2>1, <2>5, <3>1, <3>2 DEF TypeOK, Jobs
  <2>7. Holds'
    BY <1>1, <1>3, <2>3 DEF Decode, buffers, Holds, Busy
  <2>8. \A i \in 1..Len(tasks) : tasks[i].frame \in 0..MaxFrames
    <3>1. \A i \in 1..Len(tasks) : tasks[i] \in Jobs
      BY <1>1, ElementOfSeq
    <3>2. QED
      BY <3>1 DEF Jobs
  <2>9. \A i \in 1..Len(tasks) : /\ tasks[i].frame <= frames + 1
                                 /\ tasks[i].kind = "frame" <=> tasks[i].frame # 0
    BY <1>1, <2>8 DEF Numbered
  <2>10. \A i \in 1..Len(tasks') : /\ tasks'[i].frame <= frames + 1
                                   /\ tasks'[i].kind = "frame" <=> tasks'[i].frame # 0
    <3>1. CASE tasks' = tasks
      BY <2>9, <3>1
    <3>2. CASE tasks' = Append(tasks, Task("frame", frames + 1))
      BY <1>1, <2>1, <2>2, <2>9, <3>2, JobsPush
    <3>3. QED
      BY <2>4, <3>1, <3>2
  <2>11. job' <= frames'
    BY <1>1, <1>3, <2>1 DEF Decode, Numbered
  <2>12. QED
    BY <2>1, <2>6, <2>7, <2>10, <2>11 DEF Numbered
<1>4. CASE Release \/ \E c \in Callbacks : RegisterDecodeCompleteCallback(c)
  <2>1. /\ callback' \in Callbacks \cup {0} /\ caller' \in {"idle", "releasing"}
        /\ UNCHANGED <<calls, ready, running, tasks, worker, job, drains, cb, codec,
                       buffers, delivered>>
    BY <1>4 DEF Release, RegisterDecodeCompleteCallback
  <2>2. TypeOK'
    BY <1>1, <2>1 DEF calls, buffers, TypeOK
  <2>3. Holds' /\ Numbered'
    BY <1>1, <2>1 DEF calls, buffers, Holds, Numbered
  <2>4. QED
    BY <2>2, <2>3
<1>5. QED
  BY <1>2, <1>3, <1>4 DEF Call

\* So do the other steps of the caller.
LEMMA InvReturn == Inv /\ Return => TypeOK' /\ Holds' /\ Numbered'
<1> SUFFICES ASSUME Inv, Return PROVE TypeOK' /\ Holds' /\ Numbered'
  OBVIOUS
<1>1. TypeOK /\ HandOver /\ Holds /\ Numbered
  BY DEF Inv
<1>2. CASE ReleaseQueue
  <2>1. Task("destroy", 0) \in Jobs /\ Task("destroy", 0).kind = "destroy"
        /\ Task("destroy", 0).frame = 0
    BY Sizes, TaskType
  <2>2. worker' = worker \/ (worker = "waiting" /\ worker' = "woken")
    BY <1>2 DEF ReleaseQueue, Notified
  <2>3. tasks' = tasks \/ tasks' = <<Task("destroy", 0)>>
    BY <1>2 DEF ReleaseQueue
  <2>4. tasks' \in Seq(Jobs)
    BY <1>1, <2>1, <2>3, JobsOne DEF TypeOK, Jobs
  <2>5. TypeOK'
    BY <1>1, <1>2, <2>2, <2>4 DEF ReleaseQueue, calls, buffers, TypeOK, Jobs
  <2>6. Holds'
    BY <1>1, <1>2, <2>2 DEF ReleaseQueue, buffers, Holds, Busy
  <2>7. Numbered'
    BY <1>1, <1>2, <2>1, <2>3, JobsOne DEF ReleaseQueue, calls, Numbered, TypeOK
  <2>8. QED
    BY <2>5, <2>6, <2>7
<1>3. CASE ConfigureReturn
  BY <1>1, <1>3 DEF ConfigureReturn, calls, queue, buffers, TypeOK, Holds, Numbered
<1>4. CASE StopWorker
  BY <1>1, <1>4 DEF StopWorker, Notified, calls, buffers, TypeOK, Holds, Numbered, Busy
<1>5. CASE StopWorkerJoin
  BY <1>1, <1>5 DEF StopWorkerJoin, calls, queue, buffers, TypeOK, Holds, Numbered, Busy
<1>6. QED
  BY <1>2, <1>3, <1>4, <1>5 DEF Return

\* So do the steps of the worker.
LEMMA InvWorker == Inv /\ WorkerStep => TypeOK' /\ Holds' /\ Numbered'
<1> SUFFICES ASSUME Inv, WorkerStep PROVE TypeOK' /\ Holds' /\ Numbered'
  OBVIOUS
<1>1. TypeOK /\ HandOver /\ Holds /\ Numbered /\ tasks \in Seq(Jobs)
  BY DEF Inv, TypeOK, Jobs
<1>2. CASE WorkerTop
  BY <1>1, <1>2 DEF WorkerTop, calls, queue, buffers, TypeOK, Holds, Numbered, Busy
<1>3. CASE WorkerInner
  <2>1. CASE tasks = <<>>
    BY <1>1, <1>3, <2>1 DEF WorkerInner, calls, buffers, TypeOK, Holds, Numbered, Busy
  <2>2. CASE tasks # <<>>
    <3>1. /\ worker = "inner" /\ worker' = Head(tasks).kind /\ job' = Head(tasks).frame
          /\ tasks' = Tail(tasks)
          /\ UNCHANGED <<caller, calls, ready, running, callback, drains, cb, codec,
                         buffers, delivered>>
      BY <1>3, <2>2 DEF WorkerInner
    <3>2. /\ Head(tasks).kind \in {"configure", "destroy", "frame"}
          /\ Head(tasks).frame \in 0..MaxFrames /\ Head(tasks).frame <= frames
          /\ Head(tasks).kind = "frame" => Head(tasks).frame # 0
          /\ tasks' \in Seq(Jobs)
      <4>1. /\ Head(tasks) = tasks[1] /\ Head(tasks) \in Jobs /\ 1 \in 1..Len(tasks)
            /\ tasks' \in Seq(Jobs)
        BY <1>1, <2>2, <3>1, JobsPop
      <4>2. QED
        BY <1>1, <4>1 DEF Jobs, Numbered
    <3>3. TypeOK'
      BY <1>1, <3>1, <3>2 DEF calls, buffers, TypeOK, Jobs
    <3>4. Holds'
      BY <1>1, <3>1, <3>2 DEF buffers, Holds, Busy
    <3>5. Numbered'
      BY <1>1, <2>2, <3>1, <3>2, JobsPop DEF calls, Numbered
    <3>6. QED
      BY <3>3, <3>4, <3>5
  <2>3. QED
    BY <2>1, <2>2
<1>4. CASE ConfigureOnWorker \/ DestroyOnWorker
  <2>1. /\ worker \in {"configure", "destroy"} /\ worker' = "inner" /\ ready' = TRUE
        /\ codec' \in BOOLEAN /\ inQ' = <<>> /\ outQ' = <<>>
        /\ UNCHANGED <<caller, calls, queue, job, drains, cb, inHeld, outHeld, delivered>>
    BY <1>4 DEF ConfigureOnWorker, DestroyOnWorker, DestroyCodec
  <2>2. TypeOK'
    BY <1>1, <2>1 DEF calls, queue, TypeOK
  <2>3. Holds' /\ Numbered'
    BY <1>1, <2>1 DEF calls, queue, Holds, Numbered, Busy
  <2>4. QED
    BY <2>2, <2>3
<1>5. ASSUME worker \in Busy, worker' \in {"inner"} \cup Busy, drains' \in 0..2,
             cb' \in {cb, callback}, UNCHANGED <<caller, calls, ready, queue, job, codec>>
      PROVE  /\ Numbered'
             /\ /\ inHeld' \in BOOLEAN /\ outHeld' \in 0..MaxFrames
                /\ inQ' \in Seq(0..MaxFrames) /\ outQ' \in Seq(Frames)
                /\ delivered' \in Seq([output : Frames, label : Frames, cb : Callbacks])
                => TypeOK'
  <2>1. Numbered'
    BY <1>1, <1>5 DEF calls, queue, Numbered
  <2>2. worker' \in {"inner", "frame", "feed", "drain", "output"}
        /\ cb' \in Callbacks \cup {0}
    BY <1>1, <1>5 DEF Busy, TypeOK
  <2>3. QED
    BY <1>1, <1>5, <2>1, <2>2 DEF calls, queue, TypeOK
<1> DEFINE Kept == /\ inHeld \in BOOLEAN /\ outHeld \in 0..MaxFrames
                   /\ inQ \in Seq(0..MaxFrames) /\ outQ \in Seq(Frames)
                   /\ delivered \in Seq([output : Frames, label : Frames, cb : Callbacks])
                   /\ job \in 0..MaxFrames /\ drains \in 0..2 /\ MaxFrames \in Nat
<1>6. Kept
  BY <1>1, Sizes DEF TypeOK
<1>7. CASE SkipFrame \/ DequeueInputFails \/ DequeueInput
  <2>1. Holds'
    BY <1>1, <1>7 DEF SkipFrame, DequeueInputFails, DequeueInput, buffers, Holds, Busy
  <2>2. TypeOK' /\ Numbered'
    <3>1. CASE SkipFrame
      BY <1>5, <1>6, <3>1 DEF SkipFrame, buffers, Busy
    <3>2. CASE DequeueInputFails
      BY <1>5, <1>6, <3>2 DEF DequeueInputFails, buffers, Busy
    <3>3. CASE DequeueInput
      BY <1>5, <1>6, <3>3 DEF DequeueInput, Busy
    <3>4. QED
      BY <1>7, <3>1, <3>2, <3>3
  <2>3. QED
    BY <2>1, <2>2
<1>8. CASE FeedFails \/ QueueInput
  <2>1. Holds'
    BY <1>1, <1>8 DEF FeedFails, QueueInput, Holds, Busy
  <2>2. Append(inQ, 0) \in Seq(0..MaxFrames) /\ Append(inQ, job) \in Seq(0..MaxFrames)
    BY <1>6, AppendProperties
  <2>3. TypeOK' /\ Numbered'
    <3>1. CASE FeedFails
      BY <1>5, <1>6, <2>2, <3>1 DEF FeedFails, Busy
    <3>2. CASE QueueInput
      <4>1. /\ worker \in Busy /\ worker' \in {"inner"} \cup Busy /\ drains' \in 0..2
            /\ cb' \in {cb, callback}
            /\ UNCHANGED <<caller, calls, ready, queue, job, codec>>
        BY <3>2 DEF QueueInput, Busy
      <4>2. /\ inHeld' \in BOOLEAN /\ inQ' \in Seq(0..MaxFrames)
            /\ UNCHANGED <<outHeld, outQ, delivered>>
        BY <2>2, <3>2 DEF QueueInput
      <4>3. QED
        BY <1>5, <1>6, <4>1, <4>2
    <3>3. QED
      BY <1>8, <3>1, <3>2
  <2>4. QED
    BY <2>1, <2>3
<1>9. CASE DequeueOutput
  <2>1. Head(outQ) \in 1..MaxFrames /\ Tail(outQ) \in Seq(Frames)
    BY <1>6, <1>9, HeadTailProperties DEF DequeueOutput, Frames
  <2>2. Holds'
    BY <1>1, <1>9, <2>1 DEF DequeueOutput, Holds, Busy
  <2>3. TypeOK' /\ Numbered'
    BY <1>5, <1>6, <1>9, <2>1 DEF DequeueOutput, Busy
  <2>4. QED
    BY <2>2, <2>3
<1>10. CASE Deliver
  <2>1. [output |-> outHeld, label |-> job, cb |-> cb]
          \in [output : Frames, label : Frames, cb : Callbacks]
    BY <1>1, <1>10, Sizes DEF Deliver, TypeOK, Holds, Busy, Frames
  <2>2. delivered' \in Seq([output : Frames, label : Frames, cb : Callbacks])
    BY <1>6, <1>10, <2>1, AppendProperties DEF Deliver
  <2>3. Holds'
    BY <1>1, <1>10 DEF Deliver, Holds, Busy
  <2>4. TypeOK' /\ Numbered'
    BY <1>5, <1>6, <1>10, <2>2 DEF Deliver, Busy
  <2>5. QED
    BY <2>3, <2>4
<1>11. CASE DropOutput
  <2>1. Holds'
    BY <1>1, <1>11 DEF DropOutput, Holds, Busy
  <2>2. TypeOK' /\ Numbered'
    BY <1>5, <1>6, <1>11 DEF DropOutput, Busy
  <2>3. QED
    BY <2>1, <2>2
<1>12. CASE DrainEnd
  <2>1. drains \in 1..2
    BY <1>1, <1>6, <1>12 DEF DrainEnd, Holds
  <2>2. Holds'
    BY <1>1, <1>12, <2>1 DEF DrainEnd, buffers, Holds, Busy
  <2>3. TypeOK' /\ Numbered'
    BY <1>5, <1>6, <1>12, <2>1 DEF DrainEnd, buffers, Busy
  <2>4. QED
    BY <2>2, <2>3
<1>13. QED
  BY <1>2, <1>3, <1>4, <1>7, <1>8, <1>9, <1>10, <1>11, <1>12 DEF WorkerStep

\* And the codec.
LEMMA InvStep == Inv /\ [Next]_vars => Inv'
<1> SUFFICES ASSUME Inv, [Next]_vars PROVE TypeOK' /\ Holds' /\ Numbered'
  BY HandOverStep DEF Inv
<1>1. CASE CodecDecodes
  <2>1. inQ \in Seq(0..MaxFrames) /\ outQ \in Seq(Frames) /\ inQ # <<>>
    BY <1>1 DEF CodecDecodes, Inv, TypeOK
  <2>2. Head(inQ) \in 0..MaxFrames /\ Tail(inQ) \in Seq(0..MaxFrames)
    BY <2>1, HeadTailProperties
  <2>3. Head(inQ) # 0 => Append(outQ, Head(inQ)) \in Seq(Frames)
    BY <2>1, <2>2, Sizes, AppendProperties DEF Frames
  <2>4. QED
    BY <1>1, <2>1, <2>2, <2>3 DEF CodecDecodes, calls, queue, Inv, TypeOK, Holds, Numbered
<1>2. CASE UNCHANGED vars
  BY <1>2 DEF vars, calls, queue, buffers, Inv, TypeOK, Holds, Numbered
<1>3. QED
  BY <1>1, <1>2, InvCall, InvReturn, InvWorker DEF Next

\* Whatever fails while a frame is fed or drained, the decoder gives the codec's
\* buffers back before it takes the next task (ProcessOneFrame, DrainOutputs).
THEOREM DecoderBuffersReturned == Spec => []BuffersReturned
<1>1. Inv => BuffersReturned
  BY DEF Inv, Holds, BuffersReturned
<1>2. QED
  BY <1>1, TypeInit, InvStep, PTL DEF Spec

\* When Release has returned, its worker is joined, its codec destroyed and its
\* queue empty, whatever was queued or running when it was called.
THEOREM DecoderReleasedIsQuiet == Spec => []ReleasedIsQuiet
<1>1. Inv => ReleasedIsQuiet
  BY DEF Inv, HandOver, Stopped, ReleasedIsQuiet
<1>2. QED
  BY <1>1, TypeInit, InvStep, PTL DEF Spec

-----------------------------------------------------------------------------
(* The order of frames.                                                    *)

\* A buffer leaves a queue of the codec.
LEMMA InPop ==
  ASSUME NEW s \in Seq(Nat), s # <<>>
  PROVE  /\ In(s) = In(Tail(s)) \cup ({Head(s)} \ {0})
         /\ Rising(s) => Rising(Tail(s)) /\ Ahead({Head(s)} \ {0}, In(Tail(s)))
<1> DEFINE r == Tail(s)
<1>1. /\ Len(s) \in Nat /\ Len(s) > 0 /\ Len(r) = Len(s) - 1 /\ Head(s) = s[1]
      /\ \A i \in 1..Len(r) : r[i] = s[i + 1] /\ i + 1 \in 1..Len(s)
      /\ \A i \in 2..Len(s) : r[i - 1] = s[i] /\ i - 1 \in 1..Len(r)
  BY HeadTailProperties, EmptySeq, LenProperties
<1> HIDE DEF r
<1>2. In(s) = In(r) \cup ({Head(s)} \ {0})
  <2>1. \A i \in 1..Len(s) : i = 1 \/ i \in 2..Len(s)
    BY <1>1
  <2>2. QED
    BY <1>1, <2>1 DEF In
<1>3. ASSUME Rising(s) PROVE Rising(r)
  <2> SUFFICES ASSUME NEW i \in 1..Len(r), NEW j \in 1..Len(r), i < j, r[i] # 0, r[j] # 0
               PROVE  r[i] < r[j]
    BY DEF Rising
  <2>1. i + 1 < j + 1
    OBVIOUS
  <2>2. QED
    BY <1>1, <1>3, <2>1 DEF Rising
<1>4. ASSUME Rising(s) PROVE Ahead({Head(s)} \ {0}, In(r))
  <2>1. ASSUME s[1] # 0, NEW i \in 1..Len(r), r[i] # 0 PROVE s[1] < r[i]
    <3>1. 1 < i + 1 /\ 1 \in 1..Len(s)
      BY <1>1
    <3>2. QED
      BY <1>1, <1>4, <2>1, <3>1 DEF Rising
  <2>2. QED
    BY <1>1, <2>1 DEF Ahead, In
<1>5. QED
  BY <1>2, <1>3, <1>4 DEF r

\* A buffer enters a queue of the codec.
LEMMA InPush ==
  ASSUME NEW s \in Seq(Nat), NEW e \in Nat
  PROVE  /\ In(Append(s, e)) = In(s) \cup ({e} \ {0})
         /\ Rising(s) /\ Ahead(In(s), {e} \ {0}) => Rising(Append(s, e))
<1> DEFINE r == Append(s, e)
<1>1. /\ Len(s) \in Nat /\ Len(r) = Len(s) + 1 /\ r[Len(s) + 1] = e
      /\ \A i \in 1..Len(s) : r[i] = s[i] /\ i \in 1..Len(r)
      /\ \A i \in 1..Len(r) : i \in 1..Len(s) \/ i = Len(s) + 1
  BY AppendProperties, LenProperties
<1> HIDE DEF r
<1>2. In(r) = In(s) \cup ({e} \ {0})
  BY <1>1 DEF In
<1>3. ASSUME Rising(s), Ahead(In(s), {e} \ {0}) PROVE Rising(r)
  <2> SUFFICES ASSUME NEW i \in 1..Len(r), NEW j \in 1..Len(r), i < j, r[i] # 0, r[j] # 0
               PROVE  r[i] < r[j]
    BY DEF Rising
  <2>1. i \in 1..Len(s)
    BY <1>1
  <2>2. CASE j \in 1..Len(s)
    BY <1>1, <1>3, <2>1, <2>2 DEF Rising
  <2>3. CASE j = Len(s) + 1
    BY <1>1, <1>3, <2>1, <2>3 DEF Ahead, In
  <2>4. QED
    BY <1>1, <2>2, <2>3
<1>4. QED
  BY <1>2, <1>3 DEF r

\* A task leaves the task queue.
LEMMA QueuedPop ==
  ASSUME NEW s \in Seq(Jobs), s # <<>>
  PROVE  /\ Queued(s) = Queued(Tail(s)) \cup ({Head(s).frame} \ {0})
         /\ RisingTasks(s) => /\ RisingTasks(Tail(s))
                              /\ Ahead({Head(s).frame} \ {0}, Queued(Tail(s)))
<1> DEFINE r == Tail(s)
<1>1. /\ Len(s) \in Nat /\ Len(s) > 0 /\ Len(r) = Len(s) - 1 /\ Head(s) = s[1]
      /\ \A i \in 1..Len(r) : r[i] = s[i + 1] /\ i + 1 \in 1..Len(s)
      /\ \A i \in 2..Len(s) : r[i - 1] = s[i] /\ i - 1 \in 1..Len(r)
  BY JobsPop
<1> HIDE DEF r
<1>2. Queued(s) = Queued(r) \cup ({Head(s).frame} \ {0})
  <2>1. \A i \in 1..Len(s) : i = 1 \/ i \in 2..Len(s)
    BY <1>1
  <2>2. QED
    BY <1>1, <2>1 DEF Queued
<1>3. ASSUME RisingTasks(s) PROVE RisingTasks(r)
  <2> SUFFICES ASSUME NEW i \in 1..Len(r), NEW j \in 1..Len(r), i < j,
                      r[i].frame # 0, r[j].frame # 0
               PROVE  r[i].frame < r[j].frame
    BY DEF RisingTasks
  <2>1. i + 1 < j + 1
    OBVIOUS
  <2>2. QED
    BY <1>1, <1>3, <2>1 DEF RisingTasks
<1>4. ASSUME RisingTasks(s) PROVE Ahead({Head(s).frame} \ {0}, Queued(r))
  <2>1. ASSUME s[1].frame # 0, NEW i \in 1..Len(r), r[i].frame # 0
        PROVE  s[1].frame < r[i].frame
    <3>1. 1 < i + 1 /\ 1 \in 1..Len(s)
      BY <1>1
    <3>2. QED
      BY <1>1, <1>4, <2>1, <3>1 DEF RisingTasks
  <2>2. QED
    BY <1>1, <2>1 DEF Ahead, Queued
<1>5. QED
  BY <1>2, <1>3, <1>4 DEF r

\* A task enters the task queue.
LEMMA QueuedPush ==
  ASSUME NEW s \in Seq(Jobs), NEW e \in Jobs
  PROVE  /\ Queued(Append(s, e)) = Queued(s) \cup ({e.frame} \ {0})
         /\ RisingTasks(s) /\ Ahead(Queued(s), {e.frame} \ {0}) => RisingTasks(Append(s, e))
<1> DEFINE r == Append(s, e)
<1>1. /\ Len(s) \in Nat /\ Len(r) = Len(s) + 1 /\ r[Len(s) + 1] = e
      /\ \A i \in 1..Len(s) : r[i] = s[i] /\ i \in 1..Len(r)
      /\ \A i \in 1..Len(r) : i \in 1..Len(s) \/ i = Len(s) + 1
  BY JobsPush
<1> HIDE DEF r
<1>2. Queued(r) = Queued(s) \cup ({e.frame} \ {0})
  BY <1>1 DEF Queued
<1>3. ASSUME RisingTasks(s), Ahead(Queued(s), {e.frame} \ {0}) PROVE RisingTasks(r)
  <2> SUFFICES ASSUME NEW i \in 1..Len(r), NEW j \in 1..Len(r), i < j,
                      r[i].frame # 0, r[j].frame # 0
               PROVE  r[i].frame < r[j].frame
    BY DEF RisingTasks
  <2>1. i \in 1..Len(s)
    BY <1>1
  <2>2. CASE j \in 1..Len(s)
    BY <1>1, <1>3, <2>1, <2>2 DEF RisingTasks
  <2>3. CASE j = Len(s) + 1
    BY <1>1, <1>3, <2>1, <2>3 DEF Ahead, Queued
  <2>4. QED
    BY <1>1, <2>2, <2>3
<1>4. QED
  BY <1>2, <1>3 DEF r

\* No task, or one that is not a frame.
LEMMA QueuedNone ==
  /\ Queued(<<>>) = {} /\ RisingTasks(<<>>)
  /\ \A k \in {"configure", "destroy"} :
       Queued(<<Task(k, 0)>>) = {} /\ RisingTasks(<<Task(k, 0)>>)
<1>1. Queued(<<>>) = {} /\ RisingTasks(<<>>)
  BY DEF Queued, RisingTasks
<1>2. ASSUME NEW k \in {"configure", "destroy"}
      PROVE  Queued(<<Task(k, 0)>>) = {} /\ RisingTasks(<<Task(k, 0)>>)
  <2>1. Len(<<Task(k, 0)>>) = 1 /\ <<Task(k, 0)>>[1].frame = 0
    BY DEF Task
  <2>2. \A i \in 1..Len(<<Task(k, 0)>>) : i = 1
    BY <2>1
  <2> DEFINE s == <<Task(k, 0)>>
  <2>3. \A i \in 1..Len(s) : s[i].frame = 0
    BY <2>1, <2>2
  <2> HIDE DEF s
  <2>4. Queued(s) = {} /\ RisingTasks(s)
    BY <2>3 DEF Queued, RisingTasks
  <2>5. QED
    BY <2>4 DEF s
<1>3. QED
  BY <1>1, <1>2

\* A codec without buffers.
LEMMA InNone == In(<<>>) = {} /\ Rising(<<>>)
  BY DEF In, Rising

\* What the sets of frames are made of.
LEMMA SetTypes ==
  ASSUME TypeOK
  PROVE  /\ tasks \in Seq(Jobs) /\ inQ \in Seq(Nat) /\ outQ \in Seq(Nat)
         /\ frames \in Nat /\ job \in Nat /\ outHeld \in Nat
         /\ Queued(tasks) \subseteq Nat /\ In(inQ) \subseteq Nat /\ In(outQ) \subseteq Nat
         /\ Shown(delivered) \subseteq Nat /\ Labels(delivered) \subseteq Nat
<1>1. /\ tasks \in Seq(Jobs) /\ frames \in Nat /\ job \in Nat /\ outHeld \in Nat
      /\ inQ \in Seq(0..MaxFrames) /\ outQ \in Seq(1..MaxFrames) /\ MaxFrames \in Nat
      /\ delivered \in Seq([output : 1..MaxFrames, label : 1..MaxFrames, cb : Callbacks])
  BY Sizes DEF TypeOK, Jobs, Frames
<1>2. /\ \A i \in 1..Len(tasks) : tasks[i] \in Jobs
      /\ \A i \in 1..Len(inQ) : inQ[i] \in 0..MaxFrames
      /\ \A i \in 1..Len(outQ) : outQ[i] \in 1..MaxFrames
      /\ \A i \in 1..Len(delivered) :
           delivered[i] \in [output : 1..MaxFrames, label : 1..MaxFrames, cb : Callbacks]
  BY <1>1, ElementOfSeq
<1>3. inQ \in Seq(Nat) /\ outQ \in Seq(Nat)
  BY <1>1
<1>4. Queued(tasks) \subseteq Nat
  BY <1>1, <1>2 DEF Queued, Jobs
<1>5. In(inQ) \subseteq Nat /\ In(outQ) \subseteq Nat
  BY <1>1, <1>2 DEF In
<1>6. Shown(delivered) \subseteq Nat /\ Labels(delivered) \subseteq Nat
  <2>1. \A i \in 1..Len(delivered) :
          /\ delivered[i].output \in 1..MaxFrames /\ delivered[i].label \in 1..MaxFrames
    BY <1>2
  <2>2. 1..MaxFrames \subseteq Nat
    BY <1>1
  <2>3. Shown(delivered) \subseteq Nat
    BY <2>1, <2>2, Zenon DEF Shown
  <2>4. Labels(delivered) \subseteq Nat
    BY <2>1, <2>2, Zenon DEF Labels
  <2>5. QED
    BY <2>3, <2>4
<1>7. QED
  BY <1>1, <1>3, <1>4, <1>5, <1>6

\* A step that only takes frames out of the pipeline keeps the order.
LEMMA Leaving ==
  ASSUME Passing, Labelling, Given, UNCHANGED <<delivered, frames>>,
         Queued(tasks') \subseteq Queued(tasks), Taken' \subseteq Taken,
         In(inQ') \subseteq In(inQ), In(outQ') \subseteq In(outQ), Held' \subseteq Held,
         worker' \in Busy => worker \in Busy /\ job' = job
  PROVE  Passing' /\ Labelling' /\ Given'
<1>1. Passing'
  BY DEF Passing, Chain, Ahead
<1>2. InCodec' \subseteq InCodec
  BY DEF InCodec
<1>3. Labelling' /\ Given'
  BY <1>2 DEF Labelling, Given, Ahead
<1>4. QED
  BY <1>1, <1>3

\* The steps of the caller keep the order.
LEMMA OrderCaller == Inv /\ OrderInv /\ (Call \/ Return) => OrderInv'
<1> SUFFICES ASSUME Inv, OrderInv, Call \/ Return PROVE OrderInv'
  OBVIOUS
<1>1. /\ TypeOK /\ HandOver /\ Numbered /\ Sorted /\ Passing /\ Labelling /\ Given
      /\ DeliveredInOrder /\ LabelNotEarlier
  BY DEF Inv, OrderInv
<1>2. ASSUME UNCHANGED <<delivered, frames, inQ, outQ, outHeld, job>>,
             Queued(tasks') \subseteq Queued(tasks), RisingTasks(tasks'),
             worker' = worker \/ worker' \notin Busy
      PROVE  OrderInv'
  <2>1. Taken' \subseteq Taken /\ Held' = Held
    BY <1>2 DEF Taken, Held, Busy
  <2>2. Passing' /\ Labelling' /\ Given'
    BY <1>1, <1>2, <2>1, Leaving
  <2>3. Sorted' /\ DeliveredInOrder' /\ LabelNotEarlier'
    BY <1>1, <1>2 DEF Sorted, DeliveredInOrder, LabelNotEarlier
  <2>4. QED
    BY <2>2, <2>3 DEF OrderInv
<1>3. Notified = worker \/ Notified \notin Busy
  BY DEF Notified, Busy
<1>4. "top" \notin Busy /\ "none" \notin Busy
  BY DEF Busy
<1>5. CASE Configure
  <2>1. Queued(tasks') = {} /\ RisingTasks(tasks')
    BY <1>5, QueuedNone DEF Configure
  <2>2. QED
    BY <1>2, <1>3, <1>4, <1>5, <2>1 DEF Configure, buffers
<1>6. CASE ReleaseQueue
  <2>1. Queued(tasks') \subseteq Queued(tasks) /\ RisingTasks(tasks')
    BY <1>1, <1>6, QueuedNone DEF ReleaseQueue, Sorted
  <2>2. QED
    BY <1>2, <1>3, <1>6, <2>1 DEF ReleaseQueue, calls, buffers
<1>7. ASSUME UNCHANGED tasks
      PROVE  Queued(tasks') \subseteq Queued(tasks) /\ RisingTasks(tasks')
  BY <1>1, <1>7 DEF Sorted
<1>8. CASE Release \/ \E c \in Callbacks : RegisterDecodeCompleteCallback(c)
  BY <1>2, <1>7, <1>8 DEF Release, RegisterDecodeCompleteCallback, calls, buffers
<1>9. CASE ConfigureReturn \/ StopWorker \/ StopWorkerJoin
  BY <1>2, <1>3, <1>4, <1>7, <1>9
  DEF ConfigureReturn, StopWorker, StopWorkerJoin, calls, queue, buffers
<1>10. CASE Decode /\ UNCHANGED tasks
  <2>1. /\ UNCHANGED <<delivered, inQ, outQ, outHeld, job>> /\ frames' = frames + 1
        /\ worker' = worker
    BY <1>10 DEF Decode, buffers, Notified
  <2>2. Passing' /\ Labelling' /\ Sorted' /\ DeliveredInOrder' /\ LabelNotEarlier'
    BY <1>1, <1>10, <2>1 DEF Sorted, Passing, Labelling, Taken, Held, InCodec,
                             DeliveredInOrder, LabelNotEarlier
  <2>3. /\ frames \in Nat
        /\ Shown(delivered) \cup Labels(delivered) \cup InCodec \subseteq Nat
    BY <1>1, SetTypes DEF InCodec, Held
  <2>4. Given'
    BY <1>1, <2>1, <2>3 DEF Given, InCodec, Held
  <2>5. QED
    BY <2>2, <2>4 DEF OrderInv
<1>11. CASE Decode /\ tasks' # tasks
  <2> DEFINE n == frames + 1
  <2>1. /\ UNCHANGED <<delivered, inQ, outQ, outHeld, job>> /\ frames' = n
        /\ tasks' = Append(tasks, Task("frame", n)) /\ worker' = Notified
    BY <1>11 DEF Decode, buffers
  <2>2. /\ frames \in Nat /\ job \in Nat /\ outHeld \in Nat /\ tasks \in Seq(Jobs)
        /\ Queued(tasks) \subseteq Nat /\ In(inQ) \subseteq Nat /\ In(outQ) \subseteq Nat
        /\ Shown(delivered) \subseteq Nat /\ Labels(delivered) \subseteq Nat
    BY <1>1, SetTypes
  <2>3. Task("frame", n) \in Jobs /\ Task("frame", n).frame = n
    BY <1>1, <1>11, Sizes, TaskType DEF Decode, TypeOK
  <2>4. \A f \in Queued(tasks) : f < n
    <3>1. \A f \in Queued(tasks) : f <= frames
      BY <1>1 DEF Numbered, Queued
    <3>2. QED
      BY <2>2, <3>1
  <2>5. Queued(tasks') = Queued(tasks) \cup {n} /\ RisingTasks(tasks')
    BY <1>1, <2>1, <2>2, <2>3, <2>4, QueuedPush DEF Sorted, Ahead
  <2>6. /\ \A f \in Shown(delivered) \cup Labels(delivered) \cup InCodec : f < n
        /\ job < n
    <3>1. /\ \A f \in Shown(delivered) \cup Labels(delivered) \cup InCodec : f <= frames
          /\ job <= frames
      BY <1>1 DEF Given, Numbered
    <3>2. Shown(delivered) \cup Labels(delivered) \cup InCodec \subseteq Nat
      BY <2>2 DEF InCodec, Held
    <3>3. QED
      BY <2>2, <3>1, <3>2
  <2>7. Taken' = Taken /\ Held' = Held /\ InCodec' = InCodec
        /\ (worker' \in Busy => worker \in Busy)
    BY <1>3, <2>1 DEF Taken, Held, InCodec, Notified, Busy
  <2>8. Passing'
    <3>1. /\ \A f \in Shown(delivered) \cup In(outQ) \cup In(inQ) \cup Held : f < n
          /\ \A f \in Taken : f < n
      BY <2>6 DEF InCodec, Taken
    <3>2. /\ Shown(delivered') = Shown(delivered) /\ In(outQ') = In(outQ)
          /\ In(inQ') = In(inQ)
      BY <2>1
    <3>3. Chain(Shown(delivered), Held, In(outQ), In(inQ), Taken, Queued(tasks) \cup {n})
      BY <1>1, <3>1 DEF Passing, Chain, Ahead
    <3>4. QED
      BY <2>5, <2>7, <3>2, <3>3 DEF Passing
  <2>9. Labelling'
    BY <1>1, <2>1, <2>5, <2>6, <2>7 DEF Labelling, Ahead
  <2>10. Given'
    BY <1>1, <2>1, <2>2, <2>6, <2>7 DEF Given, InCodec, Held
  <2>11. Sorted' /\ DeliveredInOrder' /\ LabelNotEarlier'
    BY <1>1, <2>1, <2>5 DEF Sorted, DeliveredInOrder, LabelNotEarlier
  <2>12. QED
    BY <2>8, <2>9, <2>10, <2>11 DEF OrderInv
<1>12. QED
  BY <1>5, <1>6, <1>8, <1>9, <1>10, <1>11 DEF Call, Return

\* A step of the worker that takes nothing further keeps the order.
LEMMA OrderDrops ==
  ASSUME OrderInv, UNCHANGED <<delivered, frames, tasks, job>>,
         inQ' \in {inQ, <<>>} \/ inQ' = Append(inQ, 0), inQ \in Seq(Nat),
         outQ' \in {outQ, <<>>}, outHeld' \in {outHeld, 0},
         worker' \in {"frame", "feed"} => worker \in {"frame", "feed"},
         worker' \in Busy => worker \in Busy
  PROVE  OrderInv'
<1>1. Taken' \subseteq Taken /\ Held' \subseteq Held
  BY DEF Taken, Held
<1>2. In(inQ') \subseteq In(inQ) /\ (Rising(inQ) => Rising(inQ'))
  <2>1. CASE inQ' \in {inQ, <<>>}
    BY <2>1, InNone
  <2>2. CASE inQ' = Append(inQ, 0)
    BY <2>2, InPush DEF Ahead
  <2>3. QED
    BY <2>1, <2>2
<1>3. In(outQ') \subseteq In(outQ) /\ (Rising(outQ) => Rising(outQ'))
  BY InNone
<1>4. Passing' /\ Labelling' /\ Given'
  BY <1>1, <1>2, <1>3, Leaving DEF OrderInv
<1>5. Sorted' /\ DeliveredInOrder' /\ LabelNotEarlier'
  BY <1>2, <1>3 DEF OrderInv, Sorted, DeliveredInOrder, LabelNotEarlier
<1>6. QED
  BY <1>4, <1>5 DEF OrderInv

\* The worker takes a task.
LEMMA OrderTake == Inv /\ OrderInv /\ WorkerInner => OrderInv'
<1> SUFFICES ASSUME Inv, OrderInv, WorkerInner PROVE OrderInv'
  OBVIOUS
<1>1. /\ TypeOK /\ Holds /\ Numbered /\ Sorted /\ Passing /\ Labelling /\ Given
      /\ DeliveredInOrder /\ LabelNotEarlier
  BY DEF Inv, OrderInv
<1>2. UNCHANGED <<delivered, frames, inQ, outQ, outHeld>> /\ worker = "inner"
  BY DEF WorkerInner, calls, buffers
<1>3. DeliveredInOrder' /\ LabelNotEarlier' /\ Held' = Held /\ InCodec' = InCodec /\ Given'
  BY <1>1, <1>2 DEF DeliveredInOrder, LabelNotEarlier, Held, InCodec, Given
<1>4. CASE tasks = <<>>
  BY <1>1, <1>2, <1>4, OrderDrops, SetTypes DEF WorkerInner, Busy
<1>5. CASE tasks # <<>>
  <2> DEFINE f == Head(tasks).frame
  <2>1. tasks' = Tail(tasks) /\ job' = f /\ worker' = Head(tasks).kind
    BY <1>5 DEF WorkerInner
  <2>2. /\ tasks \in Seq(Jobs) /\ Queued(tasks) \subseteq Nat
        /\ In(inQ) \subseteq Nat /\ In(outQ) \subseteq Nat /\ outHeld \in Nat
        /\ Labels(delivered) \subseteq Nat
    BY <1>1, SetTypes
  <2>3. /\ Queued(tasks) = Queued(tasks') \cup ({f} \ {0}) /\ RisingTasks(tasks')
        /\ Ahead({f} \ {0}, Queued(tasks'))
    BY <1>1, <1>5, <2>1, <2>2, QueuedPop DEF Sorted
  <2>4. worker' \in Busy => worker' = "frame" /\ f # 0
    <3>1. Head(tasks) = tasks[1] /\ 1 \in 1..Len(tasks)
      BY <1>5, <2>2, JobsPop
    <3>2. Head(tasks).kind \in {"configure", "destroy", "frame"}
      BY <1>5, <2>2, JobsPop DEF Jobs
    <3>3. QED
      BY <1>1, <2>1, <3>1, <3>2 DEF Numbered, Busy
  <2>5. Taken' \subseteq {f} /\ (f = 0 => Taken' = {})
    BY <2>1, <2>4 DEF Taken, Busy
  <2> HIDE DEF f
  <2>6. Taken' \cup Queued(tasks') \subseteq Queued(tasks)
    BY <2>3, <2>5
  <2>7. Passing'
    BY <1>1, <1>2, <1>3, <2>6 DEF Passing, Chain, Ahead
  <2>8. CASE worker' \in Busy
    <3>1. f \in Queued(tasks) /\ f # 0
      BY <2>3, <2>4, <2>8
    <3>2. \A g \in Labels(delivered) \cup InCodec : g < f
      BY <1>1, <3>1 DEF Labelling, Passing, Chain, Ahead, InCodec
    <3>3. Labels(delivered) \cup InCodec \subseteq Nat /\ f \in Nat
      BY <2>2, <3>1 DEF InCodec, Held
    <3>4. \A g \in Labels(delivered) \cup InCodec : g <= f
      BY <3>2, <3>3
    <3>5. Labelling'
      BY <1>1, <1>2, <1>3, <2>1, <2>3, <3>1, <3>4 DEF Labelling, Ahead, f
    <3>6. QED
      BY <1>1, <1>2, <1>3, <2>3, <2>7, <3>5 DEF OrderInv, Sorted
  <2>9. CASE worker' \notin Busy
    <3>1. Labelling'
      BY <1>1, <1>2, <2>3, <2>9 DEF Labelling, Ahead
    <3>2. QED
      BY <1>1, <1>2, <1>3, <2>3, <2>7, <3>1 DEF OrderInv, Sorted
  <2>10. QED
    BY <2>8, <2>9
<1>6. QED
  BY <1>4, <1>5

\* The frame is queued to the codec.
LEMMA OrderQueueInput == Inv /\ OrderInv /\ QueueInput => OrderInv'
<1> SUFFICES ASSUME Inv, OrderInv, QueueInput PROVE OrderInv'
  OBVIOUS
<1>1. /\ TypeOK /\ Holds /\ Numbered /\ Sorted /\ Passing /\ Labelling /\ Given
      /\ DeliveredInOrder /\ LabelNotEarlier
  BY DEF Inv, OrderInv
<1>2. /\ UNCHANGED <<delivered, frames, tasks, job, outQ, outHeld>> /\ worker = "feed"
      /\ worker' = "drain" /\ inQ' = Append(inQ, job)
  BY DEF QueueInput, calls, queue
<1>3. /\ job \in Nat /\ inQ \in Seq(Nat) /\ job # 0 /\ Taken = {job} /\ Taken' = {}
      /\ worker \in Busy /\ Held' = Held
  BY <1>1, <1>2, SetTypes DEF Holds, Taken, Busy, Held
<1>4. In(inQ') = In(inQ) \cup {job} /\ Rising(inQ')
  <2>1. {job} \ {0} = {job} /\ Ahead(In(inQ), {job} \ {0})
    BY <1>1, <1>3 DEF Passing, Chain
  <2>2. QED
    BY <1>1, <1>2, <1>3, <2>1, InPush DEF Sorted
<1>5. Ahead({job}, Queued(tasks))
  BY <1>1, <1>3 DEF Labelling
<1>6. Passing'
  BY <1>1, <1>2, <1>3, <1>4, <1>5 DEF Passing, Chain, Ahead
<1>7. InCodec' = InCodec \cup {job} /\ job <= job /\ job <= frames
  <2>1. In(outQ') = In(outQ)
    BY <1>2
  <2>2. InCodec' = InCodec \cup {job}
    BY <1>3, <1>4, <2>1, Zenon DEF InCodec
  <2>3. job <= frames
    BY <1>1, <1>3 DEF Numbered
  <2>4. QED
    BY <1>3, <2>2, <2>3
<1>8. Labelling'
  BY <1>1, <1>2, <1>3, <1>7 DEF Labelling, Ahead
<1>9. Given'
  BY <1>1, <1>2, <1>7 DEF Given
<1>10. Sorted' /\ DeliveredInOrder' /\ LabelNotEarlier'
  BY <1>1, <1>2, <1>4 DEF Sorted, DeliveredInOrder, LabelNotEarlier
<1>11. QED
  BY <1>6, <1>8, <1>9, <1>10 DEF OrderInv

\* The codec decodes a buffer.
LEMMA OrderCodec == Inv /\ OrderInv /\ CodecDecodes => OrderInv'
<1> SUFFICES ASSUME Inv, OrderInv, CodecDecodes PROVE OrderInv'
  OBVIOUS
<1>1. /\ TypeOK /\ Sorted /\ Passing /\ Labelling /\ Given
      /\ DeliveredInOrder /\ LabelNotEarlier
  BY DEF Inv, OrderInv
<1> DEFINE f == Head(inQ)
<1>2. /\ UNCHANGED <<delivered, frames, tasks, job, worker, outHeld>> /\ inQ # <<>>
      /\ inQ' = Tail(inQ) /\ outQ' = (IF f = 0 THEN outQ ELSE Append(outQ, f))
  BY DEF CodecDecodes, calls, queue
<1>3. inQ \in Seq(Nat) /\ outQ \in Seq(Nat) /\ f \in Nat
  BY <1>1, <1>2, SetTypes, HeadTailProperties
<1>4. /\ In(inQ) = In(inQ') \cup ({f} \ {0}) /\ Rising(inQ')
      /\ Ahead({f} \ {0}, In(inQ'))
  BY <1>1, <1>2, <1>3, InPop DEF Sorted
<1> HIDE DEF f
<1>5. Ahead(In(outQ), {f} \ {0})
  BY <1>1, <1>4 DEF Passing, Chain, Ahead
<1>6. In(outQ') = In(outQ) \cup ({f} \ {0}) /\ Rising(outQ')
  BY <1>1, <1>2, <1>3, <1>5, InPush DEF Sorted
<1>7. Taken' = Taken /\ Held' = Held
  BY <1>2 DEF Taken, Held
<1>8. Passing'
  BY <1>1, <1>2, <1>4, <1>6, <1>7 DEF Passing, Chain, Ahead
<1>9. InCodec' = InCodec
  BY <1>4, <1>6, <1>7 DEF InCodec
<1>10. Labelling' /\ Given' /\ DeliveredInOrder' /\ LabelNotEarlier'
  BY <1>1, <1>2, <1>9 DEF Labelling, Given, DeliveredInOrder, LabelNotEarlier
<1>11. QED
  BY <1>1, <1>2, <1>4, <1>6, <1>8, <1>10 DEF OrderInv, Sorted

\* The worker dequeues an output.
LEMMA OrderDequeue == Inv /\ OrderInv /\ DequeueOutput => OrderInv'
<1> SUFFICES ASSUME Inv, OrderInv, DequeueOutput PROVE OrderInv'
  OBVIOUS
<1>1. /\ TypeOK /\ Holds /\ Sorted /\ Passing /\ Labelling /\ Given
      /\ DeliveredInOrder /\ LabelNotEarlier
  BY DEF Inv, OrderInv
<1> DEFINE f == Head(outQ)
<1>2. /\ UNCHANGED <<delivered, frames, tasks, job, inQ>> /\ outQ # <<>>
      /\ worker = "drain" /\ worker' = "output" /\ outHeld' = f /\ outQ' = Tail(outQ)
  BY DEF DequeueOutput, calls, queue
<1>3. outQ \in Seq(Nat)
  BY <1>1, SetTypes
<1>4. /\ In(outQ) = In(outQ') \cup ({f} \ {0}) /\ Rising(outQ')
      /\ Ahead({f} \ {0}, In(outQ'))
  BY <1>1, <1>2, <1>3, InPop DEF Sorted
<1>5. Taken' = {} /\ Taken = {} /\ Held = {} /\ Held' = {f} \ {0}
  BY <1>1, <1>2 DEF Taken, Held, Holds
<1> HIDE DEF f
<1>6. Passing'
  BY <1>1, <1>2, <1>4, <1>5 DEF Passing, Chain, Ahead
<1>7. InCodec' = InCodec /\ worker \in Busy
  BY <1>2, <1>4, <1>5 DEF InCodec, Busy
<1>8. Labelling' /\ Given' /\ DeliveredInOrder' /\ LabelNotEarlier'
  BY <1>1, <1>2, <1>7 DEF Labelling, Given, DeliveredInOrder, LabelNotEarlier
<1>9. QED
  BY <1>1, <1>2, <1>4, <1>6, <1>8 DEF OrderInv, Sorted

\* A picture is delivered.
LEMMA OrderDeliver == Inv /\ OrderInv /\ Deliver => OrderInv'
<1> SUFFICES ASSUME Inv, OrderInv, Deliver PROVE OrderInv'
  OBVIOUS
<1>1. /\ TypeOK /\ Holds /\ Numbered /\ Sorted /\ Passing /\ Labelling /\ Given
      /\ DeliveredInOrder /\ LabelNotEarlier
  BY DEF Inv, OrderInv
<1> DEFINE r == [output |-> outHeld, label |-> job, cb |-> cb]
           n == Len(delivered)
<1>2. /\ UNCHANGED <<frames, tasks, job, inQ, outQ>> /\ worker = "output"
      /\ worker' = "drain" /\ outHeld' = 0 /\ delivered' = Append(delivered, r)
  BY DEF Deliver, calls, queue
<1>3. r.output = outHeld /\ r.label = job /\ outHeld # 0 /\ job # 0
  BY <1>1, <1>2 DEF Holds, Busy
<1>4. /\ n \in Nat /\ Len(delivered') = n + 1 /\ delivered'[n + 1] = r
      /\ \A i \in 1..n : delivered'[i] = delivered[i] /\ i \in 1..Len(delivered')
      /\ \A i \in 1..Len(delivered') : i \in 1..n \/ i = n + 1
  <2>1. delivered \in Seq([output : Frames, label : Frames, cb : Callbacks])
        /\ r \in [output : Frames, label : Frames, cb : Callbacks]
    <3>1. /\ delivered \in Seq([output : Frames, label : Frames, cb : Callbacks])
          /\ outHeld \in 0..MaxFrames /\ job \in 0..MaxFrames
          /\ cb \in Callbacks \cup {0}
      BY <1>1, Zenon DEF TypeOK
    <3>2. cb # 0 /\ outHeld \in Frames /\ job \in Frames
      BY <1>3, <3>1, Sizes DEF Deliver, Frames
    <3>3. QED
      BY <3>1, <3>2
  <2> HIDE DEF r
  <2>2. n \in Nat /\ Len(delivered') = n + 1 /\ delivered'[n + 1] = r
        /\ \A i \in 1..n : delivered'[i] = delivered[i]
    BY <1>2, <2>1, AppendProperties, LenProperties
  <2> HIDE DEF n
  <2>3. QED
    BY <2>2
<1> HIDE DEF r, n
<1>5. /\ Shown(delivered') = Shown(delivered) \cup {outHeld}
      /\ Labels(delivered') = Labels(delivered) \cup {job}
  <2>1. Shown(delivered') = Shown(delivered) \cup {outHeld}
    BY <1>3, <1>4 DEF Shown, n
  <2>2. Labels(delivered') = Labels(delivered) \cup {job}
    BY <1>3, <1>4 DEF Labels, n
  <2>3. QED
    BY <2>1, <2>2
<1>6. Held = {outHeld} /\ Held' = {} /\ Taken = {} /\ Taken' = {} /\ worker \in Busy
  BY <1>2, <1>3 DEF Held, Taken, Busy
<1>7. InCodec = InCodec' \cup {outHeld}
  BY <1>2, <1>6 DEF InCodec
<1>8. /\ Ahead({job}, Queued(tasks)) /\ outHeld <= job
      /\ \A f \in Labels(delivered) : f <= job
      /\ \A f \in Shown(delivered) : f < outHeld
  BY <1>1, <1>6, <1>7 DEF Labelling, Passing, Chain, Ahead
<1>9. Passing'
  BY <1>1, <1>2, <1>5, <1>6 DEF Passing, Chain, Ahead
<1>10. job <= job /\ job <= frames
  BY <1>1, SetTypes DEF Numbered
<1>11. Labelling'
  BY <1>1, <1>2, <1>5, <1>6, <1>7, <1>8, <1>10 DEF Labelling, Ahead
<1>12. Given'
  BY <1>1, <1>2, <1>5, <1>7, <1>10 DEF Given
<1>13. ASSUME NEW i \in 1..Len(delivered'), NEW j \in 1..Len(delivered'), i < j
       PROVE  /\ delivered'[i].output < delivered'[j].output
              /\ delivered'[i].label <= delivered'[j].label
  <2>1. i \in 1..n
    BY <1>4, <1>13
  <2>2. CASE j \in 1..n
    BY <1>1, <1>4, <1>13, <2>1, <2>2 DEF DeliveredInOrder, LabelNotEarlier, n
  <2>3. CASE j = n + 1
    <3>1. /\ delivered[i].output \in Shown(delivered)
          /\ delivered[i].label \in Labels(delivered)
      BY <2>1 DEF Shown, Labels, n
    <3>2. QED
      BY <1>3, <1>4, <1>8, <2>1, <2>3, <3>1
  <2>4. QED
    BY <1>4, <2>2, <2>3
<1>14. \A i \in 1..Len(delivered') : delivered'[i].output <= delivered'[i].label
  BY <1>1, <1>3, <1>4, <1>8 DEF LabelNotEarlier, n
<1>15. DeliveredInOrder' /\ LabelNotEarlier'
  BY <1>13, <1>14 DEF DeliveredInOrder, LabelNotEarlier
<1>16. QED
  BY <1>1, <1>2, <1>9, <1>11, <1>12, <1>15 DEF OrderInv, Sorted

\* The other steps of the worker keep the order.
LEMMA OrderOther ==
  ASSUME Inv, OrderInv,
         \/ WorkerTop \/ ConfigureOnWorker \/ DestroyOnWorker \/ SkipFrame
         \/ DequeueInputFails \/ DequeueInput \/ FeedFails \/ DropOutput \/ DrainEnd
  PROVE  OrderInv'
<1>1. inQ \in Seq(Nat)
  BY SetTypes DEF Inv
<1>2. CASE WorkerTop
  BY <1>1, <1>2, OrderDrops DEF WorkerTop, calls, queue, buffers, Busy
<1>3. CASE ConfigureOnWorker \/ DestroyOnWorker
  BY <1>1, <1>3, OrderDrops
  DEF ConfigureOnWorker, DestroyOnWorker, DestroyCodec, calls, queue, Busy
<1>4. CASE SkipFrame \/ DequeueInputFails
  BY <1>1, <1>4, OrderDrops DEF SkipFrame, DequeueInputFails, calls, queue, buffers, Busy
<1>5. CASE DequeueInput
  BY <1>1, <1>5, OrderDrops DEF DequeueInput, calls, queue, Busy
<1>6. CASE FeedFails
  BY <1>1, <1>6, OrderDrops DEF FeedFails, calls, queue, Busy
<1>7. CASE DropOutput
  BY <1>1, <1>7, OrderDrops DEF DropOutput, calls, queue, Busy
<1>8. CASE DrainEnd
  BY <1>1, <1>8, OrderDrops DEF DrainEnd, calls, queue, buffers, Busy
<1>9. QED
  BY <1>2, <1>3, <1>4, <1>5, <1>6, <1>7, <1>8

\* Every step keeps the order.
LEMMA OrderStep == Inv /\ OrderInv /\ [Next]_vars => OrderInv'
<1> SUFFICES ASSUME Inv, OrderInv, [Next]_vars PROVE OrderInv'
  OBVIOUS
<1>1. CASE WorkerStep
  BY <1>1, OrderTake, OrderQueueInput, OrderDequeue, OrderDeliver, OrderOther
  DEF WorkerStep
<1>2. CASE UNCHANGED vars
  BY <1>2 DEF vars, calls, queue, buffers, OrderInv, Sorted, Passing, Labelling, Given,
              InCodec, Held, Taken, DeliveredInOrder, LabelNotEarlier
<1>3. QED
  BY <1>1, <1>2, OrderCaller, OrderCodec DEF Next

\* A new decoder has no frames.
LEMMA OrderInit == Init => OrderInv
<1> SUFFICES ASSUME Init PROVE OrderInv
  OBVIOUS
<1>1. /\ tasks = <<>> /\ inQ = <<>> /\ outQ = <<>> /\ outHeld = 0 /\ worker = "none"
      /\ Len(delivered) = 0
  BY DEF Init
<1>2. Shown(delivered) = {} /\ Labels(delivered) = {}
  BY <1>1 DEF Shown, Labels
<1>3. Held = {} /\ Taken = {} /\ InCodec = {} /\ worker \notin Busy
  BY <1>1, InNone DEF Held, Taken, InCodec, Busy
<1>4. Sorted /\ Passing /\ Labelling /\ Given
  BY <1>1, <1>2, <1>3, InNone, QueuedNone
  DEF Sorted, Passing, Chain, Ahead, Labelling, Given
<1>5. DeliveredInOrder /\ LabelNotEarlier
  <2>1. 1..Len(delivered) = {}
    BY <1>1
  <2>2. QED
    BY <2>1, Zenon DEF DeliveredInOrder, LabelNotEarlier
<1>6. QED
  BY <1>4, <1>5 DEF OrderInv

\* Decoded is called with the pictures in the order of their Decode calls and at
\* most once for each, also across Configure and Release, for any number of
\* frames and of codec buffers.
THEOREM DecoderDeliveredInOrder == Spec => []DeliveredInOrder
<1>1. Inv /\ OrderInv => DeliveredInOrder
  BY DEF OrderInv
<1>2. QED
  BY <1>1, TypeInit, InvStep, OrderInit, OrderStep, PTL DEF Spec

\* A picture never gets the timestamp of a frame before its own, and timestamps
\* never go back: DrainOutputs labels late output with the frame it processes.
THEOREM DecoderLabelNotEarlier == Spec => []LabelNotEarlier
<1>1. Inv /\ OrderInv => LabelNotEarlier
  BY DEF OrderInv
<1>2. QED
  BY <1>1, TypeInit, InvStep, OrderInit, OrderStep, PTL DEF Spec
=============================================================================
