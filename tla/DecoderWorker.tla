--------------------------- MODULE DecoderWorker ---------------------------
(***************************************************************************)
(* The MediaCodec decoder (src/android_mediacodec_video_decoder.cpp): the  *)
(* VideoDecoder calls of WebRTC's decoding thread, the worker thread with  *)
(* its task queue, and the codec's input and output buffers (external).    *)
(* mu_ protects the queue, running_ and callback_, so what is done under   *)
(* it is one step; jobs run without it.  A frame is the number of its      *)
(* Decode call, an output is known by the frame it was decoded from, and 0 *)
(* stands for none.                                                        *)
(***************************************************************************)
EXTENDS Naturals, Sequences

CONSTANTS
  MaxFrames,    \* bound: Decode calls
  MaxConfigs,   \* bound: Configure calls
  NumIn,        \* the codec's input buffers
  NumOut,       \* the codec's output buffers
  Callbacks     \* the callbacks that are registered

ASSUME DecoderAssumption ==
  /\ MaxFrames \in Nat /\ MaxConfigs \in Nat
  /\ NumIn \in Nat \ {0} /\ NumOut \in Nat \ {0}
  /\ Callbacks \subseteq Nat \ {0}

Frames == 1..MaxFrames

VARIABLES
  caller,     \* where the thread that calls the decoder is
  frames,     \* Decode calls so far
  configs,    \* Configure calls so far
  ready,      \* the future the caller waits for is set
  running,    \* running_
  tasks,      \* tasks_
  callback,   \* callback_
  worker,     \* where the worker thread is
  job,        \* the frame it processes
  drains,     \* DrainOutputs calls it has left to make for this frame
  cb,         \* the copy of callback_ that DrainOutputs uses
  codec,      \* codec_ exists
  inHeld,     \* the job holds an input buffer
  outHeld,    \* the output buffer the job holds
  inQ,        \* input buffers queued to the codec: a frame, or 0 when empty
  outQ,       \* decoded outputs that wait to be dequeued
  delivered   \* Decoded calls: the output, the frame it is labelled as, the callback

calls == <<frames, configs>>
queue == <<running, tasks, callback>>
buffers == <<inHeld, outHeld, inQ, outQ>>
vars == <<caller, calls, ready, queue, worker, job, drains, cb, codec, buffers,
          delivered>>

Task(k, f) == [kind |-> k, frame |-> f]

Init ==
  /\ caller = "idle" /\ frames = 0 /\ configs = 0 /\ ready = FALSE
  /\ running = FALSE /\ tasks = <<>> /\ callback = 0
  /\ worker = "none" /\ job = 0 /\ drains = 0 /\ cb = 0
  /\ codec = FALSE /\ inHeld = FALSE /\ outHeld = 0
  /\ inQ = <<>> /\ outQ = <<>>
  /\ delivered = <<>>

\* cv_.notify: only a waiting worker notices.
Notified == IF worker = "waiting" THEN "woken" ELSE worker

-----------------------------------------------------------------------------
(* The decoding thread.                                                    *)

\* Configure starts the worker if there is none, drops what is queued and
\* queues ConfigureOnWorker ...
Configure ==
  /\ caller = "idle" /\ configs < MaxConfigs
  /\ configs' = configs + 1
  /\ running' = TRUE
  /\ worker' = IF running THEN Notified ELSE "top"
  /\ tasks' = <<Task("configure", 0)>>
  /\ ready' = FALSE
  /\ caller' = "configuring"
  /\ UNCHANGED <<frames, callback, job, drains, cb, codec, buffers, delivered>>

\* ... and waits for it.
ConfigureReturn ==
  /\ caller = "configuring" /\ ready
  /\ caller' = "idle"
  /\ UNCHANGED <<calls, ready, queue, worker, job, drains, cb, codec, buffers,
                 delivered>>

Decode ==
  /\ caller = "idle" /\ frames < MaxFrames
  /\ frames' = frames + 1
  /\ IF running
       THEN tasks' = Append(tasks, Task("frame", frames + 1)) /\ worker' = Notified
       ELSE UNCHANGED <<tasks, worker>>
  /\ UNCHANGED <<caller, configs, ready, running, callback, job, drains, cb, codec,
                 buffers, delivered>>

RegisterDecodeCompleteCallback(c) ==
  /\ caller = "idle"
  /\ callback' = c
  /\ UNCHANGED <<caller, calls, ready, running, tasks, worker, job, drains, cb,
                 codec, buffers, delivered>>

Release ==
  /\ caller = "idle"
  /\ callback' = 0
  /\ caller' = "releasing"
  /\ UNCHANGED <<calls, ready, running, tasks, worker, job, drains, cb, codec,
                 buffers, delivered>>

\* Mutated ReleaseQueue: running_ is taken back together with the queue.
ReleaseQueue_StopsFirst ==
  /\ caller = "releasing"
  /\ running' = FALSE
  /\ IF running
       THEN /\ tasks' = <<Task("destroy", 0)>> /\ worker' = Notified
            /\ ready' = FALSE /\ caller' = "waiting"
       ELSE UNCHANGED <<tasks, worker, ready>> /\ caller' = "stopping"
  /\ UNCHANGED <<calls, callback, job, drains, cb, codec, buffers, delivered>>

ReleaseQueue ==
  /\ caller = "releasing"
  /\ IF running
       THEN /\ tasks' = <<Task("destroy", 0)>> /\ worker' = Notified
            /\ ready' = FALSE /\ caller' = "waiting"
       ELSE UNCHANGED <<tasks, worker, ready>> /\ caller' = "stopping"
  /\ UNCHANGED <<calls, running, callback, job, drains, cb, codec, buffers,
                 delivered>>

\* Release waits for DestroyCodec, then StopWorker ends the worker ...
StopWorker ==
  /\ (caller = "waiting" /\ ready) \/ caller = "stopping"
  /\ running' = FALSE /\ worker' = Notified
  /\ caller' = "joining"
  /\ UNCHANGED <<calls, ready, tasks, callback, job, drains, cb, codec, buffers,
                 delivered>>

\* Mutated StopWorkerJoin: the worker is not waited for.
StopWorkerJoin_Detaches ==
  /\ caller = "joining"
  /\ caller' = "idle"
  /\ UNCHANGED <<calls, ready, queue, worker, job, drains, cb, codec, buffers,
                 delivered>>

\* ... and joins it.
StopWorkerJoin ==
  /\ caller = "joining" /\ worker \in {"none", "exited"}
  /\ worker' = "none"
  /\ caller' = "idle"
  /\ UNCHANGED <<calls, ready, queue, job, drains, cb, codec, buffers, delivered>>

-----------------------------------------------------------------------------
(* The worker thread: WorkerLoop.                                          *)

\* The outer loop and the wait, with mu_ held.
WorkerTop ==
  /\ worker \in {"top", "woken"}
  /\ worker' = CASE ~running -> "exited"
                 [] running /\ tasks = <<>> -> "waiting"
                 [] OTHER -> "inner"
  /\ UNCHANGED <<caller, calls, ready, queue, job, drains, cb, codec, buffers,
                 delivered>>

\* The inner loop takes tasks until there are none, whatever running_ is.
WorkerInner ==
  /\ worker = "inner"
  /\ IF tasks = <<>>
       THEN worker' = "top" /\ UNCHANGED <<tasks, job>>
       ELSE /\ worker' = Head(tasks).kind /\ job' = Head(tasks).frame
            /\ tasks' = Tail(tasks)
  /\ UNCHANGED <<caller, calls, ready, running, callback, drains, cb, codec,
                 buffers, delivered>>

\* DestroyCodec: the codec goes with its buffers.
DestroyCodec == inQ' = <<>> /\ outQ' = <<>>

\* ConfigureOnWorker: creating, configuring or starting the codec may fail.
ConfigureOnWorker ==
  /\ worker = "configure"
  /\ DestroyCodec
  /\ codec' \in BOOLEAN
  /\ ready' = TRUE
  /\ worker' = "inner"
  /\ UNCHANGED <<caller, calls, queue, job, drains, cb, inHeld, outHeld, delivered>>

DestroyOnWorker ==
  /\ worker = "destroy"
  /\ DestroyCodec
  /\ codec' = FALSE
  /\ ready' = TRUE
  /\ worker' = "inner"
  /\ UNCHANGED <<caller, calls, queue, job, drains, cb, inHeld, outHeld, delivered>>

-----------------------------------------------------------------------------
(* ProcessOneFrame and DrainOutputs.                                       *)

\* There is no codec, or the data has no NAL unit that could be converted.
SkipFrame ==
  /\ worker = "frame"
  /\ worker' = "inner"
  /\ UNCHANGED <<caller, calls, ready, queue, job, drains, cb, codec, buffers,
                 delivered>>

\* No input buffer in time: the frame is dropped, one drain is made.
DequeueInputFails ==
  /\ worker = "frame" /\ codec
  /\ worker' = "drain" /\ drains' = 1 /\ cb' = callback
  /\ UNCHANGED <<caller, calls, ready, queue, job, codec, buffers, delivered>>

DequeueInput ==
  /\ worker = "frame" /\ codec /\ Len(inQ) < NumIn
  /\ worker' = "feed" /\ inHeld' = TRUE
  /\ UNCHANGED <<caller, calls, ready, queue, job, drains, cb, codec, outHeld, inQ,
                 outQ, delivered>>

\* Mutated FeedFails: the input buffer is not given back.
FeedFails_KeepsBuffer ==
  /\ worker = "feed"
  /\ worker' = "inner"
  /\ UNCHANGED <<caller, calls, ready, queue, job, drains, cb, codec, buffers,
                 delivered>>

\* The buffer is too small, or queueInputBuffer fails: it is returned empty, by a
\* second call that is taken to succeed.
FeedFails ==
  /\ worker = "feed"
  /\ inHeld' = FALSE /\ inQ' = Append(inQ, 0)
  /\ worker' = "inner"
  /\ UNCHANGED <<caller, calls, ready, queue, job, drains, cb, codec, outHeld, outQ,
                 delivered>>

\* Mutated QueueInput: the frame is queued once more.
QueueInput_Twice ==
  /\ worker = "feed"
  /\ inHeld' = FALSE /\ inQ' = inQ \o <<job, job>>
  /\ worker' = "drain" /\ drains' = 2 /\ cb' = callback
  /\ UNCHANGED <<caller, calls, ready, queue, job, codec, outHeld, outQ, delivered>>

\* The frame is queued, and two drains follow.
QueueInput ==
  /\ worker = "feed"
  /\ inHeld' = FALSE /\ inQ' = Append(inQ, job)
  /\ worker' = "drain" /\ drains' = 2 /\ cb' = callback
  /\ UNCHANGED <<caller, calls, ready, queue, job, codec, outHeld, outQ, delivered>>

DequeueOutput ==
  /\ worker = "drain" /\ outQ # <<>>
  /\ outHeld' = Head(outQ) /\ outQ' = Tail(outQ)
  /\ worker' = "output"
  /\ UNCHANGED <<caller, calls, ready, queue, job, drains, cb, codec, inHeld, inQ,
                 delivered>>

\* Mutated Deliver: outputs are matched with Decode calls by counting.
Deliver_LabelByCount ==
  /\ worker = "output" /\ cb # 0
  /\ delivered' = Append(delivered, [output |-> outHeld, label |-> Len(delivered) + 1,
                                     cb |-> cb])
  /\ outHeld' = 0
  /\ worker' = "drain"
  /\ UNCHANGED <<caller, calls, ready, queue, job, drains, cb, codec, inHeld, inQ,
                 outQ>>

\* cb->Decoded with the labels of the frame being processed, and
\* releaseOutputBuffer.
Deliver ==
  /\ worker = "output" /\ cb # 0
  /\ delivered' = Append(delivered, [output |-> outHeld, label |-> job, cb |-> cb])
  /\ outHeld' = 0
  /\ worker' = "drain"
  /\ UNCHANGED <<caller, calls, ready, queue, job, drains, cb, codec, inHeld, inQ,
                 outQ>>

\* No callback, no known format or no copy: the output is only released.
DropOutput ==
  /\ worker = "output"
  /\ outHeld' = 0
  /\ worker' = "drain"
  /\ UNCHANGED <<caller, calls, ready, queue, job, drains, cb, codec, inHeld, inQ,
                 outQ, delivered>>

\* dequeueOutputBuffer has nothing in time, or an error; the next drain copies
\* the callback again.
DrainEnd ==
  /\ worker = "drain"
  /\ drains' = drains - 1
  /\ worker' = IF drains = 1 THEN "inner" ELSE "drain"
  /\ cb' = callback
  /\ UNCHANGED <<caller, calls, ready, queue, job, codec, buffers, delivered>>

\* The codec decodes one input buffer; an empty one yields no output.
CodecDecodes ==
  /\ codec /\ inQ # <<>>
  /\ Len(outQ) + (IF outHeld = 0 THEN 0 ELSE 1) < NumOut
  /\ inQ' = Tail(inQ)
  /\ outQ' = IF Head(inQ) = 0 THEN outQ ELSE Append(outQ, Head(inQ))
  /\ UNCHANGED <<caller, calls, ready, queue, worker, job, drains, cb, codec, inHeld,
                 outHeld, delivered>>

-----------------------------------------------------------------------------
Call ==
  \/ Configure \/ Decode \/ Release
  \/ \E c \in Callbacks : RegisterDecodeCompleteCallback(c)
Return == ConfigureReturn \/ ReleaseQueue \/ StopWorker \/ StopWorkerJoin
WorkerStep ==
  \/ WorkerTop \/ WorkerInner \/ ConfigureOnWorker \/ DestroyOnWorker
  \/ SkipFrame \/ DequeueInputFails \/ DequeueInput \/ FeedFails \/ QueueInput
  \/ DequeueOutput \/ Deliver \/ DropOutput \/ DrainEnd
Next == Call \/ Return \/ WorkerStep \/ CodecDecodes
Spec == Init /\ [][Next]_vars

\* Threads that can run do; no call has to be made and the codec may be idle.
FairSpec == Spec /\ WF_vars(Return) /\ WF_vars(WorkerStep)

-----------------------------------------------------------------------------
(* Properties.                                                             *)

\* Every member has a value of its type.
TypeOK ==
  /\ caller \in {"idle", "configuring", "releasing", "waiting", "stopping", "joining"}
  /\ frames \in 0..MaxFrames /\ configs \in 0..MaxConfigs
  /\ ready \in BOOLEAN /\ running \in BOOLEAN /\ codec \in BOOLEAN
  /\ tasks \in Seq([kind : {"configure", "destroy", "frame"}, frame : 0..MaxFrames])
  /\ callback \in Callbacks \cup {0} /\ cb \in Callbacks \cup {0}
  /\ worker \in {"none", "top", "waiting", "woken", "inner", "exited", "configure",
                 "destroy", "frame", "feed", "drain", "output"}
  /\ job \in 0..MaxFrames /\ drains \in 0..2
  /\ inHeld \in BOOLEAN /\ outHeld \in 0..MaxFrames
  /\ inQ \in Seq(0..MaxFrames) /\ outQ \in Seq(Frames)
  /\ delivered \in Seq([output : Frames, label : Frames, cb : Callbacks])

\* Between jobs the decoder holds none of the codec's buffers: whatever fails
\* while a frame is fed or drained, input and output buffers are given back.
BuffersReturned ==
  worker \notin {"feed", "output"} => ~inHeld /\ outHeld = 0

\* Pictures are delivered in the order of their Decode calls, each at most once,
\* also across Configure and Release.
DeliveredInOrder ==
  \A i, j \in 1..Len(delivered) : i < j => delivered[i].output < delivered[j].output

\* A picture is never labelled with a frame that came before the one it was
\* decoded from, and labels never go back: late output gets a later label.
LabelNotEarlier ==
  /\ \A i \in 1..Len(delivered) : delivered[i].output <= delivered[i].label
  /\ \A i, j \in 1..Len(delivered) : i < j => delivered[i].label <= delivered[j].label

\* Once Release has returned there is no worker that could still call Decoded,
\* and no codec is left.
ReleasedIsQuiet ==
  caller = "idle" /\ ~running => worker = "none" /\ ~codec /\ tasks = <<>>

\* Configure and Release always return: the task they queue is run and the worker
\* they join ends.
CallReturns == caller # "idle" ~> caller = "idle"
=============================================================================
