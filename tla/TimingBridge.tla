---------------------------- MODULE TimingBridge ----------------------------
(***************************************************************************)
(* The two tables that join the decoder and the renderer to measure how    *)
(* long a frame takes (src/video_decode_sink_timing_bridge.cpp).  One goes *)
(* from the return of Decoded() to OnFrame (the figure called McDE): the   *)
(* worker records, OnFrame takes by RTP timestamp.  The other goes from    *)
(* the entry of Decode() to the end of render(): Decode records for a      *)
(* sample of the tracking ids, render takes by the id.  Four threads meet: *)
(* the one that calls Decode, the worker, the sink's and the render        *)
(* thread; g_mu makes a record and a take atomic.                          *)
(*                                                                         *)
(* Frames are numbered as they are given to Decode and have an RTP         *)
(* timestamp each; their tracking ids wrap.  Pictures are numbered as the  *)
(* worker delivers them; a picture has the label of a frame, and late      *)
(* pictures may share one (module DecoderWorker, LabelNotEarlier).         *)
(***************************************************************************)
EXTENDS Naturals, Integers, Sequences, FiniteSets, Functions

CONSTANTS
  MaxFrames,   \* bound: frames given to Decode
  MaxPictures, \* bound: pictures delivered
  IdRange,     \* 2^16 tracking ids
  SampleEvery, \* 120
  kMaxEntries  \* 128

ASSUME TimingAssumption ==
  /\ MaxFrames \in Nat /\ MaxPictures \in Nat
  /\ IdRange \in Nat \ {0} /\ SampleEvery \in Nat \ {0} /\ kMaxEntries \in Nat \ {0}

VARIABLES
  decoded, \* frames given to Decode
  starts,  \* g_decode_pipeline_start_us: tracking id -> the frame recorded
  label,   \* label[k]: the frame whose timestamp and id picture k has
  worker,  \* what the worker is in the middle of
  now,     \* the monotonic clock, as far as McDE reads it
  after,   \* t_after_decoded_cb of the last picture
  returns, \* g_decoded_return_us: timestamp -> [picture, time]
  queue,   \* pictures on their way to the sink
  sink,    \* the picture whose OnFrame is running, or 0
  entry,   \* t_onframe_us of that OnFrame
  mcde,    \* mcde[k]: the record OnFrame took for picture k, and the figure
  pending, \* the picture the item holds, or 0
  shown,   \* the picture the render node reports on, or 0
  e2e      \* e2e[k]: the frame from whose start picture k was measured

delivery == <<label, worker, now, after, returns>>
sinking == <<queue, sink, entry, mcde>>
rendering == <<pending, shown, e2e>>
vars == <<decoded, starts, delivery, sinking, rendering>>

Empty == [t \in {} |-> 0]
\* unordered_map::operator[] =, and erase.
Put(m, t, v) == [u \in DOMAIN m \cup {t} |-> IF u = t THEN v ELSE m[u]]
Erase(m, t) == Restrict(m, DOMAIN m \ {t})

Init ==
  /\ decoded = 0 /\ starts = Empty
  /\ label = <<>> /\ worker = "idle" /\ now = 0 /\ after = 0 /\ returns = Empty
  /\ queue = <<>> /\ sink = 0 /\ entry = 0 /\ mcde = Empty
  /\ pending = 0 /\ shown = 0 /\ e2e = Empty

TrackingId(f) == f % IdRange
ShouldLogTrackingTimedSampleById(id) == id % SampleEvery = 0

-----------------------------------------------------------------------------
(* WebRTC's decoding thread.                                               *)

\* The pictures that are still to be seen.
Live == {queue[i] : i \in 1..Len(queue)} \cup ({sink, pending, shown} \ {0})

\* Mutated RecordDecodePipelineStartForE2eIfSampled: an old record is kept.
RecordDecodePipelineStartForE2eIfSampled_Keeps(f) ==
  LET id == TrackingId(f)
      m == IF Cardinality(DOMAIN starts) >= kMaxEntries THEN Empty ELSE starts
  IN  IF ~ShouldLogTrackingTimedSampleById(id) \/ id \in DOMAIN m THEN starts
      ELSE Put(m, id, f)

RecordDecodePipelineStartForE2eIfSampled(f) ==
  LET id == TrackingId(f)
      m == IF Cardinality(DOMAIN starts) >= kMaxEntries THEN Empty ELSE starts
  IN  IF ShouldLogTrackingTimedSampleById(id) THEN Put(m, id, f) ELSE starts

\* The entry of Decode.  Bound: a picture is seen before its id comes again.
Decode ==
  /\ decoded < MaxFrames
  /\ \A k \in Live : decoded + 1 - label[k] < IdRange
  /\ decoded' = decoded + 1
  /\ starts' = RecordDecodePipelineStartForE2eIfSampled(decoded + 1)
  /\ UNCHANGED <<delivery, sinking, rendering>>

-----------------------------------------------------------------------------
(* The worker of the decoder, in DrainOutputs.                             *)

Last == Len(label)

\* cb->Decoded(frame): WebRTC posts the picture to the sink.  Labels never go
\* back (module DecoderWorker).
Decoded ==
  /\ worker = "idle" /\ Last < MaxPictures
  /\ \E f \in 1..decoded :
       /\ Last # 0 => label[Last] <= f
       /\ decoded - f < IdRange
       /\ label' = Append(label, f)
  /\ queue' = Append(queue, Last + 1)
  /\ worker' = "callback"
  /\ UNCHANGED <<decoded, starts, now, after, returns, sink, entry, mcde, rendering>>

DecodedReturns ==
  /\ worker = "callback"
  /\ now' = now + 1 /\ after' = now + 1
  /\ worker' = "returned"
  /\ UNCHANGED <<decoded, starts, label, returns, sinking, rendering>>

Record(m) == Put(m, label[Last], [picture |-> Last, time |-> after])

\* Mutated DecodeSinkRecordAfterDecoded: the table is cleared one entry late.
DecodeSinkRecordAfterDecoded_OffByOne ==
  /\ worker = "returned"
  /\ returns' = Record(IF Cardinality(DOMAIN returns) > kMaxEntries THEN Empty
                       ELSE returns)
  /\ worker' = "idle"
  /\ UNCHANGED <<decoded, starts, label, now, after, sinking, rendering>>

DecodeSinkRecordAfterDecoded ==
  /\ worker = "returned"
  /\ returns' = Record(IF Cardinality(DOMAIN returns) >= kMaxEntries THEN Empty
                       ELSE returns)
  /\ worker' = "idle"
  /\ UNCHANGED <<decoded, starts, label, now, after, sinking, rendering>>

-----------------------------------------------------------------------------
(* The sink.                                                               *)

OnFrame ==
  /\ sink = 0 /\ queue # <<>>
  /\ sink' = Head(queue) /\ queue' = Tail(queue)
  /\ now' = now + 1 /\ entry' = now + 1
  /\ UNCHANGED <<decoded, starts, label, worker, after, returns, mcde, rendering>>

\* WebRTC drops a picture that is late (external).
DropFrame ==
  /\ queue # <<>>
  /\ queue' = Tail(queue)
  /\ UNCHANGED <<decoded, starts, delivery, sink, entry, mcde, rendering>>

Measure(r) == Put(mcde, sink, [picture |-> r.picture, us |-> entry - r.time])

\* Mutated DecodeSinkTakeDecodedReturn: the record stays in the table.
DecodeSinkTakeDecodedReturn_Keeps ==
  /\ sink # 0
  /\ mcde' = IF label[sink] \in DOMAIN returns THEN Measure(returns[label[sink]])
             ELSE mcde
  /\ pending' = sink /\ sink' = 0
  /\ UNCHANGED <<decoded, starts, delivery, queue, entry, shown, e2e>>

\* OnFrame takes the record and leaves the picture to the render thread.
DecodeSinkTakeDecodedReturn ==
  /\ sink # 0
  /\ IF label[sink] \in DOMAIN returns
       THEN /\ mcde' = Measure(returns[label[sink]])
            /\ returns' = Erase(returns, label[sink])
       ELSE UNCHANGED <<mcde, returns>>
  /\ pending' = sink /\ sink' = 0
  /\ UNCHANGED <<decoded, starts, label, worker, now, after, queue, entry, shown, e2e>>

-----------------------------------------------------------------------------
(* The render thread.                                                      *)

\* The node takes the pending picture (module VideoRenderer).
Sync ==
  /\ pending # 0
  /\ shown' = pending /\ pending' = 0
  /\ UNCHANGED <<decoded, starts, delivery, sinking, e2e>>

\* The end of a render() that reports on its picture; it may draw it again.
TakeDecodePipelineStartMonotonicUs ==
  /\ shown # 0 /\ ShouldLogTrackingTimedSampleById(TrackingId(label[shown]))
  /\ LET id == TrackingId(label[shown])
     IN  /\ id \in DOMAIN starts
         /\ e2e' = Put(e2e, shown, starts[id])
         /\ starts' = Erase(starts, id)
  /\ UNCHANGED <<decoded, delivery, sinking, pending, shown>>

-----------------------------------------------------------------------------
Next ==
  \/ Decode \/ Decoded \/ DecodedReturns \/ DecodeSinkRecordAfterDecoded
  \/ OnFrame \/ DropFrame \/ DecodeSinkTakeDecodedReturn
  \/ Sync \/ TakeDecodePipelineStartMonotonicUs
Spec == Init /\ [][Next]_vars

-----------------------------------------------------------------------------
\* The shape of the state; no table ever holds more than kMaxEntries records.
TypeOK ==
  /\ decoded \in 0..MaxFrames
  /\ now \in Nat /\ after \in 0..now /\ entry \in 0..now
  /\ label \in Seq(1..decoded) /\ Last <= MaxPictures
  /\ worker \in {"idle", "callback", "returned"}
  /\ Cardinality(DOMAIN starts) <= kMaxEntries
  /\ Cardinality(DOMAIN returns) <= kMaxEntries
  /\ \A t \in DOMAIN returns : returns[t] \in [picture : 1..Last, time : 1..now]
  /\ \A id \in DOMAIN starts : starts[id] \in 1..decoded /\ TrackingId(starts[id]) = id
  /\ queue \in Seq(1..Last) /\ {sink, pending, shown} \subseteq 0..Last
  /\ \A k \in DOMAIN mcde : mcde[k] \in [picture : 1..Last, us : Int]

\* One return of Decoded() is measured for at most one picture, whatever
\* pictures share a timestamp and whatever was left behind by pictures that
\* were dropped (DecodeSinkTakeDecodedReturn erases what it returns).
TakenOnce ==
  \A j, k \in DOMAIN mcde : mcde[j].picture = mcde[k].picture => j = k

\* The time from Decode to render that is reported for a picture starts with
\* the frame whose id it has, although tracking ids wrap, records of frames that
\* were never drawn stay behind until the table is full, and the next frames
\* are recorded while the picture is on its way; and it is reported once.
StartOfItsFrame ==
  /\ \A k \in DOMAIN e2e : e2e[k] = label[k]
  /\ \A j, k \in DOMAIN e2e : e2e[j] = e2e[k] => j = k
=============================================================================
