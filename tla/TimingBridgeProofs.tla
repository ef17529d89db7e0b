------------------------- MODULE TimingBridgeProofs -------------------------
(***************************************************************************)
(* What the timing tables report, for any number of frames and pictures,   *)
(* any table size and any range of tracking ids.                           *)
(***************************************************************************)
EXTENDS TimingBridge, FiniteSetTheorems, SequenceTheorems, TLAPS

\* The worker is between Decoded and the record of that picture's return.
Unrecorded == worker \in {"callback", "returned"}

\* The records of a picture's return: it is made once, after Decoded, and it is
\* in the table or has been taken, never both and never twice.
Records ==
  /\ \A t \in DOMAIN returns : Unrecorded => returns[t].picture < Last
  /\ \A k \in DOMAIN mcde : Unrecorded => mcde[k].picture < Last
  /\ \A t, u \in DOMAIN returns : returns[t].picture = returns[u].picture => t = u
  /\ \A t \in DOMAIN returns, k \in DOMAIN mcde : returns[t].picture # mcde[k].picture

\* A picture that is still to be seen is less than a round of ids old.
Recent == \A k \in Live : k \in 1..Last /\ decoded - label[k] < IdRange

\* A start in the table is of a sampled id and of the last frame with that id,
\* and no picture has been measured from it.
LastOfId ==
  \A id \in DOMAIN starts :
    /\ ShouldLogTrackingTimedSampleById(id)
    /\ \A f \in 1..decoded : TrackingId(f) = id => f <= starts[id]
    /\ \A k \in DOMAIN e2e : e2e[k] # starts[id]

-----------------------------------------------------------------------------
(* Tables.                                                                 *)

\* The sizes that the constants give.
LEMMA Sizes ==
  /\ MaxFrames \in Nat /\ MaxPictures \in Nat
  /\ IdRange \in Nat /\ IdRange > 0 /\ kMaxEntries \in Nat /\ kMaxEntries > 0
  BY TimingAssumption

\* A record is stored under its key and leaves the others alone ...
LEMMA PutProperties ==
  ASSUME NEW m, NEW t, NEW v
  PROVE  /\ DOMAIN Put(m, t, v) = DOMAIN m \cup {t}
         /\ Put(m, t, v)[t] = v
         /\ \A u \in DOMAIN m : u # t => Put(m, t, v)[u] = m[u]
  BY DEF Put

\* ... and so does erasing one.
LEMMA EraseProperties ==
  ASSUME NEW m, NEW t
  PROVE  /\ DOMAIN Erase(m, t) = DOMAIN m \ {t}
         /\ \A u \in DOMAIN m \ {t} : Erase(m, t)[u] = m[u]
  BY DEF Erase, Restrict

\* Erasing makes a table no larger.
LEMMA EraseBound ==
  ASSUME NEW m, IsFiniteSet(DOMAIN m), Cardinality(DOMAIN m) <= kMaxEntries, NEW t
  PROVE  /\ IsFiniteSet(DOMAIN Erase(m, t))
         /\ Cardinality(DOMAIN Erase(m, t)) <= kMaxEntries
<1>1. DOMAIN Erase(m, t) \subseteq DOMAIN m
  BY EraseProperties
<1>2. /\ IsFiniteSet(DOMAIN Erase(m, t))
      /\ Cardinality(DOMAIN Erase(m, t)) <= Cardinality(DOMAIN m)
  BY <1>1, FS_Subset
<1>3. Cardinality(DOMAIN m) \in Nat /\ Cardinality(DOMAIN Erase(m, t)) \in Nat
  BY <1>2, FS_CardinalityType
<1>4. QED
  BY <1>2, <1>3, Sizes

\* A table with a record stored, after it was cleared if it was full: every
\* record in it is the new one or was there, and the table is not too large.
Recorded(m, t, v) == Put(IF Cardinality(DOMAIN m) >= kMaxEntries THEN Empty ELSE m, t, v)

\* The table stays finite and bounded, and holds the new record and old ones.
LEMMA RecordedProperties ==
  ASSUME NEW m, IsFiniteSet(DOMAIN m), Cardinality(DOMAIN m) <= kMaxEntries, NEW t, NEW v
  PROVE  /\ IsFiniteSet(DOMAIN Recorded(m, t, v))
         /\ Cardinality(DOMAIN Recorded(m, t, v)) <= kMaxEntries
         /\ t \in DOMAIN Recorded(m, t, v) /\ Recorded(m, t, v)[t] = v
         /\ \A u \in DOMAIN Recorded(m, t, v) :
              u # t => u \in DOMAIN m /\ Recorded(m, t, v)[u] = m[u]
<1> DEFINE n == IF Cardinality(DOMAIN m) >= kMaxEntries THEN Empty ELSE m
<1>1. Cardinality(DOMAIN m) \in Nat
  BY FS_CardinalityType
<1>2. DOMAIN Empty = {} /\ IsFiniteSet({}) /\ Cardinality({}) = 0
  BY FS_EmptySet DEF Empty
<1>3. /\ IsFiniteSet(DOMAIN n) /\ Cardinality(DOMAIN n) \in Nat
      /\ Cardinality(DOMAIN n) < kMaxEntries
      /\ \A u \in DOMAIN n : u \in DOMAIN m /\ n[u] = m[u]
  BY <1>1, <1>2, Sizes
<1>4. Recorded(m, t, v) = Put(n, t, v)
  BY DEF Recorded
<1> HIDE DEF n
<1>5. /\ DOMAIN Recorded(m, t, v) = DOMAIN n \cup {t} /\ Recorded(m, t, v)[t] = v
      /\ \A u \in DOMAIN n : u # t => Recorded(m, t, v)[u] = n[u]
  <2>1. /\ DOMAIN Put(n, t, v) = DOMAIN n \cup {t} /\ Put(n, t, v)[t] = v
        /\ \A u \in DOMAIN n : u # t => Put(n, t, v)[u] = n[u]
    BY DEF Put
  <2>2. QED
    BY <1>4, <2>1, Zenon
<1>6. /\ IsFiniteSet(DOMAIN n \cup {t})
      /\ \/ Cardinality(DOMAIN n \cup {t}) = Cardinality(DOMAIN n)
         \/ Cardinality(DOMAIN n \cup {t}) = Cardinality(DOMAIN n) + 1
  <2> DEFINE D == DOMAIN n
  <2>1. IsFiniteSet(D)
    BY <1>3
  <2> HIDE DEF D
  <2>2. /\ IsFiniteSet(D \cup {t})
        /\ \/ Cardinality(D \cup {t}) = Cardinality(D)
           \/ Cardinality(D \cup {t}) = Cardinality(D) + 1
    BY <2>1, FS_AddElement
  <2>3. QED
    BY <2>2 DEF D
<1>7. QED
  BY <1>3, <1>5, <1>6, Sizes

-----------------------------------------------------------------------------
(* Types.                                                                  *)

\* TypeOK in four parts, with what it leaves open: the tables are finite, what
\* is measured belongs to pictures, and a picture that is being delivered exists.
Clocks ==
  /\ decoded \in 0..MaxFrames
  /\ now \in Nat /\ after \in 0..now /\ entry \in 0..now
  /\ worker \in {"idle", "callback", "returned"}
  /\ worker = "returned" => after # 0
Pictures ==
  /\ label \in Seq(1..decoded) /\ Last <= MaxPictures
  /\ queue \in Seq(1..Last) /\ {sink, pending, shown} \subseteq 0..Last
  /\ Unrecorded => Last # 0
Returned ==
  /\ IsFiniteSet(DOMAIN returns) /\ Cardinality(DOMAIN returns) <= kMaxEntries
  /\ \A t \in DOMAIN returns : returns[t] \in [picture : 1..Last, time : 1..now]
  /\ \A k \in DOMAIN mcde : mcde[k] \in [picture : 1..Last, us : Int]
Started ==
  /\ IsFiniteSet(DOMAIN starts) /\ Cardinality(DOMAIN starts) <= kMaxEntries
  /\ \A id \in DOMAIN starts : starts[id] \in 1..decoded /\ TrackingId(starts[id]) = id
  /\ DOMAIN e2e \subseteq 1..Last

Types == Clocks /\ Pictures /\ Returned /\ Started

\* At the start the tables are empty.
LEMMA TypesInit == Init => Types
<1> SUFFICES ASSUME Init PROVE Types
  OBVIOUS
<1>1. DOMAIN Empty = {} /\ IsFiniteSet({}) /\ Cardinality({}) = 0
  BY FS_EmptySet DEF Empty
<1>2. label = <<>> /\ queue = <<>> /\ Last = 0
  BY EmptySeq DEF Init, Last
<1>3. Clocks
  BY Sizes DEF Init, Clocks
<1>4. Pictures
  BY <1>2, EmptySeq, Sizes DEF Init, Pictures, Unrecorded
<1>5. Returned /\ Started
  BY <1>1, Sizes DEF Init, Returned, Started
<1>6. QED
  BY <1>3, <1>4, <1>5 DEF Types

\* What the pictures give to the other invariants.
LEMMA PictureFacts ==
  ASSUME Types
  PROVE  /\ Last \in Nat /\ decoded \in Nat /\ now \in Nat
         /\ label \in Seq(1..decoded) /\ queue \in Seq(1..Last)
         /\ \A k \in 1..Last : label[k] \in 1..decoded
         /\ sink \in 0..Last /\ pending \in 0..Last /\ shown \in 0..Last
<1>1. label \in Seq(1..decoded) /\ queue \in Seq(1..Last) /\ decoded \in Nat /\ now \in Nat
  BY Sizes DEF Types, Pictures, Clocks
<1>2. Last \in Nat /\ \A k \in 1..Last : label[k] \in 1..decoded
  BY <1>1, LenProperties, ElementOfSeq DEF Last
<1>3. QED
  BY <1>1, <1>2 DEF Types, Pictures

\* Decode stores the start of a sampled frame.
LEMMA DecodeRecords ==
  ASSUME Decode
  PROVE  \/ starts' = starts
         \/ starts' = Recorded(starts, TrackingId(decoded + 1), decoded + 1)
  BY DEF Decode, RecordDecodePipelineStartForE2eIfSampled, Recorded

\* The worker stores the return of the last picture.
LEMMA ReturnRecords ==
  ASSUME DecodeSinkRecordAfterDecoded
  PROVE  returns' = Recorded(returns, label[Last], [picture |-> Last, time |-> after])
  BY DEF DecodeSinkRecordAfterDecoded, Record, Recorded

\* Decode keeps the types ...
LEMMA TypesDecode == ASSUME Types, Decode PROVE Types'
<1>1. /\ decoded' = decoded + 1 /\ decoded' \in 0..MaxFrames
      /\ UNCHANGED <<delivery, sinking, rendering>>
  BY Sizes, PictureFacts DEF Decode, Types, Clocks
<1>2. Clocks'
  BY <1>1 DEF Types, Clocks, delivery, sinking
<1>3. Pictures'
  <2>1. label \in Seq(1..decoded')
    BY <1>1, PictureFacts, SeqMonotonic
  <2>2. QED
    BY <1>1, <2>1 DEF Types, Pictures, Last, Unrecorded, delivery, sinking, rendering
<1>4. Returned'
  BY <1>1 DEF Types, Returned, Last, delivery, sinking
<1>5. Started'
  <2>1. DOMAIN e2e' \subseteq 1..Last'
    BY <1>1 DEF Types, Started, Last, delivery, rendering
  <2>2. 1..decoded \subseteq 1..decoded' /\ decoded + 1 \in 1..decoded'
    BY <1>1, PictureFacts
  <2>3. CASE starts' = starts
    BY <2>1, <2>2, <2>3 DEF Types, Started
  <2>4. CASE starts' = Recorded(starts, TrackingId(decoded + 1), decoded + 1)
    <3>1. IsFiniteSet(DOMAIN starts) /\ Cardinality(DOMAIN starts) <= kMaxEntries
      BY DEF Types, Started
    <3>2. /\ IsFiniteSet(DOMAIN starts') /\ Cardinality(DOMAIN starts') <= kMaxEntries
          /\ starts'[TrackingId(decoded + 1)] = decoded + 1
          /\ \A u \in DOMAIN starts' : u # TrackingId(decoded + 1) =>
               u \in DOMAIN starts /\ starts'[u] = starts[u]
      BY <2>4, <3>1, RecordedProperties
    <3>3. ASSUME NEW u \in DOMAIN starts'
          PROVE  starts'[u] \in 1..decoded' /\ TrackingId(starts'[u]) = u
      BY <2>2, <3>2 DEF Types, Started
    <3>4. QED
      BY <2>1, <3>2, <3>3 DEF Started
  <2>5. QED
    BY <2>3, <2>4, DecodeRecords
<1>6. QED
  BY <1>2, <1>3, <1>4, <1>5 DEF Types

\* ... so does the delivery of a picture ...
LEMMA TypesDecoded == ASSUME Types, Decoded PROVE Types'
<1>1. PICK f \in 1..decoded : label' = Append(label, f)
  BY DEF Decoded
<1>2. /\ Last' = Last + 1 /\ label' \in Seq(1..decoded) /\ Last + 1 <= MaxPictures
      /\ 1..Last \subseteq 1..Last' /\ 0..Last \subseteq 0..Last' /\ Last + 1 \in 1..Last'
  <2>1. Len(Append(label, f)) = Len(label) + 1 /\ Append(label, f) \in Seq(1..decoded)
    BY PictureFacts, AppendProperties
  <2>2. Last \in Nat
    BY PictureFacts
  <2>3. QED
    BY <1>1, <2>1, <2>2, Sizes DEF Decoded, Last
<1>3. Clocks'
  BY DEF Decoded, Types, Clocks
<1>4. Pictures'
  <2>1. queue \in Seq(1..Last')
    BY <1>2, PictureFacts, SeqMonotonic
  <2>2. queue' \in Seq(1..Last')
    BY <1>2, <2>1, AppendProperties DEF Decoded
  <2>3. sink' = sink /\ pending' = pending /\ shown' = shown /\ decoded' = decoded
    BY DEF Decoded, rendering
  <2>4. Last' # 0 /\ {sink, pending, shown} \subseteq 0..Last'
    BY <1>2, PictureFacts
  <2>5. QED
    BY <1>2, <2>2, <2>3, <2>4 DEF Pictures, Last
<1>5. Returned' /\ Started'
  <2>1. UNCHANGED <<returns, mcde, starts, e2e, now, decoded>>
    BY DEF Decoded, rendering
  <2>2. Returned'
    BY <1>2, <2>1 DEF Types, Returned
  <2>3. Started'
    BY <1>2, <2>1 DEF Types, Started
  <2>4. QED
    BY <2>2, <2>3
<1>6. QED
  BY <1>3, <1>4, <1>5 DEF Types

\* The clock ticks.
LEMMA TypesTick ==
  ASSUME Types, now' = now + 1,
         \/ UNCHANGED worker /\ after' = after /\ entry' = now + 1
         \/ worker' = "returned" /\ worker = "callback" /\ after' = now + 1 /\ entry' = entry,
         UNCHANGED <<decoded, starts, label, returns, mcde, rendering>>,
         queue' \in Seq(1..Last), sink' \in 0..Last
  PROVE  Types'
<1>1. now \in Nat
  BY PictureFacts
<1>2. Clocks'
  BY <1>1 DEF Types, Clocks
<1>3. Last' = Last /\ (Unrecorded' <=> Unrecorded)
  BY DEF Last, Unrecorded
<1>4. Pictures'
  BY <1>3 DEF Types, Pictures, rendering
<1>5. 1..now \subseteq 1..now'
  BY <1>1
<1>6. Returned'
  BY <1>3, <1>5 DEF Types, Returned
<1>7. Started'
  BY <1>3 DEF Types, Started, rendering
<1>8. QED
  BY <1>2, <1>4, <1>6, <1>7 DEF Types

\* The worker records the return of Decoded.
LEMMA TypesRecord == ASSUME Types, DecodeSinkRecordAfterDecoded PROVE Types'
<1>1. /\ worker = "returned" /\ worker' = "idle"
      /\ UNCHANGED <<decoded, starts, label, now, after, sinking, rendering>>
  BY DEF DecodeSinkRecordAfterDecoded
<1>2. Clocks'
  BY <1>1 DEF Types, Clocks, sinking
<1>3. Last' = Last /\ ~Unrecorded' /\ Unrecorded
  BY <1>1 DEF Last, Unrecorded
<1>4. Pictures'
  BY <1>1, <1>3 DEF Types, Pictures, sinking, rendering
<1>5. Started'
  BY <1>1, <1>3 DEF Types, Started, rendering
<1>6. Returned'
  <2> DEFINE r == [picture |-> Last, time |-> after]
  <2>1. Last \in 1..Last /\ after \in 1..now
    <3>1. Last \in Nat /\ Last # 0 /\ now \in Nat /\ after \in 0..now /\ after # 0
      BY <1>1, <1>3, PictureFacts DEF Types, Pictures, Clocks
    <3>2. QED
      BY <3>1
  <2>2. r \in [picture : 1..Last, time : 1..now]
    BY <2>1
  <2>3. IsFiniteSet(DOMAIN returns) /\ Cardinality(DOMAIN returns) <= kMaxEntries
    BY DEF Types, Returned
  <2>4. returns' = Recorded(returns, label[Last], r)
    BY ReturnRecords
  <2> HIDE DEF r
  <2>5. /\ IsFiniteSet(DOMAIN returns') /\ Cardinality(DOMAIN returns') <= kMaxEntries
        /\ returns'[label[Last]] = r
        /\ \A u \in DOMAIN returns' : u # label[Last] =>
             u \in DOMAIN returns /\ returns'[u] = returns[u]
    BY <2>3, <2>4, RecordedProperties
  <2>6. ASSUME NEW u \in DOMAIN returns'
        PROVE  returns'[u] \in [picture : 1..Last, time : 1..now]
    BY <2>2, <2>5 DEF Types, Returned
  <2>7. QED
    BY <1>1, <1>3, <2>5, <2>6 DEF Types, Returned, sinking
<1>7. QED
  BY <1>2, <1>4, <1>5, <1>6 DEF Types

\* What OnFrame and DropFrame leave of the queue.
LEMMA QueuePop ==
  ASSUME Types, queue # <<>>
  PROVE  /\ Head(queue) \in 1..Last /\ Tail(queue) \in Seq(1..Last)
         /\ Len(queue) \in Nat /\ Len(queue) > 0 /\ Head(queue) = queue[1]
         /\ Len(Tail(queue)) = Len(queue) - 1
         /\ \A i \in 1..Len(Tail(queue)) : Tail(queue)[i] = queue[i + 1]
<1>1. queue \in Seq(1..Last)
  BY PictureFacts
<1> DEFINE S == 1..Last
<1> HIDE DEF S
<1>2. queue \in Seq(S)
  BY <1>1 DEF S
<1>3. Len(queue) \in Nat /\ Len(queue) > 0
  BY <1>2
<1>4. Head(queue) \in S /\ Tail(queue) \in Seq(S)
  BY <1>2, <1>3
<1>5. /\ Len(Tail(queue)) = Len(queue) - 1 /\ Head(queue) = queue[1]
      /\ \A i \in 1..Len(Tail(queue)) : Tail(queue)[i] = queue[i + 1]
  BY <1>2, <1>3
<1>6. QED
  BY <1>3, <1>4, <1>5 DEF S

\* WebRTC drops a picture.
LEMMA TypesDrop == ASSUME Types, DropFrame PROVE Types'
<1>1. /\ queue' \in Seq(1..Last)
      /\ UNCHANGED <<decoded, starts, delivery, sink, entry, mcde, rendering>>
  BY QueuePop DEF DropFrame
<1>2. Last' = Last /\ (Unrecorded' <=> Unrecorded)
  BY <1>1 DEF Last, Unrecorded, delivery
<1>3. Clocks'
  BY <1>1 DEF Types, Clocks, delivery
<1>4. Pictures'
  BY <1>1, <1>2 DEF Types, Pictures, delivery, rendering
<1>5. Returned' /\ Started'
  BY <1>1, <1>2 DEF Types, Returned, Started, delivery, rendering
<1>6. QED
  BY <1>3, <1>4, <1>5 DEF Types

\* The sink takes a record.
LEMMA TypesTake == ASSUME Types, DecodeSinkTakeDecodedReturn PROVE Types'
<1>1. /\ UNCHANGED <<decoded, starts, label, worker, now, after, queue, entry, shown, e2e>>
      /\ sink' = 0 /\ pending' = sink
  BY DEF DecodeSinkTakeDecodedReturn
<1>2. Last' = Last /\ (Unrecorded' <=> Unrecorded) /\ Last \in Nat
  BY <1>1, PictureFacts DEF Last, Unrecorded
<1>3. Clocks'
  BY <1>1 DEF Types, Clocks
<1>4. Pictures'
  BY <1>1, <1>2 DEF Types, Pictures
<1>5. Started'
  BY <1>1, <1>2 DEF Types, Started
<1>6. Returned'
  <2>1. CASE UNCHANGED <<mcde, returns>>
    BY <1>1, <1>2, <2>1 DEF Types, Returned
  <2>2. CASE /\ label[sink] \in DOMAIN returns
             /\ mcde' = Measure(returns[label[sink]])
             /\ returns' = Erase(returns, label[sink])
    <3>1. /\ IsFiniteSet(DOMAIN returns') /\ Cardinality(DOMAIN returns') <= kMaxEntries
      BY <2>2, EraseBound DEF Types, Returned
    <3>2. \A t \in DOMAIN returns' : t \in DOMAIN returns /\ returns'[t] = returns[t]
      BY <2>2 DEF Erase, Restrict
    <3> DEFINE x == returns[label[sink]]
               v == [picture |-> x.picture, us |-> entry - x.time]
    <3>3. x \in [picture : 1..Last, time : 1..now]
      BY <2>2 DEF Types, Returned
    <3>4. entry \in Int
      BY DEF Types, Clocks
    <3>5. v \in [picture : 1..Last, us : Int]
      BY <3>3, <3>4
    <3>6. /\ mcde'[sink] = v
          /\ \A k \in DOMAIN mcde' : k # sink => k \in DOMAIN mcde /\ mcde'[k] = mcde[k]
      BY <2>2 DEF Measure, Put
    <3> HIDE DEF x, v
    <3>7. \A k \in DOMAIN mcde' : mcde'[k] \in [picture : 1..Last, us : Int]
      BY <3>5, <3>6 DEF Types, Returned
    <3>8. QED
      BY <1>1, <1>2, <3>1, <3>2, <3>7 DEF Types, Returned
  <2>3. QED
    BY <2>1, <2>2 DEF DecodeSinkTakeDecodedReturn
<1>7. QED
  BY <1>3, <1>4, <1>5, <1>6 DEF Types

\* The render node takes the picture.
LEMMA TypesSync == ASSUME Types, Sync PROVE Types'
<1>1. /\ UNCHANGED <<decoded, starts, delivery, sinking, e2e>>
      /\ pending' = 0 /\ shown' = pending
  BY DEF Sync
<1>2. Last' = Last /\ (Unrecorded' <=> Unrecorded) /\ Last \in Nat
  BY <1>1, PictureFacts DEF Last, Unrecorded, delivery
<1>3. Clocks'
  BY <1>1 DEF Types, Clocks, delivery, sinking
<1>4. Pictures'
  BY <1>1, <1>2 DEF Types, Pictures, delivery, sinking
<1>5. Returned' /\ Started'
  BY <1>1, <1>2 DEF Types, Returned, Started, delivery, sinking
<1>6. QED
  BY <1>3, <1>4, <1>5 DEF Types

\* What the render thread takes: the start recorded for the picture's id.
LEMMA StartTaken ==
  ASSUME Types, TakeDecodePipelineStartMonotonicUs
  PROVE  LET id == TrackingId(label[shown])
         IN  /\ shown \in 1..Last /\ id \in DOMAIN starts
             /\ DOMAIN e2e' = DOMAIN e2e \cup {shown} /\ e2e'[shown] = starts[id]
             /\ \A k \in DOMAIN e2e : k # shown => e2e'[k] = e2e[k]
             /\ DOMAIN starts' = DOMAIN starts \ {id}
             /\ \A u \in DOMAIN starts' : starts'[u] = starts[u]
             /\ IsFiniteSet(DOMAIN starts') /\ Cardinality(DOMAIN starts') <= kMaxEntries
             /\ UNCHANGED <<decoded, delivery, sinking, pending, shown>>
<1> DEFINE id == TrackingId(label[shown])
<1>1. /\ id \in DOMAIN starts /\ shown # 0 /\ e2e' = Put(e2e, shown, starts[id])
      /\ starts' = Erase(starts, id)
      /\ UNCHANGED <<decoded, delivery, sinking, pending, shown>>
  BY DEF TakeDecodePipelineStartMonotonicUs
<1> HIDE DEF id
<1>2. shown \in 1..Last
  BY <1>1, PictureFacts
<1>3. /\ DOMAIN e2e' = DOMAIN e2e \cup {shown} /\ e2e'[shown] = starts[id]
      /\ \A k \in DOMAIN e2e : k # shown => e2e'[k] = e2e[k]
  BY <1>1 DEF Put
<1>4. /\ DOMAIN starts' = DOMAIN starts \ {id}
      /\ \A u \in DOMAIN starts' : starts'[u] = starts[u]
  BY <1>1, EraseProperties
<1>5. IsFiniteSet(DOMAIN starts') /\ Cardinality(DOMAIN starts') <= kMaxEntries
  BY <1>1, EraseBound DEF Types, Started
<1>6. QED
  BY <1>1, <1>2, <1>3, <1>4, <1>5 DEF id

\* The render thread takes a start.
LEMMA TypesTakeStart == ASSUME Types, TakeDecodePipelineStartMonotonicUs PROVE Types'
<1>1. /\ shown \in 1..Last /\ DOMAIN e2e' = DOMAIN e2e \cup {shown}
      /\ \A u \in DOMAIN starts' : u \in DOMAIN starts /\ starts'[u] = starts[u]
      /\ IsFiniteSet(DOMAIN starts') /\ Cardinality(DOMAIN starts') <= kMaxEntries
      /\ UNCHANGED <<decoded, delivery, sinking, pending, shown>>
  BY StartTaken
<1>2. Last' = Last /\ (Unrecorded' <=> Unrecorded)
  BY <1>1 DEF Last, Unrecorded, delivery
<1>3. Clocks'
  BY <1>1 DEF Types, Clocks, delivery, sinking
<1>4. Pictures'
  BY <1>1, <1>2 DEF Types, Pictures, delivery, sinking
<1>5. Returned'
  BY <1>1, <1>2 DEF Types, Returned, delivery, sinking
<1>6. Started'
  BY <1>1, <1>2 DEF Types, Started
<1>7. QED
  BY <1>3, <1>4, <1>5, <1>6 DEF Types

\* Every step keeps the types.
LEMMA TypesStep == Types /\ [Next]_vars => Types'
<1> SUFFICES ASSUME Types, [Next]_vars PROVE Types'
  OBVIOUS
<1>1. CASE DecodedReturns
  <2>1. queue' \in Seq(1..Last) /\ sink' \in 0..Last
    BY <1>1, PictureFacts DEF DecodedReturns, sinking
  <2>2. QED
    BY <1>1, <2>1, TypesTick DEF DecodedReturns, sinking
<1>2. CASE OnFrame
  <2>1. queue' \in Seq(1..Last) /\ sink' \in 0..Last
    BY <1>2, QueuePop, PictureFacts DEF OnFrame
  <2>2. QED
    BY <1>2, <2>1, TypesTick DEF OnFrame
<1>3. CASE UNCHANGED vars
  <2>1. UNCHANGED <<decoded, starts, label, worker, now, after, returns, queue, sink,
                    entry, mcde, pending, shown, e2e>>
    BY <1>3 DEF vars, delivery, sinking, rendering
  <2>2. Last' = Last /\ (Unrecorded' <=> Unrecorded)
    BY <2>1 DEF Last, Unrecorded
  <2>3. Clocks' /\ Pictures'
    BY <2>1, <2>2 DEF Types, Clocks, Pictures
  <2>4. Returned' /\ Started'
    BY <2>1, <2>2 DEF Types, Returned, Started
  <2>5. QED
    BY <2>3, <2>4 DEF Types
<1>4. QED
  BY <1>1, <1>2, <1>3, TypesDecode, TypesDecoded, TypesRecord, TypesDrop, TypesTake,
     TypesSync, TypesTakeStart DEF Next

\* No table ever holds more than kMaxEntries records, and every record is of a
\* picture that was delivered or a frame that was given to Decode.
THEOREM TimingTypeOK == Spec => []TypeOK
<1>1. Types => TypeOK
  BY DEF TypeOK, Types, Clocks, Pictures, Returned, Started
<1>2. QED
  BY <1>1, TypesInit, TypesStep, PTL DEF Spec

-----------------------------------------------------------------------------
(* The return of Decoded() is measured once.                               *)

\* The pictures of the records are numbers of pictures.
LEMMA RecordTypes ==
  ASSUME Types
  PROVE  /\ \A t \in DOMAIN returns : returns[t].picture \in 1..Last
         /\ \A k \in DOMAIN mcde : mcde[k].picture \in 1..Last
<1>1. /\ \A t \in DOMAIN returns : returns[t] \in [picture : 1..Last, time : 1..now]
      /\ \A k \in DOMAIN mcde : mcde[k] \in [picture : 1..Last, us : Int]
  BY DEF Types, Returned
<1>2. QED
  BY <1>1

\* The new record is of a picture of which there is none yet.
LEMMA RecordsRecord ==
  ASSUME Types, Records, DecodeSinkRecordAfterDecoded PROVE Records'
<1> DEFINE r == [picture |-> Last, time |-> after]
<1>1. worker = "returned" /\ worker' = "idle" /\ mcde' = mcde /\ Last' = Last
  BY DEF DecodeSinkRecordAfterDecoded, sinking, Last
<1>2. Unrecorded /\ ~Unrecorded'
  BY <1>1 DEF Unrecorded
<1>3. returns' = Recorded(returns, label[Last], r) /\ r.picture = Last
  BY ReturnRecords
<1> HIDE DEF r
<1>4. IsFiniteSet(DOMAIN returns) /\ Cardinality(DOMAIN returns) <= kMaxEntries
  BY DEF Types, Returned
<1>5. /\ returns'[label[Last]] = r
      /\ \A u \in DOMAIN returns' : u # label[Last] =>
           u \in DOMAIN returns /\ returns'[u] = returns[u]
  BY <1>3, <1>4, RecordedProperties
<1>6. /\ \A t \in DOMAIN returns : returns[t].picture \in 1..Last /\ returns[t].picture < Last
      /\ \A k \in DOMAIN mcde : mcde[k].picture \in 1..Last /\ mcde[k].picture < Last
  BY <1>2, RecordTypes DEF Records
<1>7. Last \in Nat
  BY PictureFacts
<1>8. ASSUME NEW t \in DOMAIN returns', NEW u \in DOMAIN returns',
             returns'[t].picture = returns'[u].picture
      PROVE  t = u
  <2>1. CASE t = label[Last] /\ u # label[Last]
    BY <1>3, <1>5, <1>6, <1>7, <1>8, <2>1
  <2>2. CASE t # label[Last] /\ u = label[Last]
    BY <1>3, <1>5, <1>6, <1>7, <1>8, <2>2
  <2>3. CASE t # label[Last] /\ u # label[Last]
    BY <1>5, <1>8, <2>3 DEF Records
  <2>4. QED
    BY <2>1, <2>2, <2>3
<1>9. ASSUME NEW t \in DOMAIN returns', NEW k \in DOMAIN mcde
      PROVE  returns'[t].picture # mcde[k].picture
  <2>1. CASE t = label[Last]
    BY <1>3, <1>5, <1>6, <1>7, <2>1
  <2>2. CASE t # label[Last]
    BY <1>5, <2>2 DEF Records
  <2>3. QED
    BY <2>1, <2>2
<1>10. QED
  BY <1>1, <1>2, <1>8, <1>9 DEF Records

\* A record that is taken leaves the table.
LEMMA RecordsTake ==
  ASSUME Types, Records, TakenOnce, DecodeSinkTakeDecodedReturn
  PROVE  Records' /\ TakenOnce'
<1>1. UNCHANGED <<label, worker>> /\ Last' = Last /\ (Unrecorded' <=> Unrecorded)
  BY DEF DecodeSinkTakeDecodedReturn, Last, Unrecorded
<1>2. CASE UNCHANGED <<mcde, returns>>
  BY <1>1, <1>2 DEF Records, TakenOnce
<1>3. CASE /\ label[sink] \in DOMAIN returns
           /\ mcde' = Measure(returns[label[sink]])
           /\ returns' = Erase(returns, label[sink])
  <2> DEFINE t == label[sink]
  <2>1. /\ DOMAIN returns' = DOMAIN returns \ {t} /\ t \in DOMAIN returns
        /\ \A u \in DOMAIN returns' : u \in DOMAIN returns /\ returns'[u] = returns[u]
    BY <1>3 DEF Erase, Restrict
  <2>2. /\ DOMAIN mcde' = DOMAIN mcde \cup {sink}
        /\ mcde'[sink].picture = returns[t].picture
        /\ \A k \in DOMAIN mcde : k # sink => mcde'[k] = mcde[k]
    BY <1>3 DEF Measure, Put
  <2> HIDE DEF t
  <2>3. /\ \A u \in DOMAIN returns' : Unrecorded' => returns'[u].picture < Last'
        /\ \A u, v \in DOMAIN returns' : returns'[u].picture = returns'[v].picture => u = v
    BY <1>1, <2>1 DEF Records
  <2>4. \A k \in DOMAIN mcde' : Unrecorded' => mcde'[k].picture < Last'
    BY <1>1, <2>1, <2>2 DEF Records
  <2>5. \A u \in DOMAIN returns', k \in DOMAIN mcde' : returns'[u].picture # mcde'[k].picture
    BY <2>1, <2>2 DEF Records
  <2>6. ASSUME NEW j \in DOMAIN mcde', NEW k \in DOMAIN mcde',
               mcde'[j].picture = mcde'[k].picture
        PROVE  j = k
    BY <2>1, <2>2, <2>6 DEF Records, TakenOnce
  <2>7. QED
    BY <2>3, <2>4, <2>5, <2>6 DEF Records, TakenOnce
<1>4. QED
  BY <1>2, <1>3 DEF DecodeSinkTakeDecodedReturn

\* Every step keeps a picture's record single.
LEMMA RecordsStep ==
  Types /\ Records /\ TakenOnce /\ [Next]_vars => Records' /\ TakenOnce'
<1> SUFFICES ASSUME Types, Records, TakenOnce, [Next]_vars PROVE Records' /\ TakenOnce'
  OBVIOUS
<1>1. CASE UNCHANGED <<label, returns, mcde>> /\ (Unrecorded' <=> Unrecorded)
  <2>1. Last' = Last
    BY <1>1 DEF Last
  <2>2. QED
    BY <1>1, <2>1 DEF Records, TakenOnce
<1>2. CASE Decode \/ DropFrame \/ Sync \/ TakeDecodePipelineStartMonotonicUs
  BY <1>1, <1>2
  DEF Decode, DropFrame, Sync, TakeDecodePipelineStartMonotonicUs, delivery, sinking,
      Unrecorded
<1>3. CASE DecodedReturns \/ OnFrame
  BY <1>1, <1>3 DEF DecodedReturns, OnFrame, sinking, Unrecorded
<1>4. CASE Decoded
  <2>1. UNCHANGED <<returns, mcde>> /\ \E f \in 1..decoded : label' = Append(label, f)
    BY <1>4 DEF Decoded
  <2>2. Last' = Last + 1 /\ Last \in Nat
    BY <2>1, PictureFacts DEF Last
  <2>3. /\ \A t \in DOMAIN returns : returns[t].picture < Last'
        /\ \A k \in DOMAIN mcde : mcde[k].picture < Last'
    BY <2>2, RecordTypes
  <2>4. QED
    BY <2>1, <2>3 DEF Records, TakenOnce
<1>5. CASE DecodeSinkRecordAfterDecoded
  <2>1. mcde' = mcde
    BY <1>5 DEF DecodeSinkRecordAfterDecoded, sinking
  <2>2. QED
    BY <1>5, <2>1, RecordsRecord DEF TakenOnce
<1>6. CASE UNCHANGED vars
  BY <1>1, <1>6 DEF vars, delivery, sinking, Unrecorded
<1>7. QED
  BY <1>2, <1>3, <1>4, <1>5, <1>6, RecordsTake DEF Next

\* One return of Decoded() is measured for at most one picture.
THEOREM TimingTakenOnce == Spec => []TakenOnce
<1>1. Init => Records /\ TakenOnce
  BY DEF Init, Empty, Records, TakenOnce
<1>2. QED
  BY <1>1, TypesInit, TypesStep, RecordsStep, PTL DEF Spec

-----------------------------------------------------------------------------
(* A picture is measured from the start of its own frame.                  *)

\* Quotient and rest.
LEMMA DivMod ==
  ASSUME NEW R \in Nat, R > 0, NEW a \in Nat
  PROVE  (a \div R) \in Int /\ (a % R) \in Int /\ a = R * (a \div R) + (a % R)
<1>1. (a \div R) \in Int /\ (a % R) \in Int
  OBVIOUS
<1>2. a = R * (a \div R) + (a % R)
  OBVIOUS
<1>3. QED
  BY <1>1, <1>2

\* Two numbers less than a round apart that leave the same rest are equal ...
LEMMA SameRound ==
  ASSUME NEW R \in Nat, R > 0, NEW p \in Int, NEW q \in Int, NEW r \in Int,
         NEW a \in Int, NEW b \in Int, a = R * p + r, b = R * q + r, a <= b, b - a < R
  PROVE  a = b
<1>1. b - a = R * q - R * p
  OBVIOUS
<1>2. CASE q < p
  <2>1. R * q < R * p
    BY <1>2
  <2>2. QED
    BY <1>1, <2>1
<1>3. CASE q > p
  <2>1. R * (p + 1) <= R * q
    BY <1>3
  <2>2. R * (p + 1) = R * p + R
    OBVIOUS
  <2>3. QED
    BY <1>1, <2>1, <2>2
<1>4. QED
  BY <1>2, <1>3

\* ... so a tracking id stands for one frame within a round.
LEMMA SameId ==
  ASSUME NEW a \in Nat, NEW b \in Nat, a <= b, b - a < IdRange,
         TrackingId(a) = TrackingId(b)
  PROVE  a = b
<1>1. a % IdRange = b % IdRange
  BY DEF TrackingId
<1>2. /\ (a \div IdRange) \in Int /\ (a % IdRange) \in Int
      /\ a = IdRange * (a \div IdRange) + (a % IdRange)
  BY Sizes, DivMod
<1>3. (b \div IdRange) \in Int /\ b = IdRange * (b \div IdRange) + (b % IdRange)
  BY Sizes, DivMod
<1> DEFINE p == a \div IdRange
           q == b \div IdRange
           r == a % IdRange
<1>4. /\ p \in Int /\ q \in Int /\ r \in Int
      /\ a = IdRange * p + r /\ b = IdRange * q + r
  BY <1>1, <1>2, <1>3
<1> HIDE DEF p, q, r
<1>5. QED
  BY <1>4, Sizes, SameRound

\* What the step needs of the state.
Starting == Recent /\ LastOfId /\ StartOfItsFrame

\* A step that makes no picture live and leaves the starts alone.
LEMMA StartingSame ==
  ASSUME Starting, UNCHANGED <<decoded, starts, label, e2e>>, Live' \subseteq Live
  PROVE  Starting'
<1>1. Last' = Last
  BY DEF Last
<1>2. Recent'
  BY <1>1 DEF Starting, Recent
<1>3. LastOfId' /\ StartOfItsFrame'
  BY DEF Starting, LastOfId, StartOfItsFrame
<1>4. QED
  BY <1>2, <1>3 DEF Starting

\* Decode makes its frame the last one of the id, before any picture has it.
LEMMA StartingDecode == ASSUME Types, Starting, Decode PROVE Starting'
<1> DEFINE d == decoded + 1
<1>1. /\ UNCHANGED <<label, queue, sink, pending, shown, e2e>> /\ decoded' = d
      /\ \A k \in Live : d - label[k] < IdRange
  <2>1. UNCHANGED <<label, queue, sink, pending, shown, e2e>>
    BY DEF Decode, delivery, sinking, rendering
  <2>2. decoded' = d
    BY DEF Decode
  <2>3. ASSUME NEW k \in Live PROVE d - label[k] < IdRange
    <3>1. decoded + (1 - label[k]) < IdRange
      BY Zenon DEF Decode
    <3>2. k \in 1..Last
      BY DEF Starting, Recent
    <3>3. label[k] \in 1..decoded /\ decoded \in Nat
      BY <3>2, PictureFacts
    <3>4. QED
      BY <3>1, <3>3
  <2>4. QED
    BY <2>1, <2>2, <2>3, Zenon
<1>2. Live' = Live /\ Last' = Last
  BY <1>1 DEF Live, Last
<1>3. Recent'
  BY <1>1, <1>2 DEF Starting, Recent
<1>4. StartOfItsFrame'
  BY <1>1 DEF Starting, StartOfItsFrame
<1>5. /\ decoded \in Nat
      /\ \A id \in DOMAIN starts : starts[id] \in 1..decoded
      /\ \A k \in DOMAIN e2e : e2e[k] \in 1..decoded
  BY PictureFacts DEF Types, Started, Starting, StartOfItsFrame
<1>6. \A f \in 1..d : f \in 1..decoded \/ f = d
  BY <1>5
<1>7. CASE ~ShouldLogTrackingTimedSampleById(TrackingId(d))
  <2>1. starts' = starts
    BY <1>7 DEF Decode, RecordDecodePipelineStartForE2eIfSampled
  <2>2. ASSUME NEW id \in DOMAIN starts PROVE TrackingId(d) # id
    BY <1>7 DEF Starting, LastOfId
  <2>3. LastOfId'
    BY <1>1, <1>6, <2>1, <2>2 DEF Starting, LastOfId
  <2>4. QED
    BY <1>3, <1>4, <2>3 DEF Starting
<1>8. CASE ShouldLogTrackingTimedSampleById(TrackingId(d))
  <2>1. starts' = Recorded(starts, TrackingId(d), d)
    BY <1>8 DEF Decode, RecordDecodePipelineStartForE2eIfSampled, Recorded
  <2>2. IsFiniteSet(DOMAIN starts) /\ Cardinality(DOMAIN starts) <= kMaxEntries
    BY DEF Types, Started
  <2>3. /\ starts'[TrackingId(d)] = d
        /\ \A u \in DOMAIN starts' :
             u # TrackingId(d) => u \in DOMAIN starts /\ starts'[u] = starts[u]
    BY <2>1, <2>2, RecordedProperties
  <2>4. ASSUME NEW id \in DOMAIN starts'
        PROVE  /\ ShouldLogTrackingTimedSampleById(id)
               /\ \A f \in 1..d : TrackingId(f) = id => f <= starts'[id]
               /\ \A k \in DOMAIN e2e : e2e[k] # starts'[id]
    <3>1. CASE id = TrackingId(d)
      BY <1>5, <1>8, <2>3, <3>1
    <3>2. CASE id # TrackingId(d)
      BY <1>6, <2>3, <3>2 DEF Starting, LastOfId
    <3>3. QED
      BY <3>1, <3>2
  <2>5. LastOfId'
    BY <1>1, <2>4 DEF LastOfId
  <2>6. QED
    BY <1>3, <1>4, <2>5 DEF Starting
<1>9. QED
  BY <1>7, <1>8

\* A picture that is delivered is of a recent frame.
LEMMA StartingDecoded == ASSUME Types, Starting, Decoded PROVE Starting'
<1>1. PICK f \in 1..decoded : decoded - f < IdRange /\ label' = Append(label, f)
  BY DEF Decoded
<1>2. /\ UNCHANGED <<decoded, starts, e2e, sink, pending, shown>>
      /\ queue' = Append(queue, Last + 1)
  BY DEF Decoded, rendering
<1>3. /\ Last \in Nat /\ Last' = Last + 1 /\ label'[Last + 1] = f
      /\ \A k \in 1..Last : label'[k] = label[k]
  BY <1>1, PictureFacts DEF Last
<1>4. Live' \subseteq Live \cup {Last + 1}
  <2>1. queue \in Seq(1..Last) /\ Len(queue) \in Nat
    BY PictureFacts
  <2>2. /\ Len(queue') = Len(queue) + 1 /\ queue'[Len(queue) + 1] = Last + 1
        /\ \A i \in 1..Len(queue) : queue'[i] = queue[i]
    BY <1>2, <2>1
  <2>3. ASSUME NEW i \in 1..Len(queue') PROVE queue'[i] \in Live \cup {Last + 1}
    <3>1. i \in 1..Len(queue) \/ i = Len(queue) + 1
      BY <2>1, <2>2
    <3>2. QED
      BY <2>2, <3>1 DEF Live
  <2>4. QED
    BY <1>2, <2>3 DEF Live
<1>5. Recent'
  <2>1. \A k \in Live' : k \in 1..Last + 1 /\ decoded - label'[k] < IdRange
    <3>1. ASSUME NEW k \in Live
          PROVE  k \in 1..Last + 1 /\ decoded - label'[k] < IdRange
      <4>1. k \in 1..Last /\ decoded - label[k] < IdRange
        BY DEF Starting, Recent
      <4>2. QED
        BY <1>3, <4>1
    <3>2. Last + 1 \in 1..Last + 1 /\ decoded - label'[Last + 1] < IdRange
      BY <1>1, <1>3
    <3>3. QED
      BY <1>4, <3>1, <3>2
  <2>2. QED
    BY <1>2, <1>3, <2>1 DEF Recent
<1>6. LastOfId'
  BY <1>2 DEF Starting, LastOfId
<1>7. StartOfItsFrame'
  <2>1. \A k \in DOMAIN e2e : label'[k] = label[k]
    BY <1>3 DEF Types, Started
  <2>2. QED
    BY <1>2, <2>1 DEF Starting, StartOfItsFrame
<1>8. QED
  BY <1>5, <1>6, <1>7 DEF Starting

\* The start that is taken is that of the picture's frame: it is of a frame with
\* its id, not an earlier one, and less than a round away.
LEMMA StartingTakeStart ==
  ASSUME Types, Starting, TakeDecodePipelineStartMonotonicUs PROVE Starting'
<1> DEFINE id == TrackingId(label[shown])
<1>1. /\ shown \in 1..Last /\ id \in DOMAIN starts
      /\ DOMAIN e2e' = DOMAIN e2e \cup {shown} /\ e2e'[shown] = starts[id]
      /\ \A k \in DOMAIN e2e : k # shown => e2e'[k] = e2e[k]
      /\ DOMAIN starts' = DOMAIN starts \ {id}
      /\ \A u \in DOMAIN starts' : starts'[u] = starts[u]
      /\ UNCHANGED <<decoded, delivery, sinking, pending, shown>>
  BY StartTaken
<1> HIDE DEF id
<1>2. UNCHANGED <<label, queue, sink>> /\ Live' = Live /\ Last' = Last
  BY <1>1 DEF delivery, sinking, Live, Last
<1>3. Recent'
  BY <1>1, <1>2 DEF Starting, Recent
<1>4. starts[id] = label[shown]
  <2>1. label[shown] \in 1..decoded /\ decoded \in Nat
    BY <1>1, PictureFacts
  <2>2. starts[id] \in 1..decoded /\ TrackingId(starts[id]) = id
    BY <1>1 DEF Types, Started
  <2>3. label[shown] <= starts[id]
    BY <1>1, <2>1 DEF Starting, LastOfId, id
  <2>4. decoded - label[shown] < IdRange
    <3>1. shown \in Live
      BY <1>1 DEF Live
    <3>2. QED
      BY <3>1 DEF Starting, Recent
  <2>5. starts[id] - label[shown] < IdRange
    BY <2>1, <2>2, <2>4, Sizes
  <2>6. label[shown] \in Nat /\ starts[id] \in Nat /\ TrackingId(label[shown]) = id
    BY <2>1, <2>2 DEF id
  <2>7. QED
    BY <2>2, <2>3, <2>5, <2>6, SameId
<1>5. \A k \in DOMAIN e2e : e2e[k] = label[k] /\ e2e[k] # starts[id]
  BY <1>1 DEF Starting, LastOfId, StartOfItsFrame
<1>6. StartOfItsFrame'
  <2>1. \A k \in DOMAIN e2e' : e2e'[k] = label'[k]
    BY <1>1, <1>2, <1>4, <1>5
  <2>2. ASSUME NEW j \in DOMAIN e2e', NEW k \in DOMAIN e2e', e2e'[j] = e2e'[k]
        PROVE  j = k
    BY <1>1, <1>5, <2>2 DEF Starting, StartOfItsFrame
  <2>3. QED
    BY <2>1, <2>2 DEF StartOfItsFrame
<1>7. LastOfId'
  <2>1. ASSUME NEW u \in DOMAIN starts'
        PROVE  \A k \in DOMAIN e2e' : e2e'[k] # starts'[u]
    <3>1. u \in DOMAIN starts /\ u # id /\ starts'[u] = starts[u]
      BY <1>1
    <3>2. TrackingId(starts[u]) = u /\ TrackingId(starts[id]) = id
      BY <1>1, <3>1 DEF Types, Started
    <3>3. QED
      BY <1>1, <3>1, <3>2 DEF Starting, LastOfId
  <2>2. QED
    BY <1>1, <2>1 DEF Starting, LastOfId
<1>8. QED
  BY <1>3, <1>6, <1>7 DEF Starting

\* Every step keeps the starts with their frames.
LEMMA StartingStep == Types /\ Starting /\ [Next]_vars => Starting'
<1> SUFFICES ASSUME Types, Starting, [Next]_vars PROVE Starting'
  OBVIOUS
<1>1. CASE DecodedReturns \/ DecodeSinkRecordAfterDecoded \/ UNCHANGED vars
  <2>1. UNCHANGED <<decoded, starts, label, e2e, queue, sink, pending, shown>>
    BY <1>1 DEF DecodedReturns, DecodeSinkRecordAfterDecoded, vars, delivery, sinking, rendering
  <2>2. Live' = Live
    BY <2>1 DEF Live
  <2>3. QED
    BY <2>1, <2>2, StartingSame
<1>2. CASE OnFrame \/ DropFrame
  <2>1. /\ queue # <<>> /\ queue' = Tail(queue) /\ sink' \in {sink, Head(queue)}
        /\ UNCHANGED <<decoded, starts, label, e2e, pending, shown>>
    BY <1>2 DEF OnFrame, DropFrame, delivery, rendering
  <2>2. /\ Len(queue) \in Nat /\ Len(queue) > 0 /\ Head(queue) = queue[1]
        /\ Len(queue') = Len(queue) - 1
        /\ \A i \in 1..Len(queue') : queue'[i] = queue[i + 1]
    BY <2>1, QueuePop
  <2>3. \A i \in 1..Len(queue') : queue'[i] \in Live
    <3>1. \A i \in 1..Len(queue') : i + 1 \in 1..Len(queue)
      BY <2>2
    <3>2. QED
      BY <2>2, <3>1 DEF Live
  <2>4. Head(queue) \in Live
    BY <2>2 DEF Live
  <2>5. Live' \subseteq Live
    BY <2>1, <2>3, <2>4 DEF Live
  <2>6. QED
    BY <2>1, <2>5, StartingSame
<1>3. CASE DecodeSinkTakeDecodedReturn \/ Sync
  <2>1. /\ UNCHANGED <<decoded, starts, label, e2e, queue>>
        /\ {sink', pending', shown'} \subseteq {0, sink, pending, shown}
    BY <1>3 DEF DecodeSinkTakeDecodedReturn, Sync, delivery, sinking
  <2>2. Live' \subseteq Live
    BY <2>1 DEF Live
  <2>3. QED
    BY <2>1, <2>2, StartingSame
<1>4. QED
  BY <1>1, <1>2, <1>3, StartingDecode, StartingDecoded, StartingTakeStart DEF Next

\* The time from Decode to render that is reported for a picture starts with the
\* frame whose id it has, and it is reported once.
THEOREM TimingStartOfItsFrame == Spec => []StartOfItsFrame
<1>1. Init => Starting
  <2> SUFFICES ASSUME Init PROVE Starting
    OBVIOUS
  <2>1. Live = {}
    BY DEF Init, Live
  <2>2. DOMAIN starts = {} /\ DOMAIN e2e = {}
    BY DEF Init, Empty
  <2>3. QED
    BY <2>1, <2>2 DEF Starting, Recent, LastOfId, StartOfItsFrame
<1>2. Starting => StartOfItsFrame
  BY DEF Starting
<1>3. QED
  BY <1>1, <1>2, TypesInit, TypesStep, StartingStep, PTL DEF Spec
=============================================================================
