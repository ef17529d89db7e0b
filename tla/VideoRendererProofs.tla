------------------------ MODULE VideoRendererProofs ------------------------
(***************************************************************************)
(* For any number of frames, with or without PBOs: once clearVideoTrack    *)
(* has returned nothing of the old track is left in the item, whatever     *)
(* OnFrame was doing on the sink thread meanwhile; every draw samples      *)
(* planes of one frame unless staging failed for some of them; and the     *)
(* picture never goes back to an earlier frame.                            *)
(***************************************************************************)
EXTENDS VideoRenderer, FiniteSetTheorems, TLAPS

-----------------------------------------------------------------------------
(* What clearVideoTrack leaves.                                            *)

\* OnFrame runs only while the sink is attached to a track: RemoveSink waits.
SinkOfTrack == ~track => sink = "idle"

\* The two halves of clearVideoTrack: the track is gone in between.
ClearingHasNoTrack == gui = "clear" => ~track

\* NoFrameAfterClear needs both: an OnFrame that outlived RemoveSink would set
\* m_hasVideo after clearVideoTrack has reset it.
IInv == SinkOfTrack /\ ClearingHasNoTrack /\ NoFrameAfterClear

ItemSteps ==
  \/ OnFrameStore \/ OnFramePost \/ ClearState \/ Update \/ GeometryChange \/ Sync
  \/ RemoveSink \/ DeleteNode

\* The steps of the render node itself.
NodeSteps == RenderStep \/ ReleaseResources

\* render() and releaseResources change nothing of the item.
LEMMA NodeLeavesItem == NodeSteps => UNCHANGED item
<1>1. RenderOes \/ RenderAgain \/ ReleaseResources => UNCHANGED item
  BY DEF RenderOes, RenderAgain, ReleaseResources
<1>2. ASSUME NEW kind \in {"nv12", "i420"}, RenderStaged(kind) \/ RenderDirect(kind)
      PROVE  UNCHANGED item
  BY <1>2 DEF RenderStaged, RenderDirect
<1>3. ASSUME NEW kind \in {"i420", "oes"}, RenderFails(kind) PROVE UNCHANGED item
  BY <1>3 DEF RenderFails
<1>4. QED
  BY <1>1, <1>2, <1>3 DEF NodeSteps, RenderStep

\* A step is one that involves the item or one of the node alone.
LEMMA NextSteps == Next <=> ItemSteps \/ NodeSteps
  BY DEF Next, ItemSteps, NodeSteps

\* A new item has no track, no frame and no video.
LEMMA ClearInit == Init => IInv
  BY DEF Init, IInv, SinkOfTrack, ClearingHasNoTrack, NoFrameAfterClear

\* Every step keeps the invariant.
LEMMA ClearStep == IInv /\ [Next]_vars => IInv'
<1> SUFFICES ASSUME IInv, [Next]_vars PROVE IInv'
  OBVIOUS
<1> USE DEF IInv, SinkOfTrack, ClearingHasNoTrack, NoFrameAfterClear
<1>1. CASE OnFrameStore
  BY <1>1 DEF OnFrameStore
<1>2. CASE OnFramePost
  BY <1>2 DEF OnFramePost
<1>3. CASE RemoveSink
  BY <1>3 DEF RemoveSink
<1>4. CASE ClearState
  BY <1>4 DEF ClearState
<1>5. CASE Update
  BY <1>5 DEF Update
<1>6. CASE GeometryChange
  BY <1>6 DEF GeometryChange
<1>7. CASE Sync
  BY <1>7 DEF Sync, UpdatePaintNode, TakeFrame
<1>8. CASE DeleteNode
  BY <1>8 DEF DeleteNode
<1>9. CASE NodeSteps
  BY <1>9, NodeLeavesItem DEF item
<1>10. CASE UNCHANGED vars
  BY <1>10 DEF vars, item
<1>11. QED
  BY <1>1, <1>2, <1>3, <1>4, <1>5, <1>6, <1>7, <1>8, <1>9, <1>10, NextSteps
  DEF ItemSteps

\* After clearVideoTrack no frame of the old track is pending and m_hasVideo is
\* false until the next track is set.
THEOREM RendererNoFrameAfterClear == Spec => []NoFrameAfterClear
<1>1. IInv => NoFrameAfterClear
  BY DEF IInv
<1>2. QED
  BY ClearInit, ClearStep, <1>1, PTL DEF Spec
-----------------------------------------------------------------------------
(* What the render node holds and draws.                                   *)

Layouts == {"nv12", "i420"}

\* The frames in the node's textures and PBOs and in the last draw, ...
InNode == {tex[p] : p \in Planes} \cup {pbo[p] : p \in Planes} \cup {oes} \cup shown

\* ... and what the next draw samples, if the node has data.
Picture == IF path = "oes" THEN {oes} ELSE {tex[p] : p \in PlanesOf(path)}

NodeTyped ==
  /\ frames \in Nat /\ pending \in 0..frames /\ held \in 0..frames
  /\ InNode \subseteq 0..frames
  /\ tex \in [Planes -> Nat] /\ pbo \in [Planes -> Nat]
  /\ unsized \subseteq Planes /\ path \in Layouts \cup {"oes", "none"}
  /\ hasData \in BOOLEAN /\ torn \in BOOLEAN /\ supportsPbo \in BOOLEAN

\* A frame that waits is newer than what the node has, and the pending one is the
\* newest.
Newer ==
  /\ held # 0 => \A f \in InNode : f <= held
  /\ pending # 0 => \A f \in InNode \cup {held} : f <= pending

\* Only frame n is staged, and a plane with nothing staged has frame n already.
UpTo(n) ==
  \A p \in PlanesOf(path) : pbo[p] \in {0, n} /\ (pbo[p] = 0 => tex[p] \in {0, n})

\* What the next upload adds to is one frame, not older than what was drawn.
OneBehind ==
  path \in Layouts /\ (hasData \/ \E p \in PlanesOf(path) : pbo[p] # 0) =>
    \E n \in Nat : UpTo(n) /\ \A f \in shown : f <= n

\* A node with data has a frame in every plane, the same one unless staging
\* failed for some planes; only textures that were given back are empty.
Filled ==
  /\ path = "none" => ~hasData
  /\ path \in Layouts /\ hasData =>
       /\ \A p \in PlanesOf(path) : tex[p] = 0 => p \in unsized
       /\ ~torn => \E m \in Nat : \A p \in PlanesOf(path) : tex[p] \in {0, m}
  /\ \A p \in unsized : tex[p] = 0
  /\ ~supportsPbo => pbo = NoPlanes

\* The last draw: one frame, and what would be drawn again.
LastDraw ==
  /\ hasData => Picture \subseteq {0} \/ Picture = shown
  /\ 0 \in shown => unsized # {} \/ (path = "oes" /\ oes = 0)
  /\ ~torn => \E m \in Nat : shown \subseteq {0, m}

NodeInv == NodeTyped /\ Newer /\ OneBehind /\ Filled /\ LastDraw

\* The planes of a layout are planes.
LEMMA LayoutPlanes == \A k : PlanesOf(k) \subseteq Planes
  BY DEF PlanesOf, Planes

\* What a step of the render thread draws.
Drawing == shown' = IF ~hasData' THEN {} ELSE Picture'

\* Draw samples the textures of the layout.
LEMMA DrawIsDrawing == Draw => Drawing
  BY DEF Draw, Drawing, Picture

\* Steps that leave the textures alone: frames come, are taken or dropped, and
\* the node may lose its data.
LEMMA KeepsNode ==
  ASSUME NodeInv, UNCHANGED <<supportsPbo, path, pbo, tex, unsized, oes, torn, shown>>,
         hasData' \in BOOLEAN, hasData' => hasData,
         frames' \in Nat, frames <= frames', pending' \in 0..frames', held' \in 0..frames',
         Newer'
  PROVE  NodeInv'
<1>1. InNode' = InNode /\ Picture' = Picture
  BY DEF InNode, Picture
<1>2. NodeTyped'
  BY <1>1 DEF NodeInv, NodeTyped
<1>3. OneBehind'
  BY DEF NodeInv, OneBehind, UpTo
<1>4. Filled'
  BY DEF NodeInv, Filled
<1>5. LastDraw'
  BY <1>1 DEF NodeInv, LastDraw
<1>6. QED
  BY <1>2, <1>3, <1>4, <1>5 DEF NodeInv

\* The frames in the node after an upload: those that were there and the new one.
Uploads ==
  /\ Drawing
  /\ held' = 0 /\ frames' = frames /\ pending' = pending
  /\ tex' \in [Planes -> Nat] /\ pbo' \in [Planes -> Nat]
  /\ \A p \in Planes : tex'[p] \in {0, held, tex[p], pbo[p]} /\ pbo'[p] \in {0, held, pbo[p]}
  /\ oes' \in {0, held, oes}
  /\ unsized' \subseteq Planes /\ path' \in Layouts \cup {"oes"}
  /\ hasData' \in BOOLEAN /\ torn' \in BOOLEAN /\ supportsPbo' = supportsPbo

\* Types and ages after an upload.
LEMMA UploadsFrames ==
  ASSUME NodeTyped, Newer, Uploads, held # 0
  PROVE  NodeTyped' /\ Newer' /\ \A f \in InNode' : f <= held
<1>1. /\ \A p \in Planes : {tex[p], pbo[p]} \subseteq InNode
      /\ oes \in InNode /\ shown \subseteq InNode
  BY DEF InNode
<1>2. shown' \subseteq {tex'[p] : p \in Planes} \cup {oes'}
  BY LayoutPlanes DEF Uploads, Drawing, Picture
<1>3. InNode' \subseteq InNode \cup {0, held}
  <2>1. \A p \in Planes : tex'[p] \in InNode \cup {0, held} /\ pbo'[p] \in InNode \cup {0, held}
    BY <1>1 DEF Uploads
  <2>2. oes' \in InNode \cup {0, held}
    BY <1>1 DEF Uploads
  <2>3. QED
    BY <1>2, <2>1, <2>2 DEF InNode
<1>4. InNode \subseteq 0..frames /\ held \in 0..frames /\ frames \in Nat
  BY DEF NodeTyped
<1>5. InNode' \subseteq 0..frames
  BY <1>3, <1>4
<1>6. NodeTyped'
  BY <1>5 DEF NodeTyped, Uploads
<1>7. \A f \in InNode' : f <= held
  BY <1>3, <1>4 DEF Newer
<1>8. Newer'
  BY <1>3, <1>4 DEF Newer, Uploads, NodeTyped
<1>9. QED
  BY <1>6, <1>7, <1>8

\* A draw of a node whose planes are filled samples one frame.
LEMMA DrawsOne ==
  ASSUME Drawing, NodeTyped', Filled'
  PROVE  LastDraw'
<1>1. CASE ~hasData'
  BY <1>1 DEF Drawing, LastDraw
<1>2. CASE hasData' /\ path' = "oes"
  <2>1. shown' = {oes'} /\ Picture' = shown' /\ oes' \in Nat
    BY <1>2 DEF Drawing, Picture, NodeTyped, InNode
  <2>2. QED
    BY <1>2, <2>1 DEF LastDraw
<1>3. CASE hasData' /\ path' # "oes"
  <2>1. path' \in Layouts
    BY <1>3 DEF NodeTyped, Filled
  <2>2. shown' = {tex'[p] : p \in PlanesOf(path')} /\ Picture' = shown'
    BY <1>3 DEF Drawing, Picture
  <2>3. 0 \in shown' => unsized' # {}
    BY <1>3, <2>1, <2>2 DEF Filled
  <2>4. ~torn' => \E m \in Nat : shown' \subseteq {0, m}
    BY <1>3, <2>1, <2>2 DEF Filled
  <2>5. QED
    BY <2>2, <2>3, <2>4 DEF LastDraw
<1>4. QED
  BY <1>1, <1>2, <1>3

\* Nothing drawn in the next state is older than anything drawn before.
NotOlder == \A f \in Drawn, g \in Drawn' : f <= g

\* An upload that the layout's planes survive: the node stays in order.
LEMMA UploadsKeep ==
  ASSUME NodeInv, Uploads, held # 0, OneBehind', Filled'
  PROVE  NodeInv'
  BY UploadsFrames, DrawsOne DEF NodeInv, Uploads

\* An external texture: what was staged for another layout is dropped.
LEMMA OesStep == ASSUME NodeInv, RenderOes PROVE NodeInv' /\ NotOlder
<1>1. Drawing /\ held # 0 /\ held \in Nat
  BY DrawIsDrawing DEF RenderOes, NodeInv, NodeTyped
<1>2. Uploads
  BY <1>1 DEF RenderOes, Uploads, item, NoPlanes, NodeInv, NodeTyped, Layouts
<1>3. OneBehind' /\ Filled'
  BY <1>1 DEF RenderOes, OneBehind, Filled, NodeInv, NoPlanes, Layouts
<1>4. shown' = {held}
  BY <1>1 DEF RenderOes, Drawing, Picture
<1>5. NotOlder
  BY <1>1, <1>4 DEF NotOlder, Drawn, NodeInv, Newer, InNode
<1>6. QED
  BY <1>1, <1>2, <1>3, <1>5, UploadsKeep

\* A frame that cannot be uploaded: the node draws nothing.
LEMMA FailsStep ==
  ASSUME NodeInv, NEW kind \in {"i420", "oes"}, RenderFails(kind)
  PROVE  NodeInv' /\ NotOlder
<1>1. Drawing /\ held # 0 /\ held \in Nat /\ shown' = {}
  BY DrawIsDrawing DEF RenderFails, NodeInv, NodeTyped, Drawing
<1>2. pbo' = (IF path = kind THEN pbo ELSE NoPlanes) /\ path' = kind /\ tex' = tex
      /\ ~hasData' /\ unsized' = unsized /\ supportsPbo' = supportsPbo
  BY DEF RenderFails, Staged
<1>3. Uploads
  <2>1. pbo' \in [Planes -> Nat] /\ \A p \in Planes : pbo'[p] \in {0, pbo[p]}
    BY <1>2 DEF NoPlanes, NodeInv, NodeTyped
  <2>2. tex \in [Planes -> Nat] /\ unsized \subseteq Planes
    BY DEF NodeInv, NodeTyped
  <2>3. QED
    BY <1>1, <1>2, <2>1, <2>2 DEF RenderFails, Uploads, item, Layouts
<1>4. Filled'
  BY <1>2 DEF Filled, NodeInv, NoPlanes
<1>5. OneBehind'
  <2>1. CASE path = kind
    <3>1. (path \in Layouts /\ \E p \in PlanesOf(path) : pbo[p] # 0) =>
            \E n \in Nat : UpTo(n)
      BY DEF NodeInv, OneBehind
    <3>2. \A n : UpTo(n) => UpTo(n)'
      BY <1>2, <2>1 DEF UpTo
    <3>3. QED
      BY <1>1, <1>2, <2>1, <3>1, <3>2 DEF OneBehind
  <2>2. CASE path # kind
    BY <1>2, <2>2, LayoutPlanes DEF OneBehind, NoPlanes
  <2>3. QED
    BY <2>1, <2>2
<1>6. NotOlder
  BY <1>1 DEF NotOlder, Drawn
<1>7. QED
  BY <1>1, <1>3, <1>4, <1>5, <1>6, UploadsKeep

\* A direct upload brings every plane to the new frame.
LEMMA DirectStep ==
  ASSUME NodeInv, NEW kind \in Layouts, RenderDirect(kind)
  PROVE  NodeInv' /\ NotOlder
<1>1. Drawing /\ held # 0 /\ held \in Nat
  BY DrawIsDrawing DEF RenderDirect, NodeInv, NodeTyped
<1>2. pbo = NoPlanes /\ pbo' = NoPlanes /\ path' = kind /\ hasData' /\ ~torn'
      /\ supportsPbo' = supportsPbo /\ oes' = 0
  BY DEF RenderDirect, Staged, NodeInv, Filled
<1>3. /\ unsized' \subseteq unsized
      /\ tex' = [p \in Planes |-> IF p \in PlanesOf(kind) \ unsized' THEN held ELSE tex[p]]
  BY DEF RenderDirect
<1>4. \A p \in Planes : tex'[p] = IF p \in PlanesOf(kind) \ unsized' THEN held ELSE tex[p]
  BY <1>3
<1>5. \A p \in unsized : tex[p] = 0
  BY DEF NodeInv, Filled
<1>6. Uploads
  <2>1. tex' \in [Planes -> Nat] /\ unsized' \subseteq Planes
    BY <1>1, <1>3 DEF NodeInv, NodeTyped
  <2>2. pbo' \in [Planes -> Nat]
    BY <1>2 DEF NoPlanes
  <2>3. \A p \in Planes : tex'[p] \in {0, held, tex[p], pbo[p]} /\ pbo'[p] \in {0, held, pbo[p]}
    BY <1>2, <1>4 DEF NoPlanes
  <2>4. QED
    BY <1>1, <1>2, <2>1, <2>2, <2>3 DEF RenderDirect, Uploads, item
<1>7. \A p \in PlanesOf(kind) : tex'[p] = IF p \in unsized' THEN 0 ELSE held
  BY <1>3, <1>4, <1>5, LayoutPlanes
<1>8. Filled'
  <2>1. \A p \in unsized' : tex'[p] = 0
    BY <1>3, <1>4, <1>5 DEF NodeInv, NodeTyped
  <2>2. QED
    BY <1>1, <1>2, <1>7, <2>1 DEF Filled, Layouts
<1>9. shown' \subseteq {0, held}
  BY <1>1, <1>2, <1>7 DEF Drawing, Picture, Layouts
<1>10. OneBehind'
  <2>1. PICK n \in Nat : n = held
    BY <1>1
  <2>2. UpTo(n)'
    BY <1>2, <1>7, <2>1, LayoutPlanes DEF UpTo, NoPlanes
  <2>3. \A f \in shown' : f <= n
    BY <1>9, <2>1
  <2>4. QED
    BY <2>2, <2>3 DEF OneBehind
<1>11. NotOlder
  BY <1>1, <1>9 DEF NotOlder, Drawn, NodeInv, Newer, InNode
<1>12. QED
  BY <1>1, <1>6, <1>8, <1>10, <1>11, UploadsKeep

\* An upload with PBOs: what was staged reaches its texture, and the new frame is
\* staged or, where that fails, uploaded at once.
LEMMA StagedStep ==
  ASSUME NodeInv, NEW kind \in Layouts, RenderStaged(kind)
  PROVE  NodeInv' /\ NotOlder
<1> DEFINE planes == PlanesOf(kind)
           had == Staged(kind)
<1>1. Drawing /\ held # 0 /\ held \in Nat
  BY DrawIsDrawing DEF RenderStaged, NodeInv, NodeTyped
<1>2. PICK fail \in SUBSET planes :
      \E resized \in SUBSET {p \in planes \cap unsized : Uploaded(kind, p, fail)} :
           /\ torn' = (fail \notin {{}, planes})
           /\ tex' = [p \in Planes |-> IF p \in planes
                                       THEN TextureAfter(kind, p, fail, resized) ELSE tex[p]]
           /\ unsized' = unsized \ resized
           /\ pbo' = [p \in Planes |-> IF p \in planes THEN StagedAfter(p, fail)
                                       ELSE had[p]]
           /\ valid' = \A p \in planes : Uploaded(kind, p, fail)
           /\ hasData' = (HadData(kind) \/ valid')
  BY DEF RenderStaged
<1>3. PICK resized \in SUBSET {p \in planes \cap unsized : Uploaded(kind, p, fail)} :
           /\ torn' = (fail \notin {{}, planes})
           /\ tex' = [p \in Planes |-> IF p \in planes
                                       THEN TextureAfter(kind, p, fail, resized) ELSE tex[p]]
           /\ unsized' = unsized \ resized
           /\ pbo' = [p \in Planes |-> IF p \in planes THEN StagedAfter(p, fail)
                                       ELSE had[p]]
           /\ valid' = \A p \in planes : Uploaded(kind, p, fail)
           /\ hasData' = (HadData(kind) \/ valid')
  BY <1>2
<1>4. /\ path' = kind /\ held' = 0 /\ oes' = 0 /\ supportsPbo /\ supportsPbo' = supportsPbo
      /\ frames' = frames /\ pending' = pending
  BY DEF RenderStaged, item
<1>5. planes \subseteq Planes /\ unsized \subseteq Planes
      /\ tex \in [Planes -> Nat] /\ pbo \in [Planes -> Nat]
  BY LayoutPlanes DEF NodeInv, NodeTyped
<1>6. /\ had \in [Planes -> Nat] /\ \A p \in Planes : had[p] \in {0, pbo[p]}
      /\ path # kind => \A p \in Planes : had[p] = 0
      /\ path = kind => had = pbo
  BY <1>5 DEF Staged, NoPlanes
<1>7. \A p \in unsized : tex[p] = 0
  BY DEF NodeInv, Filled
\* The planes of the layout, one by one, and the others.
<1>8. \A p \in planes :
        /\ pbo'[p] = IF p \in fail THEN 0 ELSE held
        /\ p \in unsized' => tex'[p] = 0
        /\ p \notin unsized' => tex'[p] = IF p \in fail THEN held
                                          ELSE IF had[p] # 0 THEN had[p] ELSE tex[p]
  <2> SUFFICES ASSUME NEW p \in planes
               PROVE  /\ pbo'[p] = IF p \in fail THEN 0 ELSE held
                      /\ p \in unsized' => tex'[p] = 0
                      /\ p \notin unsized' => tex'[p] = IF p \in fail THEN held
                                                 ELSE IF had[p] # 0 THEN had[p] ELSE tex[p]
    OBVIOUS
  <2>1. p \in Planes /\ pbo'[p] = StagedAfter(p, fail) /\ tex'[p] = TextureAfter(kind, p, fail, resized)
    BY <1>3, <1>5
  <2>2. p \in resized => Uploaded(kind, p, fail)
    BY <1>3
  <2>3. p \in unsized' <=> p \in unsized \ resized
    BY <1>3
  <2>4. TextureAfter(kind, p, fail, resized) =
          IF ~(p \in fail \/ had[p] # 0) \/ p \in unsized \ resized THEN tex[p]
          ELSE IF p \in fail THEN held ELSE had[p]
    BY DEF TextureAfter, Uploaded
  <2>5. p \in unsized => tex[p] = 0
    BY <1>7
  <2>6. QED
    BY <2>1, <2>2, <2>3, <2>4, <2>5 DEF StagedAfter, Uploaded
<1>9. \A p \in Planes \ planes : tex'[p] = tex[p] /\ pbo'[p] = had[p]
  BY <1>3
<1>10. hasData' => (path = kind /\ hasData) \/ \A p \in planes : p \in fail \/ had[p] # 0
  BY <1>3 DEF HadData, Uploaded
<1>11. unsized' \subseteq unsized /\ fail \subseteq planes
       /\ (~torn' => fail = {} \/ fail = planes) /\ torn' \in BOOLEAN
  BY <1>2, <1>3
<1>12. hasData' \in BOOLEAN
  BY <1>3 DEF HadData
<1> HIDE DEF planes, had
<1>13. Uploads
  <2>1. \A p \in Planes : tex'[p] \in {0, held, tex[p], pbo[p]} /\ pbo'[p] \in {0, held, pbo[p]}
    BY <1>6, <1>8, <1>9
  <2>2. tex' = [p \in Planes |-> tex'[p]] /\ pbo' = [p \in Planes |-> pbo'[p]]
    BY <1>3
  <2>3. tex' \in [Planes -> Nat] /\ pbo' \in [Planes -> Nat]
    BY <1>1, <1>5, <2>1, <2>2
  <2>4. unsized' \subseteq Planes
    BY <1>5, <1>11
  <2>5. QED
    BY <1>1, <1>4, <1>11, <1>12, <2>1, <2>3, <2>4 DEF Uploads
\* The frame that the planes had before, if the node draws them now.
<1>14. PICK n \in Nat :
         /\ \A f \in shown : f <= n
         /\ hasData' => \A p \in planes : had[p] \in {0, n}
                                          /\ (had[p] = 0 /\ p \notin fail => tex[p] \in {0, n})
  <2>1. CASE path = kind /\ (hasData \/ \E p \in planes : pbo[p] # 0)
    <3>1. path \in Layouts /\ planes = PlanesOf(path)
      BY <2>1 DEF planes
    <3>2. PICK n \in Nat : UpTo(n) /\ \A f \in shown : f <= n
      BY <2>1, <3>1 DEF NodeInv, OneBehind
    <3>3. QED
      BY <1>6, <2>1, <3>1, <3>2 DEF UpTo
  <2>2. CASE ~(path = kind /\ (hasData \/ \E p \in planes : pbo[p] # 0))
    <3>1. \A p \in planes : had[p] = 0
      BY <1>5, <1>6, <2>2
    <3>2. hasData' => \A p \in planes : p \in fail
      BY <1>10, <2>2, <3>1
    <3>3. \A f \in shown : f <= held
      BY <1>1 DEF NodeInv, Newer, InNode
    <3>4. QED
      BY <1>1, <3>1, <3>2, <3>3
  <2>3. QED
    BY <2>1, <2>2
<1>15. hasData' => \A p \in planes : tex'[p] \in {0, n, held}
  BY <1>8, <1>14
<1>16. hasData' => \A p \in planes : tex'[p] = 0 => p \in unsized'
  <2>1. path = kind /\ hasData => \A p \in planes : tex[p] = 0 => p \in unsized
    BY DEF NodeInv, Filled, planes
  <2>2. \A p \in planes \cap unsized : p \notin unsized' => p \in fail \/ had[p] # 0
    BY <1>3 DEF Uploaded, had
  <2>3. QED
    BY <1>1, <1>8, <1>10, <2>1, <2>2
<1>17. hasData' /\ ~torn' => \E m \in Nat : \A p \in planes : tex'[p] \in {0, m}
  <2>1. CASE fail = {}
    BY <1>8, <1>14, <2>1
  <2>2. CASE fail = planes
    BY <1>1, <1>8, <2>2
  <2>3. QED
    BY <1>11, <2>1, <2>2
<1>18. Filled'
  <2>1. \A p \in unsized' : tex'[p] = 0
    BY <1>5, <1>7, <1>8, <1>9, <1>11
  <2>2. planes = PlanesOf(path')
    BY <1>4 DEF planes
  <2>3. path' # "none"
    BY <1>4 DEF Layouts
  <2>4. QED
    BY <1>4, <1>16, <1>17, <2>1, <2>2, <2>3 DEF Filled
<1>19. \A f \in shown' : f <= held
  BY <1>1, <1>13, UploadsFrames DEF NodeInv, InNode
<1>20. OneBehind'
  <2>1. PICK h \in Nat : h = held
    BY <1>1
  <2>2. UpTo(h)'
    <3>1. \A p \in planes : pbo'[p] \in {0, h} /\ (pbo'[p] = 0 => tex'[p] \in {0, h})
      BY <1>1, <1>8, <2>1
    <3>2. PlanesOf(path') = planes
      BY <1>4 DEF planes
    <3>3. QED
      BY <3>1, <3>2 DEF UpTo
  <2>3. \A f \in shown' : f <= h
    BY <1>19, <2>1
  <2>4. QED
    BY <2>2, <2>3 DEF OneBehind
<1>21. NotOlder
  <2>1. shown' \subseteq {0, n, held}
    <3>1. hasData' => shown' = {tex'[p] : p \in planes}
      BY <1>1, <1>4 DEF Drawing, Picture, Layouts, planes
    <3>2. ~hasData' => shown' = {}
      BY <1>1 DEF Drawing
    <3>3. QED
      BY <1>15, <3>1, <3>2
  <2>2. \A f \in shown : f <= held
    BY <1>1 DEF NodeInv, Newer, InNode
  <2>3. QED
    BY <1>14, <2>1, <2>2 DEF NotOlder, Drawn
<1>22. QED
  BY <1>1, <1>13, <1>18, <1>20, <1>21, UploadsKeep

\* Drawing the textures again draws the same frames, or none when they were given
\* back.
LEMMA AgainStep ==
  ASSUME NodeInv, RenderAgain
  PROVE  NodeInv' /\ (Drawn' = {} \/ Drawn' = Drawn)
<1>1. Drawing /\ UNCHANGED <<item, node>>
  BY DrawIsDrawing DEF RenderAgain
<1>2. UNCHANGED <<supportsPbo, path, pbo, tex, unsized, oes, torn, hasData, frames, pending, held>>
  BY <1>1 DEF item, node
<1>3. Picture' = Picture /\ Filled' /\ frames \in Nat
  BY <1>2 DEF Picture, Filled, NodeInv, NodeTyped
<1>4. hasData => Picture \subseteq {0} \/ Picture = shown
  BY DEF NodeInv, LastDraw
<1>5. shown' \subseteq {0} \/ shown' = shown
  BY <1>1, <1>2, <1>3, <1>4 DEF Drawing
<1>6. InNode' \subseteq InNode \cup {0}
  BY <1>2, <1>5 DEF InNode
<1>7. NodeTyped'
  BY <1>2, <1>6 DEF NodeInv, NodeTyped
<1>8. Newer'
  BY <1>2, <1>6 DEF NodeInv, NodeTyped, Newer
<1>9. OneBehind'
  <2>1. \A n : UpTo(n) => UpTo(n)'
    BY <1>2 DEF UpTo
  <2>2. \A n \in Nat : (\A f \in shown : f <= n) => \A f \in shown' : f <= n
    BY <1>5
  <2>3. QED
    BY <1>2, <2>1, <2>2 DEF OneBehind, NodeInv
<1>10. LastDraw'
  BY <1>1, <1>3, <1>7, DrawsOne
<1>11. QED
  BY <1>3, <1>5, <1>7, <1>8, <1>9, <1>10 DEF NodeInv, Drawn

\* Textures and PBOs are given back: there is nothing left to draw.
LEMMA ReleaseStep == ASSUME NodeInv, ReleaseResources PROVE NodeInv'
<1>1. /\ tex' = NoPlanes /\ pbo' = NoPlanes /\ oes' = 0
      /\ unsized' = unsized \cup {p \in Planes : tex[p] # 0}
      /\ UNCHANGED <<supportsPbo, path, torn, hasData, frames, pending, held, shown>>
  BY DEF ReleaseResources, item
<1>2. \A p \in Planes : tex'[p] = 0 /\ pbo'[p] = 0
  BY <1>1 DEF NoPlanes
<1>3. InNode' \subseteq InNode \cup {0}
  BY <1>1, <1>2 DEF InNode
<1>4. NodeTyped'
  BY <1>1, <1>3 DEF NodeInv, NodeTyped, NoPlanes
<1>5. Newer'
  BY <1>1, <1>3 DEF NodeInv, NodeTyped, Newer
<1>6. OneBehind'
  <2>1. \A n : UpTo(n)'
    BY <1>1, <1>2, LayoutPlanes DEF UpTo
  <2>2. path' \in Layouts /\ hasData' => \E n \in Nat : \A f \in shown' : f <= n
    BY <1>1 DEF NodeInv, OneBehind
  <2>3. \A p \in PlanesOf(path') : pbo'[p] = 0
    BY <1>2, LayoutPlanes
  <2>4. QED
    BY <2>1, <2>2, <2>3 DEF OneBehind
<1>7. Filled'
  <2>1. path' \in Layouts /\ hasData' => PlanesOf(path') \subseteq unsized'
    BY <1>1, LayoutPlanes DEF NodeInv, Filled
  <2>2. \A p \in unsized' : tex'[p] = 0
    BY <1>2, <1>4 DEF NodeTyped
  <2>3. \A p \in PlanesOf(path') : tex'[p] \in {0, 0}
    BY <1>2, LayoutPlanes
  <2>4. QED
    BY <1>1, <2>1, <2>2, <2>3 DEF NodeInv, Filled
<1>8. LastDraw'
  <2>1. Picture' \subseteq {0}
    BY <1>1, <1>2, LayoutPlanes DEF Picture
  <2>2. QED
    BY <1>1, <2>1 DEF NodeInv, LastDraw
<1>9. QED
  BY <1>4, <1>5, <1>6, <1>7, <1>8 DEF NodeInv

\* A new node is empty.
LEMMA DeleteStep == ASSUME NodeInv, DeleteNode PROVE NodeInv' /\ Drawn' = {}
<1>1. /\ tex' = NoPlanes /\ pbo' = NoPlanes /\ oes' = 0 /\ unsized' = {}
      /\ held' = 0 /\ ~hasData' /\ path' = "none" /\ ~torn' /\ shown' = {}
      /\ UNCHANGED <<supportsPbo, frames, pending>>
      /\ hasData' \in BOOLEAN /\ torn' \in BOOLEAN
  BY DEF DeleteNode
<1>2. InNode' = {0}
  <2>1. \A p \in Planes : tex'[p] = 0 /\ pbo'[p] = 0
    BY <1>1 DEF NoPlanes
  <2>2. QED
    BY <1>1, <2>1 DEF InNode
<1>3. NodeTyped' /\ Newer'
  BY <1>1, <1>2 DEF NodeInv, NodeTyped, Newer, NoPlanes
<1>4. OneBehind' /\ Filled' /\ LastDraw'
  BY <1>1 DEF OneBehind, Filled, LastDraw, Layouts
<1>5. QED
  BY <1>1, <1>3, <1>4 DEF NodeInv, Drawn

\* The frames that wait are handed on to the node.
LEMMA SyncStep == ASSUME NodeInv, Sync PROVE NodeInv' /\ shown' = shown
<1>1. /\ UNCHANGED <<supportsPbo, path, pbo, tex, unsized, oes, torn, shown, frames>>
      /\ hasData' = hasData \/ hasData' = (hasData /\ hasVideo)
      /\ \/ pending # 0 /\ held' = pending /\ pending' = 0
         \/ pending' = pending /\ held' \in {0, held}
  BY DEF Sync, TakeFrame
<1>2. hasData' \in BOOLEAN /\ (hasData' => hasData)
  <2>1. hasData \in BOOLEAN
    BY DEF NodeInv, NodeTyped
  <2>2. CASE hasData' = hasData
    BY <2>1, <2>2
  <2>3. CASE hasData' = (hasData /\ hasVideo)
    BY <2>3
  <2>4. QED
    BY <1>1, <2>2, <2>3
<1>3. InNode' = InNode
  BY <1>1 DEF InNode
<1>4. pending' \in 0..frames' /\ held' \in 0..frames' /\ frames' \in Nat /\ frames <= frames'
  BY <1>1 DEF NodeInv, NodeTyped
<1>5. Newer'
  BY <1>1, <1>3 DEF NodeInv, NodeTyped, Newer
<1>6. QED
  BY <1>1, <1>2, <1>4, <1>5, KeepsNode

\* The item changes: a frame comes or goes.
LEMMA ItemStep ==
  ASSUME NodeInv, OnFrameStore \/ OnFramePost \/ RemoveSink \/ ClearState \/ Update \/ GeometryChange
  PROVE  NodeInv' /\ shown' = shown
<1>1. /\ UNCHANGED <<supportsPbo, held, hasData, path, pbo, tex, unsized, oes, torn, shown>>
      /\ \/ frames' = frames + 1 /\ pending' = frames + 1
         \/ frames' = frames /\ pending' \in {0, pending}
  BY DEF OnFrameStore, OnFramePost, RemoveSink, ClearState, Update, GeometryChange, node
<1>2. InNode' = InNode
  BY <1>1 DEF InNode
<1>3. /\ frames' \in Nat /\ frames <= frames' /\ pending' \in 0..frames' /\ held' \in 0..frames'
      /\ hasData' \in BOOLEAN /\ (hasData' => hasData)
  BY <1>1 DEF NodeInv, NodeTyped
<1>4. Newer'
  BY <1>1, <1>2 DEF NodeInv, NodeTyped, Newer
<1>5. QED
  BY <1>1, <1>3, <1>4, KeepsNode

\* The node starts empty.
LEMMA NodeInit == Init => NodeInv
<1> SUFFICES ASSUME Init PROVE NodeInv
  OBVIOUS
<1>1. InNode = {0}
  <2>1. \A p \in Planes : tex[p] = 0 /\ pbo[p] = 0
    BY DEF Init, NoPlanes
  <2>2. QED
    BY <2>1 DEF Init, InNode
<1>2. NodeTyped
  <2>1. tex \in [Planes -> Nat] /\ pbo \in [Planes -> Nat]
    BY DEF Init, NoPlanes
  <2>2. hasData \in BOOLEAN /\ torn \in BOOLEAN /\ supportsPbo \in BOOLEAN
    BY Zenon DEF Init
  <2>3. QED
    BY <1>1, <2>1, <2>2 DEF Init, NodeTyped
<1>3. Newer /\ OneBehind /\ Filled /\ LastDraw
  BY DEF Init, Newer, OneBehind, Filled, LastDraw, Layouts
<1>4. QED
  BY <1>2, <1>3 DEF NodeInv

\* Every step keeps the invariant, and draws nothing older than what was drawn.
LEMMA NodeStep ==
  ASSUME NodeInv, [Next]_vars
  PROVE  NodeInv' /\ (NotOlder \/ Drawn' = {} \/ Drawn' = Drawn)
<1>1. CASE RenderOes
  BY <1>1, OesStep
<1>2. CASE RenderAgain
  BY <1>2, AgainStep
<1>3. ASSUME NEW kind \in Layouts, RenderStaged(kind) \/ RenderDirect(kind)
      PROVE  NodeInv' /\ NotOlder
  BY <1>3, StagedStep, DirectStep
<1>4. ASSUME NEW kind \in {"i420", "oes"}, RenderFails(kind)
      PROVE  NodeInv' /\ NotOlder
  BY <1>4, FailsStep
<1>5. CASE ReleaseResources
  BY <1>5, ReleaseStep DEF ReleaseResources, Drawn
<1>6. CASE DeleteNode
  BY <1>6, DeleteStep
<1>7. CASE Sync
  BY <1>7, SyncStep DEF Drawn
<1>8. CASE OnFrameStore \/ OnFramePost \/ RemoveSink \/ ClearState \/ Update \/ GeometryChange
  BY <1>8, ItemStep DEF Drawn
<1>9. CASE UNCHANGED vars
  <2>1. UNCHANGED <<supportsPbo, held, hasData, path, pbo, tex, unsized, oes, torn, shown,
                    frames, pending>>
    BY <1>9 DEF vars, item, node
  <2>2. Newer' /\ frames \in Nat /\ pending \in 0..frames /\ held \in 0..frames
        /\ hasData \in BOOLEAN
    BY <2>1 DEF NodeInv, NodeTyped, Newer, InNode
  <2>3. QED
    BY <2>1, <2>2, KeepsNode DEF Drawn
<1>10. QED
  BY <1>1, <1>2, <1>3, <1>4, <1>5, <1>6, <1>7, <1>8, <1>9
  DEF Next, RenderStep, Layouts

\* Every draw samples planes of one frame, unless staging failed for some of them,
\* and an empty texture only after the node gave its textures back.
THEOREM RendererPlanesMatch == Spec => []PlanesMatch
<1>1. NodeInv => PlanesMatch
  <2> SUFFICES ASSUME NodeInv PROVE PlanesMatch
    OBVIOUS
  <2>1. 0 \in shown => unsized # {} \/ (path = "oes" /\ oes = 0)
    BY DEF NodeInv, LastDraw
  <2>2. ASSUME ~torn PROVE Cardinality(Drawn) <= 1
    <3>1. PICK m \in Nat : shown \subseteq {0, m}
      BY <2>2 DEF NodeInv, LastDraw
    <3>2. Drawn \subseteq {m}
      BY <3>1 DEF Drawn
    <3>3. IsFiniteSet({m}) /\ Cardinality({m}) = 1
      BY FS_Singleton
    <3>4. QED
      BY <3>2, <3>3, FS_Subset
  <2>3. QED
    BY <2>1, <2>2 DEF PlanesMatch
<1>2. QED
  BY NodeInit, NodeStep, <1>1, PTL DEF Spec

\* The picture never goes back to an earlier frame.
THEOREM RendererNeverBackwards == Spec => NeverBackwards
<1>1. ASSUME NodeInv, [Next]_vars
      PROVE  [Drawn # {} /\ Drawn' # {} =>
               /\ \A g \in Drawn' : \E f \in Drawn : f <= g
               /\ \A f \in Drawn : \E g \in Drawn' : f <= g]_vars
  <2> SUFFICES ASSUME Drawn # {}, Drawn' # {}
               PROVE  /\ \A g \in Drawn' : \E f \in Drawn : f <= g
                      /\ \A f \in Drawn : \E g \in Drawn' : f <= g
    OBVIOUS
  <2>1. CASE NotOlder
    BY <2>1 DEF NotOlder
  <2>2. CASE Drawn' = Drawn
    <3>1. Drawn \subseteq Nat
      BY <1>1 DEF NodeInv, NodeTyped, InNode, Drawn
    <3>2. QED
      BY <2>2, <3>1
  <2>3. QED
    BY <1>1, <2>1, <2>2, NodeStep
<1>2. QED
  BY NodeInit, NodeStep, <1>1, PTL DEF Spec, NeverBackwards
=============================================================================
