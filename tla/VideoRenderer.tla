--------------------------- MODULE VideoRenderer ---------------------------
(***************************************************************************)
(* The video item and its render node (src/webrtc_video_renderer.cpp).     *)
(* Three threads: WebRTC's sink thread calls OnFrame, the GUI thread sets  *)
(* and clears the track and handles the posted update(), the render thread *)
(* synchronises with the item (the GUI thread is blocked meanwhile) and    *)
(* renders.  m_frameMutex makes the exchange of the pending frame atomic.  *)
(* RemoveSink (external) returns when no OnFrame of this sink is running.  *)
(*                                                                         *)
(* A frame is its number, 0 is none; the layout of its buffer (its kind)   *)
(* matters to nothing before the upload and is chosen there.               *)
(* With pixel unpack buffers (PBOs) a plane is staged when its frame is    *)
(* rendered and reaches its texture when the next frame is.  The scene     *)
(* graph may have the node give its GL objects back, or delete the node.   *)
(***************************************************************************)
EXTENDS Naturals, FiniteSets

CONSTANT MaxFrames     \* bound: frames the sink is given

ASSUME RendererAssumption == MaxFrames \in Nat

Planes == {"Y", "U", "V", "UV"}
PlanesOf(k) == IF k = "nv12" THEN {"Y", "UV"} ELSE {"Y", "U", "V"}

VARIABLES
  track,    \* m_track is set; which one it is makes no difference
  gui,      \* what the GUI thread is in the middle of
  sink,     \* what the sink thread is in the middle of
  frames,   \* frames given to OnFrame so far
  pending,  \* m_pendingBuffer
  hasVideo, \* m_hasVideo
  posted,   \* a call of update() is posted to the GUI thread
  dirty,    \* update() has been called since the last synchronisation
  supportsPbo, \* m_supportsPixelUnpackBuffer
  held,     \* m_heldBuffer with m_pendingUpload
  hasData,  \* m_hasData
  path,     \* m_lastUploadPath: "nv12", "i420", "oes" or "none"
  pbo,      \* pbo[p]: the frame staged for plane p
  tex,      \* tex[p]: the frame in the texture of plane p
  unsized,  \* planes whose texture has no storage though m_planeCache* says so
  oes,      \* the frame of the external texture while m_frameIsOes, else 0
  trace,    \* m_glQueueTraceFrameId while m_haveGlFrameTrace, else 0
  valid,    \* m_uploadStatsValidForLastFrame
  torn,     \* the last upload staged some planes and uploaded others directly
  shown     \* the frames whose planes the last draw sampled

item == <<track, gui, sink, frames, pending, hasVideo, posted, dirty>>
node == <<supportsPbo, held, hasData, path, pbo, tex, unsized, oes, trace,
          valid, torn>>
vars == <<item, node, shown>>

NoPlanes == [p \in Planes |-> 0]

Init ==
  /\ track = FALSE /\ gui = "idle"
  /\ sink = "idle" /\ frames = 0 /\ pending = 0
  /\ hasVideo = FALSE /\ posted = FALSE /\ dirty = FALSE
  /\ supportsPbo \in BOOLEAN
  /\ held = 0 /\ hasData = FALSE /\ path = "none"
  /\ pbo = NoPlanes /\ tex = NoPlanes /\ unsized = {} /\ oes = 0
  /\ trace = 0 /\ valid = FALSE /\ torn = FALSE
  /\ shown = {}

-----------------------------------------------------------------------------
(* The sink thread.                                                        *)

\* OnFrame under m_frameMutex: the newest frame replaces an untaken one.
OnFrameStore ==
  /\ track /\ sink = "idle" /\ frames < MaxFrames
  /\ frames' = frames + 1
  /\ pending' = frames + 1
  /\ sink' = "stored"
  /\ UNCHANGED <<track, gui, hasVideo, posted, dirty, node, shown>>

\* Mutated OnFramePost: update() is posted for the first frame only.
OnFramePost_FirstOnly ==
  /\ sink = "stored"
  /\ hasVideo' = TRUE
  /\ posted' = (posted \/ ~hasVideo)
  /\ sink' = "idle"
  /\ UNCHANGED <<track, gui, frames, pending, dirty, node, shown>>

\* The rest of OnFrame.
OnFramePost ==
  /\ sink = "stored"
  /\ hasVideo' = TRUE
  /\ posted' = TRUE
  /\ sink' = "idle"
  /\ UNCHANGED <<track, gui, frames, pending, dirty, node, shown>>

-----------------------------------------------------------------------------
(* The GUI thread.                                                         *)

\* Mutated RemoveSink: a running OnFrame is not waited for.
RemoveSink_NoWait ==
  /\ gui = "idle"
  /\ track' = FALSE
  /\ gui' = "clear"
  /\ UNCHANGED <<sink, frames, pending, hasVideo, posted, dirty, node, shown>>

\* clearVideoTrack, and setVideoTrack with another track than the current one,
\* which calls it: the sink is removed from the track, if there is one.
RemoveSink ==
  /\ gui = "idle"
  /\ track => sink = "idle"
  /\ track' = FALSE
  /\ gui' = "clear"
  /\ UNCHANGED <<sink, frames, pending, hasVideo, posted, dirty, node, shown>>

\* Mutated ClearState: no update() is posted.
ClearState_NoUpdate ==
  /\ gui = "clear"
  /\ pending' = 0 /\ hasVideo' = FALSE
  /\ track' \in BOOLEAN
  /\ gui' = "idle"
  /\ UNCHANGED <<sink, frames, posted, dirty, node, shown>>

\* The rest of clearVideoTrack, and of setVideoTrack, which adds the sink to the
\* new track.
ClearState ==
  /\ gui = "clear"
  /\ pending' = 0 /\ hasVideo' = FALSE
  /\ posted' = TRUE
  /\ track' \in BOOLEAN
  /\ gui' = "idle"
  /\ UNCHANGED <<sink, frames, dirty, node, shown>>

Update ==
  /\ gui = "idle" /\ posted
  /\ posted' = FALSE /\ dirty' = TRUE
  /\ UNCHANGED <<track, gui, sink, frames, pending, hasVideo, node,
                 shown>>

\* geometryChange with a new size.
GeometryChange ==
  /\ gui = "idle"
  /\ dirty' = TRUE
  /\ UNCHANGED <<track, gui, sink, frames, pending, hasVideo, posted,
                 node, shown>>

-----------------------------------------------------------------------------
(* The render thread.                                                      *)

\* The scene graph synchronises an item that is dirty, between GUI events.
UpdatePaintNode ==
  /\ gui = "idle" /\ dirty
  /\ dirty' = FALSE

TakeFrame ==
  /\ pending # 0
  /\ held' = pending /\ trace' = pending
  /\ pending' = 0

\* Without a frame to take, the node is emptied when the item has no video.
Sync ==
  /\ UpdatePaintNode
  /\ \/ TakeFrame /\ UNCHANGED <<hasData, valid>>
     \/ /\ pending = 0 /\ trace' = 0 /\ valid' = FALSE
        /\ held' = IF hasVideo THEN held ELSE 0
        /\ hasData' = (hasData /\ hasVideo)
        /\ UNCHANGED pending
  /\ UNCHANGED <<track, gui, sink, frames, hasVideo, posted, path,
                 supportsPbo, pbo, tex, unsized, oes, torn, shown>>

\* The draw of render(): the frames it samples, ...
Draw ==
  shown' = IF ~hasData' THEN {}
           ELSE IF path' = "oes" THEN {oes'}
           ELSE {tex'[p] : p \in PlanesOf(path')}

\* ... and the frame whose timing it reports, until the next sync.
Logged == IF held = 0 /\ hasData /\ valid THEN trace ELSE 0

RenderOes ==
  /\ held # 0
  /\ path' = "oes" /\ oes' = held /\ hasData' = TRUE /\ valid' = TRUE
  /\ pbo' = IF path # "oes" THEN NoPlanes ELSE pbo
  /\ held' = 0 /\ torn' = FALSE
  /\ UNCHANGED <<item, supportsPbo, tex, unsized, trace>>
  /\ Draw

\* What is staged, and whether the node has data, once the path is taken.
Staged(kind) == IF path = kind THEN pbo ELSE NoPlanes
HadData(kind) == hasData /\ path = kind

\* Mutated RenderStaged: changing the layout keeps what is staged and drawn.
RenderStaged_NoReset(kind) ==
  /\ held # 0 /\ supportsPbo
  /\ LET planes == PlanesOf(kind)
         uploaded == \A p \in planes : pbo[p] # 0
     IN  /\ tex' = [p \in Planes |-> IF p \in planes /\ pbo[p] # 0 THEN pbo[p]
                                     ELSE tex[p]]
         /\ pbo' = [p \in Planes |-> IF p \in planes THEN held ELSE pbo[p]]
         /\ valid' = uploaded
         /\ hasData' = (hasData \/ uploaded)
  /\ path' = kind
  /\ held' = 0 /\ oes' = 0 /\ torn' = FALSE
  /\ UNCHANGED <<item, supportsPbo, unsized, trace>>
  /\ Draw

\* UploadPlaneViaPboAsync for plane p: what was staged before is uploaded and the
\* new frame is staged; when it cannot be, it is uploaded directly and nothing
\* stays staged.
Uploaded(kind, p, fail) == p \in fail \/ Staged(kind)[p] # 0

\* A texture without storage gets one only with a frame of another size than
\* the cached one (resized); otherwise glTexSubImage2D has no effect on it.
TextureAfter(kind, p, fail, resized) ==
  IF ~Uploaded(kind, p, fail) \/ p \in unsized \ resized THEN tex[p]
  ELSE IF p \in fail THEN held ELSE Staged(kind)[p]

\* Mutated StagedAfter: what is staged survives a direct upload.
StagedAfter_FailKeeps(p, fail) == IF p \in fail THEN pbo[p] ELSE held

StagedAfter(p, fail) == IF p \in fail THEN 0 ELSE held

\* uploadPendingFrame with PBOs.
RenderStaged(kind) ==
  /\ held # 0 /\ supportsPbo
  /\ LET planes == PlanesOf(kind)
     IN  \E fail \in SUBSET planes :
         \E resized \in SUBSET {p \in planes \cap unsized : Uploaded(kind, p, fail)} :
           /\ torn' = (fail \notin {{}, planes})
           /\ tex' = [p \in Planes |-> IF p \in planes
                                       THEN TextureAfter(kind, p, fail, resized) ELSE tex[p]]
           /\ unsized' = unsized \ resized
           /\ pbo' = [p \in Planes |-> IF p \in planes THEN StagedAfter(p, fail)
                                       ELSE Staged(kind)[p]]
           /\ valid' = \A p \in planes : Uploaded(kind, p, fail)
           /\ hasData' = (HadData(kind) \/ valid')
  /\ path' = kind
  /\ held' = 0 /\ oes' = 0
  /\ UNCHANGED <<item, supportsPbo, trace>>
  /\ Draw

\* uploadPendingFrame without PBOs.
RenderDirect(kind) ==
  /\ held # 0 /\ ~supportsPbo
  /\ \E resized \in SUBSET (PlanesOf(kind) \cap unsized) :
       /\ unsized' = unsized \ resized
       /\ tex' = [p \in Planes |-> IF p \in PlanesOf(kind) \ unsized' THEN held
                                   ELSE tex[p]]
  /\ pbo' = Staged(kind)
  /\ valid' = TRUE /\ hasData' = TRUE
  /\ path' = kind
  /\ held' = 0 /\ oes' = 0 /\ torn' = FALSE
  /\ UNCHANGED <<item, supportsPbo, trace>>
  /\ Draw

\* The buffer cannot be converted to I420, or the external shader is not linked.
RenderFails(kind) ==
  /\ held # 0
  /\ pbo' = Staged(kind) /\ path' = kind
  /\ valid' = FALSE /\ hasData' = FALSE
  /\ held' = 0 /\ oes' = 0 /\ torn' = FALSE
  /\ UNCHANGED <<item, supportsPbo, tex, unsized, trace>>
  /\ Draw

\* render() without a new frame draws the textures again.
RenderAgain ==
  /\ held = 0
  /\ UNCHANGED <<item, node>>
  /\ Draw

\* releaseResources: textures and PBOs are deleted, and render() makes new ones;
\* m_hasData, the layout and the sizes in m_planeCache* stay.
ReleaseResources ==
  /\ tex' = NoPlanes /\ pbo' = NoPlanes /\ oes' = 0
  /\ unsized' = unsized \cup {p \in Planes : tex[p] # 0}
  /\ UNCHANGED <<item, supportsPbo, held, hasData, path, trace, valid, torn,
                 shown>>

\* The scene graph deletes the node; the next updatePaintNode makes a new one.
DeleteNode ==
  /\ gui = "idle"
  /\ held' = 0 /\ hasData' = FALSE /\ path' = "none"
  /\ pbo' = NoPlanes /\ tex' = NoPlanes /\ unsized' = {} /\ oes' = 0
  /\ trace' = 0 /\ valid' = FALSE /\ torn' = FALSE
  /\ shown' = {} /\ dirty' = TRUE
  /\ UNCHANGED <<track, gui, sink, frames, pending, hasVideo,
                 posted, supportsPbo>>

-----------------------------------------------------------------------------
RenderStep ==
  \/ RenderOes \/ RenderAgain
  \/ \E kind \in {"nv12", "i420"} : RenderStaged(kind) \/ RenderDirect(kind)
  \/ \E kind \in {"i420", "oes"} : RenderFails(kind)
Next ==
  \/ OnFrameStore \/ OnFramePost \/ ClearState \/ Update \/ Sync \/ RenderStep
  \/ GeometryChange \/ ReleaseResources \/ DeleteNode
  \/ RemoveSink
Spec == Init /\ [][Next]_vars

\* The threads finish what they are doing.  The posted update() and the
\* synchronisation are events of the GUI thread, handled in turn between the
\* calls that keep it busy.  Frames, resizes and changes of track need not come.
FairSpec ==
  /\ Spec
  /\ WF_vars(OnFramePost) /\ WF_vars(ClearState) /\ WF_vars(RenderStep)
  /\ SF_vars(Update) /\ SF_vars(Sync)

-----------------------------------------------------------------------------
\* The frames of a draw; 0 in shown is a texture that was not filled.
Drawn == shown \ {0}

\* Every draw samples planes of one and the same frame, through changes of
\* layout, tracks that are replaced, staging that fails and textures that are
\* released.  When staging fails for some planes only, they are a frame ahead
\* of the others until the next upload, which always brings the planes together
\* again (UploadPlaneViaPboAsync, resetCpuUploadPipeline).  A texture that was
\* not filled is drawn only by a node that gave its textures back and kept
\* m_hasData, as long as the new ones have not been given storage again.
PlanesMatch ==
  /\ 0 \in shown => unsized # {} \/ (path = "oes" /\ oes = 0)
  /\ ~torn => Cardinality(Drawn) <= 1

\* The picture never goes back to an earlier frame, although frames wait in the
\* PBOs, may be overtaken by direct uploads and are lost with their buffers: no
\* plane drawn is older than all planes of the draw before, and none of those is
\* newer than all drawn now.
NeverBackwards ==
  [][Drawn # {} /\ Drawn' # {} =>
       /\ \A g \in Drawn' : \E f \in Drawn : f <= g
       /\ \A f \in Drawn : \E g \in Drawn' : f <= g]_vars

\* Once clearVideoTrack has returned and no track is set, no frame of the old
\* track is pending and the item says that it has no video.
NoFrameAfterClear == ~track /\ gui = "idle" => pending = 0 /\ ~hasVideo

\* After clearVideoTrack the picture disappears, unless video comes again.
ClearedGoesBlank == (~track /\ ~hasVideo) ~> (shown = {} \/ track)

\* A frame that OnFrame stored is taken by the render node, or its track is
\* cleared; it never waits for another frame or for a resize.
PendingIsTaken == pending # 0 ~> pending = 0

\* What render() reports as the time from Decode to the end of render is about
\* the frame it has just drawn.
LoggedIsShown == Logged # 0 => Drawn \subseteq {Logged}

=============================================================================
