# Verification of LibwebRtcDemo

TLA+ models of the receiver's concurrent parts and of its conversions, the TLC
runs that check them on small instances, and TLAPS proofs of the main safety results
for every instance.
Paths are relative to the repository. `PROJECT.json` lists components, runs,
mutants, the source lines of every definition, findings, hazards and theorems.

## The system

The program receives a WebRTC video stream. A publisher and the receiver
exchange SDP and ICE candidates through a TCP signaling server, one JSON object
per line. There are two receivers. The native one uses libwebrtc, a MediaCodec
decoder and an OpenGL item of Qt Quick; the web one hands signaling to a page in
a WebView, where the browser does the media. `CMakeLists.txt` currently builds
the web one; the native one is kept beside it and is what the documents in
`docs/` describe.

| Part | Threads | State | Operations | What makes it hard |
|---|---|---|---|---|
| `signaling_client.cpp` | owner, reader | `running_`, `sock_fd_`, `reader_thread_`, line buffer | Start, Stop, SendLine, ReaderLoop, ParseAndDispatch | no lock; Stop races a blocked `recv`; lines cut anywhere; short sends; text that holds quotes and line breaks |
| `webrtc_receiver_client.cpp` | Qt, WebRTC's signaling thread, reader | connection, pending candidates, `m_remoteDescriptionApplied`, three observers | connect, disconnect, handleOffer, handleRemoteIceCandidate, completion callbacks | no lock; callbacks of replaced connections; four asynchronous steps per answer |
| the same file, observer and statistics | Qt, WebRTC's signaling thread | timer, counters, figures, bound track | OnConnectionChange, OnTrack, OnIceCandidate, GetStats, disconnect | every report is handled later, when connection and session may be others |
| `android_mediacodec_video_decoder.cpp` | WebRTC's decoding thread, worker, codec | task queue, callback, codec, buffers | Configure, Decode, Register..., Release, WorkerLoop, DrainOutputs | waiting for the worker; failures with a buffer in hand; late output |
| I420 pool (same file) | worker, any thread that drops a frame | slots with a flag and a block | AcquirePoolSlot, ~PooledI420, ClearPool | frames outlive the codec and the decoder |
| `webrtc_video_renderer.cpp` | sink, GUI, render | pending frame, textures, PBOs | OnFrame, set/clearVideoTrack, sync, render, releaseResources | queued updates, one frame of delay, failures in the middle of an upload, textures lost |
| `video_decode_sink_timing_bridge.cpp` | decoding thread, worker, sink, render | tables by RTP timestamp and by tracking id | record, take | the sink can be first; ids come again |
| `webrtc_webview_receiver.cpp`, `webreceiver.html` | Qt, reader, page | signaling client, socket, page's `pc`, `pending`, timer | connect, disconnect, bridge signals and slots, promise chain | events in flight across sessions and page loads |
| factories, OES buffer, tracking id, QML, script | - | almost none | - | see "Not modelled" |

## Modules

A module describes one component; constants named `Max...` are bounds, the
others are parameters of the code. A definition ending in `_Something` after the
name of a definition is a deliberately wrong variant of it, kept to show
that a property depends on the code being as it is; no specification uses it.

**I420Pool** (`MCI420Pool` for TLC). `mem`, `size`, `free` are the three fields
of a slot; a frame has a block (`fmem`) and a slot (`fslot`). AcquirePoolSlot is
split at every slot (`ScanSame`, `ScanAny`) because `~PooledI420` raises flags
on other threads meanwhile. `Unreferenced` is the allocator: a new block is one
that neither a slot nor a frame refers to. `stale` records the slots that
ClearPool declared free under a live frame, and `wild` a store through a flag of
a deleted decoder.

**DecoderWorker**. `caller` is WebRTC's decoding thread inside a call, `worker`
the thread running WorkerLoop. What is done under `mu_` is one step; a job is
one step per call to the codec, each with its failure. The condition variable is
explicit (`waiting`, `woken`), so that lost wake-ups would show. The codec
(`CodecDecodes`) is external: it turns inputs into outputs in order, at its own
pace, so outputs may appear while a later frame is processed.

**ReceiverNegotiation**. `qt` is the event queue of the Qt thread, `ops` the
operations WebRTC has not completed, `rtc` the callback its signaling thread is
in. Each offer gets a connection named by its number. Calls on a PeerConnection
from the Qt thread are proxied to the signaling thread and wait for it (as the
comments of `include/api/peer_connection_interface.h` say), so a handler is
split exactly at such calls and between a test of a shared member and its use. A
call on a null or deleted object is `crashed`, after which nothing runs.
`overlapped` is a history variable: an offer came while an earlier one was in
work.

**SignalingClient** (`MCSignalingClient`). Stop and ReaderLoop are split at
every access to `running_` and `sock_fd_`. A line is two bytes and a newline;
`recv` returns any non-empty part of what has arrived; `close` alone does not
wake a blocked `recv`, `shutdown` does. ParseAndDispatch is abstracted to whether
the kind of message has a callback; what it does with the text is in LineCodec.

**MessageStream** is what the client promises: on each connection the server's
messages reach the callbacks whole, in order and without waiting for more input;
none after Stop has returned; Stop returns. SignalingClient implements it
(`ImplementsMessageStream`): the stream's `sent` are the messages of a kind that
has a callback (the history variable `due`), `got` the dispatched ones, and the stream is closing from the
moment Stop clears `running_` to the end of its join. OnOffer and OnIce of
ReceiverNegotiation, ReceiverSession and WebViewReceiver take their input from such
a stream: any message at any time, in order, while a session is open.

**LineCodec** writes a message as a line (SendOffer, SendAnswer, SendIceCandidate)
and finds its fields again (ParseAndDispatch). A text is a sequence of characters
and words; the characters that are escaped stand for themselves, and a word such as
`sdp` is one element, so that a text can hold what looks like a field.

**ReceiverSession**. The observer's reports of a connection go through `qt`, the
events posted to the Qt thread. Close() waits for WebRTC's thread, reports kClosed
and answers the GetStats requests still in flight (`ClosedEvents`). The timer's slot
only tests for a connection, so it may tick with requests in flight and while events
of an earlier connection wait (`StatsTimeout`). The callback of GetStats computes the
increment and posts the figures (`StatsDelivered`), and stores the counters afterwards
(`StatsStored`), both on WebRTC's thread; before the first frame a report may or may
not have a video stream (`HasVideo`). Counters are unsigned (`CounterRange`).
`hurried` and `overtaken` are history variables: the user acted ahead of events in flight, or
reconnected without disconnecting; the timer was stopped ahead of statistics in
flight.

**Bitstream** and **PlaneCopy** (with LineCodec, `MCAlgorithms` for TLC).
Bitstream is the search for start codes and the rewriting of a frame with lengths,
byte by byte; `NalUnits` and `ParseAvcc` are reference definitions, written
without the code's scan. PlaneCopy is the output format, the four capacity tests in
the order DrainOutputs makes them, and the last byte each copy reads.

**VideoRenderer**. The GUI thread is blocked during `Sync`, as Qt Quick
guarantees. A frame is its number; `pbo[p]` and `tex[p]` say which frame's plane
is staged and which is in the texture. A frame's layout is chosen when it is
uploaded, since nothing before that depends on it. `fail` in `RenderStaged` is the
set of planes whose staging fails. `unsized` are the planes whose texture has no
storage although the node remembers a size for it: ReleaseResources makes them so.
`shown` is what the last draw sampled (0 is an empty texture), `Logged` the frame
whose latency it reported. `torn` is a history variable: the last upload staged
some planes and uploaded others directly. `m_supportsPixelUnpackBuffer` is chosen
at the start and never changes. Which track is set makes no difference to the item,
so `track` only says whether one is.

**TimingBridge**. Decode records the start of frames whose tracking id is sampled.
The worker is inside Decoded (`callback`), has read the clock (`returned`),
records; the sink reads its clock on entering OnFrame and takes the record
afterwards. Decoded hands the frame over before it returns, hence the race. The
render thread takes the start of the frame it has drawn by its id, and ids wrap.
One bound is an assumption: a picture is rendered or dropped before its id comes
again, 65536 frames later (`Live`).

**WebViewReceiver**. `qt` is the Qt event queue, `down` and `up` the local web
socket, the remaining variables are the page's. A page runs one task at a time,
and the then-handlers of a promise run in the task that settles it.
signalingClosed is emitted directly and thus overtakes what waits in `qt`.
`hurried` is a history variable: the user connected or disconnected while
something was in flight.

The modules meet at these points. SignalingClient feeds OnOffer and OnIce of both
receivers, through MessageStream. HandleOffer of ReceiverNegotiation makes the
connections that report in ReceiverSession. DecoderWorker's Deliver is
FillOk/FillFails of the pool and Decoded of TimingBridge, and its LabelNotEarlier is
the labelling TimingBridge assumes. Decoded leads to OnFrameStore of VideoRenderer.

## Runs

`tlc -config <cfg> <module>`; each takes from a second to about three minutes.

| Run | Module, cfg | Shows | States |
|---|---|---|---|
| pool | MCI420Pool, I420Pool.cfg | `NoSlotLeaked`: a busy slot has a frame that will free it. `NoSharedBlock`: no two frames use a block, except through a slot cleared under a live frame | 34 thousand (with symmetry) |
| negotiation | ReceiverNegotiation, ReceiverNegotiation.cfg | `CandidatesInOrder`, `OneAnswerPerConnection` in every interleaving; `ObserverHeld`, `QueuedUntilRemoteApplied`, `OfferSettles` as long as offers do not overlap; `NothingLost`: the race of a push with a flush is the only way to lose a candidate | 458 thousand |
| session | ReceiverSession, ReceiverSession.cfg | `TimerFollowsConnection`, `TrackOfConnection` in every interleaving; `DeltaOfConnection` once the timer runs for the connection; `FiguresOfConnection`, `DisconnectedIsIdle`, `SentInItsSession` up to events overtaken by the user; `StatisticsShown` | 1.2 million |
| signaling | MCSignalingClient, SignalingClient.cfg | `NoCallbackAfterStop`, `OneReader`: the life of the reader; `ImplementsMessageStream`: with it the line buffer, order and completeness of messages, and the end of Stop | 88 thousand |
| decoder | DecoderWorker, DecoderWorker.cfg | `BuffersReturned`, `DeliveredInOrder`, `LabelNotEarlier`, `ReleasedIsQuiet`, `CallReturns` | 74 thousand |
| renderer | VideoRenderer, VideoRenderer.cfg | `PlanesMatch`, `NeverBackwards`, `NoFrameAfterClear`, `PendingIsTaken`, `ClearedGoesBlank` | 203 thousand |
| webview | WebViewReceiver, WebView.cfg | `CandidatesInOrder`, `NothingStranded`, `StatsOnlyWhileConnected`, `OfferAnswered`; `SentInItsSession`, `ClosedIsIdle` up to events overtaken by the user | 820 thousand |
| timing | TimingBridge, TimingBridge.cfg | `TakenOnce`, `StartOfItsFrame`, and in `TypeOK` the bound of the tables | 4.6 million |
| algorithms | MCAlgorithms, Algorithms.cfg | `AvccHoldsNalUnits`, `MessageArrives`, `CopyInBounds`: one state per input | 80 thousand |

Three runs show where the code does something else than the repository says;
TLC's counterexample is the expected result.

- **negotiation_stranded** (`NothingStranded`). The Qt thread finds
  `m_remoteDescriptionApplied` false; the callback on WebRTC's thread sets it and
  flushes; the Qt thread then queues its candidate, and nothing flushes again.
  `webrtc_receiver_client.h:66` says queued candidates are added once ready. The
  page of the web receiver has the same queue, and there the property holds (run
  webview): a page has one thread.
- **pool_dangling** (`NoDanglingFlag`). `~PooledI420` stores through a pointer
  into the decoder's slot array, which is gone once the decoder is deleted; the
  comment above the pool says there is no dangling pointer.
- **renderer_trace** (`LoggedIsShown`). With PBOs, render() draws the frame
  staged by the call before and reports the latency of the one just taken.

Further differences were met while modelling; they are part of the models, and
the hazards in `PROJECT.json` have their lines: a short `send` leaves a cut line
that the next message continues; output that the codec holds back is labelled
with a later frame's id and timestamp; after overlapping offers a candidate can
be added before the remote description is applied; McDE can be negative, and
with equal timestamps it can be made of another frame's record. Moreover:

- After releaseResources the node keeps `m_hasData` and the sizes of its planes
  (`webrtc_video_renderer.cpp:574-590`), so the new textures are drawn empty, and
  frames of the same size never give them storage (139-160). `PlanesMatch` says
  that nothing else draws an empty plane.
- An offer that waits in the event queue while the user disconnects opens a
  connection afterwards, in both receivers. `DisconnectedIsIdle` and `ClosedIsIdle`
  say that this is the only way to keep one.
- Statistics in flight when the timer is stopped are shown after the reset
  (`FiguresOfConnection`).
- A tick between handleOffer and the stop of the connection it replaced asks the
  new connection, while `m_prevFramesDecoded` is still the old one's
  (`webrtc_receiver_client.cpp:638-683`): that report shows a wrapped increment.
  `DeltaOfConnection` says that this ends with the new connection's own start.
- `"type": "offer"` is accepted with a space, `"sdp":"` only without
  (`signaling_client.cpp:183-204`): a line written with spaces is dropped.
- A strided NV12 buffer without padding behind its last row is refused by the
  strided copy, and copied as if it had no padding at all
  (`android_mediacodec_video_decoder.cpp:193-232`).
- The I420 pool is only reached when an NV12 buffer cannot be allocated or the
  height is odd.

### Bounds

- Two slots and three frames let one frame outlive a clearing while both slots
  are lent again; five blocks are one per slot and frame, so that allocation
  never fails. The code has six slots (`kPoolSlots`); the proofs cover any number.
- Two offers with two candidates: a replaced connection and its successor, a
  candidate before and one after. Two sessions: one reconnection.
- Two messages and two connections: a message cut, two in one `recv`, a restart.
- Four frames, two configurations and two buffers each way: both codec queues
  fill, and a configuration interrupts frames in work.
- Three rendered frames: one whose staging fails for some planes, one that is
  staged behind it, and one that must bring the planes together or that comes after
  the textures were released.
- Two loads of the page: one reload with events in flight. The signaling thread
  posts a message to the Qt thread only while fewer than two events wait there: an
  offer and a candidate behind it, or an event of either session.
- Two connections in two sessions with two frames each and two waiting events: an
  offer replaces a connection whose reports wait, and a session ends with a poll in
  flight. Two requests in flight: the first is not answered before the timer ticks
  again, and both may be answered by Close(). Counters are taken modulo 16, more than
  the frames, so that a wrapped difference is told from a real one. The observer and the timer wait while the
  queue is full; kClosed and the answer of a poll are never held back.
- Tables of two entries, three tracking ids of which two are sampled, six frames and
  four pictures: the tables overflow, ids and timestamps repeat.
- Nine bytes with three values: two long start codes with a byte between, and zeros
  around them. Texts of four parts out of the escaped characters and the words of a
  message. Pictures of up to four by four with any padding, in buffers of any
  size up to what the largest one needs.

### Fairness

Weak fairness stands for threads and event loops that keep running what they
have been given: worker, reader and the thread inside a call; Qt's event loop;
WebRTC's signaling thread, which answers GetStats; Qt's timers; the tasks and
promises of the page. The renderer's
posted update and its synchronisation have strong fairness: the GUI thread
handles events in order, so a posted call is not put off for ever by track
changes, which disable it again and again for a moment. Nothing is assumed of
the user, the publisher, the server, the codec, the peer or arriving frames.

Deadlock is not checked where the system may rest or end: bounds used up and
nothing in flight, the decoder released, the process crashed. The renderer can
always draw again, and the native receiver's user can always set a renderer;
deadlock is checked there.

### Simplifications

- Consecutive calls of one handler between which nothing else can change what the
  properties are about are one step: Close, CreatePeerConnection and
  SetRemoteDescription in handleOffer; stopping the old signaling client and
  starting the new one in connectToSignaling; signalingClosed and Stop in the web
  receiver's disconnect.
- A remote candidate parses (`CreateIceCandidate`); one that does not is logged and
  dropped, and `NothingLost` is not about it. A message has no embedded NUL.
- The call that gives an unused input buffer back to the codec succeeds; its result
  is ignored by the code (`android_mediacodec_video_decoder.cpp:773, 799`).
- `recv` failing ends the reader like the end of the stream (`RecvEnd`).
- Between two NAL units one zero before the start code belongs to it; further
  zeros stay with the unit, as the code leaves them.
- A picture reaches the render thread before as many frames as there are tracking
  ids were decoded after it (TimingBridge).

## Proofs

Checked by TLAPS for every value of the constants that the named assumptions
allow.

- **I420PoolProofs**: `PoolTypeOK`, `PoolNoSlotLeaked`, `PoolNoSharedBlock`.
  NoSharedBlock is not inductive: a slot could be free, or hold the block of
  another slot's frame, in an unreachable state. The inductive invariant adds
  that slots never share a block (`BlocksDistinct`), that only a frame's own slot
  may refer to its block (`FrameBlock`), that a slot which was not cleared under
  its frame is busy, holds that frame's block and serves no other frame
  (`CleanSlot`), and that the worker searches only while the pool exists
  (`ScanAlive`).
- **SignalingClientProofs**: `SignalingNoCallbackAfterStop`,
  `SignalingOneReader` and the refinement `SignalingImplementsStream`. The first
  invariant says that `reader_thread_` is joinable exactly while there is a reader
  (`JoinableReader`), and that a client which is not running and not inside Stop has
  joined it (`StoppedIsJoined`). The second theorem is an action property, from the
  same invariant. The third says that every step is one of MessageStream or is not seen
  there: `Stream!Safety`, that is `ImplementsMessageStream` without its two liveness
  conjuncts. Its invariant (`Buffers`) says that the bytes in the reader's buffer and
  those not received yet, together, are whole lines wherever recv cuts (`Whole`), and that those
  for a callback are the messages sent and not delivered, in order (`Tally`: a
  count of delivered messages after each of these lines exists). The count stands
  for a recursion over the bytes, about which nothing could be proved.
- **VideoRendererProofs**: `RendererNoFrameAfterClear`, `RendererPlanesMatch`,
  `RendererNeverBackwards`. An OnFrame that outlived RemoveSink would set
  `m_hasVideo` after it was reset, so the first invariant adds that OnFrame runs
  only while a track is set (`SinkOfTrack`) and that the track is gone between the
  halves of clearVideoTrack (`ClearingHasNoTrack`). The other two theorems rest on
  `NodeInv`, about the render node: the frame that waits is newer than all the
  node has (`Newer`); the PBOs hold one frame at a time, and a plane with nothing
  staged already has it (`OneBehind`); a node with data has a frame in every
  plane, the same in all unless staging failed for some (`Filled`); and the last
  draw is what would be drawn again (`LastDraw`).
- **ReceiverNegotiationProofs**: `NegotiationOneAnswer`,
  `NegotiationCandidatesInOrder`, `NegotiationObserverHeld`,
  `NegotiationNothingLost` and the action property
  `NegotiationQueuedUntilRemoteApplied`: all safety properties of the run. One
  invariant, `Negotiating`, serves them, in layers that each use the ones before.
  `InOrder`: offers and candidates wait in the order they were sent, behind the
  offer being handled. `Fresh`: an offer gets its connection once, and only the
  current connection is open. `OneAnswer`: a local description is set once, and is
  then in exactly one place, reported, checked or sent; this holds however
  callbacks of replaced connections interfere. `OwnCandidates` follows a
  candidate through the event queue, the Qt thread, `m_pendingRemoteIce` and the
  connection; what is behind was sent later. The rest holds unless offers
  overlapped: one chain of callbacks runs at a time, its observer is held, and
  `m_remoteDescriptionApplied` says the truth (`OneChain`); what runs is the current
  connection's (`OwnOps`); the last offer's candidates are all behind it while it
  waits (`StillComing`), and those that have left the queue are its first ones,
  without a gap (`Counted`, as long as no push raced a flush).
- **ReceiverSessionProofs**: `SessionTypeOK` and the six safety properties of the
  run. The timer follows the connection only once the waiting events are handled,
  so `TimerInv` says it of the queue: the last start or stop that waits agrees
  with the connection, and if none waits, the timer does; and only an existing
  connection is polled (`SessionTimerFollowsConnection`).
  That an increment does not wrap once nothing of an earlier connection waits
  (`SessionDeltaOfConnection`) needs the stored counter to be the same connection's
  by then. `QueueInv` therefore says that events
  of the current connection come last in the queue, that a start of an earlier
  connection has its stop behind it, and that a timer still running for an earlier
  one has a stop waiting. The statistics of a new connection thus begin with a start
  that resets the counter, and a callback stores only counters of the current
  connection (`RequestOfConnection`), since Close() waits for it. `TrackInv` says that a renderer bound to an earlier track has the current
  one's binding waiting (`SessionTrackOfConnection`); `FiguresInv` that, unless the
  timer was stopped ahead of statistics in flight, it runs while there are
  statistics and figures of an earlier connection are about to be reset
  (`SessionFiguresOfConnection`); `IdleInv` that after a disconnect at which
  nothing was in flight only the stop posted by Close() waits
  (`SessionDisconnectedIsIdle`); `SessionInv` that as long as the user waits for
  what is in flight, everything belongs to the session (`SessionSentInItsSession`).
- **DecoderWorkerProofs**: `DecoderBuffersReturned`, `DecoderReleasedIsQuiet`,
  `DecoderDeliveredInOrder`, `DecoderLabelNotEarlier`. The first invariant (`Inv`)
  is the hand-over between the calling thread and the worker (`HandOver`: what the
  caller waits for is still queued or in work, and after the last task of Release
  there is neither a codec nor a task), the buffers held at each step of a job
  (`Holds`) and the numbering of frames (`Numbered`). The second (`OrderInv`) follows
  a frame through the six places it can be in, from the delivered pictures, the
  output in hand, the codec's output and input, and the frame in work to the task
  queue: each place is in order, and every frame in one is older than every
  frame in a later one. Labels are those of frames already taken, in order.
- **TimingBridgeProofs**: `TimingTypeOK`, `TimingTakenOnce`,
  `TimingStartOfItsFrame`. `Records`: the record of a return of Decoded() is made
  once, and is in the table or taken, never both. `Recent`: a picture that is still to be
  rendered is less than a round of tracking ids old, so its id is not yet
  another's. `LastOfId`: a recorded start is of the last frame with its id, and not
  measured yet.
- **WebViewReceiverProofs**: `WebViewCandidatesInOrder`, `WebViewNothingStranded`,
  `WebViewStatsOnlyWhileConnected`, `WebViewSentInItsSession`,
  `WebViewClosedIsIdle`. `PageState` ties the page's connection, remote description
  and queue together. `OrderInv` follows candidates as in the native receiver, through the
  Qt queue and the socket to the page: in order (`InOrder`), without a gap
  (`NothingMissing`), the page behind all that is on its way (`PageBehind`), and each
  with its own offer (`OwnCandidates`). `InSession` is about users who wait for
  what is in flight.

Only model-checked: the liveness properties OfferSettles, CallReturns,
ClearedGoesBlank, PendingIsTaken, OfferAnswered and StatisticsShown, and the
liveness part of ImplementsMessageStream (fairness is out of the prover's reach);
AvccHoldsNalUnits and MessageArrives, about recursions over data; and CopyInBounds,
which is arithmetic on products of variables and is checked by the same run.

## Not modelled

- Native receiver: status texts, the destructor (disconnect, then the members), and
  the figures of a report other than decoded frames, which are floating-point
  arithmetic on the same data.
- Decoder: what libyuv does within the bounds of a copy; logging and its sampling.
- Renderer: tracking ids and sampled figures for the UI, shaders, vertices.
- Timing bridge: formatting of times. The last tracking id for the UI is one relaxed
  atomic; nothing relates to it.
- Web receiver: listening on a port, unpacking the page, its URL, status texts,
  the figures of a statistics poll, timing reports.
- Factories, OES buffer, QML, the log script; headers under `include/`, libraries
  and `qwebchannel.js` are third-party. The headers of WebRTC are by far the
  largest part of the repository, so that the modelled lines, most of the program's
  own, are a small share of all.
- Undefined behaviour of unlocked vectors and pointers beyond the crash of a call
  on a null or deleted object; memory ordering weaker than interleaving.

## Possible further work

1. Composition: DecoderWorker with I420Pool; ReceiverNegotiation with
   ReceiverSession in one state space (each already takes a few minutes).
2. A queue of candidates as an abstract specification that both receivers
   implement, the native one when no push races a flush.
3. Proofs: CopyInBounds for every stride and size.
