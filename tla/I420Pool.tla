------------------------------ MODULE I420Pool ------------------------------
(***************************************************************************)
(* The I420 buffer pool of the MediaCodec decoder                          *)
(* (src/android_mediacodec_video_decoder.cpp): kPoolSlots slots, each with *)
(* a heap block, the size it was allocated for and an atomic "free" flag.  *)
(* The decoder's worker thread looks for a free slot, fills its block and  *)
(* wraps it in a PooledI420, which travels to the render thread; its       *)
(* destructor, on whatever thread drops the last reference, raises the     *)
(* slot's flag through a raw pointer.  The worker clears the whole pool    *)
(* whenever the codec is destroyed or configured again.                    *)
(*                                                                         *)
(* The flags are the only synchronisation, so the search for a slot is one *)
(* step per slot and frames are released between any two of them.          *)
(***************************************************************************)
EXTENDS Naturals

CONSTANTS
  kPoolSlots,   \* number of slots (6 in the code)
  Sizes,        \* the (width, height) pairs a stream can have
  Mems,         \* heap blocks
  Frames,       \* PooledI420 objects that can exist at the same time
  NoMem, NoSize \* an empty shared_ptr, a width and height of 0

ASSUME PoolAssumption ==
  /\ kPoolSlots \in Nat \ {0}
  /\ NoMem \notin Mems
  /\ NoSize \notin Sizes

Slots == 1..kPoolSlots

VARIABLES
  mem,    \* mem[s]: the block slot s keeps alive
  size,   \* size[s]: the width and height that block was allocated for
  free,   \* free[s]: the slot's atomic flag
  status, \* status[f]: "none", "filling" (a PoolResult) or "live" (a PooledI420)
  fmem,   \* fmem[f]: the block frame f keeps alive (m_)
  fslot,  \* fslot[f]: the slot whose flag frame f raises when it dies (flag_)
  pass,   \* which loop of AcquirePoolSlot the worker is in; 0 outside of it
  at,     \* the slot that loop looks at next
  want,   \* the size asked for
  alive,  \* the decoder, and with it the array of slots, exists
  stale,  \* auxiliary: slots cleared while a frame still pointed at their flag
  wild    \* auxiliary: a frame stored to the flag of a pool that is gone

worker == <<pass, at, want>>
vars == <<mem, size, free, status, fmem, fslot, worker, alive, stale, wild>>

Init ==
  /\ mem = [s \in Slots |-> NoMem]
  /\ size = [s \in Slots |-> NoSize]
  /\ free = [s \in Slots |-> TRUE]
  /\ status = [f \in Frames |-> "none"]
  /\ fmem = [f \in Frames |-> NoMem]
  /\ fslot = [f \in Frames |-> 1]
  /\ pass = 0 /\ at = 1 /\ want = NoSize
  /\ alive = TRUE
  /\ stale = {}
  /\ wild = FALSE

Held(f) == status[f] # "none"
Filling == {f \in Frames : status[f] = "filling"}
Live    == {f \in Frames : status[f] = "live"}

\* A block the allocator may return: nobody holds a reference to it.
Unreferenced(m) ==
  /\ \A s \in Slots : mem[s] # m
  /\ \A f \in Frames : Held(f) => fmem[f] # m

-----------------------------------------------------------------------------
(* AcquirePoolSlot and the use DrainOutputs makes of its result.           *)

\* DrainOutputs asks for a slot.  Frames bounds the objects alive at once.
BeginAcquire(w) ==
  /\ alive /\ pass = 0 /\ Filling = {}
  /\ \E f \in Frames : status[f] = "none"
  /\ pass' = 1 /\ at' = 1 /\ want' = w
  /\ UNCHANGED <<mem, size, free, status, fmem, fslot, alive, stale, wild>>

\* The loop goes on to the next slot; after the last one the second loop
\* begins, and after that AcquirePoolSlot returns false.
NextSlot ==
  IF at < kPoolSlots
    THEN at' = at + 1 /\ pass' = pass
    ELSE at' = 1 /\ pass' = (pass + 1) % 3

\* Mutated Take: the flag is not lowered.
Take_StaysFree(f, m) ==
  /\ status[f] = "none"
  /\ status' = [status EXCEPT ![f] = "filling"]
  /\ fmem' = [fmem EXCEPT ![f] = m]
  /\ fslot' = [fslot EXCEPT ![f] = at]
  /\ pass' = 0 /\ at' = 1
  /\ UNCHANGED free

\* The slot becomes busy and the caller receives its block and its flag.
Take(f, m) ==
  /\ status[f] = "none"
  /\ free' = [free EXCEPT ![at] = FALSE]
  /\ status' = [status EXCEPT ![f] = "filling"]
  /\ fmem' = [fmem EXCEPT ![f] = m]
  /\ fslot' = [fslot EXCEPT ![f] = at]
  /\ pass' = 0 /\ at' = 1

\* First loop: a free slot that has a block of the right size.
ScanSame ==
  /\ pass = 1
  /\ IF free[at] /\ size[at] = want /\ mem[at] # NoMem
       THEN \E f \in Frames : Take(f, mem[at])
       ELSE NextSlot /\ UNCHANGED <<free, status, fmem, fslot>>
  /\ UNCHANGED <<mem, size, want, alive, stale, wild>>

\* Second loop: any free slot, which gets a new block.
ScanAny ==
  /\ pass = 2
  /\ IF free[at]
       THEN \E f \in Frames, m \in Mems :
              /\ Unreferenced(m)
              /\ Take(f, m)
              /\ mem' = [mem EXCEPT ![at] = m]
              /\ size' = [size EXCEPT ![at] = want]
       ELSE NextSlot /\ UNCHANGED <<mem, size, free, status, fmem, fslot>>
  /\ UNCHANGED <<want, alive, stale, wild>>

\* The copy succeeded: the block is wrapped in a PooledI420 and delivered.
FillOk(f) ==
  /\ status[f] = "filling"
  /\ status' = [status EXCEPT ![f] = "live"]
  /\ UNCHANGED <<mem, size, free, fmem, fslot, worker, alive, stale, wild>>

\* Mutated FillFails: the slot is not handed back.
FillFails_KeepsSlot(f) ==
  /\ status[f] = "filling"
  /\ status' = [status EXCEPT ![f] = "none"]
  /\ UNCHANGED <<mem, size, free, fmem, fslot, worker, alive, stale, wild>>

\* Neither copy routine accepts the layout: the slot is handed back.
FillFails(f) ==
  /\ status[f] = "filling"
  /\ status' = [status EXCEPT ![f] = "none"]
  /\ free' = [free EXCEPT ![fslot[f]] = TRUE]
  /\ UNCHANGED <<mem, size, fmem, fslot, worker, alive, stale, wild>>

-----------------------------------------------------------------------------
\* ~PooledI420, on any thread, at any time, decoder alive or not.
ReleaseFrame(f) ==
  /\ status[f] = "live"
  /\ status' = [status EXCEPT ![f] = "none"]
  /\ IF alive
       THEN free' = [free EXCEPT ![fslot[f]] = TRUE] /\ UNCHANGED wild
       ELSE wild' = TRUE /\ UNCHANGED free
  /\ UNCHANGED <<mem, size, fmem, fslot, worker, alive, stale>>

\* DestroyCodec clears the pool, for Release and before every configuration.
ClearPool ==
  /\ alive /\ pass = 0 /\ Filling = {}
  /\ mem' = [s \in Slots |-> NoMem]
  /\ size' = [s \in Slots |-> NoSize]
  /\ free' = [s \in Slots |-> TRUE]
  /\ stale' = {fslot[f] : f \in Live}
  /\ UNCHANGED <<status, fmem, fslot, worker, alive, wild>>

\* The decoder is deleted: ~Impl runs after Release has joined the worker.
DestroyDecoder ==
  /\ alive /\ pass = 0 /\ Filling = {}
  /\ alive' = FALSE
  /\ mem' = [s \in Slots |-> NoMem]
  /\ UNCHANGED <<size, free, status, fmem, fslot, worker, stale, wild>>

Next ==
  \/ \E w \in Sizes : BeginAcquire(w)
  \/ ScanSame
  \/ ScanAny
  \/ \E f \in Frames : FillOk(f) \/ FillFails(f) \/ ReleaseFrame(f)
  \/ ClearPool
  \/ DestroyDecoder

Spec == Init /\ [][Next]_vars

-----------------------------------------------------------------------------
(* Properties.                                                             *)

\* The types of the variables of the pool.
TypeOK ==
  /\ mem \in [Slots -> Mems \cup {NoMem}]
  /\ size \in [Slots -> Sizes \cup {NoSize}]
  /\ free \in [Slots -> BOOLEAN]
  /\ status \in [Frames -> {"none", "filling", "live"}]
  /\ fmem \in [Frames -> Mems \cup {NoMem}]
  /\ fslot \in [Frames -> Slots]
  /\ pass \in 0..2 /\ at \in Slots /\ want \in Sizes \cup {NoSize}
  /\ alive \in BOOLEAN /\ wild \in BOOLEAN
  /\ stale \in SUBSET Slots

\* A slot marked busy always has a frame that will raise its flag again: no
\* order of acquisitions, failed copies, releases and pool clearings leaks a
\* slot and shrinks the pool for good (AcquirePoolSlot, ~PooledI420).
NoSlotLeaked ==
  alive => \A s \in Slots : ~free[s] => \E f \in Frames : Held(f) /\ fslot[f] = s

\* No two frames use one block: in particular the worker never fills a block
\* that a delivered frame still shows.  The exception is a slot that ClearPool
\* declared free while a frame of the previous codec still pointed at its
\* flag: that frame's destructor raises the flag under the next owner of the
\* slot (AcquirePoolSlot, ClearPool, ~PooledI420).
NoSharedBlock ==
  \A f, g \in Frames :
    Held(f) /\ Held(g) /\ f # g /\ fmem[f] = fmem[g] => fslot[f] \in stale

\* A frame that outlives the decoder does not touch the decoder's memory, as
\* the comment on the pool says ("no dangling pointer even if frames are in
\* the render pipeline when the decoder is destroyed").
NoDanglingFlag == ~wild
=============================================================================
