--------------------------- MODULE I420PoolProofs ---------------------------
(***************************************************************************)
(* Proofs that the I420 pool leaks no slot and lends no block twice, for   *)
(* any number of slots, frames and sizes.                                  *)
(***************************************************************************)
EXTENDS I420Pool, TLAPS

\* Slots never share a block.
BlocksDistinct ==
  \A s, t \in Slots : mem[s] = mem[t] /\ mem[s] # NoMem => s = t

\* A frame has a block, and only its own slot may still refer to that block.
FrameBlock ==
  \A f \in Frames :
    Held(f) => /\ fmem[f] \in Mems
               /\ \A s \in Slots : mem[s] = fmem[f] => s = fslot[f]

\* A slot that was not cleared under a frame is busy as long as the frame
\* lives, keeps the frame's block, and belongs to no other frame.
CleanSlot ==
  \A f \in Frames :
    Held(f) /\ fslot[f] \notin stale =>
      /\ alive => ~free[fslot[f]] /\ mem[fslot[f]] = fmem[f]
      /\ \A g \in Frames : Held(g) /\ fslot[g] = fslot[f] => g = f

\* The worker searches only while the pool exists.
ScanAlive == pass # 0 => alive

IInv ==
  /\ TypeOK
  /\ BlocksDistinct
  /\ FrameBlock
  /\ CleanSlot
  /\ ScanAlive
  /\ NoSlotLeaked
  /\ NoSharedBlock

-----------------------------------------------------------------------------
\* The pool starts with every slot free and no frame (I420PoolSlot).
LEMMA InitIInv == Init => IInv
<1> SUFFICES ASSUME Init PROVE IInv
  OBVIOUS
<1>1. 1 \in Slots /\ 0 \in 0..2
  BY PoolAssumption DEF Slots
<1>2. TypeOK
  BY <1>1, Zenon DEF Init, TypeOK
<1>3. BlocksDistinct
  BY DEF Init, BlocksDistinct
<1>4. \A f \in Frames : ~Held(f)
  BY DEF Init, Held
<1>5. FrameBlock /\ CleanSlot /\ NoSharedBlock
  BY <1>4, Zenon DEF FrameBlock, CleanSlot, NoSharedBlock
<1>6. ScanAlive /\ NoSlotLeaked
  BY DEF Init, ScanAlive, NoSlotLeaked
<1> QED
  BY <1>2, <1>3, <1>5, <1>6 DEF IInv

\* The search loop keeps its indices in range.
LEMMA NextSlotType ==
  ASSUME pass \in 0..2, at \in Slots, NextSlot
  PROVE  pass' \in 0..2 /\ at' \in Slots
BY PoolAssumption DEF NextSlot, Slots

\* Steps of the search that take nothing.
LEMMA SkipIInv ==
  ASSUME IInv, NextSlot, pass # 0,
         UNCHANGED <<mem, size, free, status, fmem, fslot, want, alive, stale, wild>>
  PROVE  IInv'
<1>1. TypeOK'
  BY NextSlotType DEF IInv, TypeOK
<1>2. ScanAlive'
  BY DEF IInv, ScanAlive
<1> QED
  BY <1>1, <1>2 DEF IInv, BlocksDistinct, FrameBlock, CleanSlot, NoSlotLeaked,
     NoSharedBlock, Held

\* First loop: the slot taken is free, hence any other frame on it is of an
\* earlier codec and the slot is stale.
LEMMA ScanSameIInv == IInv /\ ScanSame => IInv'
<1> SUFFICES ASSUME IInv, ScanSame PROVE IInv'
  OBVIOUS
<1>1. CASE ~(free[at] /\ size[at] = want /\ mem[at] # NoMem)
  BY <1>1, SkipIInv DEF ScanSame
<1>2. CASE free[at] /\ size[at] = want /\ mem[at] # NoMem
  <2>1. PICK f \in Frames : Take(f, mem[at])
    BY <1>2 DEF ScanSame
  <2>2. /\ alive /\ at \in Slots /\ mem[at] \in Mems
        /\ UNCHANGED <<mem, size, want, alive, stale, wild>>
    BY <1>2 DEF ScanSame, IInv, TypeOK, ScanAlive
  <2>3. TypeOK'
    BY <2>1, <2>2, PoolAssumption DEF Take, IInv, TypeOK, Slots
  <2>4. \A g \in Frames : g # f =>
          status'[g] = status[g] /\ fmem'[g] = fmem[g] /\ fslot'[g] = fslot[g]
    BY <2>1 DEF Take, IInv, TypeOK
  <2>5. /\ status'[f] = "filling" /\ fmem'[f] = mem[at] /\ fslot'[f] = at
        /\ status[f] = "none" /\ ~free'[at]
        /\ \A s \in Slots : s # at => free'[s] = free[s]
    BY <2>1, <2>2 DEF Take, IInv, TypeOK
  <2>6. BlocksDistinct'
    BY <2>2 DEF IInv, BlocksDistinct
  <2>7. FrameBlock'
    <3>1. \A s \in Slots : mem[s] = mem[at] => s = at
      BY <1>2, <2>2 DEF IInv, BlocksDistinct
    <3> QED
      BY <3>1, <2>2, <2>4, <2>5 DEF IInv, FrameBlock, Held, TypeOK
  <2>8. CleanSlot'
    BY <1>2, <2>2, <2>4, <2>5 DEF IInv, CleanSlot, Held, TypeOK
  <2>9. NoSlotLeaked'
    BY <2>2, <2>4, <2>5 DEF IInv, NoSlotLeaked, Held, TypeOK
  <2>10. NoSharedBlock'
    BY <1>2, <2>2, <2>4, <2>5 DEF IInv, NoSharedBlock, FrameBlock, CleanSlot, Held, TypeOK
  <2> QED
    BY <2>2, <2>3, <2>6, <2>7, <2>8, <2>9, <2>10 DEF IInv, ScanAlive
<1> QED
  BY <1>1, <1>2

\* Second loop: as before, and the new block is referred to by nobody.
LEMMA ScanAnyIInv == IInv /\ ScanAny => IInv'
<1> SUFFICES ASSUME IInv, ScanAny PROVE IInv'
  OBVIOUS
<1>1. CASE ~free[at]
  BY <1>1, SkipIInv DEF ScanAny
<1>2. CASE free[at]
  <2>1. PICK f \in Frames, m \in Mems :
          /\ Unreferenced(m)
          /\ Take(f, m)
          /\ mem' = [mem EXCEPT ![at] = m]
          /\ size' = [size EXCEPT ![at] = want]
    BY <1>2 DEF ScanAny
  <2>2. alive /\ at \in Slots /\ UNCHANGED <<want, alive, stale, wild>>
    BY DEF ScanAny, IInv, TypeOK, ScanAlive
  <2>3. TypeOK'
    BY <2>1, <2>2, PoolAssumption DEF Take, IInv, TypeOK, Slots
  <2>4. \A g \in Frames : g # f =>
          status'[g] = status[g] /\ fmem'[g] = fmem[g] /\ fslot'[g] = fslot[g]
    BY <2>1 DEF Take, IInv, TypeOK
  <2>5. /\ status'[f] = "filling" /\ fmem'[f] = m /\ fslot'[f] = at
        /\ status[f] = "none" /\ ~free'[at] /\ mem'[at] = m
        /\ \A s \in Slots : s # at => free'[s] = free[s] /\ mem'[s] = mem[s]
    BY <2>1, <2>2 DEF Take, IInv, TypeOK
  <2>6. BlocksDistinct'
    BY <2>1, <2>2, <2>5 DEF IInv, BlocksDistinct, Unreferenced
  <2>7. FrameBlock'
    BY <2>1, <2>2, <2>4, <2>5 DEF IInv, FrameBlock, Unreferenced, Held, TypeOK
  <2>8. CleanSlot'
    BY <1>2, <2>2, <2>4, <2>5 DEF IInv, CleanSlot, Held, TypeOK
  <2>9. NoSlotLeaked'
    BY <2>2, <2>4, <2>5 DEF IInv, NoSlotLeaked, Held, TypeOK
  <2>10. NoSharedBlock'
    BY <2>1, <2>2, <2>4, <2>5 DEF IInv, NoSharedBlock, Unreferenced, Held, TypeOK
  <2> QED
    BY <2>2, <2>3, <2>6, <2>7, <2>8, <2>9, <2>10 DEF IInv, ScanAlive
<1> QED
  BY <1>1, <1>2

\* A frame gives its slot back, after a failed copy or when it dies.
LEMMA ReturnIInv ==
  ASSUME IInv, NEW f \in Frames, FillFails(f) \/ ReleaseFrame(f)
  PROVE  IInv'
<1>1. /\ UNCHANGED <<mem, size, fmem, fslot, pass, at, want, alive, stale>>
      /\ status' = [status EXCEPT ![f] = "none"]
      /\ free' = [free EXCEPT ![fslot[f]] = TRUE] \/ (~alive /\ free' = free)
      /\ Held(f) /\ wild' \in BOOLEAN
  BY DEF FillFails, ReleaseFrame, worker, Held, IInv, TypeOK
<1>2. TypeOK'
  BY <1>1 DEF IInv, TypeOK
<1>3. CleanSlot'
  BY <1>1 DEF IInv, CleanSlot, Held, TypeOK
<1>4. NoSlotLeaked'
  BY <1>1 DEF IInv, NoSlotLeaked, Held, TypeOK
<1>5. FrameBlock' /\ NoSharedBlock'
  BY <1>1 DEF IInv, FrameBlock, NoSharedBlock, Held, TypeOK
<1> QED
  BY <1>1, <1>2, <1>3, <1>4, <1>5 DEF IInv, BlocksDistinct, ScanAlive

\* Clearing the pool makes the slot of every remaining frame stale.
LEMMA ClearPoolIInv == IInv /\ ClearPool => IInv'
<1> SUFFICES ASSUME IInv, ClearPool PROVE IInv'
  OBVIOUS
<1>1. \A f \in Frames : Held(f) => fslot[f] \in stale'
  BY DEF ClearPool, Filling, Live, Held, IInv, TypeOK
<1>2. TypeOK'
  BY DEF ClearPool, Live, worker, IInv, TypeOK
<1>3. BlocksDistinct' /\ FrameBlock'
  BY PoolAssumption DEF ClearPool, IInv, BlocksDistinct, FrameBlock, Held
<1>4. CleanSlot' /\ NoSharedBlock' /\ NoSlotLeaked'
  BY <1>1 DEF ClearPool, CleanSlot, NoSharedBlock, NoSlotLeaked, Held
<1> QED
  BY <1>2, <1>3, <1>4 DEF IInv, ScanAlive, ClearPool, worker

\* Deleting the decoder drops the blocks of the slots; frames keep theirs.
LEMMA DestroyIInv == IInv /\ DestroyDecoder => IInv'
<1> SUFFICES ASSUME IInv, DestroyDecoder PROVE IInv'
  OBVIOUS
<1>1. TypeOK'
  BY DEF DestroyDecoder, worker, IInv, TypeOK
<1>2. BlocksDistinct' /\ FrameBlock'
  BY PoolAssumption DEF DestroyDecoder, IInv, BlocksDistinct, FrameBlock, Held
<1>3. CleanSlot' /\ NoSharedBlock'
  BY DEF DestroyDecoder, IInv, CleanSlot, NoSharedBlock, Held
<1>4. ScanAlive' /\ NoSlotLeaked'
  BY DEF DestroyDecoder, worker, ScanAlive, NoSlotLeaked
<1> QED
  BY <1>1, <1>2, <1>3, <1>4 DEF IInv

\* Every step of the worker, of a dying frame and of the owner keeps the
\* invariant.
LEMMA NextIInv == IInv /\ [Next]_vars => IInv'
<1> SUFFICES ASSUME IInv, [Next]_vars PROVE IInv'
  OBVIOUS
<1>1. CASE UNCHANGED vars
  BY <1>1 DEF vars, worker, IInv, TypeOK, BlocksDistinct, FrameBlock, CleanSlot,
     ScanAlive, NoSlotLeaked, NoSharedBlock, Held
<1>2. ASSUME NEW w \in Sizes, BeginAcquire(w) PROVE IInv'
  BY <1>2, PoolAssumption DEF BeginAcquire, IInv, TypeOK, BlocksDistinct, FrameBlock,
     CleanSlot, ScanAlive, NoSlotLeaked, NoSharedBlock, Held, Slots
<1>3. ASSUME NEW f \in Frames, FillOk(f) PROVE IInv'
  BY <1>3 DEF FillOk, worker, IInv, TypeOK, BlocksDistinct, FrameBlock,
     CleanSlot, ScanAlive, NoSlotLeaked, NoSharedBlock, Held
<1> QED
  BY <1>1, <1>2, <1>3, ScanSameIInv, ScanAnyIInv, ReturnIInv, ClearPoolIInv,
     DestroyIInv DEF Next

-----------------------------------------------------------------------------
\* The inductive invariant holds in every reachable state of the pool.
THEOREM PoolInvariant == Spec => []IInv
BY InitIInv, NextIInv, PTL DEF Spec

\* AcquirePoolSlot, ~PooledI420 and ClearPool keep every variable in its type.
THEOREM PoolTypeOK == Spec => []TypeOK
BY PoolInvariant, PTL DEF IInv

\* A busy slot always has an owner that will hand it back, whatever the
\* interleaving of the worker's search with the destructors of the frames.
THEOREM PoolNoSlotLeaked == Spec => []NoSlotLeaked
BY PoolInvariant, PTL DEF IInv

\* Two frames use one block only through a slot cleared under a live frame.
THEOREM PoolNoSharedBlock == Spec => []NoSharedBlock
BY PoolInvariant, PTL DEF IInv
=============================================================================
