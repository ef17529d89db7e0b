----------------------------- MODULE MCI420Pool -----------------------------
(* Small instances of I420Pool for TLC. *)
EXTENDS I420Pool, TLC

CONSTANTS f1, f2, f3, m1, m2, m3, m4, m5

MCFrames == {f1, f2, f3}
MCMems == {m1, m2, m3, m4, m5}
MCSizes == {"720p", "1080p"}

\* Frames and blocks are interchangeable: neither is ever ordered or chosen.
Symmetry == Permutations(MCFrames) \cup Permutations(MCMems)
=============================================================================
