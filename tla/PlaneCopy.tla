----------------------------- MODULE PlaneCopy -----------------------------
(***************************************************************************)
(* Which copy of a decoded picture is made, and which bytes of the codec's *)
(* output buffer it reads (src/android_mediacodec_video_decoder.cpp).  The *)
(* buffer holds an NV12 picture at offset off of cap bytes: slice rows of  *)
(* stride bytes of luma, then rows of interleaved chroma.                  *)
(***************************************************************************)
EXTENDS Integers, Sequences

\* UpdateOutputFormat: what the codec reports, 0 when it reports nothing.
UpdateOutputFormat(w, h, stride, slice) ==
  [w |-> w, h |-> h,
   stride |-> IF stride < w THEN w ELSE stride,
   slice |-> IF slice < h THEN h ELSE slice]

\* The tight variants take the picture to be stored without padding.
Tight(f) == [f EXCEPT !.stride = f.w, !.slice = f.h]

-----------------------------------------------------------------------------
(* The capacity each copy asks for.                                        *)

Nv12Need(f) == f.stride * f.slice + f.stride * ((f.h + 1) \div 2)
I420Need(f) == f.stride * f.slice + f.stride * (f.slice \div 2)

\* Mutated Nv12Fits: the chroma rows are not counted.
Nv12Fits_LumaOnly(f, off, cap) == off + f.stride * f.slice <= cap

Nv12Fits(f, off, cap) == off + Nv12Need(f) <= cap
I420Fits(f, off, cap) == off + I420Need(f) <= cap

Fits(kind, f, off, cap) ==
  IF kind = "nv12" THEN Nv12Fits(f, off, cap) ELSE I420Fits(f, off, cap)

\* The copies in the order in which DrainOutputs tries them; nv12 is FALSE when
\* the NV12 buffer cannot be allocated.
Attempts(f, nv12) ==
  (IF nv12 THEN <<[kind |-> "nv12", f |-> f], [kind |-> "nv12", f |-> Tight(f)]>>
           ELSE <<>>)
    \o <<[kind |-> "i420", f |-> f], [kind |-> "i420", f |-> Tight(f)]>>

\* The copies that fit, the first of which is made.
Fitting(f, nv12, off, cap) ==
  SelectSeq(Attempts(f, nv12), LAMBDA a : Fits(a.kind, a.f, off, cap))

\* How far a copy reads: libyuv takes chroma in pairs, memcpy takes w bytes.
ReadEnd(a, off) ==
  LET f == a.f
      uvWidth == IF a.kind = "nv12" THEN f.w ELSE 2 * ((f.w + 1) \div 2)
  IN  off + f.stride * f.slice + f.stride * ((f.h + 1) \div 2 - 1) + uvWidth
=============================================================================
