----------------------------- MODULE Bitstream -----------------------------
(***************************************************************************)
(* How the decoder prepares an encoded frame for MediaCodec                *)
(* (src/android_mediacodec_video_decoder.cpp): a frame that starts with an *)
(* Annex B start code is fed as it is, any other is cut at its start codes *)
(* and rewritten with 4-byte length prefixes (AVCC).  A frame is the       *)
(* sequence of its bytes, indices start at 1.                              *)
(***************************************************************************)
EXTENDS Integers, Sequences, FiniteSetsExt, SequencesExt

CONSTANT ByteRange  \* values of a byte: 256 in the code, few to see carries

ASSUME BitstreamAssumption == ByteRange \in Nat /\ ByteRange > 1

Occurs(code, d, i) ==
  i + Len(code) - 1 <= Len(d) /\ SubSeq(d, i, i + Len(code) - 1) = code
ShortCode == <<0, 0, 1>>
LongCode == <<0, 0, 0, 1>>

LooksLikeAnnexB(d) ==
  Len(d) >= 4 /\ (Occurs(ShortCode, d, 1) \/ Occurs(LongCode, d, 1))

\* The length of the start code at i, 0 when there is none.
CodeLength(d, i) ==
  CASE Occurs(ShortCode, d, i) -> 3
    [] Occurs(LongCode, d, i) -> 4
    [] OTHER -> 0

\* Mutated NalEnd: only short start codes end a NAL unit.
NalEnd_ShortOnly(d, s) ==
  Min({Len(d) + 1} \cup {j \in s..Len(d) : Occurs(ShortCode, d, j)})

\* The inner loop: where the NAL unit that starts at s ends.
NalEnd(d, s) == Min({Len(d) + 1} \cup {j \in s..Len(d) : CodeLength(d, j) # 0})

RECURSIVE SplitFrom(_, _)
SplitFrom(d, i) ==
  IF i > Len(d) THEN <<>>
  ELSE IF CodeLength(d, i) = 0 THEN SplitFrom(d, i + 1)
  ELSE LET s == i + CodeLength(d, i)
           e == NalEnd(d, s)
       IN  (IF e > s THEN <<SubSeq(d, s, e - 1)>> ELSE <<>>) \o SplitFrom(d, e)

SplitAnnexB(d) == IF Len(d) < 3 THEN <<>> ELSE SplitFrom(d, 1)

LengthPrefix(n) == [k \in 1..4 |-> (n \div ByteRange^(4 - k)) % ByteRange]

\* A frame without a NAL unit is taken for one NAL unit as a whole.
AnnexBToAvcc(d) ==
  LET nals == SplitAnnexB(d)
      units == IF nals = <<>> /\ d # <<>> THEN <<d>> ELSE nals
  IN  FlattenSeq([k \in DOMAIN units |-> LengthPrefix(Len(units[k])) \o units[k]])

\* What ProcessOneFrame feeds to the codec.
Feed(d) == IF LooksLikeAnnexB(d) THEN d ELSE AnnexBToAvcc(d)

-----------------------------------------------------------------------------
(* Reference definitions, from the formats.                                *)

\* Where the 3-byte start codes are, in order.
CodeSeq(d) == SetToSortSeq({i \in 1..Len(d) : Occurs(ShortCode, d, i)}, <)

\* A NAL unit lies between two start codes; a zero before the second one is its
\* zero_byte and not data.  Further zeros are trailing_zero_8bits, which the code
\* leaves at the end of the unit, where a decoder ignores them; so they stay here.
NalUnits(d) ==
  LET c == CodeSeq(d)
      from(k) == c[k] + 3
      to(k) == IF k = Len(c) THEN Len(d)
               ELSE IF c[k + 1] > from(k) /\ d[c[k + 1] - 1] = 0 THEN c[k + 1] - 2
               ELSE c[k + 1] - 1
  IN  SelectSeq([k \in DOMAIN c |-> SubSeq(d, from(k), to(k))], LAMBDA u : u # <<>>)

\* What a decoder of length-prefixed NAL units reads; an empty unit stands for
\* lengths that do not add up.
RECURSIVE ParseAvcc(_)
ParseAvcc(a) ==
  LET n == FoldLeft(LAMBDA x, b : x * ByteRange + b, 0, SubSeq(a, 1, 4))
  IN  IF a = <<>> THEN <<>>
      ELSE IF Len(a) < 4 \/ Len(a) < 4 + n THEN <<<<>>>>
      ELSE <<SubSeq(a, 5, 4 + n)>> \o ParseAvcc(SubSeq(a, 5 + n, Len(a)))
=============================================================================
