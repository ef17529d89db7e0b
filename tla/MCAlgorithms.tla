---------------------------- MODULE MCAlgorithms ----------------------------
(***************************************************************************)
(* The pure algorithms over bounded inputs: an encoded frame grows byte by *)
(* byte, a text that is sent grows by characters and by phrases that look  *)
(* like fields, and an output buffer has any small geometry.               *)
(***************************************************************************)
EXTENDS Bitstream, LineCodec, PlaneCopy

CONSTANTS
  MaxBytes,  \* bound: bytes of a frame
  MaxParts,  \* bound: characters or phrases of a text
  MaxSide,   \* bound: width, height, stride and slice height of a picture
  MaxCap     \* bound: bytes of an output buffer

VARIABLES
  frame,     \* an encoded frame
  parts,     \* what a text is made of
  picture    \* an output buffer and its format

vars == <<frame, parts, picture>>

\* Characters the codec treats specially, letters that follow a backslash in an
\* escape, and phrases that ParseAndDispatch looks for.
Parts ==
  {<<c>> : c \in {Quote, Backslash, NL, CR, "n"}}
    \cup {TypeIs("register"), TypeIs("answer"), Field("sdp"), Field("candidate")}
Text == FlattenSeq(parts)

Pictures ==
  [nv12 : BOOLEAN, w : 1..MaxSide, h : 1..MaxSide, stride : 0..MaxSide,
   slice : 0..MaxSide, off : {0, 1}, cap : 0..MaxCap]
NoPicture == [nv12 |-> TRUE, w |-> 2, h |-> 2, stride |-> 2, slice |-> 2, off |-> 0,
              cap |-> 6]

Init == frame = <<>> /\ parts = <<>> /\ picture = NoPicture

NextByte ==
  /\ parts = <<>> /\ picture = NoPicture /\ Len(frame) < MaxBytes
  /\ \E b \in 0..ByteRange - 1 : frame' = Append(frame, b)
  /\ UNCHANGED <<parts, picture>>

NextPart ==
  /\ frame = <<>> /\ picture = NoPicture /\ Len(parts) < MaxParts
  /\ \E x \in Parts : parts' = Append(parts, x)
  /\ UNCHANGED <<frame, picture>>

NextPicture ==
  /\ frame = <<>> /\ parts = <<>> /\ picture = NoPicture
  /\ picture' \in Pictures
  /\ UNCHANGED <<frame, parts>>

\* Another input.
Restart == frame' = <<>> /\ parts' = <<>> /\ picture' = NoPicture

Next == NextByte \/ NextPart \/ NextPicture \/ Restart
Spec == Init /\ [][Next]_vars

-----------------------------------------------------------------------------

\* What AnnexBToAvcc writes is read back as the NAL units of the frame, or as the
\* whole frame when it has none: no byte of them is lost and every length fits.
AvccHoldsNalUnits ==
  ~LooksLikeAnnexB(frame) /\ frame # <<>> =>
    ParseAvcc(Feed(frame)) = IF NalUnits(frame) = <<>> THEN <<frame>> ELSE NalUnits(frame)

\* A description of any text arrives as it was sent, under its own kind, and its
\* line has no line break in it, also when the text reads like another message.
\* A candidate, which is one line, arrives with its mid and index; only an empty
\* one is not passed on.
MessageArrives ==
  /\ \A kind \in {"offer", "answer"} :
       /\ NL \notin ToSet(SendDescription(kind, Text))
       /\ ParseAndDispatch(SendDescription(kind, Text)) = [call |-> kind, sdp |-> Text]
  /\ NL \notin ToSet(Text) =>
       \A mid \in {<<>>, <<"0">>}, mline \in 0..1 :
         ParseAndDispatch(SendIceCandidate(mid, mline, Text)) =
           IF Text = <<>> THEN NoCall
           ELSE [call |-> "ice", mid |-> mid, mline |-> mline, candidate |-> Text]

Format == UpdateOutputFormat(picture.w, picture.h, picture.stride, picture.slice)
Copies == Fitting(Format, picture.nv12, picture.off, picture.cap)

\* Whatever stride, slice height and size the codec reports, the copy that is
\* made of a picture of even size stays within the output buffer (with 4:2:0
\* cropping H.264 pictures have even sizes).
CopyInBounds ==
  picture.w % 2 = 0 /\ picture.h % 2 = 0 /\ Copies # <<>> =>
    ReadEnd(Head(Copies), picture.off) <= picture.cap

=============================================================================
