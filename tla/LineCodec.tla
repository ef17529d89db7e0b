----------------------------- MODULE LineCodec -----------------------------
(***************************************************************************)
(* How the signaling client writes a message as one line of JSON and finds *)
(* the fields of a line again, by searching for their names               *)
(* (src/signaling_client.cpp).  A line is a sequence of characters; the    *)
(* words of the format are one character each, as are line breaks, and the *)
(* number of a line index.                                                 *)
(***************************************************************************)
EXTENDS Naturals, Sequences, FiniteSetsExt, SequencesExt

Quote == "\""
Backslash == "\\"
NL == "\n"
CR == "\r"

\* A line index is written and read (atoi) as a decimal number.
Decimal == <<"0", "1", "2", "3", "4", "5", "6", "7", "8", "9">>
Atoi(c) == CHOOSE n \in 0..9 : Decimal[n + 1] = c

\* "name":" and "type":"kind", with or without a space.
Field(name) == <<Quote, name, Quote, ":", Quote>>
TypeIs(kind) == <<Quote, "type", Quote, ":", Quote, kind, Quote>>
TypeIsSpaced(kind) == <<Quote, "type", Quote, ":", " ", Quote, kind, Quote>>

-----------------------------------------------------------------------------
(* SendOffer, SendAnswer and SendIceCandidate: the line before its newline. *)

EscapeSdp(c) ==
  CASE c \in {Quote, Backslash} -> <<Backslash, c>>
    [] c = NL -> <<Backslash, "n">>
    [] c = CR -> <<Backslash, "r">>
    [] OTHER -> <<c>>

\* Mutated EscapeCandidate: quotes are written as they are.
EscapeCandidate_RawQuote(c) == IF c = Backslash THEN <<Backslash, c>> ELSE <<c>>

EscapeCandidate(c) == IF c \in {Quote, Backslash} THEN <<Backslash, c>> ELSE <<c>>

Each(escape(_), text) == FlattenSeq([k \in DOMAIN text |-> escape(text[k])])

SendDescription(kind, sdp) ==
  <<"{">> \o TypeIs(kind) \o <<",">> \o Field("sdp") \o Each(EscapeSdp, sdp)
    \o <<Quote, "}">>

SendIceCandidate(mid, mline, candidate) ==
  <<"{">> \o TypeIs("ice") \o <<",">> \o Field("mid") \o mid
    \o <<Quote, ",", Quote, "mlineIndex", Quote, ":", Decimal[mline + 1], ",">>
    \o Field("candidate") \o Each(EscapeCandidate, candidate) \o <<Quote, "}">>

-----------------------------------------------------------------------------
(* ParseAndDispatch.                                                       *)

\* find: where pat starts first in line, 0 when it does not occur.
Find(pat, line) ==
  LET places == {i \in 1..(Len(line) - Len(pat) + 1) :
                   SubSeq(line, i, i + Len(pat) - 1) = pat}
  IN  IF places = {} THEN 0 ELSE Min(places)
Has(pat, line) == Find(pat, line) # 0
Rest(pat, line) == SubSeq(line, Find(pat, line) + Len(pat), Len(line))

\* What a character stands for after a backslash, when it is not itself.
UnescapeSdp == [n |-> NL, r |-> CR]
UnescapeCandidate == [c \in {} |-> c]

\* The text up to the first quote that no backslash precedes.
RECURSIVE Quoted(_, _)
Quoted(unescape, s) ==
  LET c == s[2]
  IN  IF s = <<>> THEN <<>>
      ELSE IF Head(s) = Backslash /\ Len(s) > 1
             THEN <<IF c \in DOMAIN unescape THEN unescape[c] ELSE c>>
                    \o Quoted(unescape, SubSeq(s, 3, Len(s)))
      ELSE IF Head(s) = Quote THEN <<>>
      ELSE <<Head(s)>> \o Quoted(unescape, Tail(s))

NoCall == [call |-> "none"]

ParseDescription(kind, line) ==
  IF Has(Field("sdp"), line)
    THEN [call |-> kind, sdp |-> Quoted(UnescapeSdp, Rest(Field("sdp"), line))]
    ELSE NoCall

ParseIce(line) ==
  LET rest == Rest(Field("mid"), line)
      index == <<Quote, "mlineIndex", Quote, ":">>
      mid == IF Has(Field("mid"), line) /\ Has(<<Quote>>, rest)
               THEN SubSeq(rest, 1, Find(<<Quote>>, rest) - 1) ELSE <<>>
      mline == IF Has(index, line) THEN Atoi(Head(Rest(index, line))) ELSE 0
      candidate == IF Has(Field("candidate"), line)
                     THEN Quoted(UnescapeCandidate, Rest(Field("candidate"), line))
                     ELSE <<>>
  IN  IF candidate = <<>> THEN NoCall
      ELSE [call |-> "ice", mid |-> mid, mline |-> mline, candidate |-> candidate]

IsType(kind, line) == Has(TypeIs(kind), line) \/ Has(TypeIsSpaced(kind), line)

\* The kinds are looked for in this order, anywhere in the line.
ParseAndDispatch(line) ==
  IF Has(TypeIs("register"), line) THEN NoCall
  ELSE IF IsType("answer", line) THEN ParseDescription("answer", line)
  ELSE IF IsType("offer", line) THEN ParseDescription("offer", line)
  ELSE IF IsType("ice", line) THEN ParseIce(line)
  ELSE NoCall
=============================================================================
