--------------------------- MODULE ControlSequences ---------------------------
(***************************************************************************)
(* What the parser has to make of a stream, told from the whole of a       *)
(* sequence or of a character, once it is complete, and not byte by byte:  *)
(* the escape, control and operating system sequences of ECMA-48 as a      *)
(* parser after Williams (parser.hpp:35) takes them.  `seq' is the         *)
(* sequence begun, `last' the one the last byte has completed, `text' the  *)
(* bytes of the character begun or just completed, `call' the call made.   *)
(*                                                                         *)
(* Williams begins anew at an ESC and overlooks a DEL wherever they stand  *)
(* in an escape or a control sequence; this parser executes the ESC and    *)
(* goes on with the old sequence, and it gives the sequence up at a DEL.   *)
(* `astray' is TRUE from such a byte until both are at rest again.         *)
(***************************************************************************)
EXTENDS Parser, FiniteSets, Functions

CONSTANTS MaxSeq,   \* bound on the length of a sequence other than a string
          MaxAstray \* and while the parser is astray

VARIABLES seq, last, text, call, astray

histVars == <<seq, last, text, call, astray>>

DEL == 127

InOsc(s) == Len(s) >= 2 /\ s[2] = 93
InCsi(s) == Len(s) >= 2 /\ s[2] = 91

\* Does b end the sequence s?  It is executed on the way when it is a C0.
Ends(s, b) ==
  CASE InOsc(s) -> b \in {BEL, ESC}
    [] InCsi(s) -> IsCsiFinal(b)
    [] OTHER -> ~IsIntermediate(b) /\ ~(Len(s) = 1 /\ b \in {91, 93})

IsExecuted(s, b) == IsC0(b) /\ b # ESC /\ ~InOsc(s)

\* What stands between the introducer of s and its last byte.
Body(s) == SubSeq(s, 3, Len(s) - 1)

\* A body is a marker, parameters, intermediates; each of them may be missing.
IsParameter(b) == IsDigit(b) \/ IsSeparator(b)
HasMarker(w) == w # <<>> /\ IsPrivateMarker(w[1])
WellFormed(w) ==
  \A i \in DOMAIN w :
    \/ i = 1 /\ IsPrivateMarker(w[i])
    \/ IsParameter(w[i]) /\ \A j \in 1 .. i - 1 : ~IsIntermediate(w[j])
    \/ IsIntermediate(w[i])

Before(w) == {i \in DOMAIN w : ~IsIntermediate(w[i])}
Intermediates(w) == SubSeq(w, Cardinality(Before(w)) + 1, Len(w))
AtMost(n, s) == IF Len(s) <= n THEN s ELSE SubSeq(s, 1, n)

\* The digits of the k-th parameter of the body w; the number they write.
Separators(w, i) == {j \in 1 .. i : IsSeparator(w[j])}
Field(w, k) ==
  {i \in DOMAIN w : IsDigit(w[i]) /\ Cardinality(Separators(w, i)) = k - 1}
Power[n \in Nat] == IF n = 0 THEN 1 ELSE 10 * Power[n - 1]
Digits(w, f) ==
  [i \in f |-> (w[i] - 48) * Power[Cardinality({j \in f : j > i})]]
Value(w, f) == SumFunctionOnSet(Digits(w, f), f)
Numbers(w) ==
  [k \in 1 .. Cardinality(Separators(w, Len(w))) + 1 |-> Value(w, Field(w, k))]
Values(w) ==
  IF \E i \in DOMAIN w : IsParameter(w[i]) THEN Numbers(w) ELSE <<>>

Fits(vs) == /\ Len(vs) <= MaxParams
            /\ \A k \in DOMAIN vs : vs[k] <= 10 * MaxParam + 9

CsiWritten(s) ==
  LET w == Body(s)
  IN  IF WellFormed(w) /\ Fits(Values(w))
      THEN <<"csi", s[Len(s)], Values(w),
             AtMost(MaxIntermediates, Intermediates(w)), HasMarker(w)>>
      ELSE <<>>

EscWritten(s) ==
  IF IsEscFinal(s[Len(s)])
  THEN <<"esc", s[Len(s)], AtMost(MaxIntermediates, SubSeq(s, 2, Len(s) - 1))>>
  ELSE <<>>

OscWritten(s) == IF Len(Body(s)) <= MaxOscLen THEN <<"osc", Body(s)>> ELSE <<>>

Written(s) == CASE InOsc(s) -> OscWritten(s)
                [] InCsi(s) -> CsiWritten(s)
                [] OTHER -> EscWritten(s)

\* How long the character is that begins with b; none begins with 0.
Size(b) == CASE b \in 32 .. 126 -> 1 [] b \in 192 .. 223 -> 2
             [] b \in 224 .. 239 -> 3 [] b \in 240 .. 247 -> 4 [] OTHER -> 0
IsChar(t) == t # <<>> /\ Len(t) = Size(t[1])
IsText(b) == b >= 32 /\ b # 127

\* The code point: the bits of the lead byte, then six of each other byte.
CodePoint(t) ==
  CASE Len(t) = 1 -> t[1]
    [] Len(t) = 2 -> 64 * (t[1] % 32) + (t[2] % 64)
    [] Len(t) = 3 -> 4096 * (t[1] % 16) + 64 * (t[2] % 64) + (t[3] % 64)
    [] OTHER -> 262144 * (t[1] % 8) + 4096 * (t[2] % 64) + 64 * (t[3] % 64)
                + (t[4] % 64)

\* The code points that there are, and the least one that takes n bytes.
IsScalar(c) == c \in 0 .. 1114111 /\ c \notin 55296 .. 57343
Least == <<0, 128, 2048, 65536>>
IsEncoding(t) == /\ IsChar(t)
                 /\ IsScalar(CodePoint(t)) /\ CodePoint(t) >= Least[Len(t)]
-----------------------------------------------------------------------------
\* Where the parser and the standard part, and where they are together again.
LeadsAstray(b) == seq # <<>> /\ ~InOsc(seq) /\ b \in {ESC, DEL}
AtRest == /\ parser.state = "Ground" /\ parser.remaining = 0
          /\ seq = <<>> /\ (text = <<>> \/ IsChar(text))

InSequence(b) ==
  IF LeadsAstray(b) THEN /\ seq' = IF b = ESC THEN <<ESC>> ELSE seq
                         /\ last' = <<>>
  ELSE IF IsExecuted(seq, b) THEN UNCHANGED seq /\ last' = <<>>
  ELSE IF Ends(seq, b)
       THEN /\ last' = Append(seq, b)
            /\ seq' = IF b = ESC THEN <<ESC>> ELSE <<>>
       ELSE last' = <<>> /\ seq' = Append(seq, b)

InText(b) ==
  text' = IF text # <<>> /\ ~IsChar(text) /\ IsContinuation(b) THEN Append(text, b)
          ELSE IF Size(b) > 0 THEN <<b>> ELSE <<>>

Watch(b) ==
  /\ CASE b \in {CAN, SUB} -> seq' = <<>> /\ last' = <<>>
       [] b \notin {CAN, SUB} /\ seq # <<>> -> InSequence(b)
       [] OTHER -> seq' = (IF b = ESC THEN <<ESC>> ELSE <<>>) /\ last' = <<>>
  /\ IF seq = <<>> /\ IsText(b) THEN InText(b)
     ELSE text' = IF IsChar(text) THEN <<>> ELSE text
  /\ call' = Feed(parser, b).call
  /\ astray' = (LeadsAstray(b) \/ (astray /\ ~AtRest))
  /\ Len(seq') <= CASE InOsc(seq') -> MaxOscLen + 3
                    [] astray' /\ ~InOsc(seq') -> MaxAstray
                    [] OTHER -> MaxSeq

HistInit == /\ ParserInit
            /\ seq = <<>> /\ last = <<>> /\ text = <<>> /\ call = <<>> /\ astray = FALSE

HistNext == \E b \in Byte : Read(b) /\ Watch(b)

HistSpec == HistInit /\ [][HistNext]_<<parserVars, histVars>>
-----------------------------------------------------------------------------
(* The screen is told of a control function exactly when its last byte has  *)
(* come, and what it is told is what the sequence as a whole writes: every   *)
(* parameter has the number between its separators, an omitted one is zero,  *)
(* a sequence that is malformed or too long for the arrays of the parser is  *)
(* dropped whole, and what C0 controls stand in its midst makes no           *)
(* difference.                                                              *)
DispatchedAsWritten ==
  IF last # <<>> THEN call = Written(last)
  ELSE call = <<>> \/ call[1] \in {"put", "execute"}

(* A character is shown exactly when its last byte has come, and it is the   *)
(* one that its bytes encode, even when controls and whole sequences come    *)
(* between them; bytes that begin no character show none.  Bytes that have   *)
(* the form of a character and encode none (too long a form, a surrogate,    *)
(* beyond the last code point) are promised nothing: feed() shows them.      *)
ShownAsEncoded ==
  /\ IsEncoding(text) => call = <<"put", CodePoint(text)>>
  /\ ~IsChar(text) => call = <<>> \/ call[1] # "put"

(* put_char, csi, esc and osc are called for the whole characters and        *)
(* control functions of the stream and for nothing else.  False: after an    *)
(* ESC within a sequence (parser.cpp:182,198,203,230,249,260) the old        *)
(* sequence goes on and the new one is not seen.                            *)
EveryCallAsWritten == DispatchedAsWritten /\ ShownAsEncoded

(* What the sink hears is what the stream says, except between an ESC or a   *)
(* DEL within a sequence and the next moment of rest.                       *)
CallsAsWritten == ~astray => EveryCallAsWritten
=============================================================================
