-------------------------------- MODULE Parser --------------------------------
(***************************************************************************)
(* The control sequence parser, term_core/parser.cpp: feed() takes one     *)
(* byte and makes at most one call of the sink, which is the screen.  The  *)
(* parser is a record, its arrays with their counters are sequences;       *)
(* param_started_ is left out: it is set only when there is a parameter,   *)
(* and read only when there is none.                                       *)
(*                                                                         *)
(* Nothing resets the parser of the terminal: reconnecting or changing the *)
(* transport leaves it where the last byte did.  `twin' is a parser made   *)
(* anew each time `parser' is idle, which shows what the past can do.      *)
(***************************************************************************)
EXTENDS Integers, Sequences

CONSTANTS Byte,               \* the bytes that are read
          MaxParams, MaxIntermediates, MaxOscLen,  \* 16, 2, 256
          MaxParam            \* 99999: no digit is added to a greater number

ASSUME ParserAssumption ==
  /\ Byte \subseteq 0 .. 255
  /\ MaxParams \in Nat \ {0}
  /\ MaxIntermediates \in Nat /\ MaxOscLen \in Nat /\ MaxParam \in Nat

VARIABLES parser, twin

parserVars == <<parser, twin>>
-----------------------------------------------------------------------------
BEL == 7
CAN == 24
SUB == 26
ESC == 27

IsC0(b) == b < 32
IsIntermediate(b) == b \in 32 .. 47
IsDigit(b) == b \in 48 .. 57
IsSeparator(b) == b \in {58, 59}
IsPrivateMarker(b) == b \in 60 .. 63
IsCsiFinal(b) == b \in 64 .. 126
IsEscFinal(b) == b \in 48 .. 126
IsContinuation(b) == b \in 128 .. 191

\* The bits of a lead byte, how many bytes follow it: two, three or four in all.
Lead(b) == CASE b \in 192 .. 223 -> <<b - 192, 1>>
             [] b \in 224 .. 239 -> <<b - 224, 2>>
             [] b \in 240 .. 247 -> <<b - 240, 3>>
             [] OTHER -> <<0, 0>>

CsiStates == {"CsiEntry", "CsiParam", "CsiIntermediate", "CsiIgnore"}
EscStates == {"Esc", "EscIntermediate"}
States == {"Ground", "OscString"} \cup CsiStates \cup EscStates

Fresh == [state |-> "Ground", params |-> <<>>, intermediates |-> <<>>,
          private |-> FALSE, csiOverflow |-> FALSE, escIntermediates |-> <<>>,
          cp |-> 0, remaining |-> 0, osc |-> <<>>, oscOverflow |-> FALSE]

\* What feed() does: the parser after the byte, the call of the sink or <<>>.
Quiet(q) == [parser |-> q, call |-> <<>>]
Makes(q, call) == [parser |-> q, call |-> call]

EnterGround(q) == [q EXCEPT !.state = "Ground"]

EnterEsc(q) == [q EXCEPT !.state = "Esc", !.escIntermediates = <<>>]

\* Mutant: the marker of the sequence before stays.
EnterCsiKeepingMarker(q) ==
  [q EXCEPT !.state = "CsiEntry", !.params = <<>>, !.intermediates = <<>>,
            !.csiOverflow = FALSE]

EnterCsi(q) ==
  [q EXCEPT !.state = "CsiEntry", !.params = <<>>, !.intermediates = <<>>,
            !.private = FALSE, !.csiOverflow = FALSE]

EnterOsc(q) == [q EXCEPT !.state = "OscString", !.osc = <<>>, !.oscOverflow = FALSE]

\* The parameters once the sequence has one, the first being an implicit zero.
Started(q) == IF q.params = <<>> THEN <<0>> ELSE q.params

PushDigit(q, b) ==
  LET ps == Started(q)
  IN  IF ps[Len(ps)] > MaxParam
      THEN [q EXCEPT !.params = ps, !.csiOverflow = TRUE]
      ELSE [q EXCEPT !.params = [ps EXCEPT ![Len(ps)] = 10 * @ + (b - 48)]]

\* Mutant: a separator in front does not make an empty first parameter.
NextParamOnly(q) ==
  IF Len(q.params) < MaxParams
  THEN [q EXCEPT !.params = Append(@, 0)]
  ELSE [q EXCEPT !.csiOverflow = TRUE]

NextParam(q) ==
  LET ps == Started(q)
  IN  IF Len(ps) < MaxParams
      THEN [q EXCEPT !.params = Append(ps, 0)]
      ELSE [q EXCEPT !.params = ps, !.csiOverflow = TRUE]

Kept(s, b) == IF Len(s) < MaxIntermediates THEN Append(s, b) ELSE s

CsiInter(q, b) ==
  [q EXCEPT !.state = "CsiIntermediate", !.intermediates = Kept(@, b)]

EscInter(q, b) ==
  [q EXCEPT !.state = "EscIntermediate", !.escIntermediates = Kept(@, b)]

DispatchCsi(q, b) ==
  Makes(EnterGround(q),
        IF q.csiOverflow THEN <<>>
        ELSE <<"csi", b, q.params, q.intermediates, q.private>>)

DispatchEsc(q, b) == Makes(EnterGround(q), <<"esc", b, q.escIntermediates>>)

OscCall(q) == IF q.oscOverflow THEN <<>> ELSE <<"osc", q.osc>>
-----------------------------------------------------------------------------
\* The rest of a character, or its first byte when the one begun is broken off.
OnContinuation(q, b) ==
  LET cp == 64 * q.cp + (b - 128)
  IN  IF q.remaining = 1
      THEN Makes([q EXCEPT !.cp = 0, !.remaining = 0], <<"put", cp>>)
      ELSE Quiet([q EXCEPT !.cp = cp, !.remaining = @ - 1])

OnLead(q, b) ==
  LET lead == Lead(b)
  IN  Quiet([q EXCEPT !.cp = lead[1], !.remaining = lead[2]])

\* An ASCII character gives up the one begun.
OnAscii(q, b) ==
  Makes(IF q.remaining > 0 THEN [q EXCEPT !.cp = 0, !.remaining = 0] ELSE q,
        <<"put", b>>)

OnGround(q, b) ==
  CASE b = ESC -> Quiet(EnterEsc(q))
    [] b # ESC /\ IsC0(b) -> Makes(q, <<"execute", b>>)
    [] b = 127 -> Quiet(q)
    [] b \in 32 .. 126 -> OnAscii(q, b)
    [] IsContinuation(b) /\ q.remaining > 0 -> OnContinuation(q, b)
    [] OTHER -> OnLead(q, b)

OnEsc(q, b) ==
  CASE b = 91 /\ q.state = "Esc" -> Quiet(EnterCsi(q))
    [] b = 93 /\ q.state = "Esc" -> Quiet(EnterOsc(q))
    [] IsIntermediate(b) -> Quiet(EscInter(q, b))
    [] IsC0(b) -> Makes(q, <<"execute", b>>)
    [] IsEscFinal(b) /\ ~(b \in {91, 93} /\ q.state = "Esc") -> DispatchEsc(q, b)
    [] OTHER -> Quiet(EnterGround(q))

MayTakeParam(q) == q.state \in {"CsiEntry", "CsiParam"}

OnCsi(q, b) ==
  CASE IsC0(b) -> Makes(q, <<"execute", b>>)
    [] IsDigit(b) /\ MayTakeParam(q) ->
         Quiet([PushDigit(q, b) EXCEPT !.state = "CsiParam"])
    [] IsSeparator(b) /\ MayTakeParam(q) ->
         Quiet([NextParam(q) EXCEPT !.state = "CsiParam"])
    [] IsPrivateMarker(b) /\ q.state = "CsiEntry" ->
         Quiet([q EXCEPT !.private = TRUE, !.state = "CsiParam"])
    [] IsIntermediate(b) /\ q.state # "CsiIgnore" -> Quiet(CsiInter(q, b))
    [] IsCsiFinal(b) /\ q.state # "CsiIgnore" -> DispatchCsi(q, b)
    [] IsCsiFinal(b) /\ q.state = "CsiIgnore" -> Quiet(EnterGround(q))
    [] OTHER -> Quiet([q EXCEPT !.state = "CsiIgnore"])

\* ESC ends the string at once; the \ of ST is then an ESC sequence of its own.
OnOsc(q, b) ==
  CASE b = BEL -> Makes(EnterGround(q), OscCall(q))
    [] b = ESC -> Makes(EnterEsc(q), OscCall(q))
    [] OTHER -> Quiet(IF Len(q.osc) < MaxOscLen
                      THEN [q EXCEPT !.osc = Append(@, b)]
                      ELSE [q EXCEPT !.oscOverflow = TRUE])

Feed(q, b) ==
  IF b \in {CAN, SUB} THEN Quiet(EnterGround(q))
  ELSE CASE q.state = "Ground" -> OnGround(q, b)
         [] q.state \in EscStates -> OnEsc(q, b)
         [] q.state \in CsiStates -> OnCsi(q, b)
         [] OTHER -> OnOsc(q, b)
-----------------------------------------------------------------------------
\* Neither a sequence nor a character is begun.
Idle(q) == q.state = "Ground" /\ q.remaining = 0

ParserInit == parser = Fresh /\ twin = Fresh

Read(b) ==
  /\ parser' = Feed(parser, b).parser
  /\ twin' = IF Idle(parser') THEN Fresh ELSE Feed(twin, b).parser

ParserNext == \E b \in Byte : Read(b)

ParserSpec == ParserInit /\ [][ParserNext]_parserVars
-----------------------------------------------------------------------------
(* No array of the parser is written beyond its end and no number of it     *)
(* overflows: at most kMaxParams parameters of at most six digits,          *)
(* kMaxIntermediates intermediates, kMaxOscLen bytes of a string, and a code *)
(* point of 21 bits, whatever comes over the line.                          *)
Records ==
  [state : States, params : Seq(0 .. 10 * MaxParam + 9), intermediates : Seq(Byte),
   private : BOOLEAN, csiOverflow : BOOLEAN, escIntermediates : Seq(Byte),
   cp : Nat, remaining : 0 .. 3, osc : Seq(Byte), oscOverflow : BOOLEAN]

\* What the code point is below, with that many bytes still to come.
CpBound == [r \in 0 .. 3 |-> <<1, 32768, 512, 8>>[r + 1]]

Sized(q) ==
  /\ Len(q.params) <= MaxParams
  /\ Len(q.intermediates) <= MaxIntermediates
  /\ Len(q.escIntermediates) <= MaxIntermediates
  /\ Len(q.osc) <= MaxOscLen
  /\ q.cp < CpBound[q.remaining]

WithinArrays(q) == q \in Records /\ Sized(q)

ParserTypeOK == WithinArrays(parser) /\ WithinArrays(twin)

(* A sequence that was cut short, overlong or ignored leaves nothing that a  *)
(* later one could show: whenever the parser is idle it is as good as new,   *)
(* since a parser made there and then makes the same call for every byte     *)
(* that follows.                                                            *)
NoResidue == \A b \in Byte : Feed(parser, b).call = Feed(twin, b).call
=============================================================================
