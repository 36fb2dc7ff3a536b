---------------------------- MODULE LegacySymbol ----------------------------
(***************************************************************************)
(* The parser of legacy symbols: demangle_legacy and decode_legacy_ident of *)
(* src/src/core/demangle.cpp.  The text is what follows "_ZN" or "ZN"; out  *)
(* collects the components, then it is the path they make.                 *)
(***************************************************************************)
EXTENDS TextReader

CONSTANTS
  Escapes,      \* legacy_escapes(): [codes -> characters], a code is a sequence
  WordSize,     \* the values of size_t and of unsigned long: 2^64
  MaxParts      \* bound: further components are not recorded

ASSUME LegacyAssumption == WordSize \in Nat \ {0} /\ MaxParts \in Nat \ {0}

StartLegacy(body) ==
  /\ text' = body /\ pos' = 1 /\ out' = <<>> /\ phase' = "legacy"
  /\ UNCHANGED calls

\* "$code$": a named character, a code point by its number, or neither.  (A
\* code point that is not named is no character anyone looks for.)
Unescaped(code) ==
  IF code \in DOMAIN Escapes THEN <<Escapes[code]>>
  ELSE IF /\ Len(code) > 1 /\ code[1] = "u" /\ \A k \in 2..Len(code) : code[k] \in HexSet
          /\ Hexadecimal(Tail(code)) < WordSize
  THEN <<"U+">> \o Spelling[Hexadecimal(Tail(code))]
  ELSE <<"$">> \o code \o <<"$">>

decode_legacy_ident(ident) ==
  LET s == IF Len(ident) > 1 /\ ident[1] = "_" /\ ident[2] = "$" THEN Tail(ident) ELSE ident
      Closing(i) == {e \in (i + 1)..Len(s) : s[e] = "$"}
      decoded[i \in 1..(Len(s) + 2)] ==
        IF i > Len(s) THEN <<>>
        ELSE IF s[i] = "$" /\ Closing(i) = {} THEN SubSeq(s, i, Len(s))
        ELSE IF s[i] = "$"
        THEN LET e == CHOOSE e \in Closing(i) : \A f \in Closing(i) : e <= f
             IN  Unescaped(SubSeq(s, i + 1, e - 1)) \o decoded[e + 1]
        ELSE IF s[i] = "." /\ i < Len(s) /\ s[i + 1] = "." THEN <<"::">> \o decoded[i + 2]
        ELSE <<s[i]>> \o decoded[i + 1]
  IN  decoded[1]

AtComponent == phase = "legacy" /\ ~AtEnd /\ ~Looking("E")
LengthEnd == RunEnd(pos, DigitSet)
ComponentLength == Decimal(SubSeq(text, pos, LengthEnd - 1))

\* Mutant: the cursor goes back to where it was.
BackToLength == pos - 1

\* j + length in the arithmetic of size_t.  The offsets of the code count from
\* 0, those of the text from 1.
ComponentEnd == (LengthEnd - 1 + ComponentLength) % WordSize

\* No length, one that std::stoul refuses, or one that goes beyond the end.
Malformed ==
  /\ AtComponent
  /\ \/ LengthEnd = pos
     \/ ComponentLength >= WordSize
     \/ ComponentEnd > Len(text)
  /\ Reject

\* substr takes at most what there is.
Identifier ==
  IF ComponentLength > Len(text) + 1 - LengthEnd THEN SubSeq(text, LengthEnd, Len(text))
  ELSE SubSeq(text, LengthEnd, LengthEnd + ComponentLength - 1)

Component ==
  /\ AtComponent
  /\ LengthEnd # pos /\ ComponentLength < WordSize /\ ComponentEnd <= Len(text)
  /\ \E ident \in {Identifier} :
       out' = IF Len(out) < MaxParts THEN Append(out, decode_legacy_ident(ident)) ELSE out
  /\ pos' = ComponentEnd + 1
  /\ UNCHANGED <<text, calls, phase>>

Joined(parts) ==
  LET joined[k \in 0..Len(parts)] ==
        IF k = 0 THEN <<>>
        ELSE joined[k - 1] \o (IF k = 1 THEN <<>> ELSE <<"::">>) \o parts[k]
  IN  joined[Len(parts)]

LegacyEnds ==
  /\ phase = "legacy" /\ (AtEnd \/ Looking("E"))
  /\ IF out = <<>> THEN Reject
     ELSE out' = Joined(out) /\ phase' = "parsed" /\ UNCHANGED <<cursor, calls>>

LegacyStep == Malformed \/ Component \/ LegacyEnds
=============================================================================
