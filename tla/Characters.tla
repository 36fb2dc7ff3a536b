----------------------------- MODULE Characters -----------------------------
(***************************************************************************)
(* Texts as the core's parsers see them: sequences of characters, a        *)
(* character being a string.  A stretch that no parser looks into may be   *)
(* one character.                                                          *)
(***************************************************************************)
EXTENDS Integers, Sequences

Digits == <<"0", "1", "2", "3", "4", "5", "6", "7", "8", "9">>
DigitSet == {Digits[d] : d \in 1..10}

LowerSet == {"a", "b", "c", "d", "e", "f"}
HexSet == DigitSet \cup LowerSet \cup {"A", "B", "C", "D", "E", "F"}

Prefixed(s, p) == Len(s) >= Len(p) /\ SubSeq(s, 1, Len(p)) = p
From(s, i) == SubSeq(s, i, Len(s))

\* The value of a sequence of decimal digits.
Decimal(ds) ==
  LET value[k \in 0..Len(ds)] ==
        IF k = 0 THEN 0 ELSE 10 * value[k - 1] + (CHOOSE d \in 0..9 : Digits[d + 1] = ds[k])
  IN  value[Len(ds)]

\* What a hexadecimal digit counts, in either case.
DigitValue(c) ==
  CHOOSE v \in 0..15 :
    c \in {(Digits \o <<"a", "b", "c", "d", "e", "f">>)[v + 1], (Digits \o <<"A", "B", "C", "D", "E", "F">>)[v + 1]}

\* The value of a sequence of hexadecimal digits.
Hexadecimal(ds) ==
  LET value[k \in 0..Len(ds)] == IF k = 0 THEN 0 ELSE 16 * value[k - 1] + DigitValue(ds[k])
  IN  value[Len(ds)]

\* std::to_string.
Spelling[n \in Nat] ==
  IF n < 10 THEN <<Digits[n + 1]>> ELSE Append(Spelling[n \div 10], Digits[(n % 10) + 1])
=============================================================================
