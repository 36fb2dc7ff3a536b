------------------------------ MODULE JsonText ------------------------------
(***************************************************************************)
(* The JSON parser: struct Parser and json_parse of src/src/core/json.cpp. *)
(* calls holds the arrays and objects being parsed, the innermost first;   *)
(* out is the value that has been parsed last.  A character of the text is *)
(* a string; the four digits of a \u escape are one, "hi" and "lo" standing *)
(* for the high and the low surrogates.                                    *)
(***************************************************************************)
EXTENDS TextReader

Quote == "quote"
Blanks == {" ", "tab", "newline"}
Plain == [c \in {Quote, "\\", "/"} |-> c]
Controls == [b |-> "backspace", f |-> "feed", n |-> "newline", r |-> "return", t |-> "tab"]
Units == {"hi", "lo", "a"}
Surrogates == {"hi", "lo"}
Replacement == "U+FFFD"

\* A JsonValue: its type and what it holds.
Value(type_, content) == <<type_, content>>

skip_ws(i) == RunEnd(i, Blanks)

-----------------------------------------------------------------------------
(* Strings.                                                                *)

Unterminated == [after |-> 0, chars |-> <<>>]

\* The characters of a \u escape whose unit is at i, and where it ends; a high
\* surrogate takes a second escape with it, whatever that is.
Escaped(i) ==
  IF ~(i <= Len(text) /\ text[i] \in Units) THEN Unterminated
  ELSE IF text[i] # "hi" \/ ~(At(i + 1, "\\") /\ At(i + 2, "u"))
  THEN [after |-> i + 1, chars |-> <<IF text[i] \in Surrogates THEN Replacement ELSE text[i]>>]
  ELSE IF ~(i + 3 <= Len(text) /\ text[i + 3] \in Units) THEN Unterminated
  ELSE [after |-> i + 4,
        chars |-> CASE text[i + 3] = "lo" -> <<"pair">>
                    [] text[i + 3] = "hi" -> <<Replacement, Replacement>>
                    [] OTHER -> <<Replacement, text[i + 3]>>]

\* One character of a string, plain or escaped, at i.
CharAt(i) ==
  IF text[i] # "\\" THEN [after |-> i + 1, chars |-> <<text[i]>>]
  ELSE IF i = Len(text) THEN Unterminated
  ELSE IF text[i + 1] \in DOMAIN Plain THEN [after |-> i + 2, chars |-> <<Plain[text[i + 1]]>>]
  ELSE IF text[i + 1] \in DOMAIN Controls THEN [after |-> i + 2, chars |-> <<Controls[text[i + 1]]>>]
  ELSE IF text[i + 1] = "u" THEN Escaped(i + 2)
  ELSE Unterminated

\* parse_string, from the character after the opening quote.
parse_string(from) ==
  LET read[i \in 1..(Len(text) + 1)] ==
        IF i > Len(text) THEN Unterminated
        ELSE IF text[i] = Quote THEN [after |-> i + 1, chars |-> <<>>]
        ELSE LET c == CharAt(i)
                 more == read[c.after]
             IN  IF c.after = 0 \/ more.after = 0 THEN Unterminated
                 ELSE [after |-> more.after, chars |-> c.chars \o more.chars]
  IN  read[from]

-----------------------------------------------------------------------------
(* Numbers: what strtoll and strtod are given.                             *)

NumberAfter(i) ==
  LET digits(k) == RunEnd(k, DigitSet)
      whole == digits(IF At(i, "-") THEN i + 1 ELSE i)
      fraction == IF At(whole, ".") THEN digits(whole + 1) ELSE whole
      sign == IF At(fraction + 1, "-") \/ At(fraction + 1, "+") THEN fraction + 2 ELSE fraction + 1
  IN  IF At(fraction, "e") THEN digits(sign) ELSE fraction

\* Out of range, strtoll answers the nearest value there is; without a digit, 0.
Clamped(n) == IF n > LongLongMax THEN LongLongMax ELSE n

Number(chars) ==
  IF \E k \in 1..Len(chars) : chars[k] \in {".", "e"} THEN Value("double", chars)
  ELSE IF Head(chars) = "-" THEN Value("negative", Clamped(Decimal(Tail(chars))))
  ELSE Value("int", Clamped(Decimal(chars)))

-----------------------------------------------------------------------------
(* Values.                                                                 *)

Spelt(i, word) == Len(text) + 1 - i >= Len(word) /\ SubSeq(text, i, i + Len(word) - 1) = word

Literals ==
  {[word |-> <<"t", "r", "u", "e">>, value |-> Value("bool", TRUE)],
   [word |-> <<"f", "a", "l", "s", "e">>, value |-> Value("bool", FALSE)],
   [word |-> <<"n", "u", "l", "l">>, value |-> Value("null", <<>>)]}

\* A value ends before i.
Read(v, i) ==
  /\ out' = v /\ pos' = i /\ phase' = "read"
  /\ UNCHANGED text

\* parse_object, parse_array: the opening bracket is before i.
Open(kind, closing, next, i) ==
  IF At(skip_ws(i), closing)
  THEN Read(Value(kind, <<>>), skip_ws(i) + 1) /\ UNCHANGED calls
  ELSE /\ calls' = <<[kind |-> kind, content |-> <<>>, key |-> <<>>]>> \o calls
       /\ pos' = i /\ phase' = next
       /\ UNCHANGED <<text, out>>

parse_value ==
  LET p == skip_ws(pos)
      string == parse_string(p + 1)
      literal == {l \in Literals : Spelt(p, l.word)}
  IN  /\ phase = "value"
      /\ IF At(p, "{") THEN Open("object", "}", "key", p + 1)
         ELSE IF At(p, "[") THEN Open("array", "]", "value", p + 1)
         ELSE IF At(p, Quote) /\ string.after # 0
         THEN Read(Value("string", string.chars), string.after) /\ UNCHANGED calls
         ELSE IF p <= Len(text) /\ text[p] \in DigitSet \cup {"-"}
         THEN Read(Number(SubSeq(text, p, NumberAfter(p) - 1)), NumberAfter(p)) /\ UNCHANGED calls
         ELSE IF literal # {}
         THEN LET l == CHOOSE l \in literal : TRUE
              IN  Read(l.value, p + Len(l.word)) /\ UNCHANGED calls
         ELSE Reject

parse_key ==
  LET p == skip_ws(pos)
      string == parse_string(p + 1)
  IN  /\ phase = "key"
      /\ IF At(p, Quote) /\ string.after # 0 /\ At(skip_ws(string.after), ":")
         THEN /\ calls' = <<[Head(calls) EXCEPT !.key = string.chars]>> \o Tail(calls)
              /\ pos' = skip_ws(string.after) + 1 /\ phase' = "value"
              /\ UNCHANGED <<text, out>>
         ELSE Reject

\* Mutant: a member replaces the one of its name.
ExtendedOnce ==
  LET c == Head(calls)
  IN  IF c.kind = "array" THEN Append(c.content, out)
      ELSE Append(SelectSeq(c.content, LAMBDA m : m[1] # c.key), <<c.key, out>>)

\* A member or an element is appended; a name that is there already stays.
Extended ==
  LET c == Head(calls)
  IN  Append(c.content, IF c.kind = "object" THEN <<c.key, out>> ELSE out)

parse_more ==
  LET p == skip_ws(pos)
      c == Head(calls)
      closing == IF c.kind = "object" THEN "}" ELSE "]"
  IN  /\ phase = "read" /\ calls # <<>>
      /\ IF At(p, closing)
         THEN Read(Value(c.kind, Extended), p + 1) /\ calls' = Tail(calls)
         ELSE IF At(p, ",")
         THEN /\ calls' = <<[c EXCEPT !.content = Extended]>> \o Tail(calls)
              /\ pos' = p + 1 /\ phase' = IF c.kind = "object" THEN "key" ELSE "value"
              /\ UNCHANGED <<text, out>>
         ELSE Reject

\* Mutant: what follows the document is not looked at.
AcceptTrailing ==
  /\ phase = "read" /\ calls = <<>>
  /\ phase' = "done" /\ UNCHANGED <<cursor, calls, out>>

\* Nothing but blanks may follow the document.
json_parse ==
  /\ phase = "read" /\ calls = <<>>
  /\ IF skip_ws(pos) > Len(text)
     THEN phase' = "done" /\ UNCHANGED <<cursor, calls, out>>
     ELSE Reject

JsonStep == parse_value \/ parse_key \/ parse_more \/ json_parse
=============================================================================
