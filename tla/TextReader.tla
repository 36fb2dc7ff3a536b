----------------------------- MODULE TextReader -----------------------------
(***************************************************************************)
(* What the hand-written parsers of src/src/core have in common: a text, a *)
(* cursor into it and the calls that have not returned.  A text is a       *)
(* sequence of characters, counted from 1.                                 *)
(***************************************************************************)
EXTENDS Characters

CONSTANT LongLongMax      \* the largest value of a long long: 2^63 - 1

ASSUME TextReaderAssumption == LongLongMax \in Nat \ {0}

VARIABLES
  text,    \* what is parsed
  pos,     \* the cursor: the next character to read
  calls,   \* the calls in progress, the innermost first
  out,     \* what has been read so far
  phase    \* what the parser does next

cursor == <<text, pos>>
readerVars == <<cursor, calls, out, phase>>

At(i, c) == i <= Len(text) /\ text[i] = c
AtEnd == pos > Len(text)
Looking(c) == At(pos, c)

\* The first place from i on that does not hold a character of class.
RunEnd(i, class) ==
  CHOOSE e \in i..(Len(text) + 1) :
    /\ \A k \in i..(e - 1) : text[k] \in class
    /\ e <= Len(text) => text[e] \notin class

\* The parser gives up; what it had read is dropped.
Reject == phase' = "rejected" /\ UNCHANGED <<cursor, calls, out>>
=============================================================================
