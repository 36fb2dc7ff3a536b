------------------------------- MODULE Idioms -------------------------------
(***************************************************************************)
(* The idioms of std names: classify, is_noreturn and comment_for of       *)
(* src/src/core/idioms.cpp.  A name is the one normalize gives; it may be  *)
(* followed by a suffix of IDA's, and is then no longer whole.             *)
(***************************************************************************)
EXTENDS Naturals, Sequences

CONSTANTS
  Categories,   \* categories(): [exact, substrings, noreturn], in their order
  Contained     \* [names -> the substrings of the table that occur in them]

\* The table is a sequence.
ASSUME TableAssumption ==
  Len(Categories) \in Nat /\ DOMAIN Categories = 1..Len(Categories)

NoIdiom == 0    \* Idiom::None

First(cs) == CHOOSE c \in cs : \A d \in cs : c <= d

\* The names of all categories are looked up before any substring is.
classify(name, whole) ==
  LET exact == {c \in 1..Len(Categories) : whole /\ name \in Categories[c].exact}
      part == {c \in 1..Len(Categories) : Categories[c].substrings \cap Contained[name] # {}}
  IN  IF exact # {} THEN First(exact) ELSE IF part # {} THEN First(part) ELSE NoIdiom

is_noreturn(name, whole) ==
  LET c == classify(name, whole) IN c # NoIdiom /\ Categories[c].noreturn

\* A comment is the category it is made from; there is none for NoIdiom.
comment_for(name, whole) == classify(name, whole)
=============================================================================
