----------------------------- MODULE Normalize ------------------------------
(***************************************************************************)
(* normalize of src/src/core/demangle.cpp: three regular expressions are   *)
(* replaced in what demangle gives until it gets no shorter.  The call in  *)
(* progress is the side of "<X as Y>" it keeps.                            *)
(***************************************************************************)
EXTENDS Demangler

\* The tokens of the result in which the expressions look for more than one
\* character.
Expanded(token) ==
  CASE token = "::<" -> <<"::", "<">>
    [] token = "::{" -> <<"::", "{">>
    [] token = " as " -> <<" ", "a", "s", " ">>
    [] token = ") -> " -> <<")", " ", "-", ">", " ">>
    [] OTHER -> <<token>>

Spell(s) ==
  LET spelt[k \in 0..Len(s)] == IF k = 0 THEN <<>> ELSE spelt[k - 1] \o Expanded(s[k])
  IN  spelt[Len(s)]

As(s, k) == Prefixed(From(s, k), <<" ", "a", "s", " ">>)
Impl(s, k) == Prefixed(From(s, k), <<"i", "m", "p", "l", " ">>)
Without(s, i, j, chars) == \A l \in i..j : s[l] \notin chars

Match(e, by) == [end |-> e, by |-> by]

\* The brackets that stand at k or behind a "::" at k and hold no others.
Brackets(s, k) ==
  LET open == IF s[k] = "::" THEN k + 1 ELSE k
  IN  IF open > Len(s) \/ s[open] # "<" THEN {}
      ELSE {open} \X {e \in (open + 1)..Len(s) : s[e] = ">" /\ Without(s, open + 1, e - 1, {"<", ">"})}

\* Mutant: what is taken for parameters may be a qualification.
AnyBrackets(s, k) == {Match(b[2], <<>>) : b \in Brackets(s, k)}

\* The match of generic_re that begins at k, if there is one.
generic_re(s, k) ==
  {Match(b[2], <<>>) : b \in {b \in Brackets(s, k) : \A l \in (b[1] + 1)..(b[2] - 1) : ~As(s, l)}}

\* The matches of "<X as Y>" whose X begins at i: the first " as " behind its
\* first character, and the first ">" behind the first character of Y.
Qualified(s, i, side) ==
  {Match(m[2], IF side = "type" THEN SubSeq(s, i, m[1] - 1) ELSE SubSeq(s, m[1] + 4, m[2] - 1)) :
     m \in {m \in ((i + 1)..Len(s)) \X ((i + 6)..Len(s)) :
       /\ As(s, m[1]) /\ \A l \in (i + 1)..(m[1] - 1) : ~As(s, l)
       /\ s[m[2]] = ">" /\ m[2] >= m[1] + 5 /\ Without(s, m[1] + 5, m[2] - 1, {">"})
       /\ Without(s, i, m[2], {"<"})}}

xxx_as_re(s, k, side) == IF s[k] = "<" /\ ~Impl(s, k + 1) THEN Qualified(s, k + 1, side) ELSE {}
impl_as_re(s, k) == IF s[k] = "<" /\ Impl(s, k + 1) THEN Qualified(s, k + 6, "trait") ELSE {}

\* The matches do not overlap; the one that begins first is replaced first.
regex_replace(s, matches) ==
  LET rest[k \in 1..(Len(s) + 1)] ==
        IF k > Len(s) THEN <<>>
        ELSE IF matches[k] = {} THEN <<s[k]>> \o rest[k + 1]
        ELSE LET m == CHOOSE m \in matches[k] : TRUE IN m.by \o rest[m.end + 1]
  IN  rest[1]

\* normalize is called with a name that demangle has answered; without
\* monopolize the name is left as it is.
normalize ==
  /\ phase = "done"
  /\ out' = Spell(out)
  /\ \/ \E side \in {"type", "trait"} : calls' = <<side>> /\ phase' = "monopolize"
     \/ calls' = <<"all">> /\ phase' = "normal"
  /\ UNCHANGED <<cursor, depth>>

\* The body of the loop, whose test old_len is the length before it.
monopolize ==
  /\ phase = "monopolize"
  /\ \E plain \in {regex_replace(out, [k \in 1..Len(out) |-> generic_re(out, k)])} :
       \E sided \in {regex_replace(plain, [k \in 1..Len(plain) |-> xxx_as_re(plain, k, calls[1])])} :
         out' = regex_replace(sided, [k \in 1..Len(sided) |-> impl_as_re(sided, k)])
  /\ phase' = IF Len(out') = Len(out) THEN "normal" ELSE "monopolize"
  /\ UNCHANGED <<cursor, calls, depth>>

\* The last component: what split_path finds behind the last "::".
LastPart(s) ==
  LET Colons == {k \in 1..Len(s) : s[k] = "::"}
  IN  IF Colons = {} THEN s ELSE From(s, (CHOOSE k \in Colons : \A l \in Colons : l <= k) + 1)

concise ==
  /\ phase = "normal"
  /\ out' = LastPart(out) /\ phase' = "concise"
  /\ UNCHANGED <<cursor, calls, depth>>

NormalizeStep == (normalize \/ monopolize \/ concise) /\ UNCHANGED input
=============================================================================
