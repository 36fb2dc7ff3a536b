------------------------- MODULE TextReadersProofs --------------------------
(***************************************************************************)
(* The depth guard of the v0 parser holds for every symbol, and json_parse *)
(* reads back every JSON value, however it is written.                     *)
(***************************************************************************)
EXTENDS TextReaders, SequenceTheorems, FiniteSetTheorems, TLAPS

-----------------------------------------------------------------------------
(* Induction in first-order form.  A theorem that takes a predicate cannot *)
(* be cited here; a set can stand for the predicate.                       *)

\* Every set of naturals that has an element has a least one.
LEMMA LeastNumber ==
  ASSUME NEW T, T \subseteq Nat, T # {}
  PROVE  \E m \in T : \A k \in T : m <= k
  <1> DEFINE R == OpToRel(<, Nat)
  <1>1. IsWellFoundedOn(R, Nat)
    BY NatLessThanWellFounded
  <1>2. \A x, y \in Nat : <<x, y>> \in R <=> x < y
    BY DEF OpToRel
  <1> HIDE DEF R
  <1>3. PICK m \in T : \A k \in T : ~ (<<k, m>> \in R)
    BY <1>1, WFMin
  <1>4. \A k \in T : k \in Nat /\ m \in Nat /\ ~ (k < m)
    BY <1>2, <1>3
  <1> QED
    BY <1>4

\* Induction from n on.
LEMMA SetInduction ==
  ASSUME NEW n \in Nat, NEW S, n \in S, \A k \in Nat : k >= n /\ k \in S => k + 1 \in S
  PROVE  \A k \in Nat : k >= n => k \in S
  <1> SUFFICES ASSUME NEW j \in Nat, j >= n, j \notin S PROVE FALSE
    OBVIOUS
  <1> DEFINE T == {k \in Nat : k >= n /\ k \notin S}
  <1>1. PICK m \in T : \A k \in T : m <= k
    <2>1. j \in T /\ T \subseteq Nat
      OBVIOUS
    <2> HIDE DEF T
    <2> QED
      BY <2>1, LeastNumber
  <1>2. m \in Nat /\ m > n /\ m - 1 \in Nat /\ m - 1 >= n
    BY <1>1
  <1>3. m - 1 \in S
    BY <1>1, <1>2
  <1>4. (m - 1) + 1 \in S
    BY <1>2, <1>3
  <1> QED
    BY <1>1, <1>2, <1>4

-----------------------------------------------------------------------------
\* The calls in progress are a sequence, the outermost one still there, and the
\* guard has counted all the others.
Counted ==
  phase = "v0" =>
    /\ \E S : calls \in Seq(S)
    /\ calls # <<>>
    /\ depth \in Nat
    /\ Len(calls) = depth + 1
    /\ depth <= MaxDepth

\* Replacing the innermost call leaves as many calls as there were.
LEMMA ContinueCounts ==
  ASSUME NEW S, NEW c \in Seq(S), c # <<>>, NEW items
  PROVE  /\ \E U : <<items>> \o Tail(c) \in Seq(U)
         /\ <<items>> \o Tail(c) # <<>>
         /\ Len(<<items>> \o Tail(c)) = Len(c)
<1> DEFINE U == S \cup {items}
<1>1. c \in Seq(U)  OBVIOUS
<1>2. <<items>> \in Seq(U) /\ Len(<<items>>) = 1  OBVIOUS
<1>3. Tail(c) \in Seq(U) /\ Len(Tail(c)) = Len(c) - 1  BY <1>1
<1> HIDE DEF U
<1>4. <<items>> \o Tail(c) \in Seq(U) /\ Len(<<items>> \o Tail(c)) = 1 + Len(Tail(c))
  BY <1>2, <1>3
<1>5. Len(c) \in Nat \ {0}  BY <1>1
<1>6. Len(<<items>> \o Tail(c)) = Len(c)  BY <1>3, <1>4, <1>5
<1>7. <<items>> \o Tail(c) # <<>>  BY <1>5, <1>6
<1> QED  BY <1>4, <1>6, <1>7

\* A call that is entered makes one more.
LEMMA EnterCounts ==
  ASSUME NEW S, NEW c \in Seq(S), c # <<>>, NEW items, NEW rest
  PROVE  /\ \E U : <<items, rest>> \o Tail(c) \in Seq(U)
         /\ <<items, rest>> \o Tail(c) # <<>>
         /\ Len(<<items, rest>> \o Tail(c)) = Len(c) + 1
<1> DEFINE U == S \cup {items, rest}
<1>1. c \in Seq(U)  OBVIOUS
<1>2. <<items, rest>> \in Seq(U) /\ Len(<<items, rest>>) = 2  OBVIOUS
<1>3. Tail(c) \in Seq(U) /\ Len(Tail(c)) = Len(c) - 1  BY <1>1
<1> HIDE DEF U
<1>4. <<items, rest>> \o Tail(c) \in Seq(U) /\ Len(<<items, rest>> \o Tail(c)) = 2 + Len(Tail(c))
  BY <1>2, <1>3
<1>5. Len(c) \in Nat \ {0}  BY <1>1
<1>6. Len(<<items, rest>> \o Tail(c)) = Len(c) + 1  BY <1>3, <1>4, <1>5
<1>7. <<items, rest>> \o Tail(c) # <<>>  BY <1>5, <1>6
<1> QED  BY <1>4, <1>6, <1>7

-----------------------------------------------------------------------------

\* A step that only replaces the innermost call.
LEMMA ContinuePreserves ==
  ASSUME Counted, phase = "v0", NEW items, Continue(items), UNCHANGED depth
  PROVE  Counted'
<1>1. PICK S : calls \in Seq(S)  BY DEF Counted
<1>2. calls # <<>>  BY DEF Counted
<1>3. /\ \E U : <<items>> \o Tail(calls) \in Seq(U)
      /\ <<items>> \o Tail(calls) # <<>>
      /\ Len(<<items>> \o Tail(calls)) = Len(calls)
  BY <1>1, <1>2, ContinueCounts
<1>4. calls' = <<items>> \o Tail(calls)  BY DEF Continue
<1> QED  BY <1>3, <1>4 DEF Counted

\* A call that is entered under the guard.
LEMMA EnterPreserves ==
  ASSUME Counted, phase = "v0", NEW n, NEW items, Enter(n, items), depth < MaxDepth
  PROVE  Counted'
<1>1. PICK S : calls \in Seq(S)  BY DEF Counted
<1>2. calls # <<>>  BY DEF Counted
<1>3. /\ \E U : <<items, Rest>> \o Tail(calls) \in Seq(U)
      /\ <<items, Rest>> \o Tail(calls) # <<>>
      /\ Len(<<items, Rest>> \o Tail(calls)) = Len(calls) + 1
  BY <1>1, <1>2, EnterCounts
<1>4. calls' = <<items, Rest>> \o Tail(calls) /\ depth' = depth + 1  BY DEF Enter
<1>5. depth' \in Nat /\ depth' <= MaxDepth /\ Len(calls') = depth' + 1
  BY <1>3, <1>4, V0Assumption DEF Counted
<1> QED  BY <1>3, <1>4, <1>5 DEF Counted

\* A call that returns gives its count back.
LEMMA ReturnPreserves ==
  ASSUME Counted, phase = "v0", Return
  PROVE  Counted'
<1> SUFFICES ASSUME phase' = "v0" PROVE Counted'
  BY DEF Counted
<1>1. PICK S : calls \in Seq(S)  BY DEF Counted
<1>2. Tail(calls) # <<>> /\ calls' = Tail(calls) /\ depth' = depth - 1
  BY DEF Return
<1>3. calls # <<>> /\ Len(calls) = depth + 1 /\ depth \in Nat /\ depth <= MaxDepth
  BY DEF Counted
<1>4. Tail(calls) \in Seq(S) /\ Len(Tail(calls)) = Len(calls) - 1  BY <1>1, <1>3
<1>5. Len(Tail(calls)) \in Nat \ {0}  BY <1>2, <1>4
<1> QED  BY <1>2, <1>3, <1>4, <1>5, V0Assumption DEF Counted

\* A parser that has given up counts nothing.
LEMMA RejectPreserves == ASSUME Reject PROVE Counted'
  BY DEF Reject, Counted

\* The steps of the v0 parser, production by production.
LEMMA V0Preserves ==
  ASSUME Counted, V0Step
  PROVE  Counted'
<1>1. phase = "v0"  BY DEF V0Step
<1>2. CASE Return  BY <1>1, <1>2, ReturnPreserves
<1>3. CASE path
  <2>1. CASE Throw  BY <2>1, RejectPreserves DEF Throw
  <2>2. CASE depth < MaxDepth /\ Enter(1, PathBody[text[pos]])
    BY <1>1, <2>2, EnterPreserves
  <2> QED  BY <1>3, <2>1, <2>2 DEF path
<1>4. CASE type
  <2>1. CASE Throw  BY <2>1, RejectPreserves DEF Throw
  <2>2. CASE depth < MaxDepth /\ TypeCall
    <3>1. CASE Enter(1, <<BasicTypes[text[pos]]>>)  BY <1>1, <2>2, <3>1, EnterPreserves
    <3>2. CASE Enter(1, TypeBody[text[pos]])  BY <1>1, <2>2, <3>2, EnterPreserves
    <3>3. CASE Enter(0, <<"path">>)  BY <1>1, <2>2, <3>3, EnterPreserves
    <3> QED  BY <2>2, <3>1, <3>2, <3>3 DEF TypeCall
  <2> QED  BY <1>4, <2>1, <2>2 DEF type
<1>5. CASE Eat
  <2>1. CASE Continue(Eats[Item][2] \o Rest) /\ UNCHANGED depth
    BY <1>1, <2>1, ContinuePreserves
  <2>2. CASE Continue(Eats[Item][3] \o Rest) /\ UNCHANGED depth
    BY <1>1, <2>2, ContinuePreserves
  <2> QED  BY <1>5, <2>1, <2>2 DEF Eat
<1>6. CASE Namespace
  <2>1. CASE Throw  BY <2>1, RejectPreserves DEF Throw
  <2>2. CASE /\ Continue(<<"path", "disambiguator", "member", text[pos], "}">> \o Rest)
             /\ UNCHANGED depth
    BY <1>1, <2>2, ContinuePreserves
  <2> QED  BY <1>6, <2>1, <2>2 DEF Namespace
<1>7. CASE base62
  <2>1. CASE Throw  BY <2>1, RejectPreserves DEF Throw
  <2>2. CASE Continue(Rest) /\ UNCHANGED depth  BY <1>1, <2>2, ContinuePreserves
  <2> QED  BY <1>7, <2>1, <2>2 DEF base62
<1>8. CASE identifier
  <2>1. ASSUME NEW spelling, NEW items, Named(spelling, items) PROVE Counted'
    <3>1. CASE Throw  BY <3>1, RejectPreserves DEF Throw
    <3>2. CASE Continue(items) /\ UNCHANGED depth  BY <1>1, <3>2, ContinuePreserves
    <3> QED  BY <2>1, <3>1, <3>2 DEF Named
  <2>2. CASE Throw  BY <2>2, RejectPreserves DEF Throw
  <2> QED  BY <1>8, <2>1, <2>2 DEF identifier
<1>9. CASE Typed
  <2>1. Continue(<<"type", "unmute", IF Looking("b") THEN "boolsign" ELSE "sign">> \o Rest)
    BY <1>9 DEF Typed
  <2> QED  BY <1>1, <1>9, <2>1, ContinuePreserves DEF Typed
<1>10. CASE hex_const
  <2>1. CASE Throw  BY <2>1, RejectPreserves DEF Throw
  <2>2. CASE Continue(Rest) /\ UNCHANGED depth  BY <1>1, <2>2, ContinuePreserves
  <2> QED  BY <1>10, <2>1, <2>2 DEF hex_const
<1>11. CASE Literal
  BY <1>1, <1>11, ContinuePreserves DEF Literal
<1> QED
  BY <1>2, <1>3, <1>4, <1>5, <1>6, <1>7, <1>8, <1>9, <1>10, <1>11 DEF V0Step

\* The other steps on a symbol start the v0 parser anew or do not run it.
LEMMA SymbolPreserves ==
  ASSUME Counted, DemangleStep
  PROVE  Counted'
<1>1. CASE demangle_raw
  <2> DEFINE s == StripThunks(strip_symbol_prefix(input))
  <2>1. CASE Reject \/ Throw  BY <2>1, RejectPreserves DEF Throw
  <2>2. ASSUME NEW body, StartV0(body) PROVE Counted'
    <3>1. calls' = <<<<"path">>>> /\ depth' = 0  BY <2>2 DEF StartV0
    <3>2. <<<<"path">>>> \in Seq(Seq({"path"})) /\ Len(<<<<"path">>>>) = 1  OBVIOUS
    <3>3. \E S : calls' \in Seq(S)  BY <3>1, <3>2
    <3>4. calls' # <<>>  BY <3>1
    <3>5. Len(calls') = depth' + 1 /\ depth' \in Nat /\ depth' <= MaxDepth
      BY <3>1, <3>2, V0Assumption
    <3> QED  BY <3>3, <3>4, <3>5 DEF Counted
  <2>3. ASSUME NEW body, StartLegacy(body) PROVE Counted'
    BY <2>3 DEF StartLegacy, Counted
  <2> QED  BY <1>1, <2>1, <2>2, <2>3 DEF demangle_raw
<1>2. CASE V0Step  BY <1>2, V0Preserves
<1>3. CASE LegacyStep
  <2>1. CASE Malformed  BY <2>1, RejectPreserves DEF Malformed
  <2>2. CASE Component  BY <2>2 DEF Component, AtComponent, Counted
  <2>3. CASE LegacyEnds  BY <2>3, RejectPreserves DEF LegacyEnds, Counted
  <2> QED  BY <1>3, <2>1, <2>2, <2>3 DEF LegacyStep
<1>4. CASE demangle  BY <1>4 DEF demangle, Counted
<1> QED  BY <1>1, <1>2, <1>3, <1>4 DEF DemangleStep

\* Nor does normalize.
LEMMA NormalizePreserves ==
  ASSUME NormalizeStep
  PROVE  Counted'
<1>1. CASE normalize  BY <1>1 DEF normalize, Counted
<1>2. CASE monopolize
  <2>1. phase' = "normal" \/ phase' = "monopolize"  BY <1>2 DEF monopolize
  <2> QED  BY <2>1 DEF Counted
<1>3. CASE concise  BY <1>3 DEF concise, Counted
<1> QED  BY <1>1, <1>2, <1>3 DEF NormalizeStep

\* The JSON parser has no such phase.
LEMMA JsonPreserves ==
  ASSUME JsonStep
  PROVE  Counted'
<1>1. phase' # "v0"
  <2>1. CASE parse_value
    <3>1. ASSUME NEW v, NEW i, Read(v, i) PROVE phase' # "v0"  BY <3>1 DEF Read
    <3>2. ASSUME NEW k, NEW c, NEW i, NEW next \in {"key", "value"}, Open(k, c, next, i)
          PROVE  phase' # "v0"
      BY <3>2 DEF Open, Read
    <3>3. CASE Reject  BY <3>3 DEF Reject
    <3> QED  BY <2>1, <3>1, <3>2, <3>3 DEF parse_value
  <2>2. CASE parse_key  BY <2>2 DEF parse_key, Reject
  <2>3. CASE parse_more  BY <2>3 DEF parse_more, Read, Reject
  <2>4. CASE json_parse  BY <2>4 DEF json_parse, Reject
  <2> QED  BY <2>1, <2>2, <2>3, <2>4 DEF JsonStep
<1> QED  BY <1>1 DEF Counted

\* The guard of the v0 parser (V0Demangler::guard) holds the recursion to its
\* limit whatever the symbol, malformed ones included: the calls of path and
\* type in progress are the ones it counts.
THEOREM NestingIsBounded == SafetySpec => []NestingBounded
<1>1. Init => Counted  BY DEF Init, Counted
<1>2. Counted /\ [Next]_vars => Counted'
  <2> SUFFICES ASSUME Counted, [Next]_vars PROVE Counted'  OBVIOUS
  <2>1. CASE DemangleStep  BY <2>1, SymbolPreserves
  <2>2. CASE JsonStep  BY <2>2, JsonPreserves
  <2>3. CASE NormalizeStep  BY <2>3, NormalizePreserves
  <2>4. CASE UNCHANGED vars  BY <2>4 DEF vars, v0Vars, readerVars, Counted
  <2> QED  BY <2>1, <2>2, <2>3, <2>4 DEF Next
<1>3. Counted => NestingBounded  BY DEF Counted, NestingBounded
<1> QED  BY <1>1, <1>2, <1>3, PTL DEF SafetySpec

-----------------------------------------------------------------------------
(* How a JSON value is written.                                            *)

\* w stands in t behind the first i characters; there are only blanks between i and j.
Stands(t, i, w) == i + Len(w) <= Len(t) /\ \A h \in 1..Len(w) : t[i + h] = w[h]
BlankBetween(t, i, j) == \A h \in Nat : i < h /\ h < j => t[h] \in Blanks
DigitsBetween(t, i, j) == \A h \in Nat : i < h /\ h < j => t[h] \in DigitSet

\* What is at i..j in the string t is written for c.
Piece(t, i, j, c) ==
  \/ j = i /\ t[i] \notin {Quote, "\\"} /\ c = <<t[i]>>
  \/ t[i] = "\\" /\ j = i + 1 /\ t[j] \in DOMAIN Plain /\ c = <<Plain[t[j]]>>
  \/ t[i] = "\\" /\ j = i + 1 /\ t[j] \in DOMAIN Controls /\ c = <<Controls[t[j]]>>
  \/ /\ t[i] = "\\" /\ t[i + 1] = "u" /\ j = i + 2 /\ t[j] \in {"a", "lo"}
     /\ c = <<IF t[j] = "lo" THEN Replacement ELSE t[j]>>
  \/ /\ t[i] = "\\" /\ t[i + 1] = "u" /\ j = i + 2 /\ t[j] = "hi"
     /\ ~(t[j + 1] = "\\" /\ t[j + 2] = "u") /\ c = <<Replacement>>
  \/ /\ t[i] = "\\" /\ t[i + 1] = "u" /\ t[i + 2] = "hi" /\ t[i + 3] = "\\" /\ t[i + 4] = "u"
     /\ j = i + 5 /\ t[j] \in Units
     /\ c = CASE t[j] = "lo" -> <<"pair">>
              [] t[j] = "hi" -> <<Replacement, Replacement>>
              [] OTHER -> <<Replacement, t[j]>>

\* The pieces of the string t end at e[1], ..., e[n]; c[j] is what the j-th says,
\* rest[j] what those behind it say.
StringPieces(t, n, e, c, rest) ==
  /\ e \in [0..n -> Nat] /\ e[0] = 1 /\ e[n] = Len(t) - 1
  /\ \A j \in 1..n : e[j - 1] < e[j] /\ Piece(t, e[j - 1] + 1, e[j], c[j])
  /\ rest[n] = <<>> /\ \A j \in 1..n : rest[j - 1] = c[j] \o rest[j]

\* A string is its pieces between quotes.
StringWriting(g) ==
  /\ Len(g.text) >= 2 /\ g.text[1] = Quote /\ g.text[Len(g.text)] = Quote
  /\ \E n \in Nat : \E e, c, rest :
       StringPieces(g.text, n, e, c, rest) /\ g.value = Value("string", rest[0])

\* A sign, digits, a fraction, an exponent.
NumberWriting(g) ==
  LET t == g.text
  IN  /\ \E s \in {0, 1}, a, b \in Nat :
           /\ (s = 1 => t[1] = "-") /\ s < a /\ DigitsBetween(t, s, a + 1)
           /\ a = b \/ (t[a + 1] = "." /\ a + 1 < b /\ DigitsBetween(t, a + 1, b + 1))
           /\ \/ b = Len(t)
              \/ \E x \in {b + 1, b + 2} :
                   /\ t[b + 1] = "e" /\ (x = b + 2 => t[x] \in {"+", "-"})
                   /\ x < Len(t) /\ DigitsBetween(t, x, Len(t) + 1)
      /\ g.value = Number(t)

\* true, false or null.
LiteralWriting(g) == \E l \in Literals : g.text = l.word /\ g.value = l.value

\* The brackets of a container.
Opening(kind) == IF kind = "object" THEN "{" ELSE "["
Closing(kind) == IF kind = "object" THEN "}" ELSE "]"

\* Where a member begins, and the value in it.
Start(items, j) == IF j = 1 THEN 1 ELSE items[j - 1].sep
ValueFrom(g, items, j) == IF g.kind = "object" THEN items[j].colon ELSE Start(items, j)

\* What a member says; in an object it has a name.
Member(g, items, j) ==
  IF g.kind = "object" THEN <<items[j].key.value[2], items[j].of.value>> ELSE items[j].of.value
Members(g, items, n) == [j \in 1..n |-> Member(g, items, j)]

\* The key of a member and its colon.
KeyWriting(t, item, start, G) ==
  /\ item.key \in G /\ item.key.kind = "string"
  /\ item.keyAt \in Nat /\ start <= item.keyAt /\ BlankBetween(t, start, item.keyAt + 1)
  /\ Stands(t, item.keyAt, item.key.text)
  /\ item.colon \in Nat /\ item.keyAt + Len(item.key.text) < item.colon /\ item.colon <= Len(t)
  /\ BlankBetween(t, item.keyAt + Len(item.key.text), item.colon) /\ t[item.colon] = ":"

\* A value behind from, and the separator behind it.
ValueWriting(t, item, from, G) ==
  /\ item.of \in G /\ item.at \in Nat /\ item.sep \in Nat
  /\ from <= item.at /\ BlankBetween(t, from, item.at + 1) /\ Stands(t, item.at, item.of.text)
  /\ item.at + Len(item.of.text) < item.sep /\ item.sep <= Len(t)
  /\ BlankBetween(t, item.at + Len(item.of.text), item.sep)

\* Brackets, and the members between them, each behind the separator of the one before.
ContainerWriting(g, items, G) ==
  LET t == g.text
      n == Len(items)
  IN  /\ n \in Nat /\ Len(t) >= 2 /\ t[1] = Opening(g.kind) /\ t[Len(t)] = Closing(g.kind)
      /\ n = 0 => BlankBetween(t, 1, Len(t))
      /\ n > 0 => items[n].sep = Len(t)
      /\ \A j \in 1..n :
           /\ g.kind = "object" => KeyWriting(t, items[j], Start(items, j), G)
           /\ ValueWriting(t, items[j], ValueFrom(g, items, j), G)
           /\ j < n => t[items[j].sep] = ","
      /\ g.value = Value(g.kind, Members(g, items, n))

\* g is a JSON value as it is written; what it holds is in G.
Written(g, items, G) ==
  /\ g.text \in Seq(STRING)
  /\ \/ g.kind = "string" /\ StringWriting(g)
     \/ g.kind = "number" /\ NumberWriting(g)
     \/ g.kind = "literal" /\ LiteralWriting(g)
     \/ g.kind \in {"array", "object"} /\ ContainerWriting(g, items, G)

\* All of G is so; the members of g are its[g].
Grammar(G, its) == \A g \in G : Written(g, its[g], G)

\* The text of w is such a value, with nothing but blanks around it.
IsWriting(w) ==
  /\ w.text \in Seq(STRING)
  /\ \E G, its, root :
       /\ Grammar(G, its) /\ root.g \in G /\ root.g.value = w.value
       /\ root.off \in Nat /\ Stands(w.text, root.off, root.g.text)
       /\ BlankBetween(w.text, 0, root.off + 1)
       /\ BlankBetween(w.text, root.off + Len(root.g.text), Len(w.text) + 1)

\* A run of characters of a class ends where they do.
LEMMA RunEndIs ==
  ASSUME NEW i \in Nat, NEW class, NEW e \in i..(Len(text) + 1), Len(text) \in Nat,
         \A h \in i..(e - 1) : text[h] \in class, e <= Len(text) => text[e] \notin class
  PROVE  RunEnd(i, class) = e
  <1> DEFINE P(x) == /\ \A h \in i..(x - 1) : text[h] \in class
                     /\ x <= Len(text) => text[x] \notin class
             u == RunEnd(i, class)
  <1>1. u = CHOOSE x \in i..(Len(text) + 1) : P(x)
    BY DEF RunEnd
  <1>2. u \in i..(Len(text) + 1) /\ P(u)
    <2>1. \E x \in i..(Len(text) + 1) : P(x)
      OBVIOUS
    <2> HIDE DEF P, u
    <2> QED
      BY <1>1, <2>1, Zenon
  <1> HIDE DEF u
  <1>3. ~(u < e)
    <2> SUFFICES ASSUME u < e PROVE FALSE
      OBVIOUS
    <2>1. u \in i..(e - 1) /\ u <= Len(text)
      BY <1>2
    <2> QED
      BY <1>2, <2>1
  <1>4. ~(e < u)
    <2> SUFFICES ASSUME e < u PROVE FALSE
      OBVIOUS
    <2>1. e \in i..(u - 1) /\ e <= Len(text)
      BY <1>2
    <2> QED
      BY <1>2, <2>1
  <1> QED
    BY <1>2, <1>3, <1>4 DEF u

\* Blanks are skipped.
LEMMA Skips ==
  ASSUME NEW i \in Nat, NEW j \in Nat, i < j, j <= Len(text) + 1, Len(text) \in Nat, BlankBetween(text, i, j),
         j <= Len(text) => text[j] \notin Blanks
  PROVE  skip_ws(i + 1) = j
  <1>1. i + 1 \in Nat /\ j \in (i + 1)..(Len(text) + 1)
    OBVIOUS
  <1>2. \A h \in (i + 1)..(j - 1) : text[h] \in Blanks
    BY DEF BlankBetween
  <1> QED
    BY <1>1, <1>2, RunEndIs DEF skip_ws

\* Digits are read to their end.
LEMMA DigitsRead ==
  ASSUME NEW i \in Nat, NEW j \in Nat, i < j, j <= Len(text) + 1, Len(text) \in Nat, DigitsBetween(text, i, j),
         j <= Len(text) => text[j] \notin DigitSet
  PROVE  RunEnd(i + 1, DigitSet) = j
  <1>1. i + 1 \in Nat /\ j \in (i + 1)..(Len(text) + 1)
    OBVIOUS
  <1>2. \A h \in (i + 1)..(j - 1) : text[h] \in DigitSet
    BY DEF DigitsBetween
  <1> QED
    BY <1>1, <1>2, RunEndIs

\* The blanks and the digits of a text are those of the one it stands in.
LEMMA BlanksStand ==
  ASSUME NEW t, NEW i \in Nat, NEW w, Stands(t, i, w), Len(w) \in Nat, NEW a \in Nat, NEW b \in Nat, b <= Len(w) + 1
  PROVE  /\ BlankBetween(w, a, b) => BlankBetween(t, i + a, i + b)
         /\ DigitsBetween(w, a, b) => DigitsBetween(t, i + a, i + b)
  <1>1. ASSUME NEW h \in Nat, i + a < h, h < i + b
        PROVE  h - i \in Nat /\ a < h - i /\ h - i < b /\ t[h] = w[h - i]
    <2>1. h - i \in 1..Len(w) /\ h = i + (h - i)
      BY <1>1
    <2>2. t[i + (h - i)] = w[h - i]
      BY <2>1 DEF Stands
    <2> QED
      BY <1>1, <2>1, <2>2
  <1> QED
    BY <1>1 DEF BlankBetween, DigitsBetween

\* What stands in v stands where v stands.
LEMMA StandsWithin ==
  ASSUME NEW t, NEW v, NEW w, NEW i \in Nat, NEW j \in Nat, Len(t) \in Nat, Len(v) \in Nat, Len(w) \in Nat,
         Stands(t, i, v), Stands(v, j, w)
  PROVE  Stands(t, i + j, w)
  <1>1. i + j + Len(w) <= Len(t)
    BY DEF Stands
  <1>2. ASSUME NEW h \in 1..Len(w) PROVE t[i + j + h] = w[h]
    <2>1. j + h \in 1..Len(v) /\ i + j + h = i + (j + h)
      BY DEF Stands
    <2>2. t[i + (j + h)] = v[j + h] /\ v[j + h] = w[h]
      BY <2>1 DEF Stands
    <2> QED
      BY <2>1, <2>2
  <1> QED
    BY <1>1, <1>2 DEF Stands

-----------------------------------------------------------------------------
(* What a writing begins with, and what may follow it.                     *)

\* The digits, one by one.
LEMMA DigitsAre == DigitSet = {"0", "1", "2", "3", "4", "5", "6", "7", "8", "9"}
  <1>1. ASSUME NEW d \in 1..10
        PROVE  Digits[d] \in {"0", "1", "2", "3", "4", "5", "6", "7", "8", "9"}
    BY <1>1 DEF Digits
  <1>2. /\ Digits[1] = "0" /\ Digits[2] = "1" /\ Digits[3] = "2" /\ Digits[4] = "3" /\ Digits[5] = "4"
        /\ Digits[6] = "5" /\ Digits[7] = "6" /\ Digits[8] = "7" /\ Digits[9] = "8" /\ Digits[10] = "9"
    BY DEF Digits
  <1> QED
    BY <1>1, <1>2 DEF DigitSet

\* The character a value begins with.
FirstOf(kind) ==
  CASE kind = "string" -> {Quote}
    [] kind = "number" -> DigitSet \cup {"-"}
    [] kind = "literal" -> {"t", "f", "n"}
    [] kind = "object" -> {"{"}
    [] kind = "array" -> {"["}

Kinds == {"string", "number", "literal", "object", "array"}

\* What may follow a value.
Follows == Blanks \cup {",", "]", "}"}

\* A first character tells the kind, and is none of those behind a value.
LEMMA FirstsApart ==
  /\ \A kind \in Kinds : \A ch \in FirstOf(kind) : ch \notin Follows /\ ch # ":"
  /\ \A ch \in FirstOf("string") : ch \notin {"{", "["}
  /\ \A ch \in FirstOf("number") : ch \notin {"{", "[", Quote} /\ ch \in DigitSet \cup {"-"}
  /\ \A ch \in FirstOf("literal") : ch \notin {"{", "[", Quote} /\ ch \notin DigitSet \cup {"-"}
  /\ \A ch \in FirstOf("array") : ch # "{"
  /\ \A ch \in Follows : ch \notin DigitSet /\ ch # "." /\ ch # "e"
  /\ "," \notin Blanks /\ "]" \notin Blanks /\ "}" \notin Blanks /\ ":" \notin Blanks
  <1> USE DigitsAre DEF FirstOf, Follows, Blanks, Quote
  <1>1. ASSUME NEW kind \in Kinds, NEW ch \in FirstOf(kind) PROVE ch \notin Follows /\ ch # ":"
    <2>1. CASE kind = "string"
      BY <1>1, <2>1
    <2>2. CASE kind = "number"
      BY <1>1, <2>2
    <2>3. CASE kind = "literal"
      BY <1>1, <2>3
    <2>4. CASE kind = "object"
      BY <1>1, <2>4
    <2>5. CASE kind = "array"
      BY <1>1, <2>5
    <2> QED
      BY <2>1, <2>2, <2>3, <2>4, <2>5 DEF Kinds
  <1>2. \A ch \in FirstOf("string") : ch \notin {"{", "["}
    OBVIOUS
  <1>3. \A ch \in FirstOf("number") : ch \notin {"{", "[", Quote} /\ ch \in DigitSet \cup {"-"}
    OBVIOUS
  <1>4. \A ch \in FirstOf("literal") : ch \notin {"{", "[", Quote} /\ ch \notin DigitSet \cup {"-"}
    OBVIOUS
  <1>5. \A ch \in FirstOf("array") : ch # "{"
    OBVIOUS
  <1>6. \A ch \in Follows : ch \notin DigitSet /\ ch # "." /\ ch # "e"
    OBVIOUS
  <1>7. "," \notin Blanks /\ "]" \notin Blanks /\ "}" \notin Blanks /\ ":" \notin Blanks
    OBVIOUS
  <1> QED
    BY <1>1, <1>2, <1>3, <1>4, <1>5, <1>6, <1>7, Zenon

\* The first letter tells the literal.
LEMMA LiteralsAre ==
  ASSUME NEW l \in Literals
  PROVE  /\ Len(l.word) \in {4, 5} /\ l.word[1] \in {"t", "f", "n"}
         /\ \A k \in Literals : l.word[1] = k.word[1] => l = k
  <1>1. PICK t, f, n :
          /\ t = [word |-> <<"t", "r", "u", "e">>, value |-> Value("bool", TRUE)]
          /\ f = [word |-> <<"f", "a", "l", "s", "e">>, value |-> Value("bool", FALSE)]
          /\ n = [word |-> <<"n", "u", "l", "l">>, value |-> Value("null", <<>>)]
    OBVIOUS
  <1>2. Literals = {t, f, n}
    BY <1>1 DEF Literals
  <1>3. t.word = <<"t", "r", "u", "e">> /\ f.word = <<"f", "a", "l", "s", "e">> /\ n.word = <<"n", "u", "l", "l">>
    BY <1>1
  <1>4. /\ Len(t.word) = 4 /\ Len(f.word) = 5 /\ Len(n.word) = 4
        /\ t.word[1] = "t" /\ f.word[1] = "f" /\ n.word[1] = "n"
    BY <1>3
  <1> QED
    BY <1>2, <1>4

\* A writing begins with a character of its kind.
LEMMA Begins ==
  ASSUME NEW g, NEW items, NEW G, Written(g, items, G)
  PROVE  /\ g.kind \in Kinds /\ Len(g.text) \in Nat /\ Len(g.text) >= 1 /\ g.text[1] \in FirstOf(g.kind)
  <1>1. g.text \in Seq(STRING) /\ Len(g.text) \in Nat /\ g.kind \in Kinds
    BY DEF Written, Kinds
  <1>2. CASE g.kind = "string"
    BY <1>1, <1>2 DEF Written, StringWriting, FirstOf
  <1>3. CASE g.kind = "number"
    <2> DEFINE t == g.text
    <2>1. PICK s \in {0, 1}, a \in Nat, b \in Nat :
            /\ s = 1 => t[1] = "-"
            /\ s < a /\ DigitsBetween(t, s, a + 1)
            /\ a = b \/ (t[a + 1] = "." /\ a + 1 < b /\ DigitsBetween(t, a + 1, b + 1))
            /\ b = Len(t) \/ \E x \in {b + 1, b + 2} : x < Len(t)
      <3>1. NumberWriting(g)
        BY <1>3 DEF Written
      <3> QED
        BY <3>1, Zenon DEF NumberWriting
    <2>2. Len(t) >= 1
      BY <1>1, <2>1
    <2>3. s = 0 => t[1] \in DigitSet
      BY <2>1 DEF DigitsBetween
    <2>4. t[1] \in DigitSet \cup {"-"}
      BY <2>1, <2>3
    <2> QED
      BY <1>1, <1>3, <2>2, <2>4 DEF FirstOf
  <1>4. CASE g.kind = "literal"
    <2>1. PICK l \in Literals : g.text = l.word
      BY <1>4 DEF Written, LiteralWriting
    <2> QED
      BY <1>1, <1>4, <2>1, LiteralsAre DEF FirstOf
  <1>5. CASE g.kind \in {"array", "object"}
    <2>1. ContainerWriting(g, items, G)
      BY <1>5 DEF Written
    <2>2. Len(g.text) >= 2 /\ g.text[1] = Opening(g.kind)
      BY <2>1, Zenon DEF ContainerWriting
    <2>3. CASE g.kind = "array"
      BY <1>1, <2>2, <2>3 DEF Opening, FirstOf
    <2>4. CASE g.kind = "object"
      <3>1. g.text[1] = "{"
        BY <2>2, <2>4 DEF Opening
      <3>2. FirstOf("object") = {"{"}
        BY DEF FirstOf
      <3>3. g.text[1] \in FirstOf(g.kind)
        BY <2>4, <3>1, <3>2, Zenon
      <3> QED
        BY <1>1, <2>2, <3>3
    <2> QED
      BY <1>5, <2>3, <2>4
  <1> QED
    BY <1>1, <1>2, <1>3, <1>4, <1>5 DEF Kinds

-----------------------------------------------------------------------------
(* A string is read back.                                                  *)

\* A character of a string ends behind where it begins, in the text.
LEMMA CharEnds ==
  ASSUME Len(text) \in Nat, NEW i \in 1..Len(text)
  PROVE  CharAt(i).after \in {0} \cup (i + 1)..(Len(text) + 1)
  <1>1. ASSUME NEW m \in 1..(Len(text) + 1), m > i
        PROVE  Escaped(m).after \in {0} \cup (i + 1)..(Len(text) + 1)
    <2>1. CASE ~(m <= Len(text) /\ text[m] \in Units)
      BY <2>1 DEF Escaped, Unterminated
    <2>2. CASE (m <= Len(text) /\ text[m] \in Units) /\ (text[m] # "hi" \/ ~(At(m + 1, "\\") /\ At(m + 2, "u")))
      <3>1. Escaped(m).after = m + 1
        BY <2>2 DEF Escaped
      <3> QED
        BY <1>1, <2>2, <3>1
    <2>3. CASE /\ m <= Len(text) /\ text[m] \in Units
               /\ ~(text[m] # "hi" \/ ~(At(m + 1, "\\") /\ At(m + 2, "u")))
      <3>1. CASE ~(m + 3 <= Len(text) /\ text[m + 3] \in Units)
        BY <2>3, <3>1 DEF Escaped, Unterminated
      <3>2. CASE m + 3 <= Len(text) /\ text[m + 3] \in Units
        <4>1. Escaped(m).after = m + 4
          BY <2>3, <3>2 DEF Escaped
        <4> QED
          BY <1>1, <3>2, <4>1
      <3> QED
        BY <3>1, <3>2
    <2> QED
      BY <2>1, <2>2, <2>3
  <1>2. CASE text[i] # "\\"
    BY <1>2 DEF CharAt
  <1>3. CASE text[i] = "\\" /\ i = Len(text)
    BY <1>3 DEF CharAt, Unterminated
  <1>4. CASE text[i] = "\\" /\ i # Len(text)
    <2>1. i + 1 \in 1..Len(text) /\ i + 2 \in 1..(Len(text) + 1)
      BY <1>4
    <2>2. CharAt(i).after = i + 2 \/ CharAt(i) = Escaped(i + 2) \/ CharAt(i) = Unterminated
      <3>1. CASE text[i + 1] \in DOMAIN Plain
        BY <1>4, <3>1 DEF CharAt
      <3>2. CASE text[i + 1] \notin DOMAIN Plain /\ text[i + 1] \in DOMAIN Controls
        BY <1>4, <3>2 DEF CharAt
      <3>3. CASE text[i + 1] \notin DOMAIN Plain /\ text[i + 1] \notin DOMAIN Controls
        BY <1>4, <3>3, Zenon DEF CharAt
      <3> QED
        BY <3>1, <3>2, <3>3
    <2>3. Unterminated.after = 0
      BY DEF Unterminated
    <2> QED
      BY <1>1, <2>1, <2>2, <2>3
  <1> QED
    BY <1>2, <1>3, <1>4

\* One step of parse_string.
StringAt(i, f) ==
  IF i > Len(text) THEN Unterminated
  ELSE IF text[i] = Quote THEN [after |-> i + 1, chars |-> <<>>]
  ELSE LET c == CharAt(i)
           more == f[c.after]
       IN  IF c.after = 0 \/ more.after = 0 THEN Unterminated
           ELSE [after |-> more.after, chars |-> c.chars \o more.chars]

StringStep(f) == f = [i \in 1..(Len(text) + 1) |-> StringAt(i, f)]

\* parse_string is a function of the position that StringStep determines,
LEMMA StringUnfolds == ASSUME NEW i PROVE parse_string(i) = (CHOOSE f : StringStep(f))[i]
  BY Zenon DEF parse_string, StringStep, StringAt

\* What is read at i depends on what is read behind it.
LEMMA StringDepends ==
  ASSUME Len(text) \in Nat, NEW i \in 1..(Len(text) + 1), NEW f, NEW h,
         \A j \in (i + 1)..(Len(text) + 1) : f[j] = h[j]
  PROVE  StringAt(i, f) = StringAt(i, h)
  <1>1. CASE i > Len(text) \/ text[i] = Quote
    BY <1>1 DEF StringAt
  <1>2. CASE i <= Len(text) /\ text[i] # Quote
    <2>1. CharAt(i).after \in {0} \cup (i + 1)..(Len(text) + 1)
      BY <1>2, CharEnds
    <2>2. CASE CharAt(i).after = 0
      BY <2>2, Zenon DEF StringAt
    <2>3. CASE CharAt(i).after \in (i + 1)..(Len(text) + 1)
      BY <2>3, Zenon DEF StringAt
    <2> QED
      BY <2>1, <2>2, <2>3
  <1> QED
    BY <1>1, <1>2

\* and there is one, as every character ends behind where it begins.
LEMMA StringExists ==
  ASSUME Len(text) \in Nat
  PROVE  StringStep(CHOOSE f : StringStep(f))
  <1> DEFINE end == Len(text) + 1
             Good(m) == \E f : f = [i \in (end - m)..end |-> StringAt(i, f)]
             S == {m \in Nat : m < end => Good(m)}
  <1>0. end \in Nat \ {0}
    OBVIOUS
  <1>1. Good(0)
    <2> DEFINE f == [i \in (end - 0)..end |-> Unterminated]
    <2>1. \A i \in (end - 0)..end : StringAt(i, f) = Unterminated
      <3>1. \A i \in (end - 0)..end : i > Len(text)
        OBVIOUS
      <3> HIDE DEF end, f
      <3> QED
        BY <3>1, Zenon DEF StringAt
    <2>2. f = [i \in (end - 0)..end |-> StringAt(i, f)]
      <3>1. \A i \in (end - 0)..end : f[i] = StringAt(i, f)
        BY <2>1
      <3> HIDE DEF end
      <3> QED
        BY <2>1, Zenon
    <2> HIDE DEF f
    <2> QED
      BY <2>2
  <1>2. ASSUME NEW m \in Nat, Good(m), m + 1 < end PROVE Good(m + 1)
    <2>1. PICK f : f = [i \in (end - m)..end |-> StringAt(i, f)]
      BY <1>2
    <2> DEFINE at == end - (m + 1)
               h == [i \in at..end |-> IF i = at THEN StringAt(at, f) ELSE f[i]]
    <2>2. at \in 1..end /\ at + 1 = end - m
      BY <1>0, <1>2
    <2>3. ASSUME NEW i \in at..end PROVE h[i] = StringAt(i, h)
      <3>1. \A j \in (i + 1)..end : h[j] = f[j]
        BY <2>2
      <3>2. StringAt(i, h) = StringAt(i, f)
        <4>1. i \in 1..(Len(text) + 1)
          BY <2>2
        <4> HIDE DEF h
        <4> QED
          BY <3>1, <4>1, StringDepends
      <3>3. CASE i = at
        BY <3>2, <3>3
      <3>4. CASE i # at
        <4>1. i \in (end - m)..end
          BY <2>2, <3>4
        <4>2. f[i] = StringAt(i, f)
          <5> HIDE DEF end
          <5> QED
            BY <2>1, <4>1, Zenon
        <4> QED
          BY <3>2, <3>4, <4>2
      <3> QED
        BY <3>3, <3>4
    <2>4. h = [i \in at..end |-> StringAt(i, h)]
      BY <2>3, Zenon
    <2> HIDE DEF h
    <2> QED
      BY <2>4
  <1> HIDE DEF Good
  <1>3. 0 \in S /\ \A m \in Nat : m >= 0 /\ m \in S => m + 1 \in S
    <2>1. ASSUME NEW m \in Nat, m \in S, m + 1 < end PROVE Good(m + 1)
      <3>1. Good(m)
        BY <1>0, <2>1
      <3> QED
        BY <1>2, <2>1, <3>1
    <2> QED
      BY <1>1, <2>1
  <1> HIDE DEF S
  <1>4. \A m \in Nat : m >= 0 => m \in S
    BY <1>3, SetInduction
  <1>5. Good(Len(text))
    BY <1>4 DEF S
  <1>6. end - Len(text) = 1
    OBVIOUS
  <1>7. \E f : StringStep(f)
    BY <1>5, <1>6 DEF Good, StringStep
  <1> QED
    BY <1>7, Zenon

\* So is a piece c of t, from i to j.
PieceRead(off, i, j, c) ==
  text[off + i] # Quote /\ CharAt(off + i) = [after |-> off + j + 1, chars |-> c]

\* CharAt reads a piece as what it is written for.
LEMMA PieceReads ==
  ASSUME NEW t, NEW off \in Nat, Stands(text, off, t), Len(t) \in Nat, Len(text) \in Nat, t[Len(t)] = Quote,
         NEW i \in Nat \ {0}, NEW j \in Nat, i <= j, j < Len(t), NEW c, Piece(t, i, j, c)
  PROVE  PieceRead(off, i, j, c)
  <1>10. PICK N \in Nat, L \in Nat : N = Len(t) /\ L = Len(text)
    OBVIOUS
  <1> USE <1>10
  <1>11. t[N] = Quote /\ j < N
    OBVIOUS
  <1> USE <1>11
  <1> SUFFICES text[off + i] # Quote /\ CharAt(off + i) = [after |-> off + j + 1, chars |-> c]
    BY Zenon DEF PieceRead
  <1>0. DOMAIN Plain = {Quote, "\\", "/"} /\ DOMAIN Controls = {"b", "f", "n", "r", "t"}
    BY DEF Plain, Controls
  <1>1. \A h \in 1..N : text[off + h] = t[h] /\ off + h <= L
    BY DEF Stands
  <1>2. /\ off + i \in Nat /\ off + i < L /\ text[off + i] = t[i]
        /\ off + i + 1 = off + (i + 1) /\ text[off + i + 1] = t[i + 1]
    <2>1. i \in 1..N /\ i + 1 \in 1..N
      OBVIOUS
    <2>2. text[off + i] = t[i] /\ text[off + (i + 1)] = t[i + 1] /\ off + (i + 1) <= L
      BY <1>1, <2>1
    <2> QED
      BY <2>2
  <1>3. CASE j = i /\ t[i] \notin {Quote, "\\"} /\ c = <<t[i]>>
    <2>1. CharAt(off + i) = [after |-> off + i + 1, chars |-> <<text[off + i]>>]
      BY <1>2, <1>3, Zenon DEF CharAt
    <2>2. off + i + 1 = off + j + 1 /\ text[off + i] # Quote
      BY <1>2, <1>3
    <2> QED
      BY <1>2, <1>3, <2>1, <2>2, Zenon
  <1>4. CASE t[i] = "\\" /\ j = i + 1 /\ t[j] \in DOMAIN Plain /\ c = <<Plain[t[j]]>>
    <2>1. CharAt(off + i) = [after |-> off + i + 2, chars |-> <<Plain[text[off + i + 1]]>>]
      BY <1>2, <1>4 DEF CharAt
    <2>2. off + i + 2 = off + j + 1
      BY <1>4
    <2> QED
      BY <1>2, <1>4, <2>1, <2>2 DEF Quote
  <1>5. CASE t[i] = "\\" /\ j = i + 1 /\ t[j] \in DOMAIN Controls /\ c = <<Controls[t[j]]>>
    <2>1. text[off + i + 1] \notin DOMAIN Plain
      BY <1>0, <1>2, <1>5 DEF Quote
    <2>2. CharAt(off + i) = [after |-> off + i + 2, chars |-> <<Controls[text[off + i + 1]]>>]
      BY <1>2, <1>5, <2>1 DEF CharAt
    <2>3. off + i + 2 = off + j + 1
      BY <1>5
    <2> QED
      BY <1>2, <1>5, <2>2, <2>3 DEF Quote
  <1>6. ASSUME t[i] = "\\", t[i + 1] = "u", j >= i + 2
        PROVE  /\ CharAt(off + i) = Escaped(off + i + 2) /\ text[off + i] # Quote
               /\ off + i + 2 <= L /\ text[off + i + 2] = t[i + 2]
               /\ i + 3 <= N /\ text[off + i + 3] = t[i + 3] /\ off + i + 3 <= L
    <2>1. text[off + i + 1] \notin DOMAIN Plain /\ text[off + i + 1] \notin DOMAIN Controls
      BY <1>0, <1>2, <1>6 DEF Quote
    <2>2. CharAt(off + i) = Escaped(off + i + 2)
      <3>1. text[off + i] = "\\" /\ ~(off + i = L) /\ text[off + i + 1] = "u"
        BY <1>2, <1>6
      <3> QED
        BY <2>1, <3>1, Zenon DEF CharAt
    <2>3. i + 2 \in 1..N /\ i + 3 \in 1..N /\ off + i + 2 = off + (i + 2) /\ off + i + 3 = off + (i + 3)
      BY <1>6
    <2> QED
      BY <1>1, <1>2, <1>6, <2>2, <2>3 DEF Quote
  <1>7. CASE t[i] = "\\" /\ t[i + 1] = "u" /\ j = i + 2 /\ t[j] \in {"a", "lo"}
             /\ c = <<IF t[j] = "lo" THEN Replacement ELSE t[j]>>
    <2>1. /\ CharAt(off + i) = Escaped(off + i + 2) /\ text[off + i] # Quote
          /\ off + i + 2 <= L /\ text[off + i + 2] = t[i + 2]
      BY <1>6, <1>7
    <2>2. text[off + i + 2] \in Units /\ text[off + i + 2] # "hi" /\ (text[off + i + 2] \in Surrogates <=> t[j] = "lo")
      BY <1>7, <2>1 DEF Units, Surrogates
    <2>3. Escaped(off + i + 2) = [after |-> off + i + 3, chars |-> c]
      BY <1>7, <2>1, <2>2 DEF Escaped
    <2>4. off + i + 3 = off + j + 1
      BY <1>7
    <2> QED
      BY <2>1, <2>3, <2>4
  <1>8. CASE t[i] = "\\" /\ t[i + 1] = "u" /\ j = i + 2 /\ t[j] = "hi"
             /\ ~(t[j + 1] = "\\" /\ t[j + 2] = "u") /\ c = <<Replacement>>
    <2>1. /\ CharAt(off + i) = Escaped(off + i + 2) /\ text[off + i] # Quote
          /\ off + i + 2 <= L /\ text[off + i + 2] = t[i + 2]
          /\ i + 3 <= N /\ text[off + i + 3] = t[i + 3]
      BY <1>6, <1>8
    <2>2. ~(At(off + i + 2 + 1, "\\") /\ At(off + i + 2 + 2, "u"))
      <3>1. CASE i + 3 = N
        <4>1. off + i + 2 + 1 = off + i + 3 /\ text[off + i + 3] = Quote
          BY <2>1, <3>1
        <4> QED
          BY <4>1 DEF At, Quote
      <3>2. CASE i + 3 # N
        <4>1. i + 4 \in 1..N /\ off + i + 2 + 2 = off + (i + 4) /\ off + i + 2 + 1 = off + i + 3
          <5>1. i + 3 <= N
            BY <2>1
          <5> HIDE <2>1
          <5> QED
            BY <3>2, <5>1
        <4>2. text[off + i + 2 + 2] = t[i + 4] /\ text[off + i + 2 + 1] = t[i + 3]
          BY <1>1, <2>1, <4>1
        <4>3. j + 1 = i + 3 /\ j + 2 = i + 4
          BY <1>8
        <4> QED
          BY <1>8, <4>2, <4>3 DEF At
      <3> QED
        BY <3>1, <3>2
    <2>3. text[off + i + 2] \in Units /\ text[off + i + 2] \in Surrogates
      BY <1>8, <2>1 DEF Units, Surrogates
    <2>4. Escaped(off + i + 2) = [after |-> off + i + 2 + 1, chars |-> <<Replacement>>]
      BY <2>1, <2>2, <2>3 DEF Escaped
    <2>5. off + i + 2 + 1 = off + j + 1
      BY <1>8
    <2> QED
      BY <1>8, <2>1, <2>4, <2>5
  <1>9. CASE /\ t[i] = "\\" /\ t[i + 1] = "u" /\ t[i + 2] = "hi" /\ t[i + 3] = "\\" /\ t[i + 4] = "u"
             /\ j = i + 5 /\ t[j] \in Units
             /\ c = CASE t[j] = "lo" -> <<"pair">>
                      [] t[j] = "hi" -> <<Replacement, Replacement>>
                      [] OTHER -> <<Replacement, t[j]>>
    <2>1. /\ CharAt(off + i) = Escaped(off + i + 2) /\ text[off + i] # Quote
          /\ off + i + 2 <= L /\ text[off + i + 2] = "hi"
      BY <1>6, <1>9
    <2>2. /\ At(off + i + 2 + 1, "\\") /\ At(off + i + 2 + 2, "u")
          /\ off + i + 2 + 3 <= L /\ text[off + i + 2 + 3] = t[j]
      <3>1. i + 3 \in 1..N /\ i + 4 \in 1..N /\ i + 5 \in 1..N
        BY <1>9
      <3>2. off + i + 2 + 1 = off + (i + 3) /\ off + i + 2 + 2 = off + (i + 4) /\ off + i + 2 + 3 = off + (i + 5)
        OBVIOUS
      <3> QED
        BY <1>1, <1>9, <3>1, <3>2 DEF At
    <2>3. Escaped(off + i + 2) = [after |-> off + i + 2 + 4, chars |-> c]
      <3>1. text[off + i + 2] \in Units
        BY <2>1 DEF Units
      <3> DEFINE m == off + i + 2
      <3>2. Escaped(m) = [after |-> m + 4,
                          chars |-> CASE text[m + 3] = "lo" -> <<"pair">>
                                      [] text[m + 3] = "hi" -> <<Replacement, Replacement>>
                                      [] OTHER -> <<Replacement, text[m + 3]>>]
        <4>1. /\ m <= L /\ text[m] \in Units /\ text[m] = "hi" /\ At(m + 1, "\\") /\ At(m + 2, "u")
              /\ m + 3 <= L /\ text[m + 3] \in Units
          BY <1>9, <2>1, <2>2, <3>1
        <4> HIDE DEF m
        <4> QED
          BY <4>1, Zenon DEF Escaped
      <3>3. text[m + 3] = t[j]
        BY <2>2
      <3> HIDE DEF m
      <3> QED
        BY <1>9, <3>2, <3>3, Zenon DEF m
    <2>4. off + i + 2 + 4 = off + j + 1
      BY <1>9
    <2> QED
      BY <2>1, <2>3, <2>4
  <1> QED
    BY <1>3, <1>4, <1>5, <1>7, <1>8, <1>9, Zenon DEF Piece

\* Induction from n down.
LEMMA DownInduction ==
  ASSUME NEW n \in Nat, NEW S, n \in S, \A j \in 1..n : j \in S => j - 1 \in S
  PROVE  \A j \in 0..n : j \in S
  <1> DEFINE T == {m \in Nat : m <= n => n - m \in S}
  <1>1. 0 \in T
    OBVIOUS
  <1>2. ASSUME NEW m \in Nat, m >= 0, m \in T PROVE m + 1 \in T
    <2>1. CASE m + 1 <= n
      <3>1. n - m \in 1..n /\ n - (m + 1) = (n - m) - 1
        BY <2>1
      <3>2. n - m \in S
        BY <1>2, <2>1
      <3> QED
        BY <3>1, <3>2
    <2> QED
      BY <2>1
  <1> HIDE DEF T
  <1>3. \A m \in Nat : m >= 0 => m \in T
    BY <1>1, <1>2, SetInduction
  <1>4. \A j \in 0..n : n - j \in Nat /\ n - j <= n /\ n - (n - j) = j
    OBVIOUS
  <1> QED
    BY <1>3, <1>4 DEF T

\* parse_string reads g, which is a string, behind its quote.
StringRead(g, off) ==
  LET string == parse_string(off + 2)
  IN  string.after = off + Len(g.text) + 1 /\ g.value = Value("string", string.chars)

\* parse_string reads a string up to its closing quote.
LEMMA StringReads ==
  ASSUME NEW g, StringWriting(g), NEW off \in Nat, Stands(text, off, g.text), Len(g.text) \in Nat, Len(text) \in Nat
  PROVE  StringRead(g, off)
  <1>0. PICK N \in Nat, L \in Nat : N = Len(g.text) /\ L = Len(text)
    OBVIOUS
  <1> USE <1>0
  <1> DEFINE t == g.text
             F == CHOOSE f : StringStep(f)
             end == off + N + 1
  <1>11. PICK n \in Nat : \E e, c, rest : StringPieces(t, n, e, c, rest) /\ g.value = Value("string", rest[0])
    BY Zenon DEF StringWriting
  <1>1. PICK e, c, rest : StringPieces(t, n, e, c, rest) /\ g.value = Value("string", rest[0])
    BY <1>11, Zenon
  <1>2. N >= 2 /\ t[N] = Quote
    BY Zenon DEF StringWriting
  <1>3. /\ e \in [0..n -> Nat] /\ e[0] = 1 /\ e[n] = N - 1
        /\ \A j \in 1..n : e[j - 1] < e[j] /\ Piece(t, e[j - 1] + 1, e[j], c[j])
        /\ rest[n] = <<>> /\ \A j \in 1..n : rest[j - 1] = c[j] \o rest[j]
    BY <1>1, Zenon DEF StringPieces
  <1>4. F = [i \in 1..(L + 1) |-> StringAt(i, F)]
    BY StringExists, Zenon DEF StringStep
  <1>5. off + N <= L /\ \A h \in 1..N : text[off + h] = t[h]
    BY DEF Stands
  <1> HIDE DEF F
  \* A piece is never beyond the last one.
  <1>6. \A j \in 0..n : e[j] \in Nat /\ e[j] <= N - 1
    <2> DEFINE S == {j \in 0..n : e[j] <= N - 1}
    <2>1. n \in S
      BY <1>3
    <2>2. ASSUME NEW j \in 1..n, j \in S PROVE j - 1 \in S
      <3>1. j \in 0..n /\ j - 1 \in 0..n
        OBVIOUS
      <3>2. e[j] <= N - 1 /\ e[j - 1] < e[j] /\ e[j] \in Nat /\ e[j - 1] \in Nat
        BY <1>3, <2>2, <3>1
      <3> QED
        BY <3>1, <3>2
    <2> HIDE DEF S
    <2>3. \A j \in 0..n : j \in S
      BY <2>1, <2>2, DownInduction
    <2> QED
      BY <1>3, <2>3 DEF S
  <1>7. \A j \in 0..n : F[off + e[j] + 1] = [after |-> end, chars |-> rest[j]]
    <2> DEFINE S == {j \in 0..n : F[off + e[j] + 1] = [after |-> end, chars |-> rest[j]]}
    <2> HIDE DEF t, end
    <2>1. n \in S
      <3>1. off + e[n] + 1 = off + N /\ off + N \in 1..L /\ off + N \in 1..(L + 1) /\ N \in 1..N
        BY <1>2, <1>3, <1>5
      <3>2. ~(off + N > L) /\ text[off + N] = Quote
        BY <1>2, <1>5, <3>1
      <3>3. F[off + N] = StringAt(off + N, F)
        BY <1>4, <3>1, Zenon
      <3>4. StringAt(off + N, F) = [after |-> off + N + 1, chars |-> <<>>]
        BY <3>2, Zenon DEF StringAt
      <3>5. F[off + e[n] + 1] = [after |-> end, chars |-> rest[n]]
        BY <1>3, <3>1, <3>3, <3>4, Zenon DEF end
      <3>6. n \in 0..n
        OBVIOUS
      <3> QED
        BY <3>5, <3>6, Zenon
    <2>2. ASSUME NEW j \in 1..n, j \in S PROVE j - 1 \in S
      <3>1. j \in 0..n /\ j - 1 \in 0..n
        OBVIOUS
      <3>2. PICK i \in Nat, k \in Nat : i = e[j - 1] + 1 /\ k = e[j]
        BY <1>6, <3>1
      <3>3. /\ i \in Nat \ {0} /\ i <= k /\ k < N
            /\ Piece(t, i, k, c[j]) /\ rest[j - 1] = c[j] \o rest[j]
        <4>1. e[j - 1] \in Nat /\ e[j] \in Nat /\ e[j] <= N - 1 /\ e[j - 1] < e[j]
          BY <1>3, <1>6, <3>1
        <4>2. Piece(t, e[j - 1] + 1, e[j], c[j]) /\ rest[j - 1] = c[j] \o rest[j]
          BY <1>3, Zenon
        <4>3. Piece(t, i, k, c[j])
          BY <3>2, <4>2, Zenon
        <4> QED
          BY <3>2, <4>1, <4>2, <4>3
      <3>4. F[off + k + 1] = [after |-> end, chars |-> rest[j]]
        BY <2>2, <3>2, Zenon
      <3>5. text[off + i] # Quote /\ CharAt(off + i) = [after |-> off + k + 1, chars |-> c[j]]
        <4>1. Stands(text, off, t) /\ t[Len(t)] = Quote /\ Len(t) \in Nat /\ Len(text) \in Nat
          BY <1>2 DEF t
        <4>2. k < Len(t)
          BY <3>3 DEF t
        <4>3. PieceRead(off, i, k, c[j])
          BY <3>3, <4>1, <4>2, PieceReads, Zenon
        <4> QED
          BY <4>3, Zenon DEF PieceRead
      <3>6. off + i \in 1..(L + 1) /\ ~(off + i > L) /\ off + k + 1 # 0
        BY <1>5, <3>3
      <3>7. F[off + i] = StringAt(off + i, F)
        BY <1>4, <3>6, Zenon
      <3>8. end # 0
        BY DEF end
      <3>9. CharAt(off + i).after = off + k + 1 /\ CharAt(off + i).chars = c[j]
        BY <3>5
      <3>10. F[off + k + 1].after = end /\ F[off + k + 1].chars = rest[j]
        BY <3>4
      <3>11. StringAt(off + i, F) = [after |-> end, chars |-> c[j] \o rest[j]]
        BY <3>5, <3>6, <3>8, <3>9, <3>10, Zenon DEF StringAt
      <3>12. off + e[j - 1] + 1 = off + i
        BY <1>6, <3>1, <3>2
      <3> QED
        BY <3>1, <3>3, <3>7, <3>11, <3>12, Zenon
    <2> HIDE DEF S
    <2>3. \A j \in 0..n : j \in S
      BY <2>1, <2>2, DownInduction
    <2> QED
      BY <2>3, Zenon DEF S
  <1>8. F[off + 2] = [after |-> end, chars |-> rest[0]]
    <2>1. 0 \in 0..n /\ off + e[0] + 1 = off + 2
      BY <1>3
    <2> QED
      BY <1>7, <2>1, Zenon
  <1>9. parse_string(off + 2) = F[off + 2]
    BY StringUnfolds, Zenon DEF F
  <1>10. parse_string(off + 2).after = end /\ parse_string(off + 2).chars = rest[0]
    BY <1>8, <1>9
  <1> QED
    BY <1>1, <1>10, Zenon DEF StringRead, end

-----------------------------------------------------------------------------
(* A number and a literal are read back.                                   *)

\* What stands in the text is what is cut out of it.
LEMMA CutOut ==
  ASSUME NEW t \in Seq(STRING), text \in Seq(STRING), NEW off \in Nat, Stands(text, off, t)
  PROVE  SubSeq(text, off + 1, off + Len(t)) = t
  <1> DEFINE u == SubSeq(text, off + 1, off + Len(t))
  <1>1. PICK N \in Nat, L \in Nat : N = Len(t) /\ L = Len(text)
    OBVIOUS
  <1>2. off + N <= L /\ \A h \in 1..N : text[off + h] = t[h]
    BY <1>1 DEF Stands
  <1>3. off + 1 \in 1..(L + 1) /\ off + N \in 0..L
    BY <1>2
  <1>4. u \in Seq(STRING) /\ Len(u) = N
    <2>1. \A k \in (off + 1)..(off + N) : text[k] \in STRING
      <3>1. \A k \in (off + 1)..(off + N) : k \in 1..L
        BY <1>2
      <3> QED
        BY <1>1, <3>1
    <2>2. off + 1 <= off + N => off + N - (off + 1) + 1 = N
      OBVIOUS
    <2>3. ~(off + 1 <= off + N) => N = 0
      OBVIOUS
    <2> QED
      BY <1>1, <1>3, <2>1, <2>2, <2>3, SubSeqProperties
  <1>5. \A h \in 1..N : u[h] = t[h]
    <2> SUFFICES ASSUME NEW h \in 1..N PROVE u[h] = t[h]
      OBVIOUS
    <2>1. off + 1 <= off + N /\ off + 1 + h - 1 = off + h /\ h \in 1..(off + N - (off + 1) + 1)
      OBVIOUS
    <2>2. \A k \in (off + 1)..(off + N) : text[k] \in STRING
      <3>1. \A k \in (off + 1)..(off + N) : k \in 1..L
        BY <1>2
      <3> QED
        BY <1>1, <3>1
    <2>3. u[h] = text[off + h]
      BY <1>1, <1>3, <2>1, <2>2, SubSeqProperties
    <2> QED
      BY <1>2, <2>3
  <1> HIDE DEF u
  <1>6. u = t
    BY <1>1, <1>4, <1>5, SeqEqual
  <1> QED
    BY <1>6 DEF u

\* A value may end before i.
MayEnd(i) == i > Len(text) \/ text[i] \in Follows

\* The characters given to strtoll and strtod are those of the number.
LEMMA NumberReads ==
  ASSUME NEW g, NumberWriting(g), NEW off \in Nat, Stands(text, off, g.text),
         NEW N \in Nat, N = Len(g.text), NEW L \in Nat, L = Len(text), MayEnd(off + N + 1)
  PROVE  NumberAfter(off + 1) = off + N + 1
  <1> DEFINE t == g.text
  <1>1. PICK s \in {0, 1}, a \in Nat, b \in Nat :
          /\ (s = 1 => t[1] = "-") /\ s < a /\ DigitsBetween(t, s, a + 1)
          /\ a = b \/ (t[a + 1] = "." /\ a + 1 < b /\ DigitsBetween(t, a + 1, b + 1))
          /\ \/ b = Len(t)
             \/ \E x \in {b + 1, b + 2} :
                  /\ t[b + 1] = "e" /\ (x = b + 2 => t[x] \in {"+", "-"})
                  /\ x < Len(t) /\ DigitsBetween(t, x, Len(t) + 1)
    BY Zenon DEF NumberWriting
  <1>2. off + N <= L /\ \A h \in 1..N : text[off + h] = t[h]
    BY DEF Stands
  <1>3. "." \notin DigitSet /\ "e" \notin DigitSet /\ "-" \notin DigitSet /\ "+" \notin DigitSet
    BY DigitsAre
  \* Behind the number there is neither of these.
  <1>4. off + N + 1 <= L => text[off + N + 1] \notin DigitSet /\ text[off + N + 1] # "." /\ text[off + N + 1] # "e"
    <2>1. off + N + 1 <= L => text[off + N + 1] \in Follows
      BY DEF MayEnd
    <2>2. \A ch \in Follows : ch \notin DigitSet /\ ch # "." /\ ch # "e"
      BY FirstsApart
    <2> QED
      BY <2>1, <2>2, Zenon
  <1>5. a <= b /\ b <= N
    BY <1>1
  <1> HIDE DEF t
  <1>6. ASSUME NEW i \in Nat, NEW j \in Nat, i < j, j <= N, DigitsBetween(t, i, j + 1),
               off + j + 1 <= L => text[off + j + 1] \notin DigitSet
        PROVE  RunEnd(off + i + 1, DigitSet) = off + j + 1
    <2>1. DigitsBetween(text, off + i, off + (j + 1))
      <3>1. Stands(text, off, t) /\ Len(t) \in Nat /\ j + 1 \in Nat /\ j + 1 <= Len(t) + 1
        BY <1>6 DEF t
      <3> QED
        BY <1>6, <3>1, BlanksStand, Zenon
    <2>2. off + i \in Nat /\ off + (j + 1) \in Nat /\ off + i < off + (j + 1) /\ off + (j + 1) <= L + 1
          /\ off + (j + 1) = off + j + 1
      BY <1>2, <1>6
    <2> QED
      BY <1>6, <2>1, <2>2, DigitsRead
  <1>7. IF s = 1 THEN At(off + 1, "-") ELSE ~At(off + 1, "-")
    <2>1. CASE s = 1
      <3>1. text[off + 1] = t[1] /\ off + 1 <= L
        BY <1>1, <1>2, <1>5, <2>1
      <3> QED
        BY <1>1, <2>1, <3>1 DEF At
    <2>2. CASE s = 0
      <3>1. text[off + 1] = t[1] /\ t[1] \in DigitSet
        BY <1>1, <1>2, <1>5, <2>2 DEF DigitsBetween
      <3> QED
        BY <1>3, <2>2, <3>1 DEF At
    <2> QED
      BY <2>1, <2>2
  <1>8. RunEnd(IF At(off + 1, "-") THEN off + 1 + 1 ELSE off + 1, DigitSet) = off + a + 1
    <2>1. off + a + 1 <= L => text[off + a + 1] \notin DigitSet
      <3>1. CASE a + 1 \in 1..N
        <4>1. text[off + a + 1] = t[a + 1]
          BY <1>2, <3>1
        <4>2. t[a + 1] \in {".", "e"}
          BY <1>1, <3>1 DEF t
        <4> QED
          BY <1>3, <4>1, <4>2
      <3>2. CASE a = N
        BY <1>4, <3>2
      <3> QED
        BY <1>5, <3>1, <3>2
    <2>2. RunEnd(off + s + 1, DigitSet) = off + a + 1
      <3>1. s \in Nat /\ s < a /\ a <= N /\ DigitsBetween(t, s, a + 1)
        BY <1>1, <1>5
      <3> QED
        BY <1>6, <2>1, <3>1
    <2>3. (IF At(off + 1, "-") THEN off + 1 + 1 ELSE off + 1) = off + s + 1
      BY <1>7
    <2> QED
      BY <2>2, <2>3
  <1>9. IF At(off + a + 1, ".") THEN RunEnd(off + a + 1 + 1, DigitSet) = off + b + 1 ELSE a = b
    <2>1. CASE a # b
      <3>1. At(off + a + 1, ".")
        <4>1. a + 1 \in 1..N /\ t[a + 1] = "."
          BY <1>1, <1>5, <2>1
        <4>2. off + a + 1 <= L /\ text[off + a + 1] = t[a + 1]
          BY <1>2, <4>1
        <4> QED
          BY <4>1, <4>2 DEF At
      <3>2. off + b + 1 <= L => text[off + b + 1] \notin DigitSet
        <4>1. CASE b = N
          BY <1>4, <4>1
        <4>2. CASE b # N
          <5>1. b + 1 \in 1..N /\ t[b + 1] = "e"
            BY <1>1, <1>5, <4>2 DEF t
          <5>2. text[off + b + 1] = t[b + 1]
            BY <1>2, <5>1
          <5> QED
            BY <1>3, <5>1, <5>2
        <4> QED
          BY <4>1, <4>2
      <3>3. RunEnd(off + (a + 1) + 1, DigitSet) = off + b + 1
        BY <1>1, <1>5, <1>6, <2>1, <3>2
      <3>4. off + (a + 1) + 1 = off + a + 1 + 1
        OBVIOUS
      <3> QED
        BY <3>1, <3>3, <3>4
    <2>2. CASE a = b
      <3>1. ~At(off + a + 1, ".")
        <4>1. CASE b = N
          BY <1>4, <2>2, <4>1 DEF At
        <4>2. CASE b # N
          <5>1. b + 1 \in 1..N /\ t[b + 1] = "e"
            BY <1>1, <1>5, <4>2 DEF t
          <5>2. text[off + b + 1] = t[b + 1]
            BY <1>2, <5>1
          <5> QED
            BY <2>2, <5>1, <5>2 DEF At
        <4> QED
          BY <4>1, <4>2
      <3> QED
        BY <2>2, <3>1
    <2> QED
      BY <2>1, <2>2
  <1>10. (IF At(off + a + 1, ".") THEN RunEnd(off + a + 1 + 1, DigitSet) ELSE off + a + 1) = off + b + 1
    BY <1>9
  <1> DEFINE sign == IF At(off + b + 1 + 1, "-") \/ At(off + b + 1 + 1, "+") THEN off + b + 1 + 2 ELSE off + b + 1 + 1
  <1>11. IF At(off + b + 1, "e") THEN RunEnd(sign, DigitSet) = off + N + 1 ELSE b = N
    <2>1. CASE b # N
      <3>1. PICK x \in {b + 1, b + 2} :
              /\ t[b + 1] = "e" /\ (x = b + 2 => t[x] \in {"+", "-"})
              /\ x < N /\ DigitsBetween(t, x, N + 1)
        BY <1>1, <2>1 DEF t
      <3>2. x \in Nat /\ b + 1 \in 1..N /\ b + 2 \in 1..N /\ x + 1 \in 1..N
        BY <3>1
      <3>3. At(off + b + 1, "e")
        <4>1. off + b + 1 <= L /\ text[off + b + 1] = t[b + 1]
          BY <1>2, <3>2
        <4> QED
          BY <3>1, <4>1 DEF At
      <3>4. off + b + 1 + 1 <= L /\ text[off + b + 1 + 1] = t[b + 2]
        <4>1. off + b + 1 + 1 = off + (b + 2)
          OBVIOUS
        <4> QED
          BY <1>2, <3>2, <4>1
      <3>5. sign = off + x + 1
        <4>1. CASE x = b + 2
          <5>1. At(off + b + 1 + 1, "-") \/ At(off + b + 1 + 1, "+")
            BY <3>1, <3>4, <4>1 DEF At
          <5> QED
            BY <4>1, <5>1
        <4>2. CASE x = b + 1
          <5>1. t[b + 2] \in DigitSet
            BY <3>1, <3>2, <4>2 DEF DigitsBetween
          <5>2. ~(At(off + b + 1 + 1, "-") \/ At(off + b + 1 + 1, "+"))
            BY <1>3, <3>4, <5>1 DEF At
          <5> QED
            BY <4>2, <5>2
        <4> QED
          BY <3>1, <4>1, <4>2
      <3>6. RunEnd(off + x + 1, DigitSet) = off + N + 1
        BY <1>4, <1>6, <3>1, <3>2
      <3> QED
        BY <3>3, <3>5, <3>6
    <2>2. CASE b = N
      <3>1. ~At(off + b + 1, "e")
        BY <1>4, <2>2 DEF At
      <3> QED
        BY <2>2, <3>1
    <2> QED
      BY <2>1, <2>2
  <1>12. (IF At(off + b + 1, "e") THEN RunEnd(sign, DigitSet) ELSE off + b + 1) = off + N + 1
    BY <1>11
  <1>13. NumberAfter(off + 1) =
           (IF At(off + b + 1, "e") THEN RunEnd(sign, DigitSet) ELSE off + b + 1)
    <2> DEFINE whole == RunEnd(IF At(off + 1, "-") THEN off + 1 + 1 ELSE off + 1, DigitSet)
               fraction == IF At(whole, ".") THEN RunEnd(whole + 1, DigitSet) ELSE whole
               signed == IF At(fraction + 1, "-") \/ At(fraction + 1, "+") THEN fraction + 2 ELSE fraction + 1
    <2>1. NumberAfter(off + 1) = (IF At(fraction, "e") THEN RunEnd(signed, DigitSet) ELSE fraction)
      BY Zenon DEF NumberAfter
    <2>2. whole = off + a + 1
      BY <1>8
    <2>3. fraction = off + b + 1
      BY <1>10, <2>2
    <2>4. signed = sign
      BY <2>3
    <2> QED
      BY <2>1, <2>3, <2>4
  <1> QED
    BY <1>12, <1>13

\* The literal that stands there is the only one that is found.
LEMMA LiteralReads ==
  ASSUME NEW l \in Literals, NEW off \in Nat, text \in Seq(STRING), l.word \in Seq(STRING), Stands(text, off, l.word)
  PROVE  {k \in Literals : Spelt(off + 1, k.word)} = {l}
  <1>1. PICK L \in Nat : L = Len(text)
    OBVIOUS
  <1>2. Spelt(off + 1, l.word)
    <2>1. PICK N \in Nat : N = Len(l.word)
      BY LiteralsAre
    <2>2. SubSeq(text, off + 1, off + Len(l.word)) = l.word
      BY CutOut
    <2>3. off + N <= L
      BY <1>1, <2>1 DEF Stands
    <2>4. off + 1 + N - 1 = off + N /\ L + 1 - (off + 1) >= N
      BY <2>3
    <2> QED
      BY <1>1, <2>1, <2>2, <2>4 DEF Spelt
  <1>3. ASSUME NEW k \in Literals, Spelt(off + 1, k.word) PROVE k = l
    <2>1. PICK N \in Nat : N = Len(k.word) /\ N >= 4
      <3>1. Len(k.word) \in {4, 5}
        BY LiteralsAre
      <3>2. \A n \in {4, 5} : n \in Nat /\ n >= 4
        OBVIOUS
      <3> QED
        BY <3>1, <3>2, Zenon
    <2>2. off + N <= L /\ SubSeq(text, off + 1, off + N) = k.word
      <3>1. L + 1 - (off + 1) >= N /\ SubSeq(text, off + 1, off + 1 + N - 1) = k.word
        BY <1>1, <1>3, <2>1 DEF Spelt
      <3>2. off + 1 + N - 1 = off + N
        OBVIOUS
      <3> QED
        BY <3>1, <3>2
    <2>3. SubSeq(text, off + 1, off + N)[1] = text[off + 1]
      <3>1. \A h \in (off + 1)..(off + N) : text[h] \in STRING
        <4>1. \A h \in (off + 1)..(off + N) : h \in 1..L
          BY <2>2
        <4> QED
          BY <1>1, <4>1
      <3>2. 1 \in 1..(off + N - (off + 1) + 1) /\ off + 1 + 1 - 1 = off + 1
        BY <2>1
      <3> QED
        BY <3>1, <3>2, SubSeqProperties
    <2>4. text[off + 1] = l.word[1]
      <3>1. 1 \in 1..Len(l.word)
        BY LiteralsAre
      <3> QED
        BY <3>1 DEF Stands
    <2> QED
      BY <2>2, <2>3, <2>4, LiteralsAre
  <1> QED
    BY <1>2, <1>3

-----------------------------------------------------------------------------
(* Members and their places.                                               *)

\* A node [g, off, done]: the writing g stands in the text behind the first off
\* characters, and done of its members have been read.
Placed(n, G) == n.g \in G /\ n.off \in Nat /\ Stands(text, n.off, n.g.text)

\* The member that is being read.
InMember(n, its) == n.g.kind \in {"array", "object"} /\ n.done \in Nat /\ n.done < Len(its[n.g])
ItemOf(n, its) == its[n.g][n.done + 1]

\* m is the value of that member.
Nested(n, m, its) == m.g = ItemOf(n, its).of /\ m.off = n.off + ItemOf(n, its).at

Container(n, its, G) == n.g.kind \in {"array", "object"} => ContainerWriting(n.g, its[n.g], G)

\* A placed writing begins with a character of its kind and ends in the text.
LEMMA PlacedBegins ==
  ASSUME NEW G, NEW its, Grammar(G, its), NEW n, Placed(n, G), NEW L \in Nat, L = Len(text)
  PROVE  /\ n.g.kind \in Kinds /\ n.g.text \in Seq(STRING) /\ Len(n.g.text) \in Nat /\ Len(n.g.text) >= 1
         /\ n.off + 1 <= L /\ n.off + Len(n.g.text) <= L
         /\ text[n.off + 1] = n.g.text[1] /\ n.g.text[1] \in FirstOf(n.g.kind)
         /\ Container(n, its, G)
  <1>1. Written(n.g, its[n.g], G)
    BY DEF Grammar, Placed
  <1>2. n.g.kind \in Kinds /\ Len(n.g.text) \in Nat /\ Len(n.g.text) >= 1 /\ n.g.text[1] \in FirstOf(n.g.kind)
    BY <1>1, Begins
  <1>3. PICK N \in Nat : N = Len(n.g.text) /\ N >= 1
    BY <1>2
  <1>4. n.off \in Nat /\ n.off + N <= L /\ \A h \in 1..N : text[n.off + h] = n.g.text[h]
    BY <1>3 DEF Placed, Stands
  <1>5. n.off + 1 <= L /\ text[n.off + 1] = n.g.text[1]
    BY <1>3, <1>4
  <1>6. n.g.text \in Seq(STRING) /\ Container(n, its, G)
    BY <1>1, Zenon DEF Written, Container
  <1> QED
    BY <1>2, <1>3, <1>4, <1>5, <1>6

\* Where the value of a member stands in the text, and what is around it.
ItemAt(n, its, G) ==
  LET item == ItemOf(n, its)
      from == ValueFrom(n.g, its[n.g], n.done + 1)
  IN  /\ item.of \in G /\ item.at \in Nat /\ item.sep \in Nat /\ Len(item.of.text) \in Nat
      /\ from \in Nat /\ from <= item.at /\ BlankBetween(text, n.off + from, n.off + item.at + 1)
      /\ Stands(text, n.off + item.at, item.of.text)
      /\ item.at + Len(item.of.text) < item.sep /\ n.off + item.sep <= Len(text)
      /\ BlankBetween(text, n.off + item.at + Len(item.of.text), n.off + item.sep)
      /\ text[n.off + item.sep] = IF n.done + 1 = Len(its[n.g]) THEN Closing(n.g.kind) ELSE ","
      /\ n.done + 1 = Len(its[n.g]) => item.sep = Len(n.g.text)

\* So it is, of every placed container.
LEMMA ItemStands ==
  ASSUME NEW G, NEW its, Grammar(G, its), NEW n, Placed(n, G), InMember(n, its), Len(text) \in Nat
  PROVE  ItemAt(n, its, G)
  <1> DEFINE item == ItemOf(n, its)
             from == ValueFrom(n.g, its[n.g], n.done + 1)
  <1>0. PICK L \in Nat : L = Len(text)
    OBVIOUS
  <1> DEFINE t == n.g.text
             items == its[n.g]
             j == n.done + 1
  <1>1. ContainerWriting(n.g, items, G) /\ t \in Seq(STRING)
    BY <1>0, PlacedBegins DEF InMember, Container
  <1>2. PICK N \in Nat, K \in Nat : N = Len(t) /\ K = Len(items)
    BY <1>1, Zenon, LenProperties DEF ContainerWriting
  <1>3. j \in 1..K /\ n.off \in Nat
    BY <1>2 DEF InMember, Placed
  <1>4. ValueWriting(t, items[j], ValueFrom(n.g, items, j), G)
    BY <1>1, <1>2, <1>3, Zenon DEF ContainerWriting
  <1>5. IF j = K THEN items[j].sep = N /\ t[items[j].sep] = Closing(n.g.kind) ELSE t[items[j].sep] = ","
    <2>1. K > 0 => items[K].sep = Len(t)
      BY <1>1, <1>2, Zenon DEF ContainerWriting
    <2>2. t[Len(t)] = Closing(n.g.kind) /\ \A i \in 1..K : i < K => t[items[i].sep] = ","
      BY <1>1, <1>2, Zenon DEF ContainerWriting
    <2>3. CASE j = K
      <3>1. K > 0
        BY <1>3
      <3> QED
        BY <1>2, <2>1, <2>2, <2>3, <3>1, Zenon
    <2>4. CASE j # K
      <3>1. j < K
        BY <1>3, <2>4
      <3> QED
        BY <1>3, <2>2, <2>4, <3>1, Zenon
    <2> QED
      BY <2>3, <2>4, Zenon
  <1>6. item = items[j] /\ from = ValueFrom(n.g, items, j)
    BY DEF ItemOf
  <1> HIDE DEF t, items, j, item, from
  <1>7. /\ item.of \in G /\ item.at \in Nat /\ item.sep \in Nat
        /\ from <= item.at /\ BlankBetween(t, from, item.at + 1) /\ Stands(t, item.at, item.of.text)
        /\ item.at + Len(item.of.text) < item.sep /\ item.sep <= N
        /\ BlankBetween(t, item.at + Len(item.of.text), item.sep)
    BY <1>2, <1>4, <1>6 DEF ValueWriting
  <1>8. from \in Nat
    <2>1. CASE n.g.kind = "object"
      <3>1. KeyWriting(t, items[j], Start(items, j), G)
        BY <1>1, <1>2, <1>3, <2>1, Zenon DEF ContainerWriting, t
      <3>2. items[j].colon \in Nat
        BY <3>1 DEF KeyWriting
      <3> QED
        BY <1>6, <2>1, <3>2 DEF ValueFrom
    <2>2. CASE n.g.kind # "object"
      <3>1. from = Start(items, j)
        BY <1>6, <2>2 DEF ValueFrom
      <3>2. Start(items, j) \in Nat
        <4>1. CASE j = 1
          BY <4>1 DEF Start
        <4>2. CASE j # 1
          <5>1. j - 1 \in 1..K
            BY <1>3, <4>2
          <5>2. ValueWriting(t, items[j - 1], ValueFrom(n.g, items, j - 1), G)
            BY <1>1, <1>2, <5>1, Zenon DEF ContainerWriting, t
          <5>3. items[j - 1].sep \in Nat
            BY <5>2 DEF ValueWriting
          <5> QED
            BY <4>2, <5>3 DEF Start
        <4> QED
          BY <4>1, <4>2
      <3> QED
        BY <3>1, <3>2
    <2> QED
      BY <2>1, <2>2
  <1>9. PICK M \in Nat : M = Len(item.of.text)
    BY <1>7, Begins DEF Grammar
  <1>10. n.off + N <= L /\ Stands(text, n.off, t) /\ \A h \in 1..N : text[n.off + h] = t[h]
    BY <1>0, <1>2 DEF Placed, Stands, t
  <1>11. BlankBetween(text, n.off + from, n.off + (item.at + 1))
    <2>1. item.at + 1 \in Nat /\ item.at + 1 <= N + 1
      BY <1>7, <1>9
    <2> QED
      BY <1>2, <1>3, <1>7, <1>8, <1>10, <2>1, BlanksStand
  <1>12. BlankBetween(text, n.off + (item.at + M), n.off + item.sep)
    <2>1. item.at + M \in Nat /\ item.sep <= N + 1
      BY <1>7, <1>9
    <2> QED
      BY <1>2, <1>3, <1>7, <1>9, <1>10, <2>1, BlanksStand
  <1>13. Stands(text, n.off + item.at, item.of.text)
    BY <1>2, <1>3, <1>7, <1>9, <1>10, StandsWithin
  <1>14. text[n.off + item.sep] = t[item.sep] /\ n.off + item.sep <= L
    <2>1. item.sep \in 1..N
      BY <1>7, <1>9
    <2> QED
      BY <1>3, <1>10, <2>1
  <1>15. n.off + (item.at + 1) = n.off + item.at + 1 /\ n.off + (item.at + M) = n.off + item.at + M
    <2>1. PICK o \in Nat, a \in Nat : o = n.off /\ a = item.at
      BY <1>3, <1>7
    <2>2. o + (a + 1) = o + a + 1 /\ o + (a + M) = o + a + M
      OBVIOUS
    <2> QED
      BY <2>1, <2>2, Zenon
  <1>16. text[n.off + item.sep] = (IF n.done + 1 = Len(its[n.g]) THEN Closing(n.g.kind) ELSE ",")
         /\ (n.done + 1 = Len(its[n.g]) => item.sep = Len(n.g.text))
    BY <1>2, <1>5, <1>6, <1>14 DEF t, j, items
  <1> QED
    BY <1>0, <1>7, <1>8, <1>9, <1>11, <1>12, <1>13, <1>14, <1>15, <1>16, Zenon DEF ItemAt, item, from

\* The same of its key.
KeyAt(n, its, G) ==
  LET item == ItemOf(n, its)
      from == Start(its[n.g], n.done + 1)
  IN  /\ item.key \in G /\ item.key.kind = "string" /\ item.keyAt \in Nat /\ item.colon \in Nat
      /\ Len(item.key.text) \in Nat
      /\ from \in Nat /\ from <= item.keyAt /\ BlankBetween(text, n.off + from, n.off + item.keyAt + 1)
      /\ Stands(text, n.off + item.keyAt, item.key.text)
      /\ item.keyAt + Len(item.key.text) < item.colon /\ n.off + item.colon <= Len(text)
      /\ BlankBetween(text, n.off + item.keyAt + Len(item.key.text), n.off + item.colon)
      /\ text[n.off + item.colon] = ":"

\* So it is, of every placed object.
LEMMA KeyStands ==
  ASSUME NEW G, NEW its, Grammar(G, its), NEW n, Placed(n, G), InMember(n, its), n.g.kind = "object", Len(text) \in Nat
  PROVE  KeyAt(n, its, G)
  <1> DEFINE item == ItemOf(n, its)
             from == Start(its[n.g], n.done + 1)
  <1>0. PICK L \in Nat : L = Len(text)
    OBVIOUS
  <1> DEFINE t == n.g.text
             items == its[n.g]
             j == n.done + 1
  <1>1. ContainerWriting(n.g, items, G) /\ t \in Seq(STRING)
    BY <1>0, PlacedBegins DEF InMember, Container
  <1>2. PICK N \in Nat, K \in Nat : N = Len(t) /\ K = Len(items)
    BY <1>1, Zenon, LenProperties DEF ContainerWriting
  <1>3. j \in 1..K /\ n.off \in Nat
    BY <1>2 DEF InMember, Placed
  <1>4. KeyWriting(t, items[j], Start(items, j), G)
    BY <1>1, <1>2, <1>3, Zenon DEF ContainerWriting
  <1>6. item = items[j] /\ from = Start(items, j)
    BY DEF ItemOf
  <1> HIDE DEF t, items, j, item, from
  <1>7. /\ item.key \in G /\ item.key.kind = "string" /\ item.keyAt \in Nat /\ item.colon \in Nat
        /\ from <= item.keyAt /\ BlankBetween(t, from, item.keyAt + 1) /\ Stands(t, item.keyAt, item.key.text)
        /\ item.keyAt + Len(item.key.text) < item.colon /\ item.colon <= N
        /\ BlankBetween(t, item.keyAt + Len(item.key.text), item.colon) /\ t[item.colon] = ":"
    BY <1>2, <1>4, <1>6 DEF KeyWriting
  <1>8. from \in Nat
    <2>1. CASE j = 1
      BY <1>6, <2>1 DEF Start
    <2>2. CASE j # 1
      <3>1. j - 1 \in 1..K
        BY <1>3, <2>2
      <3>2. ValueWriting(t, items[j - 1], ValueFrom(n.g, items, j - 1), G)
        BY <1>1, <1>2, <3>1, Zenon DEF ContainerWriting, t
      <3>3. items[j - 1].sep \in Nat
        BY <3>2 DEF ValueWriting
      <3> QED
        BY <1>6, <2>2, <3>3 DEF Start
    <2> QED
      BY <2>1, <2>2
  <1>9. PICK M \in Nat : M = Len(item.key.text)
    BY <1>7, Begins DEF Grammar
  <1>10. n.off + N <= L /\ Stands(text, n.off, t) /\ \A h \in 1..N : text[n.off + h] = t[h]
    BY <1>0, <1>2 DEF Placed, Stands, t
  <1>11. BlankBetween(text, n.off + from, n.off + (item.keyAt + 1))
    <2>1. item.keyAt + 1 \in Nat /\ item.keyAt + 1 <= N + 1
      BY <1>7, <1>9
    <2> QED
      BY <1>2, <1>3, <1>7, <1>8, <1>10, <2>1, BlanksStand
  <1>12. BlankBetween(text, n.off + (item.keyAt + M), n.off + item.colon)
    <2>1. item.keyAt + M \in Nat /\ item.colon <= N + 1
      BY <1>7, <1>9
    <2> QED
      BY <1>2, <1>3, <1>7, <1>9, <1>10, <2>1, BlanksStand
  <1>13. Stands(text, n.off + item.keyAt, item.key.text)
    BY <1>2, <1>3, <1>7, <1>9, <1>10, StandsWithin
  <1>14. text[n.off + item.colon] = t[item.colon] /\ n.off + item.colon <= L
    <2>1. item.colon \in 1..N
      BY <1>7, <1>9
    <2> QED
      BY <1>3, <1>10, <2>1
  <1>15. n.off + (item.keyAt + 1) = n.off + item.keyAt + 1 /\ n.off + (item.keyAt + M) = n.off + item.keyAt + M
    <2>1. PICK o \in Nat, a \in Nat : o = n.off /\ a = item.keyAt
      BY <1>3, <1>7
    <2>2. o + (a + 1) = o + a + 1 /\ o + (a + M) = o + a + M
      OBVIOUS
    <2> QED
      BY <2>1, <2>2, Zenon
  <1> QED
    BY <1>0, <1>7, <1>8, <1>9, <1>11, <1>12, <1>13, <1>14, <1>15, Zenon DEF KeyAt, item, from

-----------------------------------------------------------------------------
(* Sequences of calls.                                                     *)

\* A sequence with one more in front.
LEMMA Pushed ==
  ASSUME NEW S, NEW c \in Seq(S), NEW x, NEW d \in Nat, d = Len(c)
  PROVE  /\ <<x>> \o c \in Seq(S \cup {x}) /\ Len(<<x>> \o c) = d + 1
         /\ (<<x>> \o c)[1] = x /\ \A k \in 1..d : (<<x>> \o c)[k + 1] = c[k]
  <1> DEFINE U == S \cup {x}
             r == <<x>> \o c
  <1>1. c \in Seq(U) /\ <<x>> \in Seq(U) /\ Len(<<x>>) = 1
    OBVIOUS
  <1> HIDE DEF U
  <1>2. r \in Seq(U) /\ Len(r) = 1 + d /\ \A i \in 1..(1 + d) : r[i] = IF i <= 1 THEN <<x>>[i] ELSE c[i - 1]
    BY <1>1, ConcatProperties
  <1> HIDE DEF r
  <1>3. r[1] = x
    BY <1>2
  <1>4. ASSUME NEW k \in 1..d PROVE r[k + 1] = c[k]
    <2>1. k + 1 \in 1..(1 + d) /\ ~(k + 1 <= 1) /\ k + 1 - 1 = k
      OBVIOUS
    <2> QED
      BY <1>2, <2>1
  <1> QED
    BY <1>2, <1>3, <1>4 DEF r, U

\* A sequence without its first.
LEMMA Popped ==
  ASSUME NEW S, NEW c \in Seq(S), NEW d \in Nat, d = Len(c), d >= 1
  PROVE  /\ c # <<>> /\ Head(c) = c[1] /\ Tail(c) \in Seq(S) /\ Len(Tail(c)) = d - 1
         /\ \A k \in 1..(d - 1) : Tail(c)[k] = c[k + 1]
  <1>1. c # <<>>
    OBVIOUS
  <1> QED
    BY <1>1, HeadTailProperties

\* The innermost call is replaced.
LEMMA Replaced ==
  ASSUME NEW S, NEW c \in Seq(S), NEW x, NEW d \in Nat, d = Len(c), d >= 1
  PROVE  /\ <<x>> \o Tail(c) \in Seq(S \cup {x}) /\ Len(<<x>> \o Tail(c)) = d
         /\ (<<x>> \o Tail(c))[1] = x /\ \A k \in 2..d : (<<x>> \o Tail(c))[k] = c[k]
  <1> DEFINE t == Tail(c)
  <1>1. t \in Seq(S) /\ Len(t) = d - 1 /\ d - 1 \in Nat /\ \A k \in 1..(d - 1) : t[k] = c[k + 1]
    BY Popped
  <1> HIDE DEF t
  <1>2. /\ <<x>> \o t \in Seq(S \cup {x}) /\ Len(<<x>> \o t) = d - 1 + 1
        /\ (<<x>> \o t)[1] = x /\ \A k \in 1..(d - 1) : (<<x>> \o t)[k + 1] = t[k]
    BY <1>1, Pushed
  <1>3. ASSUME NEW k \in 2..d PROVE (<<x>> \o t)[k] = c[k]
    <2>1. k - 1 \in 1..(d - 1) /\ k - 1 + 1 = k
      OBVIOUS
    <2> QED
      BY <1>1, <1>2, <2>1
  <1>4. d - 1 + 1 = d
    OBVIOUS
  <1> QED
    BY <1>2, <1>3, <1>4 DEF t

\* The members are one more each time.
LEMMA MembersAppended ==
  ASSUME NEW g, NEW items, NEW n \in Nat
  PROVE  Append(Members(g, items, n), Member(g, items, n + 1)) = Members(g, items, n + 1)
  <1> DEFINE S == {Member(g, items, j) : j \in 1..(n + 1)}
             a == [j \in 1..n |-> Member(g, items, j)]
             b == [j \in 1..(n + 1) |-> Member(g, items, j)]
             x == Member(g, items, n + 1)
  <1>1. a \in Seq(S) /\ b \in Seq(S) /\ x \in S /\ Len(a) = n /\ Len(b) = n + 1
    <2>1. x \in S
      <3>1. n + 1 \in 1..(n + 1)
        OBVIOUS
      <3> QED
        BY <3>1, Zenon
    <2>2. \A j \in 1..(n + 1) : Member(g, items, j) \in S
      BY Zenon
    <2>3. 1..n \subseteq 1..(n + 1) /\ n + 1 \in Nat
      OBVIOUS
    <2>4. a \in [1..n -> S] /\ b \in [1..(n + 1) -> S]
      <3> HIDE DEF S
      <3> QED
        BY <2>2, <2>3, Zenon
    <2> HIDE DEF a, b, S
    <2> QED
      BY <2>1, <2>3, <2>4
  <1>2. \A j \in 1..n : a[j] = Member(g, items, j)
    BY Zenon
  <1>3. \A j \in 1..(n + 1) : b[j] = Member(g, items, j)
    BY Zenon
  <1> HIDE DEF S, a, b
  <1>4. /\ Append(a, x) \in Seq(S) /\ Len(Append(a, x)) = n + 1
        /\ \A j \in 1..n : Append(a, x)[j] = a[j]
        /\ Append(a, x)[n + 1] = x
    BY <1>1, AppendProperties
  <1>5. ASSUME NEW j \in 1..(n + 1) PROVE Append(a, x)[j] = b[j]
    <2>1. CASE j = n + 1
      BY <1>3, <1>4, <2>1
    <2>2. CASE j # n + 1
      <3>1. j \in 1..n
        BY <2>2
      <3> QED
        BY <1>2, <1>3, <1>4, <3>1
    <2> QED
      BY <2>1, <2>2
  <1>6. Append(a, x) = b
    BY <1>1, <1>4, <1>5, SeqEqual
  <1> QED
    BY <1>6, Zenon DEF a, b, Members

\* At first there are none.
LEMMA NoMembers ==
  ASSUME NEW g, NEW items
  PROVE  Members(g, items, 0) = <<>>
  <1> DEFINE a == [j \in 1..0 |-> Member(g, items, j)]
  <1>1. a \in [1..0 -> {}] /\ 0 \in Nat
    OBVIOUS
  <1> HIDE DEF a
  <1>2. a \in Seq({}) /\ Len(a) = 0
    BY <1>1
  <1>3. a = <<>>
    BY <1>2
  <1> QED
    BY <1>3 DEF a, Members

-----------------------------------------------------------------------------
(* The calls in progress.                                                  *)

Node(g, off, done) == [g |-> g, off |-> off, done |-> done]

\* The call that reads the node n; its key is known once it is keyed.
Frame(n, its, key) ==
  [kind |-> n.g.kind, content |-> Members(n.g, its[n.g], n.done), key |-> key]
CallOf(c, n, its, keyed) ==
  \E key : c = Frame(n, its, key) /\ (keyed /\ n.g.kind = "object" => key = ItemOf(n, its).key.value[2])

\* The calls cs in progress read ch[1], ..., ch[d], the outermost first, each of
\* them in the one before it; ch[d + 1] is the value they are at.
Parsing(cs, ch, d, keyed, G, its, root) ==
  /\ d \in Nat /\ Len(cs) = d /\ \E S : cs \in Seq(S)
  /\ ch[1].g = root.g /\ ch[1].off = root.off
  /\ \A k \in 1..(d + 1) : Placed(ch[k], G)
  /\ \A k \in 1..d : /\ InMember(ch[k], its) /\ Nested(ch[k], ch[k + 1], its)
                     /\ CallOf(cs[d + 1 - k], ch[k], its, keyed \/ k < d)

\* The root is all of the text but blanks.
Rooted(G, its, root) ==
  /\ text \in Seq(STRING) /\ Grammar(G, its) /\ Placed(root, G)
  /\ BlankBetween(text, 0, root.off + 1)
  /\ BlankBetween(text, root.off + Len(root.g.text), Len(text) + 1)

\* The value that a call of n goes on to.
ChildOf(n, its) == Node(ItemOf(n, its).of, n.off + ItemOf(n, its).at, 0)

\* The value of a member is placed where the grammar says.
LEMMA ChildPlaced ==
  ASSUME NEW G, NEW its, NEW root, Rooted(G, its, root), NEW n, Placed(n, G), InMember(n, its)
  PROVE  Placed(ChildOf(n, its), G) /\ Nested(n, ChildOf(n, its), its)
  <1> DEFINE item == ItemOf(n, its)
  <1>1. PICK L \in Nat : L = Len(text)
    BY DEF Rooted
  <1>2. Grammar(G, its)
    BY DEF Rooted
  <1>3. item.of \in G /\ item.at \in Nat /\ Stands(text, n.off + item.at, item.of.text)
    <2>1. ItemAt(n, its, G)
      BY <1>1, <1>2, ItemStands
    <2> QED
      BY <2>1, Zenon DEF ItemAt
  <1>4. n.off + item.at \in Nat
    BY <1>3 DEF Placed
  <1>5. ChildOf(n, its).g = item.of /\ ChildOf(n, its).off = n.off + item.at
    BY DEF ChildOf, Node
  <1> HIDE DEF item
  <1> QED
    BY <1>3, <1>4, <1>5, Zenon DEF Placed, Nested, item

\* What is behind a value may be there.
LEMMA Behind ==
  ASSUME NEW G, NEW its, NEW root, Rooted(G, its, root), NEW cs, NEW ch, NEW d, NEW keyed,
         Parsing(cs, ch, d, keyed, G, its, root)
  PROVE  MayEnd(ch[d + 1].off + Len(ch[d + 1].g.text) + 1)
  <1> DEFINE m == ch[d + 1]
  <1>0. d \in Nat /\ Grammar(G, its) /\ Placed(m, G) /\ \A k \in 1..d : Placed(ch[k], G)
    BY DEF Rooted, Parsing
  <1>1. PICK L \in Nat : L = Len(text)
    BY DEF Rooted
  <1> HIDE DEF m
  <1>2. PICK o \in Nat, N \in Nat : o = m.off /\ N = Len(m.g.text)
    BY <1>0, <1>1, PlacedBegins DEF Placed
  <1>3. CASE d = 0
    <2>1. m.off = root.off /\ m.g = root.g
      BY <1>3 DEF Parsing, m
    <2>2. BlankBetween(text, o + N, L + 1)
      BY <1>1, <1>2, <2>1 DEF Rooted
    <2>3. o + N + 1 > L \/ text[o + N + 1] \in Blanks
      BY <2>2 DEF BlankBetween
    <2> QED
      BY <1>1, <1>2, <2>3 DEF MayEnd, Follows, m
  <1>4. CASE d >= 1
    <2> DEFINE n == ch[d]
               item == ItemOf(n, its)
    <2>1. Placed(n, G) /\ InMember(n, its) /\ Nested(n, m, its)
      <3>1. d \in 1..d
        BY <1>0, <1>4
      <3> QED
        BY <3>1, <1>0 DEF Parsing, m
    <2>2. item.of = m.g /\ n.off + item.at = m.off
      BY <2>1, Zenon DEF Nested
    <2> HIDE DEF n
    <2>3. /\ item.at \in Nat /\ item.sep \in Nat
          /\ item.at + Len(item.of.text) < item.sep /\ n.off + item.sep <= L
          /\ BlankBetween(text, n.off + item.at + Len(item.of.text), n.off + item.sep)
          /\ text[n.off + item.sep] = IF n.done + 1 = Len(its[n.g]) THEN Closing(n.g.kind) ELSE ","
      <3>1. ItemAt(n, its, G)
        BY <1>0, <1>1, <2>1, ItemStands
      <3> QED
        BY <1>1, <3>1, Zenon DEF ItemAt
    <2> HIDE DEF item
    <2>4. PICK s \in Nat : s = n.off + item.sep /\ o + N < s /\ s <= L
      <3>1. PICK a \in Nat, b \in Nat, q \in Nat : a = item.at /\ b = item.sep /\ q = n.off
        BY <2>1, <2>3 DEF Placed
      <3>2. N = Len(item.of.text) /\ q + a = o
        BY <1>2, <2>2, <3>1
      <3>3. a + N < b /\ q + b <= L
        BY <2>3, <3>1, <3>2
      <3>4. q + b \in Nat /\ o + N < q + b
        BY <3>2, <3>3
      <3> QED
        BY <3>1, <3>3, <3>4
    <2>5. BlankBetween(text, o + N, s)
      BY <1>2, <2>2, <2>3, <2>4
    <2>6. text[s] \in Follows
      BY <2>3, <2>4 DEF Follows, Closing
    <2>7. text[o + N + 1] \in Follows
      <3>1. CASE o + N + 1 = s
        BY <2>6, <3>1
      <3>2. CASE o + N + 1 < s
        <4>1. o + N + 1 \in Nat /\ o + N < o + N + 1
          OBVIOUS
        <4>2. text[o + N + 1] \in Blanks
          BY <2>5, <3>2, <4>1, Zenon DEF BlankBetween
        <4> QED
          BY <4>2, Zenon DEF Follows
      <3> QED
        BY <2>4, <3>1, <3>2
    <2> QED
      BY <1>2, <2>7 DEF MayEnd, m
  <1> QED
    BY <1>0, <1>3, <1>4

\* A call returns.
LEMMA PathPops ==
  ASSUME NEW G, NEW its, NEW root, NEW cs, NEW ch, NEW d,
         Parsing(cs, ch, d, TRUE, G, its, root), d >= 1
  PROVE  Parsing(Tail(cs), ch, d - 1, TRUE, G, its, root)
  <1>1. PICK S : cs \in Seq(S)
    BY DEF Parsing
  <1>2. d \in Nat /\ d = Len(cs) /\ d - 1 \in Nat
    BY DEF Parsing
  <1>3. Tail(cs) \in Seq(S) /\ Len(Tail(cs)) = d - 1 /\ \A k \in 1..(d - 1) : Tail(cs)[k] = cs[k + 1]
    BY <1>1, <1>2, Popped
  <1>4. \A k \in 1..(d - 1 + 1) : Placed(ch[k], G)
    BY <1>2 DEF Parsing
  <1>5. ASSUME NEW k \in 1..(d - 1)
        PROVE  /\ InMember(ch[k], its) /\ Nested(ch[k], ch[k + 1], its)
               /\ CallOf(Tail(cs)[d - 1 + 1 - k], ch[k], its, TRUE \/ k < d - 1)
    <2>1. k \in 1..d /\ d - k \in 1..(d - 1) /\ d - 1 + 1 - k = d - k /\ d - k + 1 = d + 1 - k
      BY <1>2
    <2>2. Tail(cs)[d - 1 + 1 - k] = cs[d + 1 - k]
      BY <1>3, <2>1
    <2>3. /\ InMember(ch[k], its) /\ Nested(ch[k], ch[k + 1], its)
          /\ CallOf(cs[d + 1 - k], ch[k], its, TRUE \/ k < d)
      BY <2>1, Zenon DEF Parsing
    <2> QED
      BY <2>2, <2>3, Zenon DEF CallOf
  <1>6. ch[1].g = root.g /\ ch[1].off = root.off
    BY DEF Parsing
  <1> HIDE DEF Parsing
  <1> QED
    BY <1>2, <1>3, <1>4, <1>5, <1>6, Zenon DEF Parsing

\* The calls cs read a member of n.
Within(cs, d, n, keyed, G, its, root) ==
  \E ch : Parsing(cs, ch, d, keyed, G, its, root) /\ ch[d] = n /\ ch[d + 1] = ChildOf(n, its)

\* A call is entered.
LEMMA PathPushes ==
  ASSUME NEW G, NEW its, NEW root, Rooted(G, its, root), NEW cs, NEW ch, NEW d,
         Parsing(cs, ch, d, TRUE, G, its, root), NEW n, n.g = ch[d + 1].g, n.off = ch[d + 1].off, InMember(n, its),
         NEW keyed, NEW c, CallOf(c, n, its, keyed)
  PROVE  Within(<<c>> \o cs, d + 1, n, keyed, G, its, root)
  <1> DEFINE r == <<c>> \o cs
             h == [k \in 1..(d + 2) |-> IF k <= d THEN ch[k] ELSE IF k = d + 1 THEN n ELSE ChildOf(n, its)]
  <1>0. d \in Nat /\ d = Len(cs) /\ d + 1 \in 1..(d + 1)
    BY DEF Parsing
  <1>1. PICK S : cs \in Seq(S)
    BY DEF Parsing
  <1>2. r \in Seq(S \cup {c}) /\ Len(r) = d + 1 /\ r[1] = c /\ \A k \in 1..d : r[k + 1] = cs[k]
    BY <1>0, <1>1, Pushed
  <1>3. Placed(n, G)
    <2>1. Placed(ch[d + 1], G)
      BY <1>0 DEF Parsing
    <2> QED
      BY <2>1 DEF Placed
  <1>4. Placed(ChildOf(n, its), G) /\ Nested(n, ChildOf(n, its), its)
    BY <1>3, ChildPlaced
  <1>5. /\ \A k \in 1..d : h[k] = ch[k]
        /\ h[d + 1] = n /\ h[d + 2] = ChildOf(n, its)
    BY <1>0
  <1> HIDE DEF h, r
  <1>6. \A k \in 1..(d + 1 + 1) : Placed(h[k], G)
    <2> SUFFICES ASSUME NEW k \in 1..(d + 1 + 1) PROVE Placed(h[k], G)
      OBVIOUS
    <2>1. CASE k \in 1..d
      <3>1. k \in 1..(d + 1)
        BY <1>0, <2>1
      <3>2. Placed(ch[k], G)
        BY <3>1 DEF Parsing
      <3> QED
        BY <1>5, <2>1, <3>2
    <2>2. CASE k = d + 1
      BY <1>3, <1>5, <2>2
    <2>3. CASE k = d + 2
      BY <1>4, <1>5, <2>3
    <2> QED
      BY <1>0, <2>1, <2>2, <2>3
  <1>7. h[1].g = root.g /\ h[1].off = root.off
    <2>1. ch[1].g = root.g /\ ch[1].off = root.off
      BY DEF Parsing
    <2>2. CASE d = 0
      <3>1. h[1] = n /\ n.g = ch[1].g /\ n.off = ch[1].off
        BY <1>5, <2>2
      <3> QED
        BY <2>1, <3>1, Zenon
    <2>3. CASE d >= 1
      BY <1>0, <1>5, <2>1, <2>3
    <2> QED
      BY <1>0, <2>2, <2>3
  <1>8. ASSUME NEW k \in 1..(d + 1)
        PROVE  /\ InMember(h[k], its) /\ Nested(h[k], h[k + 1], its)
               /\ CallOf(r[d + 1 + 1 - k], h[k], its, keyed \/ k < d + 1)
    <2>1. CASE k = d + 1
      <3>1. d + 1 + 1 - k = 1 /\ k + 1 = d + 2 /\ ~(k < d + 1)
        BY <1>0, <2>1
      <3>2. h[k] = n /\ h[k + 1] = ChildOf(n, its) /\ r[d + 1 + 1 - k] = c
        BY <1>2, <1>5, <2>1, <3>1
      <3>3. CallOf(r[d + 1 + 1 - k], h[k], its, keyed \/ k < d + 1)
        BY <3>1, <3>2, Zenon DEF CallOf
      <3> QED
        BY <1>4, <3>2, <3>3
    <2>2. CASE k # d + 1
      <3>1. k \in 1..d /\ d + 1 - k \in 1..d /\ d + 1 + 1 - k = d + 1 - k + 1 /\ k < d + 1
        BY <1>0, <2>2
      <3>2. h[k] = ch[k] /\ r[d + 1 + 1 - k] = cs[d + 1 - k]
        BY <1>2, <1>5, <3>1
      <3>3. /\ InMember(ch[k], its) /\ Nested(ch[k], ch[k + 1], its)
            /\ CallOf(cs[d + 1 - k], ch[k], its, TRUE \/ k < d)
        BY <3>1, Zenon DEF Parsing
      <3>4. Nested(h[k], h[k + 1], its)
        <4>1. CASE k = d
          <5>1. h[k + 1] = n /\ n.g = ch[k + 1].g /\ n.off = ch[k + 1].off
            BY <1>5, <4>1
          <5> QED
            BY <3>2, <3>3, <5>1, Zenon DEF Nested
        <4>2. CASE k # d
          <5>1. k + 1 \in 1..d
            BY <1>0, <3>1, <4>2
          <5> QED
            BY <1>5, <3>2, <3>3, <5>1
        <4> QED
          BY <4>1, <4>2
      <3>5. CallOf(r[d + 1 + 1 - k], h[k], its, keyed \/ k < d + 1)
        BY <3>1, <3>2, <3>3, Zenon DEF CallOf
      <3> QED
        BY <3>2, <3>3, <3>4, <3>5
    <2> QED
      BY <2>1, <2>2
  <1>9. Parsing(r, h, d + 1, keyed, G, its, root)
    <2>1. d + 1 \in Nat
      BY <1>0
    <2> QED
      BY <1>2, <1>6, <1>7, <1>8, <2>1, Zenon DEF Parsing
  <1> QED
    <2>1. d + 1 + 1 = d + 2
      BY <1>0
    <2> QED
      BY <1>5, <1>9, <2>1, Zenon DEF r, Within

\* The innermost call goes on.
LEMMA PathGoesOn ==
  ASSUME NEW G, NEW its, NEW root, Rooted(G, its, root), NEW cs, NEW ch, NEW d, NEW was,
         Parsing(cs, ch, d, was, G, its, root), d >= 1,
         NEW n, n.g = ch[d].g, n.off = ch[d].off, InMember(n, its), NEW keyed, NEW c, CallOf(c, n, its, keyed)
  PROVE  Within(<<c>> \o Tail(cs), d, n, keyed, G, its, root)
  <1> DEFINE r == <<c>> \o Tail(cs)
             h == [k \in 1..(d + 1) |-> IF k < d THEN ch[k] ELSE IF k = d THEN n ELSE ChildOf(n, its)]
  <1>0. d \in Nat /\ d = Len(cs) /\ d \in 1..(d + 1) /\ d \in 1..d
    BY DEF Parsing
  <1>1. PICK S : cs \in Seq(S)
    BY DEF Parsing
  <1>2. r \in Seq(S \cup {c}) /\ Len(r) = d /\ r[1] = c /\ \A k \in 2..d : r[k] = cs[k]
    BY <1>0, <1>1, Replaced
  <1>3. Placed(n, G)
    <2>1. Placed(ch[d], G)
      BY <1>0 DEF Parsing
    <2> QED
      BY <2>1 DEF Placed
  <1>4. Placed(ChildOf(n, its), G) /\ Nested(n, ChildOf(n, its), its)
    BY <1>3, ChildPlaced
  <1>5. /\ \A k \in 1..(d - 1) : h[k] = ch[k]
        /\ h[d] = n /\ h[d + 1] = ChildOf(n, its)
    BY <1>0
  <1> HIDE DEF h, r
  <1>6. \A k \in 1..(d + 1) : Placed(h[k], G)
    <2> SUFFICES ASSUME NEW k \in 1..(d + 1) PROVE Placed(h[k], G)
      OBVIOUS
    <2>1. CASE k \in 1..(d - 1)
      <3>1. Placed(ch[k], G)
        BY DEF Parsing
      <3> QED
        BY <1>5, <2>1, <3>1
    <2>2. CASE k = d
      BY <1>3, <1>5, <2>2
    <2>3. CASE k = d + 1
      BY <1>4, <1>5, <2>3
    <2> QED
      BY <1>0, <2>1, <2>2, <2>3
  <1>7. h[1].g = root.g /\ h[1].off = root.off
    <2>1. ch[1].g = root.g /\ ch[1].off = root.off
      BY DEF Parsing
    <2>2. CASE d = 1
      <3>1. h[1] = n /\ n.g = ch[1].g /\ n.off = ch[1].off
        BY <1>5, <2>2
      <3> QED
        BY <2>1, <3>1, Zenon
    <2>3. CASE d > 1
      BY <1>0, <1>5, <2>1, <2>3
    <2> QED
      BY <1>0, <2>2, <2>3
  <1>8. ASSUME NEW k \in 1..d
        PROVE  /\ InMember(h[k], its) /\ Nested(h[k], h[k + 1], its)
               /\ CallOf(r[d + 1 - k], h[k], its, keyed \/ k < d)
    <2>1. CASE k = d
      <3>1. d + 1 - k = 1 /\ k + 1 = d + 1 /\ ~(k < d)
        BY <1>0, <2>1
      <3>2. h[k] = n /\ h[k + 1] = ChildOf(n, its) /\ r[d + 1 - k] = c
        BY <1>2, <1>5, <2>1, <3>1
      <3>3. CallOf(r[d + 1 - k], h[k], its, keyed \/ k < d)
        BY <3>1, <3>2, Zenon DEF CallOf
      <3> QED
        BY <1>4, <3>2, <3>3
    <2>2. CASE k # d
      <3>1. k \in 1..(d - 1) /\ d + 1 - k \in 2..d /\ k < d
        BY <1>0, <2>2
      <3>2. h[k] = ch[k] /\ r[d + 1 - k] = cs[d + 1 - k]
        BY <1>2, <1>5, <3>1
      <3>3. /\ InMember(ch[k], its) /\ Nested(ch[k], ch[k + 1], its)
            /\ CallOf(cs[d + 1 - k], ch[k], its, was \/ k < d)
        BY Zenon DEF Parsing
      <3>4. Nested(h[k], h[k + 1], its)
        <4>1. CASE k + 1 = d
          <5>1. h[k + 1] = n /\ n.g = ch[k + 1].g /\ n.off = ch[k + 1].off
            BY <1>5, <4>1
          <5> QED
            BY <3>2, <3>3, <5>1, Zenon DEF Nested
        <4>2. CASE k + 1 # d
          <5>1. k + 1 \in 1..(d - 1)
            BY <1>0, <3>1, <4>2
          <5> QED
            BY <1>5, <3>2, <3>3, <5>1
        <4> QED
          BY <4>1, <4>2
      <3>5. CallOf(r[d + 1 - k], h[k], its, keyed \/ k < d)
        BY <3>1, <3>2, <3>3, Zenon DEF CallOf
      <3> QED
        BY <3>2, <3>3, <3>4, <3>5
    <2> QED
      BY <2>1, <2>2
  <1>9. Parsing(r, h, d, keyed, G, its, root)
    BY <1>0, <1>2, <1>6, <1>7, <1>8, Zenon DEF Parsing
  <1> QED
    BY <1>5, <1>9, Zenon DEF r, Within

-----------------------------------------------------------------------------
(* One call of the parser.                                                 *)

\* Where the cursor is: before the value n, before a key of it, behind it.
AtValue(p, n) == p \in Nat /\ p >= 1 /\ p - 1 <= n.off /\ BlankBetween(text, p - 1, n.off + 1)
AtKey(p, n, its) == n.g.kind = "object" /\ p = n.off + Start(its[n.g], n.done + 1) + 1
BehindValue(p, o, n) == o = n.g.value /\ p = n.off + Len(n.g.text) + 1

\* The blanks before a writing are skipped, and what follows is its first character.
LEMMA SkipsTo ==
  ASSUME NEW G, NEW its, NEW root, Rooted(G, its, root), NEW n, Placed(n, G),
         NEW i \in Nat, i <= n.off, BlankBetween(text, i, n.off + 1)
  PROVE  /\ skip_ws(i + 1) = n.off + 1 /\ n.off + 1 <= Len(text)
         /\ n.g.kind \in Kinds /\ text[n.off + 1] \in FirstOf(n.g.kind)
         /\ text[n.off + 1] \notin Follows /\ text[n.off + 1] # ":"
  <1>1. PICK L \in Nat : L = Len(text)
    BY DEF Rooted
  <1>2. /\ n.g.kind \in Kinds /\ n.off + 1 <= L
        /\ text[n.off + 1] = n.g.text[1] /\ n.g.text[1] \in FirstOf(n.g.kind)
    BY <1>1, PlacedBegins DEF Rooted
  <1>3. text[n.off + 1] \in FirstOf(n.g.kind) /\ text[n.off + 1] \notin Follows /\ text[n.off + 1] # ":"
    BY <1>2, FirstsApart, Zenon
  <1>4. PICK j \in Nat : j = n.off + 1 /\ i < j
    BY DEF Placed
  <1>5. text[j] \notin Blanks
    BY <1>3, <1>4, Zenon DEF Follows
  <1>6. skip_ws(i + 1) = j
    <2>1. BlankBetween(text, i, j) /\ j <= Len(text) + 1 /\ Len(text) \in Nat
      BY <1>1, <1>2, <1>4
    <2> QED
      BY <1>4, <1>5, <2>1, Skips, Zenon
  <1> QED
    BY <1>1, <1>2, <1>3, <1>4, <1>6, Zenon

\* What parse_value looks at is the first character of the value.
LEMMA AtItsValue ==
  ASSUME NEW G, NEW its, NEW root, Rooted(G, its, root), NEW n, Placed(n, G), AtValue(pos, n)
  PROVE  /\ skip_ws(pos) = n.off + 1 /\ n.off + 1 <= Len(text) /\ n.off + 1 \in Nat
         /\ n.g.kind \in Kinds /\ text[n.off + 1] \in FirstOf(n.g.kind)
  <1>1. PICK i \in Nat : i = pos - 1 /\ i + 1 = pos /\ i <= n.off
    BY DEF AtValue
  <1>2. BlankBetween(text, i, n.off + 1)
    BY <1>1 DEF AtValue
  <1>3. skip_ws(i + 1) = n.off + 1 /\ n.off + 1 <= Len(text) /\ n.g.kind \in Kinds /\ text[n.off + 1] \in FirstOf(n.g.kind)
    BY <1>1, <1>2, SkipsTo, Zenon
  <1> QED
    BY <1>1, <1>3 DEF Placed

\* A string, a number or a literal is read.
LEMMA ScalarParsed ==
  ASSUME NEW G, NEW its, NEW root, Rooted(G, its, root), NEW n, Placed(n, G), AtValue(pos, n),
         MayEnd(n.off + Len(n.g.text) + 1), n.g.kind \in {"string", "number", "literal"}, parse_value
  PROVE  Read(n.g.value, n.off + Len(n.g.text) + 1) /\ UNCHANGED calls
  <1> DEFINE p == skip_ws(pos)
             string == parse_string(p + 1)
             literal == {l \in Literals : Spelt(p, l.word)}
  <1>1. IF At(p, "{") THEN Open("object", "}", "key", p + 1)
        ELSE IF At(p, "[") THEN Open("array", "]", "value", p + 1)
        ELSE IF At(p, Quote) /\ string.after # 0
        THEN Read(Value("string", string.chars), string.after) /\ UNCHANGED calls
        ELSE IF p <= Len(text) /\ text[p] \in DigitSet \cup {"-"}
        THEN Read(Number(SubSeq(text, p, NumberAfter(p) - 1)), NumberAfter(p)) /\ UNCHANGED calls
        ELSE IF literal # {}
        THEN LET k == CHOOSE l \in literal : TRUE
             IN  Read(k.value, p + Len(k.word)) /\ UNCHANGED calls
        ELSE Reject
    BY Zenon DEF parse_value
  <1>2. PICK L \in Nat, N \in Nat, o \in Nat : L = Len(text) /\ N = Len(n.g.text) /\ o = n.off /\ n.g.text \in Seq(STRING)
    <2>1. PICK L \in Nat : L = Len(text)
      BY DEF Rooted
    <2>2. Len(n.g.text) \in Nat /\ n.g.text \in Seq(STRING)
      BY <2>1, PlacedBegins DEF Rooted
    <2> QED
      BY <2>1, <2>2 DEF Placed
  <1>3. p = o + 1 /\ o + 1 <= L /\ text[o + 1] \in FirstOf(n.g.kind)
    BY <1>2, AtItsValue
  <1>4. Written(n.g, its[n.g], G)
    BY DEF Rooted, Grammar, Placed
  <1>5. Stands(text, o, n.g.text) /\ MayEnd(o + N + 1) /\ text \in Seq(STRING)
    BY <1>2 DEF Placed, Rooted
  <1> HIDE DEF p, string, literal
  <1>6. CASE n.g.kind = "string"
    <2>1. text[o + 1] = Quote
      BY <1>3, <1>6 DEF FirstOf
    <2>2. ~At(p, "{") /\ ~At(p, "[") /\ At(p, Quote)
      BY <1>2, <1>3, <2>1 DEF At, Quote
    <2>3. StringWriting(n.g)
      BY <1>4, <1>6 DEF Written
    <2>4. parse_string(o + 2).after = o + N + 1 /\ n.g.value = Value("string", parse_string(o + 2).chars)
      <3>1. Len(text) \in Nat /\ Len(n.g.text) \in Nat
        BY <1>2
      <3>2. StringRead(n.g, o)
        BY <1>5, <2>3, <3>1, StringReads, Zenon
      <3> QED
        BY <1>2, <3>2, Zenon DEF StringRead
    <2>5. p + 1 = o + 2 /\ o + N + 1 # 0
      BY <1>3
    <2>6. string.after = o + N + 1 /\ n.g.value = Value("string", string.chars)
      BY <2>4, <2>5 DEF string
    <2>7. Read(Value("string", string.chars), string.after) /\ UNCHANGED calls
      BY <1>1, <2>2, <2>5, <2>6, Zenon
    <2> QED
      BY <1>2, <2>6, <2>7, Zenon
  <1>7. CASE n.g.kind = "number"
    <2>1. text[o + 1] \in FirstOf("number")
      BY <1>3, <1>7
    <2>2. text[o + 1] \notin {"{", "[", Quote} /\ text[o + 1] \in DigitSet \cup {"-"}
      BY <2>1, FirstsApart, Zenon
    <2>3. ~At(p, "{") /\ ~At(p, "[") /\ ~At(p, Quote) /\ p <= Len(text) /\ text[p] \in DigitSet \cup {"-"}
      BY <1>2, <1>3, <2>2, Zenon DEF At
    <2>4. NumberWriting(n.g)
      BY <1>4, <1>7 DEF Written
    <2>5. NumberAfter(p) = o + N + 1
      BY <1>2, <1>3, <1>5, <2>4, NumberReads, Zenon
    <2>6. o + N + 1 - 1 = o + N
      OBVIOUS
    <2>7. SubSeq(text, o + 1, o + N) = n.g.text
      BY <1>2, <1>5, CutOut, Zenon
    <2>8. n.g.value = Number(n.g.text)
      BY <2>4, Zenon DEF NumberWriting
    <2>9. Read(Number(SubSeq(text, p, NumberAfter(p) - 1)), NumberAfter(p)) /\ UNCHANGED calls
      BY <1>1, <2>3, Zenon
    <2>10. NumberAfter(p) - 1 = o + N
      BY <2>5
    <2>11. SubSeq(text, p, NumberAfter(p) - 1) = n.g.text
      BY <1>3, <2>7, <2>10, Zenon
    <2>12. Read(n.g.value, o + N + 1) /\ UNCHANGED calls
      BY <2>5, <2>8, <2>9, <2>11, Zenon
    <2> QED
      BY <1>2, <2>12, Zenon
  <1>8. CASE n.g.kind = "literal"
    <2>1. text[o + 1] \in FirstOf("literal")
      BY <1>3, <1>8
    <2>2. text[o + 1] \notin {"{", "[", Quote} /\ text[o + 1] \notin DigitSet \cup {"-"}
      BY <2>1, FirstsApart, Zenon
    <2>3. ~At(p, "{") /\ ~At(p, "[") /\ ~At(p, Quote) /\ text[p] \notin DigitSet \cup {"-"}
      BY <1>3, <2>2, Zenon DEF At
    <2>4. PICK l \in Literals : n.g.text = l.word /\ n.g.value = l.value
      BY <1>4, <1>8, Zenon DEF Written, LiteralWriting
    <2>5. literal = {l}
      BY <1>2, <1>3, <1>5, <2>4, LiteralReads, Zenon DEF literal
    <2>6. literal # {} /\ (CHOOSE k \in literal : TRUE) = l
      BY <2>5
    <2>7. LET k == CHOOSE l_1 \in literal : TRUE
          IN  Read(k.value, p + Len(k.word)) /\ UNCHANGED calls
      BY <1>1, <2>3, <2>6, Zenon
    <2>8. Read(l.value, p + Len(l.word)) /\ UNCHANGED calls
      BY <2>6, <2>7, Zenon
    <2>9. p + Len(l.word) = o + N + 1
      <3>1. Len(l.word) = N
        BY <1>2, <2>4
      <3> QED
        BY <1>3, <3>1
    <2> QED
      BY <1>2, <2>4, <2>8, <2>9, Zenon
  <1> QED
    BY <1>6, <1>7, <1>8

\* An array or an object is opened.
LEMMA ContainerParsed ==
  ASSUME NEW G, NEW its, NEW root, Rooted(G, its, root), NEW n, Placed(n, G), AtValue(pos, n),
         n.g.kind \in {"array", "object"}, parse_value
  PROVE  Open(n.g.kind, Closing(n.g.kind), IF n.g.kind = "object" THEN "key" ELSE "value", n.off + 2)
  <1> DEFINE p == skip_ws(pos)
  <1>1. /\ At(p, "{") => Open("object", "}", "key", p + 1)
        /\ ~At(p, "{") /\ At(p, "[") => Open("array", "]", "value", p + 1)
    BY Zenon DEF parse_value
  <1>2. PICK o \in Nat : o = n.off
    BY DEF Placed
  <1>3. p = o + 1 /\ o + 1 <= Len(text) /\ text[o + 1] \in FirstOf(n.g.kind)
    BY <1>2, AtItsValue
  <1> HIDE DEF p
  <1>4. p + 1 = o + 2
    BY <1>3
  <1>5. CASE n.g.kind = "object"
    <2>1. text[o + 1] = "{"
      BY <1>3, <1>5 DEF FirstOf
    <2>2. Open("object", "}", "key", p + 1)
      BY <1>1, <1>3, <2>1 DEF At
    <2>3. Closing("object") = "}"
      BY DEF Closing
    <2> QED
      BY <1>2, <1>4, <1>5, <2>2, <2>3, Zenon
  <1>6. CASE n.g.kind = "array"
    <2>1. text[o + 1] = "["
      BY <1>3, <1>6 DEF FirstOf
    <2>2. Open("array", "]", "value", p + 1)
      BY <1>1, <1>3, <2>1 DEF At
    <2>3. Closing("array") = "]" /\ "array" # "object"
      BY DEF Closing
    <2> QED
      BY <1>2, <1>4, <1>6, <2>2, <2>3, Zenon
  <1> QED
    BY <1>5, <1>6

\* How far the calls cs, the cursor p, the value o and the phase ph have come in
\* reading the root.
Goes(cs, p, o, ph, G, its, root) ==
  \/ ph = "value" /\ \E ch, d : Parsing(cs, ch, d, TRUE, G, its, root) /\ AtValue(p, ch[d + 1])
  \/ ph = "key" /\ \E ch, d : Parsing(cs, ch, d, FALSE, G, its, root) /\ d >= 1 /\ AtKey(p, ch[d], its)
  \/ ph = "read" /\ \E ch, d : Parsing(cs, ch, d, TRUE, G, its, root) /\ BehindValue(p, o, ch[d + 1])
  \/ ph = "done" /\ o = root.g.value

\* An empty container is read at once.
LEMMA EmptyIsRead ==
  ASSUME NEW G, NEW its, NEW root, Rooted(G, its, root), NEW n, Placed(n, G),
         n.g.kind \in {"array", "object"}, Len(its[n.g]) = 0, NEW next,
         Open(n.g.kind, Closing(n.g.kind), next, n.off + 2)
  PROVE  Read(n.g.value, n.off + Len(n.g.text) + 1) /\ UNCHANGED calls
  <1>1. PICK L \in Nat : L = Len(text)
    BY DEF Rooted
  <1>2. PICK N \in Nat, o \in Nat : N = Len(n.g.text) /\ o = n.off
    BY <1>1, PlacedBegins DEF Rooted, Placed
  <1>3. ContainerWriting(n.g, its[n.g], G)
    BY <1>1, PlacedBegins DEF Rooted, Container
  <1>4. /\ N >= 2 /\ n.g.text[N] = Closing(n.g.kind) /\ BlankBetween(n.g.text, 1, N)
        /\ n.g.value = Value(n.g.kind, Members(n.g, its[n.g], 0))
    BY <1>2, <1>3, Zenon DEF ContainerWriting
  <1>5. o + N <= L /\ text[o + N] = Closing(n.g.kind) /\ Stands(text, o, n.g.text)
    <2>1. N \in 1..N
      BY <1>4
    <2> QED
      BY <1>1, <1>2, <1>4, <2>1 DEF Placed, Stands
  <1>6. BlankBetween(text, o + 1, o + N)
    <2>1. 1 \in Nat /\ N <= Len(n.g.text) + 1 /\ Len(n.g.text) \in Nat
      BY <1>2
    <2> QED
      BY <1>2, <1>4, <1>5, <2>1, BlanksStand, Zenon
  <1>7. text[o + N] \notin Blanks
    BY <1>5, FirstsApart DEF Closing
  <1>8. skip_ws(o + 1 + 1) = o + N
    <2>1. o + 1 \in Nat /\ o + N \in Nat /\ o + 1 < o + N /\ o + N <= L + 1
      BY <1>4, <1>5
    <2> QED
      BY <1>1, <1>6, <1>7, <2>1, Skips
  <1>9. skip_ws(n.off + 2) = o + N
    <2>1. o + 1 + 1 = o + 2
      OBVIOUS
    <2> QED
      BY <1>2, <1>8, <2>1, Zenon
  <1>10. At(skip_ws(n.off + 2), Closing(n.g.kind))
    BY <1>1, <1>5, <1>9 DEF At
  <1>11. Read(Value(n.g.kind, <<>>), skip_ws(n.off + 2) + 1) /\ UNCHANGED calls
    BY <1>10, Zenon DEF Open
  <1>12. Value(n.g.kind, <<>>) = n.g.value
    BY <1>4, NoMembers, Zenon
  <1> QED
    BY <1>2, <1>9, <1>11, <1>12, Zenon

\* Where parse_value and parse_key go on to behind a bracket or a comma.
LEMMA NextStands ==
  ASSUME NEW G, NEW its, NEW root, Rooted(G, its, root), NEW n, Placed(n, G), InMember(n, its)
  PROVE  LET from == Start(its[n.g], n.done + 1)
         IN  /\ from \in Nat
             /\ n.g.kind = "object" => AtKey(n.off + from + 1, n, its)
             /\ n.g.kind = "array" => AtValue(n.off + from + 1, ChildOf(n, its))
             /\ skip_ws(n.off + from + 1) <= Len(text)
             /\ text[skip_ws(n.off + from + 1)] \notin Follows
  <1> DEFINE from == Start(its[n.g], n.done + 1)
             item == ItemOf(n, its)
  <1>1. PICK L \in Nat : L = Len(text)
    BY DEF Rooted
  <1>2. PICK o \in Nat : o = n.off
    BY DEF Placed
  <1>3. CASE n.g.kind = "object"
    <2>1. KeyAt(n, its, G)
      BY <1>1, <1>3, KeyStands DEF Rooted
    <2>2. /\ item.key \in G /\ item.keyAt \in Nat /\ from \in Nat /\ from <= item.keyAt
          /\ BlankBetween(text, o + from, o + item.keyAt + 1) /\ Stands(text, o + item.keyAt, item.key.text)
      BY <1>2, <2>1, Zenon DEF KeyAt
    <2> HIDE DEF from, item
    <2> DEFINE m == Node(item.key, o + item.keyAt, 0)
    <2>3. m.g = item.key /\ m.off = o + item.keyAt
      BY DEF Node
    <2> HIDE DEF m
    <2>4. Placed(m, G)
      BY <2>2, <2>3 DEF Placed
    <2>5. o + from \in Nat /\ o + from <= m.off /\ BlankBetween(text, o + from, m.off + 1)
      BY <2>2, <2>3
    <2>6. /\ skip_ws(o + from + 1) = m.off + 1 /\ m.off + 1 <= Len(text)
          /\ text[m.off + 1] \notin Follows
      BY <2>4, <2>5, SkipsTo, Zenon
    <2>7. AtKey(n.off + from + 1, n, its)
      BY <1>3, Zenon DEF AtKey, from
    <2>8. n.g.kind # "array"
      BY <1>3
    <2>9. skip_ws(o + from + 1) <= Len(text) /\ text[skip_ws(o + from + 1)] \notin Follows
      BY <2>6, Zenon
    <2> QED
      BY <1>2, <2>2, <2>7, <2>8, <2>9, Zenon DEF from
  <1>4. CASE n.g.kind = "array"
    <2>1. ItemAt(n, its, G)
      BY <1>1, ItemStands DEF Rooted
    <2>2. ValueFrom(n.g, its[n.g], n.done + 1) = from
      BY <1>4 DEF ValueFrom
    <2>3. /\ item.at \in Nat /\ from \in Nat /\ from <= item.at
          /\ BlankBetween(text, o + from, o + item.at + 1)
      BY <1>2, <2>1, <2>2, Zenon DEF ItemAt
    <2> DEFINE m == ChildOf(n, its)
    <2>4. m.off = o + item.at
      BY <1>2 DEF ChildOf, Node
    <2>5. Placed(m, G)
      BY ChildPlaced
    <2> HIDE DEF from, item, m
    <2>6. o + from \in Nat /\ o + from <= m.off /\ BlankBetween(text, o + from, m.off + 1)
      BY <2>3, <2>4
    <2>7. /\ skip_ws(o + from + 1) = m.off + 1 /\ m.off + 1 <= Len(text)
          /\ text[m.off + 1] \notin Follows
      BY <2>5, <2>6, SkipsTo, Zenon
    <2>8. AtValue(o + from + 1, m)
      <3>1. o + from + 1 \in Nat /\ o + from + 1 >= 1 /\ o + from + 1 - 1 = o + from
        BY <2>6
      <3> QED
        BY <2>6, <3>1 DEF AtValue
    <2>9. n.g.kind # "object"
      BY <1>4
    <2>10. skip_ws(o + from + 1) <= Len(text) /\ text[skip_ws(o + from + 1)] \notin Follows
      BY <2>7, Zenon
    <2> QED
      BY <1>2, <2>3, <2>8, <2>9, <2>10, Zenon DEF from, m
  <1> QED
    BY <1>3, <1>4 DEF InMember

\* The value that is read is placed.
LEMMA ParsingPlaced ==
  ASSUME NEW G, NEW its, NEW root, NEW cs, NEW ch, NEW d, NEW keyed,
         Parsing(cs, ch, d, keyed, G, its, root)
  PROVE  d \in Nat /\ Placed(ch[d + 1], G)
  <1>1. d \in Nat /\ \A k \in 1..(d + 1) : Placed(ch[k], G)
    BY DEF Parsing
  <1>2. d + 1 \in 1..(d + 1)
    BY <1>1
  <1> QED
    BY <1>1, <1>2, Zenon

\* parse_value.
LEMMA ValueGoes ==
  ASSUME NEW G, NEW its, NEW root, Rooted(G, its, root), Goes(calls, pos, out, phase, G, its, root), parse_value
  PROVE  Goes(calls', pos', out', phase', G, its, root) /\ text' = text
  <1>1. phase = "value"
    BY DEF parse_value
  <1>2. PICK ch, d : Parsing(calls, ch, d, TRUE, G, its, root) /\ AtValue(pos, ch[d + 1])
    BY <1>1, Zenon DEF Goes
  <1> DEFINE n == ch[d + 1]
  <1>3. d \in Nat /\ Placed(n, G)
    BY <1>2, ParsingPlaced, Zenon
  <1>4. MayEnd(n.off + Len(n.g.text) + 1)
    BY <1>2, Behind, Zenon
  <1>5. AtValue(pos, n)
    BY <1>2
  <1>6. ASSUME Read(n.g.value, n.off + Len(n.g.text) + 1), UNCHANGED calls
        PROVE  Goes(calls', pos', out', phase', G, its, root) /\ text' = text
    <2>1. out' = n.g.value /\ pos' = n.off + Len(n.g.text) + 1 /\ phase' = "read" /\ text' = text /\ calls' = calls
      BY <1>6, Zenon DEF Read
    <2>2. Parsing(calls', ch, d, TRUE, G, its, root)
      BY <1>2, <2>1, Zenon
    <2>3. BehindValue(pos', out', ch[d + 1])
      BY <2>1, Zenon DEF BehindValue
    <2> QED
      BY <2>1, <2>2, <2>3, Zenon DEF Goes
  <1> HIDE DEF n
  <1>7. n.g.kind \in Kinds
    BY <1>3, <1>5, AtItsValue, Zenon
  <1>8. CASE n.g.kind \in {"string", "number", "literal"}
    BY <1>3, <1>4, <1>5, <1>6, <1>8, ScalarParsed, Zenon
  <1>9. CASE n.g.kind \in {"array", "object"}
    <2> DEFINE next == IF n.g.kind = "object" THEN "key" ELSE "value"
    <2>1. Open(n.g.kind, Closing(n.g.kind), next, n.off + 2)
      BY <1>3, <1>5, <1>9, ContainerParsed, Zenon
    <2> HIDE DEF next
    <2>2. PICK K \in Nat : K = Len(its[n.g])
      <3>1. Len(text) \in Nat /\ Grammar(G, its)
        BY DEF Rooted
      <3>2. ContainerWriting(n.g, its[n.g], G)
        BY <1>3, <1>9, <3>1, PlacedBegins DEF Container
      <3> QED
        BY <3>2, Zenon DEF ContainerWriting
    <2>3. CASE K = 0
      BY <1>3, <1>6, <1>9, <2>1, <2>2, <2>3, EmptyIsRead, Zenon
    <2>4. CASE K # 0
      <3> DEFINE m == Node(n.g, n.off, 0)
                 c == [kind |-> n.g.kind, content |-> <<>>, key |-> <<>>]
      <3>1. m.g = n.g /\ m.off = n.off /\ m.done = 0
        BY DEF Node
      <3> HIDE DEF m
      <3>2. InMember(m, its) /\ Placed(m, G)
        <4>1. 0 < K /\ 0 \in Nat
          BY <2>4
        <4> QED
          BY <1>3, <1>9, <2>2, <3>1, <4>1, Zenon DEF InMember, Placed
      <3>3. c = Frame(m, its, <<>>)
        BY <3>1, NoMembers, Zenon DEF Frame
      <3> HIDE DEF c
      <3>4. CallOf(c, m, its, n.g.kind # "object")
        BY <3>1, <3>3, Zenon DEF CallOf
      <3>5. Start(its[m.g], m.done + 1) = 1
        BY <3>1 DEF Start
      <3>6. m.off + 1 + 1 = n.off + 2
        BY <1>3, <3>1 DEF Placed
      <3>7. /\ m.g.kind = "object" => AtKey(n.off + 2, m, its)
            /\ m.g.kind = "array" => AtValue(n.off + 2, ChildOf(m, its))
            /\ skip_ws(n.off + 2) <= Len(text)
            /\ text[skip_ws(n.off + 2)] \notin Follows
        BY <3>2, <3>5, <3>6, NextStands, Zenon
      <3>8. ~At(skip_ws(n.off + 2), Closing(n.g.kind))
        <4>1. Closing(n.g.kind) \in Follows
          BY DEF Closing, Follows
        <4> QED
          BY <3>7, <4>1, Zenon DEF At
      <3>9. /\ calls' = <<c>> \o calls /\ pos' = n.off + 2 /\ phase' = next
            /\ text' = text /\ out' = out
        BY <2>1, <3>8, Zenon DEF Open, c
      <3>10. PICK h : /\ Parsing(<<c>> \o calls, h, d + 1, n.g.kind # "object", G, its, root)
                      /\ h[d + 1] = m /\ h[d + 1 + 1] = ChildOf(m, its)
        <4>1. m.g = ch[d + 1].g /\ m.off = ch[d + 1].off
          BY <3>1 DEF n
        <4>2. Within(<<c>> \o calls, d + 1, m, n.g.kind # "object", G, its, root)
          BY <1>2, <3>2, <3>4, <4>1, PathPushes, Zenon
        <4> QED
          BY <4>2, Zenon DEF Within
      <3>11. d + 1 >= 1
        BY <1>3
      <3>12. CASE n.g.kind = "object"
        <4>1. Parsing(calls', h, d + 1, FALSE, G, its, root)
          BY <3>9, <3>10, <3>12, Zenon
        <4>2. AtKey(pos', h[d + 1], its) /\ phase' = "key"
          BY <3>1, <3>7, <3>9, <3>10, <3>12, Zenon DEF next
        <4> QED
          BY <3>9, <3>11, <4>1, <4>2, Zenon DEF Goes
      <3>13. CASE n.g.kind = "array"
        <4>0. n.g.kind # "object"
          BY <3>13
        <4>1. Parsing(calls', h, d + 1, TRUE, G, its, root)
          BY <3>9, <3>10, <4>0, Zenon
        <4>2. AtValue(pos', h[d + 1 + 1]) /\ phase' = "value"
          BY <3>1, <3>7, <3>9, <3>10, <3>13, <4>0, Zenon DEF next
        <4> QED
          BY <3>9, <4>1, <4>2, Zenon DEF Goes
      <3> QED
        BY <1>9, <3>12, <3>13
    <2> QED
      BY <2>3, <2>4
  <1> QED
    BY <1>7, <1>8, <1>9 DEF Kinds

\* parse_key.
LEMMA KeyGoes ==
  ASSUME NEW G, NEW its, NEW root, Rooted(G, its, root), Goes(calls, pos, out, phase, G, its, root), parse_key
  PROVE  Goes(calls', pos', out', phase', G, its, root) /\ text' = text
  <1>1. phase = "key"
    BY DEF parse_key
  <1>2. PICK ch, d : Parsing(calls, ch, d, FALSE, G, its, root) /\ d >= 1 /\ AtKey(pos, ch[d], its)
    BY <1>1, Zenon DEF Goes
  <1> DEFINE n == ch[d]
             item == ItemOf(n, its)
             p == skip_ws(pos)
             string == parse_string(p + 1)
  <1>3. /\ d \in Nat /\ Placed(n, G) /\ InMember(n, its) /\ CallOf(calls[1], n, its, FALSE)
        /\ d = Len(calls) /\ \E S : calls \in Seq(S)
    <2>1. d \in Nat /\ d \in 1..(d + 1) /\ d \in 1..d /\ d + 1 - d = 1
      BY <1>2 DEF Parsing
    <2>2. Placed(n, G) /\ InMember(n, its) /\ CallOf(calls[d + 1 - d], n, its, FALSE \/ d < d)
      BY <1>2, <2>1, Zenon DEF Parsing
    <2>3. ~(d < d)
      BY <2>1
    <2>4. CallOf(calls[1], n, its, FALSE)
      BY <2>1, <2>2, <2>3, Zenon DEF CallOf
    <2> QED
      BY <1>2, <2>1, <2>2, <2>4 DEF Parsing
  <1>4. IF At(p, Quote) /\ string.after # 0 /\ At(skip_ws(string.after), ":")
        THEN /\ calls' = <<[Head(calls) EXCEPT !.key = string.chars]>> \o Tail(calls)
             /\ pos' = skip_ws(string.after) + 1 /\ phase' = "value"
             /\ UNCHANGED <<text, out>>
        ELSE Reject
    BY Zenon DEF parse_key
  <1>5. n.g.kind = "object" /\ pos = n.off + Start(its[n.g], n.done + 1) + 1
    BY <1>2, Zenon DEF AtKey
  <1>6. PICK L \in Nat : L = Len(text)
    BY DEF Rooted
  <1> HIDE DEF n
  <1>7. KeyAt(n, its, G)
    BY <1>3, <1>5, <1>6, KeyStands DEF Rooted
  <1>8. PICK o \in Nat, from \in Nat, a \in Nat, b \in Nat, M \in Nat :
          /\ o = n.off /\ from = Start(its[n.g], n.done + 1) /\ a = item.keyAt /\ b = item.colon
          /\ M = Len(item.key.text)
    BY <1>3, <1>7, Zenon DEF KeyAt, Placed
  <1>9. /\ item.key \in G /\ item.key.kind = "string"
        /\ from <= a /\ BlankBetween(text, o + from, o + a + 1)
        /\ Stands(text, o + a, item.key.text)
        /\ a + M < b /\ o + b <= L
        /\ BlankBetween(text, o + a + M, o + b)
        /\ text[o + b] = ":"
    BY <1>6, <1>7, <1>8, Zenon DEF KeyAt
  <1> HIDE DEF item, p, string
  <1> DEFINE m == Node(item.key, o + a, 0)
  <1>10. m.g = item.key /\ m.off = o + a /\ o + a \in Nat
    BY DEF Node
  <1> HIDE DEF m
  <1>11. Placed(m, G)
    BY <1>9, <1>10 DEF Placed
  <1>12. /\ skip_ws(o + from + 1) = o + a + 1 /\ o + a + 1 <= L /\ text[o + a + 1] \in FirstOf("string")
    <2>1. o + from \in Nat /\ o + from <= m.off /\ BlankBetween(text, o + from, m.off + 1)
      BY <1>9, <1>10
    <2>2. /\ skip_ws(o + from + 1) = m.off + 1 /\ m.off + 1 <= Len(text) /\ text[m.off + 1] \in FirstOf(m.g.kind)
      BY <1>11, <2>1, SkipsTo, Zenon
    <2> QED
      BY <1>6, <1>9, <1>10, <2>2, Zenon
  <1>13. p = o + a + 1 /\ text[p] = Quote /\ p + 1 = o + a + 2
    <2>1. p = o + a + 1
      BY <1>5, <1>8, <1>12, Zenon DEF p
    <2>2. text[o + a + 1] = Quote
      BY <1>12 DEF FirstOf
    <2>3. o + a + 1 + 1 = o + a + 2
      OBVIOUS
    <2> QED
      BY <2>1, <2>2, <2>3, Zenon
  <1>14. string.after = o + a + M + 1 /\ item.key.value = Value("string", string.chars)
    <2>1. StringWriting(item.key)
      BY <1>9 DEF Rooted, Grammar, Written
    <2>2. parse_string(o + a + 2).after = o + a + M + 1 /\ item.key.value = Value("string", parse_string(o + a + 2).chars)
      <3>1. Len(text) \in Nat /\ Len(item.key.text) \in Nat /\ Stands(text, o + a, item.key.text) /\ o + a \in Nat
        BY <1>6, <1>8, <1>9, <1>10
      <3>2. StringRead(item.key, o + a)
        BY <2>1, <3>1, StringReads, Zenon
      <3> QED
        BY <1>8, <3>2, Zenon DEF StringRead
    <2> QED
      BY <1>13, <2>2, Zenon DEF string
  <1>15. skip_ws(o + a + M + 1) = o + b
    <2>1. o + a + M \in Nat /\ o + b \in Nat /\ o + a + M < o + b /\ o + b <= L + 1
      BY <1>9
    <2>2. text[o + b] \notin Blanks
      BY <1>9, FirstsApart
    <2> QED
      BY <1>6, <1>9, <2>1, <2>2, Skips
  <1>16. At(p, Quote) /\ string.after # 0 /\ At(skip_ws(string.after), ":")
    <2>1. o + a + M + 1 # 0
      OBVIOUS
    <2>2. At(p, Quote)
      BY <1>6, <1>12, <1>13, Zenon DEF At
    <2>3. At(o + b, ":")
      BY <1>6, <1>9, Zenon DEF At
    <2> QED
      BY <1>14, <1>15, <2>1, <2>2, <2>3, Zenon
  <1>17. /\ calls' = <<[Head(calls) EXCEPT !.key = string.chars]>> \o Tail(calls)
         /\ pos' = o + b + 1 /\ phase' = "value" /\ text' = text /\ out' = out
    BY <1>4, <1>14, <1>15, <1>16, Zenon
  <1> DEFINE c == [Head(calls) EXCEPT !.key = string.chars]
  <1>18. CallOf(c, n, its, TRUE)
    <2>1. PICK key : calls[1] = Frame(n, its, key)
      BY <1>3, Zenon DEF CallOf
    <2>2. Head(calls) = calls[1]
      BY <1>2, <1>3, Popped
    <2>3. c = Frame(n, its, string.chars)
      BY <2>1, <2>2 DEF Frame
    <2>4. string.chars = item.key.value[2]
      BY <1>14 DEF Value
    <2> HIDE DEF c
    <2> QED
      BY <2>3, <2>4, Zenon DEF CallOf, item
  <1> HIDE DEF c
  <1>19. PICK h : /\ Parsing(<<c>> \o Tail(calls), h, d, TRUE, G, its, root)
                  /\ h[d] = n /\ h[d + 1] = ChildOf(n, its)
    <2>1. n.g = ch[d].g /\ n.off = ch[d].off
      BY DEF n
    <2>2. Within(<<c>> \o Tail(calls), d, n, TRUE, G, its, root)
      BY <1>2, <1>3, <1>18, <2>1, PathGoesOn, Zenon
    <2> QED
      BY <2>2, Zenon DEF Within
  <1>20. AtValue(o + b + 1, ChildOf(n, its))
    <2>1. ItemAt(n, its, G)
      BY <1>3, <1>6, ItemStands DEF Rooted
    <2>2. ValueFrom(n.g, its[n.g], n.done + 1) = b
      BY <1>5, <1>8 DEF ValueFrom, item, ItemOf
    <2>3. item.at \in Nat /\ b <= item.at /\ BlankBetween(text, o + b, o + item.at + 1)
      BY <1>8, <2>1, <2>2, Zenon DEF ItemAt, item
    <2>4. ChildOf(n, its).off = o + item.at
      BY <1>8 DEF ChildOf, Node, item
    <2>5. o + b + 1 \in Nat /\ o + b + 1 >= 1 /\ o + b + 1 - 1 = o + b /\ o + b <= o + item.at
      BY <2>3
    <2> QED
      BY <2>3, <2>4, <2>5 DEF AtValue
  <1>21. Parsing(calls', h, d, TRUE, G, its, root) /\ AtValue(pos', h[d + 1])
    BY <1>17, <1>19, <1>20, Zenon DEF c
  <1> QED
    BY <1>17, <1>21, Zenon DEF Goes

\* A member that is not the first begins behind a separator.
LEMMA StartBehind ==
  ASSUME NEW items, NEW j, j # 1
  PROVE  Start(items, j) = items[j - 1].sep
  BY DEF Start

\* parse_more.
LEMMA MoreGoes ==
  ASSUME NEW G, NEW its, NEW root, Rooted(G, its, root), Goes(calls, pos, out, phase, G, its, root), parse_more
  PROVE  Goes(calls', pos', out', phase', G, its, root) /\ text' = text
  <1>1. phase = "read" /\ calls # <<>>
    BY DEF parse_more
  <1>2. PICK ch, d : Parsing(calls, ch, d, TRUE, G, its, root) /\ BehindValue(pos, out, ch[d + 1])
    BY <1>1, Zenon DEF Goes
  <1> DEFINE n == ch[d]
             item == ItemOf(n, its)
             p == skip_ws(pos)
             c == Head(calls)
             closing == IF c.kind = "object" THEN "}" ELSE "]"
  <1>3. /\ d \in Nat /\ d >= 1 /\ d = Len(calls) /\ \E S : calls \in Seq(S)
    <2>1. PICK S : calls \in Seq(S) /\ d \in Nat /\ d = Len(calls)
      BY <1>2, Zenon DEF Parsing
    <2>2. d # 0
      BY <1>1, <2>1
    <2> QED
      BY <2>1, <2>2
  <1>4. Placed(n, G) /\ InMember(n, its) /\ Nested(n, ch[d + 1], its) /\ CallOf(calls[1], n, its, TRUE)
    <2>1. d \in 1..(d + 1) /\ d \in 1..d /\ d + 1 - d = 1
      BY <1>3
    <2>2. Placed(n, G) /\ InMember(n, its) /\ Nested(n, ch[d + 1], its) /\ CallOf(calls[d + 1 - d], n, its, TRUE \/ d < d)
      BY <1>2, <2>1, Zenon DEF Parsing
    <2>3. CallOf(calls[1], n, its, TRUE)
      BY <2>1, <2>2, Zenon DEF CallOf
    <2> QED
      BY <2>2, <2>3
  <1>5. IF At(p, closing)
        THEN Read(Value(c.kind, Extended), p + 1) /\ calls' = Tail(calls)
        ELSE IF At(p, ",")
        THEN /\ calls' = <<[c EXCEPT !.content = Extended]>> \o Tail(calls)
             /\ pos' = p + 1 /\ phase' = IF c.kind = "object" THEN "key" ELSE "value"
             /\ UNCHANGED <<text, out>>
        ELSE Reject
    BY Zenon DEF parse_more
  <1>6. PICK key : c = Frame(n, its, key) /\ (n.g.kind = "object" => key = item.key.value[2])
    <2>1. c = calls[1]
      BY <1>3, Popped
    <2> QED
      BY <1>4, <2>1, Zenon DEF CallOf
  <1>7. c.kind = n.g.kind /\ c.content = Members(n.g, its[n.g], n.done) /\ c.key = key
    BY <1>6 DEF Frame
  <1>8. out = item.of.value /\ pos = n.off + item.at + Len(item.of.text) + 1
    <2>1. out = ch[d + 1].g.value /\ pos = ch[d + 1].off + Len(ch[d + 1].g.text) + 1
      BY <1>2, Zenon DEF BehindValue
    <2> QED
      BY <1>4, <2>1, Zenon DEF Nested
  <1>9. PICK L \in Nat : L = Len(text)
    BY DEF Rooted
  <1>10. n.done \in Nat
    BY <1>4 DEF InMember
  <1>11. Extended = Members(n.g, its[n.g], n.done + 1)
    <2>1. Member(n.g, its[n.g], n.done + 1) = IF c.kind = "object" THEN <<c.key, out>> ELSE out
      BY <1>6, <1>7, <1>8, Zenon DEF Member, ItemOf
    <2>2. Extended = Append(c.content, IF c.kind = "object" THEN <<c.key, out>> ELSE out)
      BY Zenon DEF Extended
    <2> QED
      BY <1>7, <1>10, <2>1, <2>2, MembersAppended, Zenon
  <1>12. ItemAt(n, its, G)
    BY <1>4, <1>9, ItemStands DEF Rooted
  <1>13. closing = Closing(n.g.kind)
    BY <1>7 DEF Closing
  <1> HIDE DEF n
  <1>14. PICK o \in Nat, a \in Nat, s \in Nat, N \in Nat :
           o = n.off /\ a = item.at /\ s = item.sep /\ N = Len(item.of.text)
    BY <1>4, <1>12, Zenon DEF ItemAt, Placed
  <1>15. /\ a + N < s /\ o + s <= L
         /\ BlankBetween(text, o + a + N, o + s)
         /\ text[o + s] = IF n.done + 1 = Len(its[n.g]) THEN Closing(n.g.kind) ELSE ","
         /\ n.done + 1 = Len(its[n.g]) => s = Len(n.g.text)
    BY <1>9, <1>12, <1>14, Zenon DEF ItemAt
  <1> HIDE DEF item, p, c, closing
  <1>16. p = o + s
    <2>1. o + a + N \in Nat /\ o + s \in Nat /\ o + a + N < o + s /\ o + s <= L + 1
      <3>1. a + N < s /\ o + s <= L
        BY <1>15, Zenon
      <3> QED
        BY <3>1
    <2>2. text[o + s] \notin Blanks
      BY <1>15, FirstsApart DEF Closing
    <2>3. skip_ws(o + a + N + 1) = o + s
      BY <1>9, <1>15, <2>1, <2>2, Skips
    <2> QED
      BY <1>8, <1>14, <2>3, Zenon DEF p
  <1>17. PICK K \in Nat : K = Len(its[n.g]) /\ n.done < K
    <2>1. ContainerWriting(n.g, its[n.g], G)
      BY <1>4, <1>9, PlacedBegins DEF Rooted, Container, InMember
    <2> QED
      BY <1>4, <2>1, Zenon DEF ContainerWriting, InMember
  <1>18. CASE n.done + 1 = K
    <2>1. text[o + s] = Closing(n.g.kind) /\ s = Len(n.g.text)
      BY <1>15, <1>17, <1>18, Zenon
    <2>2. At(p, closing)
      BY <1>9, <1>13, <1>15, <1>16, <2>1, Zenon DEF At
    <2>3. Read(Value(c.kind, Extended), p + 1) /\ calls' = Tail(calls)
      BY <1>5, <2>2, Zenon
    <2>4. n.g.value = Value(n.g.kind, Members(n.g, its[n.g], K))
      <3>1. ContainerWriting(n.g, its[n.g], G)
        BY <1>4, <1>9, PlacedBegins DEF Rooted, Container, InMember
      <3> QED
        BY <1>17, <3>1, Zenon DEF ContainerWriting
    <2>5. /\ out' = n.g.value /\ pos' = n.off + Len(n.g.text) + 1 /\ phase' = "read"
          /\ text' = text /\ calls' = Tail(calls)
      BY <1>7, <1>11, <1>14, <1>16, <1>18, <2>1, <2>3, <2>4, Zenon DEF Read
    <2>6. Parsing(calls', ch, d - 1, TRUE, G, its, root)
      BY <1>2, <1>3, <2>5, PathPops, Zenon
    <2>7. d - 1 + 1 = d
      BY <1>3
    <2>8. BehindValue(pos', out', ch[d - 1 + 1])
      BY <2>5, <2>7, Zenon DEF BehindValue, n
    <2> QED
      BY <2>5, <2>6, <2>8, Zenon DEF Goes
  <1>19. CASE n.done + 1 # K
    <2>1. text[o + s] = ","
      BY <1>15, <1>17, <1>19, Zenon
    <2>2. ~At(p, closing) /\ At(p, ",")
      <3>1. Closing(n.g.kind) # ","
        BY DEF Closing
      <3> QED
        BY <1>9, <1>13, <1>15, <1>16, <2>1, <3>1, Zenon DEF At
    <2> DEFINE m == Node(n.g, n.off, n.done + 1)
               e == [c EXCEPT !.content = Extended]
    <2>3. m.g = n.g /\ m.off = n.off /\ m.done = n.done + 1
      BY DEF Node
    <2> HIDE DEF m
    <2>4. e = Frame(m, its, key)
      BY <1>6, <1>11, <2>3 DEF Frame
    <2> HIDE DEF e
    <2>5. calls' = <<e>> \o Tail(calls) /\ pos' = p + 1 /\ phase' = (IF c.kind = "object" THEN "key" ELSE "value")
          /\ text' = text /\ out' = out
      BY <1>5, <2>2, Zenon DEF e
    <2>6. InMember(m, its) /\ Placed(m, G)
      <3>1. n.done + 1 \in Nat /\ n.done + 1 < K
        BY <1>10, <1>17, <1>19
      <3> QED
        BY <1>4, <1>17, <2>3, <3>1, Zenon DEF InMember, Placed
    <2>7. CallOf(e, m, its, n.g.kind # "object")
      BY <2>3, <2>4, Zenon DEF CallOf
    <2>8. Within(<<e>> \o Tail(calls), d, m, n.g.kind # "object", G, its, root)
      <3>1. m.g = ch[d].g /\ m.off = ch[d].off
        BY <2>3 DEF n
      <3> QED
        BY <1>2, <1>3, <2>6, <2>7, <3>1, PathGoesOn, Zenon
    <2>9. PICK h : /\ Parsing(<<e>> \o Tail(calls), h, d, n.g.kind # "object", G, its, root)
                   /\ h[d] = m /\ h[d + 1] = ChildOf(m, its)
      BY <2>8, Zenon DEF Within
    <2>10. Start(its[m.g], m.done + 1) = s
      <3>1. m.done + 1 # 1 /\ (m.done + 1) - 1 = n.done + 1
        BY <1>10, <2>3
      <3>2. s = its[n.g][n.done + 1].sep
        BY <1>14, Zenon DEF item, ItemOf
      <3>3. Start(its[m.g], m.done + 1) = its[m.g][(m.done + 1) - 1].sep
        BY <3>1, StartBehind, Zenon
      <3> QED
        BY <2>3, <3>1, <3>2, <3>3, Zenon
    <2>11. /\ m.g.kind = "object" => AtKey(p + 1, m, its)
           /\ m.g.kind = "array" => AtValue(p + 1, ChildOf(m, its))
      BY <1>14, <1>16, <2>3, <2>6, <2>10, NextStands, Zenon
    <2>12. CASE n.g.kind = "object"
      <3>1. Parsing(calls', h, d, FALSE, G, its, root)
        BY <2>5, <2>9, <2>12, Zenon
      <3>2. AtKey(pos', h[d], its) /\ phase' = "key"
        BY <1>7, <2>3, <2>5, <2>9, <2>11, <2>12, Zenon
      <3> QED
        BY <1>3, <2>5, <3>1, <3>2, Zenon DEF Goes
    <2>13. CASE n.g.kind = "array"
      <3>0. n.g.kind # "object"
        BY <2>13
      <3>1. Parsing(calls', h, d, TRUE, G, its, root)
        BY <2>5, <2>9, <3>0, Zenon
      <3>2. AtValue(pos', h[d + 1]) /\ phase' = "value"
        BY <1>7, <2>3, <2>5, <2>9, <2>11, <2>13, <3>0, Zenon
      <3> QED
        BY <2>5, <3>1, <3>2, Zenon DEF Goes
    <2> QED
      BY <1>4, <2>12, <2>13 DEF InMember
  <1> QED
    BY <1>18, <1>19

\* json_parse.
LEMMA DoneGoes ==
  ASSUME NEW G, NEW its, NEW root, Rooted(G, its, root), Goes(calls, pos, out, phase, G, its, root), json_parse
  PROVE  Goes(calls', pos', out', phase', G, its, root) /\ text' = text
  <1>1. phase = "read" /\ calls = <<>>
    BY DEF json_parse
  <1>2. PICK ch, d : Parsing(calls, ch, d, TRUE, G, its, root) /\ BehindValue(pos, out, ch[d + 1])
    BY <1>1, Zenon DEF Goes
  <1>3. d = 0
    BY <1>1, <1>2 DEF Parsing
  <1>4. ch[1].g = root.g /\ ch[1].off = root.off
    BY <1>2, Zenon DEF Parsing
  <1>5. out = root.g.value /\ pos = root.off + Len(root.g.text) + 1
    <2>1. d + 1 = 1
      BY <1>3
    <2>2. out = ch[d + 1].g.value /\ pos = ch[d + 1].off + Len(ch[d + 1].g.text) + 1
      BY <1>2, Zenon DEF BehindValue
    <2> QED
      BY <1>4, <2>1, <2>2, Zenon
  <1>6. PICK L \in Nat : L = Len(text)
    BY DEF Rooted
  <1>7. PICK o \in Nat, N \in Nat : o = root.off /\ N = Len(root.g.text) /\ o + N <= L
    BY <1>6, PlacedBegins DEF Rooted, Placed
  <1>8. skip_ws(pos) = L + 1
    <2>1. BlankBetween(text, o + N, L + 1)
      BY <1>6, <1>7 DEF Rooted
    <2>2. o + N \in Nat /\ L + 1 \in Nat /\ o + N < L + 1
      BY <1>7
    <2>3. skip_ws(o + N + 1) = L + 1
      BY <1>6, <2>1, <2>2, Skips
    <2> QED
      BY <1>5, <1>7, <2>3, Zenon
  <1>9. skip_ws(pos) > Len(text)
    BY <1>6, <1>8
  <1>10. phase' = "done" /\ text' = text /\ out' = out
    BY <1>9 DEF json_parse, cursor
  <1> QED
    BY <1>5, <1>10, Zenon DEF Goes

-----------------------------------------------------------------------------
(* The whole text.                                                         *)

\* The text of the writing w, read so far as the root of a grammar.
Reads(w) ==
  /\ text = w.text
  /\ \E G, its, root :
       /\ Rooted(G, its, root) /\ root.g.value = w.value
       /\ Goes(calls, pos, out, phase, G, its, root)

\* The inductive invariant.
WritingsRead == \A w \in Writings : reader = "json" /\ w.text = input => Reads(w)

\* As long as the text stays, so does what has been said of it.
LEMMA TextStays ==
  ASSUME NEW G, NEW its, NEW root, Rooted(G, its, root), text' = text,
         Goes(calls', pos', out', phase', G, its, root)
  PROVE  Rooted(G, its, root)' /\ Goes(calls, pos, out, phase, G, its, root)'
  <1>1. Rooted(G, its, root)'
    BY DEF Rooted, Placed
  <1>2. ASSUME NEW ch, NEW d, NEW keyed, Parsing(calls', ch, d, keyed, G, its, root)
        PROVE  Parsing(calls, ch, d, keyed, G, its, root)'
    BY <1>2, Zenon DEF Parsing, Placed
  <1>3. ASSUME NEW n, AtValue(pos', n)
        PROVE  AtValue(pos, n)'
    BY <1>3, Zenon DEF AtValue
  <1>4. ASSUME NEW n, BehindValue(pos', out', n)
        PROVE  BehindValue(pos, out, n)'
    BY <1>4, Zenon DEF BehindValue
  <1>5. ASSUME NEW n, AtKey(pos', n, its)
        PROVE  AtKey(pos, n, its)'
    BY <1>5, Zenon DEF AtKey
  <1>6. CASE phase' = "value"
    <2>1. PICK ch, d : Parsing(calls', ch, d, TRUE, G, its, root) /\ AtValue(pos', ch[d + 1])
      BY <1>6, Zenon DEF Goes
    <2> QED
      BY <1>1, <1>2, <1>3, <1>6, <2>1, Zenon DEF Goes
  <1>7. CASE phase' = "key"
    <2>1. PICK ch, d : Parsing(calls', ch, d, FALSE, G, its, root) /\ d >= 1 /\ AtKey(pos', ch[d], its)
      BY <1>7, Zenon DEF Goes
    <2> QED
      BY <1>1, <1>2, <1>5, <1>7, <2>1, Zenon DEF Goes
  <1>8. CASE phase' = "read"
    <2>1. PICK ch, d : Parsing(calls', ch, d, TRUE, G, its, root) /\ BehindValue(pos', out', ch[d + 1])
      BY <1>8, Zenon DEF Goes
    <2> QED
      BY <1>1, <1>2, <1>4, <1>8, <2>1, Zenon DEF Goes
  <1>9. CASE phase' = "done"
    BY <1>1, <1>9, Zenon DEF Goes
  <1> QED
    BY <1>6, <1>7, <1>8, <1>9, Zenon DEF Goes

\* Where the reader begins: before the root.
LEMMA InitReads ==
  ASSUME \A w \in Writings : IsWriting(w), Init
  PROVE  WritingsRead
  <1> SUFFICES ASSUME NEW w \in Writings, reader = "json", w.text = input PROVE Reads(w)
    BY DEF WritingsRead
  <1>1. text = w.text /\ phase = "value" /\ pos = 1 /\ calls = <<>>
    BY DEF Init
  <1>2. PICK G, its, root :
          /\ Grammar(G, its) /\ root.g \in G /\ root.g.value = w.value
          /\ root.off \in Nat /\ Stands(w.text, root.off, root.g.text)
          /\ BlankBetween(w.text, 0, root.off + 1)
          /\ BlankBetween(w.text, root.off + Len(root.g.text), Len(w.text) + 1)
    BY Zenon DEF IsWriting
  <1>3. Rooted(G, its, root) /\ Placed(root, G)
    BY <1>1, <1>2, Zenon DEF IsWriting, Rooted, Placed
  <1> DEFINE ch == [k \in 1..1 |-> root]
  <1>4. ch[1] = root
    OBVIOUS
  <1>5. ch[0 + 1] = root
    BY <1>4
  <1> HIDE DEF ch
  <1>6. Parsing(calls, ch, 0, TRUE, G, its, root)
    <2>1. calls \in Seq({}) /\ Len(calls) = 0
      BY <1>1
    <2>2. \A k \in 1..(0 + 1) : Placed(ch[k], G)
      <3>1. \A k \in 1..(0 + 1) : k = 1
        OBVIOUS
      <3> QED
        BY <1>3, <1>4, <3>1, Zenon
    <2>3. \A k \in 1..0 : FALSE
      OBVIOUS
    <2>4. 0 \in Nat
      OBVIOUS
    <2> QED
      BY <1>4, <2>1, <2>2, <2>3, <2>4, Zenon DEF Parsing
  <1>7. AtValue(pos, root)
    <2>1. pos \in Nat /\ pos >= 1 /\ pos - 1 = 0 /\ pos - 1 <= root.off
      BY <1>1, <1>2
    <2> QED
      BY <1>1, <1>2, <2>1, Zenon DEF AtValue
  <1>8. Goes(calls, pos, out, phase, G, its, root)
    BY <1>1, <1>5, <1>6, <1>7, Zenon DEF Goes
  <1> QED
    BY <1>1, <1>2, <1>3, <1>8, Zenon DEF Reads

\* Every step of the parser goes on in the same root.
LEMMA StepReads ==
  ASSUME WritingsRead, [Next]_vars
  PROVE  WritingsRead'
  <1> SUFFICES ASSUME NEW w \in Writings, reader' = "json", w.text = input' PROVE Reads(w)'
    BY DEF WritingsRead
  <1>1. reader = "json" /\ w.text = input
    BY DEF Next, vars
  <1>2. text = w.text /\ \E G, its, root :
          /\ Rooted(G, its, root) /\ root.g.value = w.value
          /\ Goes(calls, pos, out, phase, G, its, root)
    BY <1>1, Zenon DEF WritingsRead, Reads
  <1>3. PICK G, its, root :
          /\ Rooted(G, its, root) /\ root.g.value = w.value
          /\ Goes(calls, pos, out, phase, G, its, root)
    BY <1>2, Zenon
  <1>4. Goes(calls', pos', out', phase', G, its, root) /\ text' = text
    <2>1. CASE parse_value
      BY <1>3, <2>1, ValueGoes, Zenon
    <2>2. CASE parse_key
      BY <1>3, <2>2, KeyGoes, Zenon
    <2>3. CASE parse_more
      BY <1>3, <2>3, MoreGoes, Zenon
    <2>4. CASE json_parse
      BY <1>3, <2>4, DoneGoes, Zenon
    <2>5. CASE UNCHANGED vars
      <3>1. calls' = calls /\ pos' = pos /\ out' = out /\ phase' = phase /\ text' = text
        BY <2>5 DEF vars, v0Vars, readerVars, cursor
      <3> QED
        BY <1>3, <3>1, Zenon
    <2>6. Next => JsonStep
      BY <1>1 DEF Next
    <2> QED
      BY <2>1, <2>2, <2>3, <2>4, <2>5, <2>6, Zenon DEF JsonStep
  <1>5. Rooted(G, its, root)' /\ Goes(calls, pos, out, phase, G, its, root)'
    BY <1>3, <1>4, TextStays, Zenon
  <1>6. text' = w.text
    BY <1>2, <1>4, Zenon
  <1> QED
    BY <1>3, <1>5, <1>6, Zenon DEF Reads

\* A text that is a JSON value, in whichever layout, with whichever escapes and
\* nested however deep, json_parse reads as that value: its recursion has the
\* value that is asked for whenever a call returns, every separator and every
\* bracket is consumed by the call it belongs to, and nothing is left behind.
THEOREM WritingIsRead ==
  (\A w \in Writings : IsWriting(w)) => (SafetySpec => []WrittenIsRead)
  <1> SUFFICES ASSUME \A w \in Writings : IsWriting(w) PROVE SafetySpec => []WrittenIsRead
    OBVIOUS
  <1>1. Init => WritingsRead
    BY InitReads
  <1>2. WritingsRead /\ [Next]_vars => WritingsRead'
    BY StepReads
  <1>3. WritingsRead => WrittenIsRead
    <2> SUFFICES ASSUME WritingsRead, reader = "json", phase \in {"done", "rejected"},
                        NEW w \in Writings, w.text = input
                 PROVE  phase = "done" /\ out = w.value
      BY DEF WrittenIsRead
    <2>1. PICK G, its, root : root.g.value = w.value /\ Goes(calls, pos, out, phase, G, its, root)
      BY Zenon DEF WritingsRead, Reads
    <2> QED
      BY <2>1, Zenon DEF Goes
  <1> QED
    BY <1>1, <1>2, <1>3, PTL DEF SafetySpec
=============================================================================
