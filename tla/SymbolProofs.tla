----------------------------- MODULE SymbolProofs ---------------------------
(***************************************************************************)
(* demangle says what every symbol says by the grammar of RFC 2603         *)
(* (SymbolGrammar), thunk prefixes and the legacy mangling included.       *)
(***************************************************************************)
EXTENDS TextReadersProofs, SymbolGrammar

-----------------------------------------------------------------------------
(* A v0 symbol as the parser takes it: a tree of its items.                *)

\* What is read before an "unmute" is not printed.
Mutes(items) == \E k \in 1..Len(items) : items[k] = "unmute"
\* So is what is read in a call within such a one.
Muting(frames) == \E c \in 1..Len(frames) : Mutes(frames[c])

\* Nodes of the tree T for the items, one behind the other from i to j; they say
\* says[0] and nest nested[0] paths and types.
RowOf(T, W, items, i, j, e, d, says, nested) ==
  LET L == Len(items)
  IN  /\ items \in Seq(W)
      /\ e \in [0..L -> Nat] /\ e[0] = i /\ e[L] = j
      /\ says \in [0..L -> Seq(W)] /\ says[L] = <<>>
      /\ nested \in [0..L -> Nat] /\ nested[L] = 0
      /\ \A k \in 1..L :
           /\ d[k] \in T /\ d[k].item = items[k] /\ items[k] # "member"
           /\ d[k].from = e[k - 1] /\ d[k].to = e[k]
           /\ says[k - 1] = IF \E l \in (k + 1)..L : items[l] = "unmute" THEN says[k]
                            ELSE d[k].says \o says[k]
           /\ nested[k - 1] = Deeper(d[k].nested, nested[k])

\* Such nodes say s and nest n paths and types.
Row(T, W, items, i, j, s, n) ==
  \E e, d, says, nested : RowOf(T, W, items, i, j, e, d, says, nested) /\ says[0] = s /\ nested[0] = n

\* A name: its length, which is all the digits that stand at i, and its bytes, from c to j.
NameWriting(t, i, c, j) ==
  \E b \in Nat, n \in Nat :
    /\ i < b /\ (\A k \in i..(b - 1) : t[k] \in DigitSet) /\ (b <= Len(t) => t[b] \notin DigitSet)
    /\ c = IF b <= Len(t) /\ t[b] = "_" THEN b + 1 ELSE b
    /\ n = Decimal(SubSeq(t, i, b - 1)) /\ j = c + n /\ j <= Len(t) + 1

\* What a node stands for in the text t, by its item.
PathWriting(t, T, W, d) ==
  d.item = "path" =>
    /\ d.from <= Len(t) /\ t[d.from] \in DOMAIN PathBody
    /\ \E n \in Nat : d.nested = n + 1 /\ Row(T, W, PathBody[t[d.from]], d.from + 1, d.to, d.says, n)

\* A type: a basic one, one with a tag, or a path.
TypeWriting(t, T, W, d) ==
  d.item = "type" =>
    /\ d.from <= Len(t)
    /\ \E n \in Nat :
         /\ d.nested = n + 1
         /\ IF t[d.from] \in DOMAIN BasicTypes
            THEN Row(T, W, <<BasicTypes[t[d.from]]>>, d.from + 1, d.to, d.says, n)
            ELSE IF t[d.from] \in DOMAIN TypeBody
            THEN Row(T, W, TypeBody[t[d.from]], d.from + 1, d.to, d.says, n)
            ELSE Row(T, W, <<"path">>, d.from, d.to, d.says, n)

\* What is optional, or ends a list.
EatWriting(t, T, W, d) ==
  d.item \in DOMAIN Eats =>
    IF d.from <= Len(t) /\ t[d.from] = Eats[d.item][1]
    THEN Row(T, W, Eats[d.item][2], d.from + 1, d.to, d.says, d.nested)
    ELSE Row(T, W, Eats[d.item][3], d.from, d.to, d.says, d.nested)

\* Of an empty name the letter of its namespace is printed.
NamespaceWriting(t, T, W, d) ==
  d.item = "namespace" =>
    /\ d.from <= Len(t) /\ t[d.from] # "unmute"
    /\ \E member \in T : \E before :
         /\ member.item = "member" /\ member.to = d.to
         /\ Row(T, W, <<"path", "disambiguator">>, d.from + 1, member.from, before, d.nested)
         /\ Row(T, W, <<t[d.from], "}">>, d.to, d.to, <<t[d.from], "}">>, 0)
         /\ d.says = before \o (member.says \o (IF member.says = <<"::{">> THEN <<t[d.from], "}">> ELSE <<>>))

\* A number in base 62, which is not printed.
Base62Writing(t, d) ==
  d.item = "base62" =>
    /\ \E e \in Nat :
         /\ d.from <= e /\ e <= Len(t) /\ t[e] = "_" /\ \A k \in d.from..(e - 1) : t[k] \notin {"_", "$", "."}
         /\ d.to = e + 1
    /\ d.says = <<>> /\ d.nested = 0

\* A name is printed; in a namespace behind "::", and an empty one as braces.
IdentifierWriting(t, d) ==
  d.item \in {"identifier", "member"} =>
    /\ \E c \in Nat :
         /\ NameWriting(t, d.from, c, d.to)
         /\ d.says = IF d.item = "identifier" THEN SubSeq(t, c, d.to - 1)
                     ELSE IF c = d.to THEN <<"::{">> ELSE <<"::">> \o SubSeq(t, c, d.to - 1)
    /\ d.nested = 0

\* A constant: its type, which is not printed, and its value.
TypedWriting(t, T, W, d) ==
  d.item = "typed" =>
    Row(T, W, <<"type", "unmute", IF d.from <= Len(t) /\ t[d.from] = "b" THEN "boolsign" ELSE "sign">>,
          d.from, d.to, d.says, d.nested)

\* A value in hexadecimal, which is printed in decimal, or a truth value.
HexWriting(t, d) ==
  d.item \in {"value", "boolvalue"} =>
    /\ \E e \in Nat :
         LET value == Hexadecimal(SubSeq(t, d.from, e - 1))
         IN  /\ ~(value > LongLongMax)
             /\ d.from <= e /\ e <= Len(t) /\ t[e] = "_" /\ \A k \in d.from..(e - 1) : t[k] \in HexSet
             /\ d.to = e + 1
             /\ d.says = IF d.item = "value" THEN Spelling[value] ELSE IF value = 1 THEN <<"true">> ELSE <<"false">>
    /\ d.nested = 0

\* A literal of the result is printed and takes nothing.
ItemWriting(d) ==
  d.item \notin Functions =>
    d.to = d.from /\ d.says = (IF d.item = "unmute" THEN <<>> ELSE <<d.item>>) /\ d.nested = 0

\* T is the parse of stretches of t, made of the words W.
ParseTree(t, T, W) ==
  /\ t \in Seq(W)
  /\ \A d \in T :
       /\ d.item \in W /\ d.from \in Nat /\ 1 <= d.from /\ d.to \in Nat /\ d.says \in Seq(W) /\ d.nested \in Nat
       /\ PathWriting(t, T, W, d) /\ TypeWriting(t, T, W, d) /\ EatWriting(t, T, W, d)
       /\ NamespaceWriting(t, T, W, d) /\ Base62Writing(t, d) /\ IdentifierWriting(t, d)
       /\ TypedWriting(t, T, W, d) /\ HexWriting(t, d) /\ ItemWriting(d)

-----------------------------------------------------------------------------
(* What the parser has ahead of it.                                        *)

\* With the items top of the innermost call and the calls under it still to be
\* treated, it is at a place in the text, and will say this and go this deep.
Ahead(top, under, at, says, deep) ==
  [top |-> top, under |-> under, at |-> at, says |-> says, deep |-> deep]

\* A name leaves out what is printed for an empty one.
Left(top, d) ==
  IF d.item = "member" /\ d.says # <<"::{">> THEN SubSeq(Tail(top), 3, Len(Tail(top))) ELSE Tail(top)

\* What is ahead is the node of the next item, and what is ahead behind it, in K.
Lies(T, W, K, top, under, at, says, deep) ==
  /\ top \in Seq(W) /\ under \in Seq(Seq(W)) /\ at \in Nat /\ says \in Seq(W)
  /\ deep \in Nat /\ Len(under) <= deep
  /\ \/ top = <<>> /\ under = <<>> /\ says = <<>> /\ deep = 0
     \/ /\ top = <<>> /\ under # <<>>
        /\ \E deep2 \in Nat :
             /\ deep = Deeper(Len(under), deep2)
             /\ Ahead(Head(under), Tail(under), at, says, deep2) \in K
     \/ /\ top # <<>>
        /\ \E d \in T : \E says2, deep2 :
             /\ d.item = Head(top) /\ d.from = at
             /\ Ahead(Left(top, d), under, d.to, says2, deep2) \in K
             /\ says = IF Mutes(Tail(top)) \/ Muting(under) THEN says2 ELSE d.says \o says2
             /\ deep = Deeper(Len(under) + d.nested, deep2)

\* All of K lies in the tree.
Way(T, W, K) == \A a \in K : Lies(T, W, K, a.top, a.under, a.at, a.says, a.deep)

\* The parser is on its way through the text t.
On(t, p, cs, o, T, W, K, top, under, says, deep) ==
  /\ ParseTree(t, T, W) /\ Way(T, W, K) /\ Ahead(top, under, p, says, deep) \in K
  /\ cs = <<top>> \o under /\ o \in Seq(W)

-----------------------------------------------------------------------------

\* More may be ahead than before.
LEMMA LiesIn ==
  ASSUME NEW T, NEW W, NEW K, NEW K2, K \subseteq K2, NEW top, NEW under, NEW at, NEW says, NEW deep,
         Lies(T, W, K, top, under, at, says, deep)
  PROVE  Lies(T, W, K2, top, under, at, says, deep)
  <1>1. CASE top = <<>> /\ under = <<>>
    BY <1>1, Zenon DEF Lies
  <1>2. CASE top = <<>> /\ under # <<>>
    <2>1. PICK deep2 \in Nat : deep = Deeper(Len(under), deep2) /\ Ahead(Head(under), Tail(under), at, says, deep2) \in K
      BY <1>2, Zenon DEF Lies
    <2>2. Ahead(Head(under), Tail(under), at, says, deep2) \in K2
      BY <2>1, Zenon
    <2> QED
      BY <1>2, <2>1, <2>2, Zenon DEF Lies
  <1>3. CASE top # <<>>
    <2>1. PICK d \in T : \E says2, deep2 :
             /\ d.item = Head(top) /\ d.from = at
             /\ Ahead(Left(top, d), under, d.to, says2, deep2) \in K
             /\ says = IF Mutes(Tail(top)) \/ Muting(under) THEN says2 ELSE d.says \o says2
             /\ deep = Deeper(Len(under) + d.nested, deep2)
      BY <1>3, Zenon DEF Lies
    <2>2. PICK says2, deep2 :
             /\ d.item = Head(top) /\ d.from = at
             /\ Ahead(Left(top, d), under, d.to, says2, deep2) \in K
             /\ says = IF Mutes(Tail(top)) \/ Muting(under) THEN says2 ELSE d.says \o says2
             /\ deep = Deeper(Len(under) + d.nested, deep2)
      BY <2>1, Zenon
    <2>3. Ahead(Left(top, d), under, d.to, says2, deep2) \in K2
      BY <2>2, Zenon
    <2> QED
      BY <1>3, <2>2, <2>3, Zenon DEF Lies
  <1> QED
    BY <1>1, <1>2, <1>3, Zenon

\* What is ahead, of one place more.
LEMMA WayGrows ==
  ASSUME NEW T, NEW W, NEW K, Way(T, W, K), NEW top, NEW under, NEW at, NEW says, NEW deep,
         Lies(T, W, K, top, under, at, says, deep)
  PROVE  Way(T, W, K \cup {Ahead(top, under, at, says, deep)})
  <1> DEFINE a == Ahead(top, under, at, says, deep)
             K2 == K \cup {a}
  <1>1. /\ a.top = top /\ a.under = under /\ a.at = at /\ a.says = says /\ a.deep = deep
    BY DEF Ahead
  <1>2. K \subseteq K2 /\ \A b \in K2 : b \in K \/ b = a
    OBVIOUS
  <1> HIDE DEF a, K2
  <1>3. ASSUME NEW b \in K2 PROVE Lies(T, W, K2, b.top, b.under, b.at, b.says, b.deep)
    <2>1. CASE b \in K
      <3>1. Lies(T, W, K, b.top, b.under, b.at, b.says, b.deep)
        BY <2>1, Zenon DEF Way
      <3> QED
        BY <3>1, <1>2, LiesIn, Zenon
    <2>2. CASE b = a
      BY <1>1, <1>2, <2>2, LiesIn, Zenon
    <2> QED
      BY <1>2, <2>1, <2>2, Zenon
  <1>4. Way(T, W, K2)
    BY <1>3, Zenon DEF Way
  <1> QED
    BY <1>4 DEF K2, a

\* One of two ends of a sequence mutes if the sequence does.
LEMMA MutesBoth ==
  ASSUME NEW W, NEW a \in Seq(W), NEW b \in Seq(W)
  PROVE  Mutes(a \o b) <=> Mutes(a) \/ Mutes(b)
  <1>0. PICK m \in Nat, n \in Nat : m = Len(a) /\ n = Len(b)
    OBVIOUS
  <1> DEFINE c == a \o b
  <1>1. Len(c) = m + n /\ \A k \in 1..(m + n) : c[k] = IF k <= m THEN a[k] ELSE b[k - m]
    BY <1>0, ConcatProperties
  <1> HIDE DEF c
  <1>2. ASSUME Mutes(c) PROVE Mutes(a) \/ Mutes(b)
    <2>1. PICK k \in 1..(m + n) : c[k] = "unmute"
      BY <1>1, <1>2 DEF Mutes
    <2>2. CASE k <= m
      <3>1. k \in 1..Len(a) /\ a[k] = "unmute"
        BY <1>0, <1>1, <2>1, <2>2
      <3> QED
        BY <3>1 DEF Mutes
    <2>3. CASE ~(k <= m)
      <3>1. k - m \in 1..Len(b) /\ b[k - m] = "unmute"
        BY <1>0, <1>1, <2>1, <2>3
      <3> QED
        BY <3>1 DEF Mutes
    <2> QED
      BY <2>2, <2>3
  <1>3. ASSUME Mutes(a) PROVE Mutes(c)
    <2>1. PICK k \in 1..m : a[k] = "unmute"
      BY <1>0, <1>3 DEF Mutes
    <2>2. k \in 1..Len(c) /\ c[k] = "unmute"
      BY <1>1, <2>1
    <2> QED
      BY <2>2 DEF Mutes
  <1>4. ASSUME Mutes(b) PROVE Mutes(c)
    <2>1. PICK k \in 1..n : b[k] = "unmute"
      BY <1>0, <1>4 DEF Mutes
    <2>2. k + m \in 1..Len(c) /\ ~(k + m <= m) /\ (k + m) - m = k
      BY <1>1
    <2>3. c[k + m] = "unmute"
      BY <1>1, <2>1, <2>2
    <2> QED
      BY <2>2, <2>3 DEF Mutes
  <1> QED
    BY <1>2, <1>3, <1>4 DEF c

\* The calls mute if the innermost does or those under it do.
LEMMA MutingBoth ==
  ASSUME NEW W, NEW top, NEW under \in Seq(W)
  PROVE  Muting(<<top>> \o under) <=> Mutes(top) \/ Muting(under)
  <1>0. PICK n \in Nat : n = Len(under)
    OBVIOUS
  <1> DEFINE c == <<top>> \o under
  <1>1. Len(c) = n + 1 /\ c[1] = top /\ \A k \in 1..n : c[k + 1] = under[k]
    BY <1>0, Pushed
  <1> HIDE DEF c
  <1>2. ASSUME Muting(c) PROVE Mutes(top) \/ Muting(under)
    <2>1. PICK k \in 1..(n + 1) : Mutes(c[k])
      BY <1>1, <1>2 DEF Muting
    <2>2. CASE k = 1
      BY <1>1, <2>1, <2>2
    <2>3. CASE k # 1
      <3>1. k - 1 \in 1..n /\ (k - 1) + 1 = k
        BY <2>3
      <3>2. Mutes(under[k - 1])
        BY <1>1, <2>1, <3>1
      <3> QED
        BY <1>0, <3>1, <3>2 DEF Muting
    <2> QED
      BY <2>2, <2>3
  <1>3. ASSUME Mutes(top) PROVE Muting(c)
    <2>1. 1 \in 1..Len(c)
      BY <1>1
    <2> QED
      BY <1>1, <1>3, <2>1 DEF Muting
  <1>4. ASSUME Muting(under) PROVE Muting(c)
    <2>1. PICK k \in 1..n : Mutes(under[k])
      BY <1>0, <1>4 DEF Muting
    <2>2. k + 1 \in 1..Len(c) /\ Mutes(c[k + 1])
      BY <1>1, <2>1
    <2> QED
      BY <2>2 DEF Muting
  <1> QED
    BY <1>2, <1>3, <1>4 DEF c

\* What is left of items and rest without the first k.
Dropped(items, rest, k) == SubSeq(items \o rest, k + 1, Len(items \o rest))

\* It is the items from there on and the rest.
RestRemains(W, items, rest, k) ==
  /\ Dropped(items, rest, k) \in Seq(W)
  /\ k = 0 => Dropped(items, rest, k) = items \o rest
  /\ k = Len(items) => Dropped(items, rest, k) = rest
  /\ k < Len(items) =>
       /\ Dropped(items, rest, k) # <<>> /\ Head(Dropped(items, rest, k)) = items[k + 1]
       /\ Tail(Dropped(items, rest, k)) = Dropped(items, rest, k + 1)
  /\ Mutes(Dropped(items, rest, k)) <=> (\E l \in (k + 1)..Len(items) : items[l] = "unmute") \/ Mutes(rest)

\* The items behind the first k and the rest are what remains, item by item.
LEMMA Remain ==
  ASSUME NEW W, NEW items \in Seq(W), NEW rest \in Seq(W), NEW k \in 0..Len(items)
  PROVE  RestRemains(W, items, rest, k)
  <1>13. PICK L \in Nat : L = Len(items)
    OBVIOUS
  <1>0. PICK R \in Nat : R = Len(rest)
    OBVIOUS
  <1> USE <1>13
  <1> DEFINE c == items \o rest
             cut == SubSeq(c, k + 1, L + R)
  <1>1. c \in Seq(W) /\ Len(c) = L + R /\ \A h \in 1..(L + R) : c[h] = IF h <= L THEN items[h] ELSE rest[h - L]
    BY <1>0, ConcatProperties
  <1>8. k = L => cut = rest
    <2>1. CASE R = 0
      <3>1. L + R < L + 1 /\ L + 1 \in Int /\ L + R \in Int
        BY <2>1
      <3>2. SubSeq(c, L + 1, L + R) = <<>>
        BY <3>1, SubSeqEmpty
      <3>3. rest = <<>>
        BY <1>0, <2>1, EmptySeq
      <3> QED
        BY <2>1, <3>2, <3>3
    <2>2. CASE R # 0
      <3>1. L + 1 \in (L + 1)..(L + R) /\ L + R \in (L + 1)..(L + R) /\ (L + 1) - L = 1 /\ (L + R) - L = R
        BY <2>2
      <3>2. SubSeq(c, L + 1, L + R) = SubSeq(rest, 1, R)
        BY <1>0, <3>1, SubSeqOfConcat2
      <3>3. rest = SubSeq(c, L + 1, L + R)
        BY <1>0, <3>2, SubSeqFull
      <3> QED
        BY <3>3
    <2> QED
      BY <2>1, <2>2
  <1> HIDE DEF c
  <1>2. \A h \in (k + 1)..(L + R) : h \in 1..(L + R) /\ c[h] \in W
    BY <1>1
  <1>3. k + 1 \in Int /\ L + R \in Int
    OBVIOUS
  <1>14. PICK i \in Int, j \in Int : i = k + 1 /\ j = L + R
    BY <1>3
  <1>4. cut \in Seq(W) /\ Len(cut) = (IF i <= j THEN j - i + 1 ELSE 0) /\ \A h \in 1..(j - i + 1) : cut[h] = c[i + h - 1]
    <2>1. \A h \in i..j : c[h] \in W
      BY <1>2, <1>14
    <2>2. SubSeq(c, i, j) \in Seq(W) /\ Len(SubSeq(c, i, j)) = (IF i <= j THEN j - i + 1 ELSE 0)
          /\ \A h \in 1..(j - i + 1) : SubSeq(c, i, j)[h] = c[i + h - 1]
      BY <2>1, SubSeqProperties
    <2> QED
      BY <1>14, <2>2, Zenon DEF cut
  <1> HIDE DEF cut
  <1>5. Len(cut) = L + R - k /\ \A h \in 1..(L + R - k) : cut[h] = c[k + h]
    <2>1. j - i + 1 = L + R - k /\ (~(i <= j) => L + R - k = 0)
      BY <1>14
    <2>2. \A h \in 1..(L + R - k) : i + h - 1 = k + h
      BY <1>14
    <2> QED
      BY <1>4, <2>1, <2>2
  <1>6. k = 0 => cut = c
    BY <1>1, SubSeqFull DEF cut
  <1>7. ASSUME k < L
        PROVE  cut # <<>> /\ Head(cut) = items[k + 1] /\ Tail(cut) = SubSeq(c, k + 2, L + R)
    <2>1. k + 1 \in 1..Len(c) /\ Len(c) \in (k + 1)..Len(c) /\ (k + 1) + 1 = k + 2 /\ k + 1 \in 1..(L + R) /\ k + 1 <= L
      BY <1>1, <1>7
    <2>2. Head(cut) = c[k + 1] /\ Tail(cut) = SubSeq(c, (k + 1) + 1, L + R)
      <3>1. L + R \in (k + 1)..Len(c)
        BY <1>1, <2>1
      <3> QED
        BY <1>1, <2>1, <3>1, HeadTailOfSubSeq, Zenon DEF cut
    <2>3. c[k + 1] = items[k + 1]
      BY <1>1, <2>1
    <2>4. cut # <<>>
      <3>1. Len(cut) # 0
        BY <1>5, <1>7
      <3> QED
        BY <3>1
    <2> QED
      BY <2>1, <2>2, <2>3, <2>4, Zenon
  <1>9. Mutes(cut) <=> (\E l \in (k + 1)..L : items[l] = "unmute") \/ Mutes(rest)
    <2>1. ASSUME Mutes(cut) PROVE (\E l \in (k + 1)..L : items[l] = "unmute") \/ Mutes(rest)
      <3>1. PICK h \in 1..(L + R - k) : c[k + h] = "unmute"
        BY <1>5, <2>1 DEF Mutes
      <3>2. k + h \in 1..(L + R)
        OBVIOUS
      <3>3. CASE k + h <= L
        <4>1. k + h \in (k + 1)..L /\ items[k + h] = "unmute"
          BY <1>1, <3>1, <3>2, <3>3
        <4> QED
          BY <4>1
      <3>4. CASE ~(k + h <= L)
        <4>1. k + h - L \in 1..R /\ rest[k + h - L] = "unmute"
          BY <1>1, <3>1, <3>2, <3>4
        <4> QED
          BY <1>0, <4>1 DEF Mutes
      <3> QED
        BY <3>3, <3>4
    <2>2. ASSUME NEW l \in (k + 1)..L, items[l] = "unmute" PROVE Mutes(cut)
      <3>1. l - k \in 1..(L + R - k) /\ k + (l - k) = l /\ l \in 1..(L + R) /\ l <= L
        OBVIOUS
      <3>2. cut[l - k] = "unmute"
        BY <1>1, <1>5, <2>2, <3>1
      <3> QED
        BY <1>5, <3>1, <3>2 DEF Mutes
    <2>3. ASSUME Mutes(rest) PROVE Mutes(cut)
      <3>1. PICK l \in 1..R : rest[l] = "unmute"
        BY <1>0, <2>3 DEF Mutes
      <3>2. L + l - k \in 1..(L + R - k) /\ k + (L + l - k) = L + l /\ L + l \in 1..(L + R) /\ ~(L + l <= L) /\ (L + l) - L = l
        OBVIOUS
      <3>3. cut[L + l - k] = "unmute"
        BY <1>1, <1>5, <3>1, <3>2
      <3> QED
        BY <1>5, <3>2, <3>3 DEF Mutes
    <2> QED
      BY <2>1, <2>2, <2>3
  <1>10. c = items \o rest /\ Len(c) = L + R
    BY <1>1 DEF c
  <1>11. Dropped(items, rest, k) = cut
    BY <1>10, Zenon DEF cut, Dropped
  <1>12. Dropped(items, rest, k + 1) = SubSeq(c, k + 2, L + R)
    <2>1. (k + 1) + 1 = k + 2
      OBVIOUS
    <2> QED
      BY <1>10, <2>1 DEF Dropped
  <1> QED
    BY <1>4, <1>6, <1>7, <1>8, <1>9, <1>10, <1>11, <1>12, <1>13, Zenon DEF RestRemains

\* Before what is ahead, a chain is ahead.
RowBefore(T, W, K, rest, under, says2, deep2, items, i, s, n) ==
  \E K2 :
    /\ Way(T, W, K2) /\ K \subseteq K2
    /\ Ahead(items \o rest, under, i,
             IF Mutes(rest) \/ Muting(under) THEN says2 ELSE s \o says2, Deeper(Len(under) + n, deep2)) \in K2

\* What is ahead of a row of items is what they say and what was ahead.
LEMMA RowAhead ==
  ASSUME NEW t, NEW T, NEW W, NEW K, ParseTree(t, T, W), Way(T, W, K),
         NEW rest, NEW under, NEW j, NEW says2, NEW deep2, Ahead(rest, under, j, says2, deep2) \in K,
         NEW items, NEW i, NEW s, NEW n, Row(T, W, items, i, j, s, n)
  PROVE  RowBefore(T, W, K, rest, under, says2, deep2, items, i, s, n)
  <1>1. PICK e, d, says, nested : RowOf(T, W, items, i, j, e, d, says, nested) /\ says[0] = s /\ nested[0] = n
    BY Zenon DEF Row
  <1>2. PICK L \in Nat : L = Len(items)
    BY <1>1 DEF RowOf
  <1>3. /\ items \in Seq(W)
        /\ e \in [0..L -> Nat] /\ e[0] = i /\ e[L] = j
        /\ says \in [0..L -> Seq(W)] /\ says[L] = <<>>
        /\ nested \in [0..L -> Nat] /\ nested[L] = 0
        /\ \A k \in 1..L :
             /\ d[k] \in T /\ d[k].item = items[k] /\ items[k] # "member"
             /\ d[k].from = e[k - 1] /\ d[k].to = e[k]
             /\ says[k - 1] = IF \E l \in (k + 1)..L : items[l] = "unmute" THEN says[k]
                              ELSE d[k].says \o says[k]
             /\ nested[k - 1] = Deeper(d[k].nested, nested[k])
    BY <1>1, <1>2, Zenon DEF RowOf
  <1>4. Lies(T, W, K, rest, under, j, says2, deep2)
    <2> DEFINE a == Ahead(rest, under, j, says2, deep2)
    <2>1. /\ a.top = rest /\ a.under = under /\ a.at = j /\ a.says = says2 /\ a.deep = deep2
      BY DEF Ahead
    <2> HIDE DEF a
    <2>2. Lies(T, W, K, a.top, a.under, a.at, a.says, a.deep)
      BY Zenon DEF Way, a
    <2> QED
      BY <2>1, <2>2, Zenon
  <1>5. /\ rest \in Seq(W) /\ under \in Seq(Seq(W)) /\ j \in Nat /\ says2 \in Seq(W)
        /\ deep2 \in Nat /\ Len(under) <= deep2
    BY <1>4, Zenon DEF Lies
  <1>6. PICK D \in Nat : D = Len(under)
    BY <1>5
  <1> DEFINE left(k) == Dropped(items, rest, k)
             then(k) == IF Mutes(rest) \/ Muting(under) THEN says2 ELSE says[k] \o says2
             deep(k) == Deeper(D + nested[k], deep2)
             a(k) == Ahead(left(k), under, e[k], then(k), deep(k))
             S == {k \in 0..L : \E K2 : Way(T, W, K2) /\ K \subseteq K2 /\ a(k) \in K2}
  <1>7. \A k \in 0..L :
          /\ left(k) \in Seq(W)
          /\ k = 0 => left(k) = items \o rest
          /\ k = L => left(k) = rest
          /\ k < L => left(k) # <<>> /\ Head(left(k)) = items[k + 1] /\ Tail(left(k)) = left(k + 1)
          /\ Mutes(left(k)) <=> (\E l \in (k + 1)..L : items[l] = "unmute") \/ Mutes(rest)
    <2> TAKE k \in 0..L
    <2>1. items \in Seq(W) /\ rest \in Seq(W)
      BY <1>3, <1>5, Zenon
    <2>2. RestRemains(W, items, rest, k)
      BY <1>2, <2>1, Remain, Zenon
    <2> QED
      BY <1>2, <2>2, Zenon DEF RestRemains
  <1>8. \A k \in 0..L : e[k] \in Nat /\ nested[k] \in Nat /\ says[k] \in Seq(W)
    BY <1>3
  <1>9. \A k \in 0..L : then(k) \in Seq(W) /\ deep(k) \in Nat /\ D <= deep(k)
    <2> TAKE k \in 0..L
    <2>1. says[k] \o says2 \in Seq(W)
      BY <1>5, <1>8, ConcatProperties
    <2>2. then(k) \in Seq(W)
      BY <1>5, <2>1, Zenon
    <2>3. deep(k) \in Nat /\ D <= deep(k)
      BY <1>5, <1>6, <1>8 DEF Deeper
    <2> QED
      BY <2>2, <2>3
  <1>10. L \in S
    <2>1. left(L) = rest
      <3>1. L \in 0..L
        OBVIOUS
      <3> QED
        BY <1>7, <3>1, Zenon
    <2>2. says[L] \o says2 = says2
      BY <1>3, <1>5, ConcatEmptySeq
    <2>3. then(L) = says2
      BY <2>2
    <2>4. deep(L) = deep2
      BY <1>3, <1>5, <1>6 DEF Deeper
    <2>5. a(L) = Ahead(rest, under, j, says2, deep2)
      BY <1>3, <2>1, <2>3, <2>4
    <2> QED
      BY <2>5
  <1>11. ASSUME NEW k \in 1..L, k \in S PROVE k - 1 \in S
    <2>1. PICK K2 : Way(T, W, K2) /\ K \subseteq K2 /\ a(k) \in K2
      BY <1>11
    <2>2. k - 1 \in 0..L /\ k \in 0..L /\ k - 1 < L /\ (k - 1) + 1 = k
      OBVIOUS
    <2>3. left(k - 1) # <<>> /\ Head(left(k - 1)) = items[k] /\ Tail(left(k - 1)) = left(k)
      BY <1>7, <2>2
    <2>4. /\ d[k] \in T /\ d[k].item = items[k] /\ items[k] # "member"
          /\ d[k].from = e[k - 1] /\ d[k].to = e[k]
          /\ says[k - 1] = IF \E l \in (k + 1)..L : items[l] = "unmute" THEN says[k]
                           ELSE d[k].says \o says[k]
          /\ nested[k - 1] = Deeper(d[k].nested, nested[k])
      BY <1>3
    <2>5. d[k].says \in Seq(W) /\ d[k].nested \in Nat
      BY <2>4, Zenon DEF ParseTree
    <2>6. Left(left(k - 1), d[k]) = left(k)
      BY <2>3, <2>4, Zenon DEF Left
    <2>7. deep(k - 1) = Deeper(D + d[k].nested, deep(k))
      <3>1. nested[k] \in Nat
        BY <1>8, <2>2
      <3>2. deep(k - 1) = Deeper(D + Deeper(d[k].nested, nested[k]), deep2)
        BY <2>4
      <3>3. Deeper(D + Deeper(d[k].nested, nested[k]), deep2) = Deeper(D + d[k].nested, Deeper(D + nested[k], deep2))
        <4>1. deep2 \in Nat
          BY <1>5
        <4>2. PICK p \in Nat, q \in Nat, r \in Nat : p = d[k].nested /\ q = nested[k] /\ r = deep2
          BY <2>5, <3>1, <4>1
        <4>3. Deeper(D + Deeper(p, q), r) = Deeper(D + p, Deeper(D + q, r))
          BY DEF Deeper
        <4> QED
          BY <4>2, <4>3, Zenon
      <3> QED
        BY <3>2, <3>3, Zenon
    <2>8. then(k - 1) = IF Mutes(left(k)) \/ Muting(under) THEN then(k) ELSE d[k].says \o then(k)
      <3>1. CASE Mutes(rest) \/ Muting(under)
        <4>1. Mutes(left(k)) \/ Muting(under)
          BY <1>7, <2>2, <3>1, Zenon
        <4> QED
          BY <3>1, <4>1, Zenon
      <3>2. CASE ~(Mutes(rest) \/ Muting(under))
        <4>1. then(k - 1) = says[k - 1] \o says2 /\ then(k) = says[k] \o says2
          BY <3>2
        <4>2. CASE \E l \in (k + 1)..L : items[l] = "unmute"
          <5>1. Mutes(left(k))
            BY <1>7, <2>2, <4>2, Zenon
          <5>2. says[k - 1] = says[k]
            BY <2>4, <4>2, Zenon
          <5> QED
            BY <4>1, <5>1, <5>2, Zenon
        <4>3. CASE ~(\E l \in (k + 1)..L : items[l] = "unmute")
          <5>1. ~Mutes(left(k))
            BY <1>7, <2>2, <3>2, <4>3, Zenon
          <5>2. says[k - 1] = d[k].says \o says[k]
            BY <2>4, <4>3, Zenon
          <5>3. (d[k].says \o says[k]) \o says2 = d[k].says \o (says[k] \o says2)
            <6>1. says[k] \in Seq(W)
              BY <1>8, <2>2
            <6>2. \A p, q, r \in Seq(W) : (p \o q) \o r = p \o (q \o r)
              BY ConcatAssociative
            <6> QED
              BY <1>5, <2>5, <6>1, <6>2, Zenon
          <5>4. then(k - 1) = d[k].says \o then(k)
            BY <4>1, <5>2, <5>3, Zenon
          <5> QED
            BY <3>2, <5>1, <5>4, Zenon
        <4> QED
          BY <4>2, <4>3, Zenon
      <3> QED
        BY <3>1, <3>2, Zenon
    <2>9. /\ left(k - 1) \in Seq(W) /\ e[k - 1] \in Nat
          /\ then(k - 1) \in Seq(W) /\ deep(k - 1) \in Nat /\ Len(under) <= deep(k - 1)
      BY <1>6, <1>7, <1>8, <1>9, <2>2
    <2> HIDE DEF left, then, deep
    <2>10. Lies(T, W, K2, left(k - 1), under, e[k - 1], then(k - 1), deep(k - 1))
      <3>1. Ahead(Left(left(k - 1), d[k]), under, d[k].to, then(k), deep(k)) \in K2
        BY <2>1, <2>4, <2>6, Zenon
      <3>2. d[k].item = Head(left(k - 1)) /\ d[k].from = e[k - 1]
        BY <2>3, <2>4, Zenon
      <3>3. then(k - 1) = IF Mutes(Tail(left(k - 1))) \/ Muting(under) THEN then(k) ELSE d[k].says \o then(k)
        BY <2>3, <2>8, Zenon
      <3>4. deep(k - 1) = Deeper(Len(under) + d[k].nested, deep(k))
        BY <1>6, <2>7
      <3> QED
        BY <1>5, <2>3, <2>4, <2>9, <3>1, <3>2, <3>3, <3>4, Zenon DEF Lies
    <2> DEFINE K3 == K2 \cup {Ahead(left(k - 1), under, e[k - 1], then(k - 1), deep(k - 1))}
    <2>11. Way(T, W, K3)
      BY <2>1, <2>10, WayGrows
    <2>12. K \subseteq K3 /\ a(k - 1) \in K3
      BY <2>1
    <2> QED
      BY <2>2, <2>11, <2>12
  <1>12. 0 \in S
    <2> HIDE DEF S
    <2>1. \A k \in 0..L : k \in S
      BY <1>10, <1>11, DownInduction
    <2> QED
      BY <2>1
  <1>13. left(0) = items \o rest /\ e[0] = i /\ deep(0) = Deeper(Len(under) + n, deep2)
         /\ then(0) = IF Mutes(rest) \/ Muting(under) THEN says2 ELSE s \o says2
    <2>1. 0 \in 0..L
      OBVIOUS
    <2>2. left(0) = items \o rest
      BY <1>7, <2>1
    <2> HIDE DEF left
    <2> QED
      BY <1>1, <1>3, <1>6, <2>2
  <1>14. \E K2 : Way(T, W, K2) /\ K \subseteq K2 /\ a(0) \in K2
    BY <1>12
  <1> HIDE DEF left, then, deep
  <1> QED
    BY <1>13, <1>14, Zenon DEF RowBefore

\* The node d of the next item, and what is ahead behind it.
NodeAhead(T, K, top, under, at, says, deep, d, says2, deep2) ==
  /\ d \in T /\ d.item = Head(top) /\ d.from = at
  /\ Ahead(Left(top, d), under, d.to, says2, deep2) \in K
  /\ says = IF Mutes(Tail(top)) \/ Muting(under) THEN says2 ELSE d.says \o says2
  /\ deep = Deeper(Len(under) + d.nested, deep2)

\* The parser is on its way, will have said the same in the end, and goes as deep.
Onward(t, p, cs, o, T, W, o1, says1, deep1) ==
  \E K, top, under, says, deep :
    /\ On(t, p, cs, o, T, W, K, top, under, says, deep)
    /\ o \o says = o1 \o says1 /\ (deep <= MaxDepth <=> deep1 <= MaxDepth)

\* What is ahead lies in the tree.
LEMMA AheadLies ==
  ASSUME NEW T, NEW W, NEW K, Way(T, W, K), NEW top, NEW under, NEW at, NEW says, NEW deep,
         Ahead(top, under, at, says, deep) \in K
  PROVE  Lies(T, W, K, top, under, at, says, deep)
  <1> DEFINE a == Ahead(top, under, at, says, deep)
  <1>1. /\ a.top = top /\ a.under = under /\ a.at = at /\ a.says = says /\ a.deep = deep
    BY DEF Ahead
  <1> HIDE DEF a
  <1>2. Lies(T, W, K, a.top, a.under, a.at, a.says, a.deep)
    BY Zenon DEF Way, a
  <1> QED
    BY <1>1, <1>2, Zenon

\* The innermost call and those under it.
Split(cs, top, under) ==
  /\ Head(cs) = top /\ Tail(cs) = under /\ cs # <<>> /\ Len(cs) = Len(under) + 1
  /\ Muting(cs) <=> Mutes(top) \/ Muting(under)

\* The calls are the innermost one and the others.
LEMMA CallsSplit ==
  ASSUME NEW W, NEW top, NEW under \in Seq(W), NEW cs, cs = <<top>> \o under
  PROVE  Split(cs, top, under)
  <1>0. PICK n \in Nat : n = Len(under)
    OBVIOUS
  <1>1. /\ cs \in Seq(W \cup {top}) /\ Len(cs) = n + 1 /\ cs[1] = top /\ \A k \in 1..n : cs[k + 1] = under[k]
    BY <1>0, Pushed
  <1>2. /\ cs # <<>> /\ Head(cs) = cs[1] /\ Tail(cs) \in Seq(W \cup {top}) /\ Len(Tail(cs)) = (n + 1) - 1
        /\ \A k \in 1..((n + 1) - 1) : Tail(cs)[k] = cs[k + 1]
    <2>1. n + 1 \in Nat /\ n + 1 >= 1
      OBVIOUS
    <2> QED
      BY <1>1, <2>1, Popped
  <1>3. Tail(cs) = under
    <2>1. under \in Seq(W \cup {top})
      OBVIOUS
    <2>2. (n + 1) - 1 = n
      OBVIOUS
    <2> QED
      BY <1>0, <1>1, <1>2, <2>1, <2>2, SeqEqual
  <1>4. Muting(cs) <=> Mutes(top) \/ Muting(under)
    BY MutingBoth
  <1> QED
    BY <1>0, <1>1, <1>2, <1>3, <1>4, Zenon DEF Split

\* The next item has its node.
LEMMA NodeIs ==
  ASSUME NEW t, NEW p, NEW cs, NEW o, NEW T, NEW W, NEW K, NEW top, NEW under, NEW says, NEW deep,
         On(t, p, cs, o, T, W, K, top, under, says, deep), top # <<>>
  PROVE  \E d, says2, deep2 : NodeAhead(T, K, top, under, p, says, deep, d, says2, deep2)
  <1>1. Lies(T, W, K, top, under, p, says, deep)
    BY AheadLies, Zenon DEF On
  <1>2. PICK d \in T : \E says2, deep2 :
             /\ d.item = Head(top) /\ d.from = p
             /\ Ahead(Left(top, d), under, d.to, says2, deep2) \in K
             /\ says = IF Mutes(Tail(top)) \/ Muting(under) THEN says2 ELSE d.says \o says2
             /\ deep = Deeper(Len(under) + d.nested, deep2)
    BY <1>1, Zenon DEF Lies
  <1> QED
    BY <1>2, Zenon DEF NodeAhead

\* The types of what is ahead.
AheadTyped(W, top, under, at, says, deep) ==
  /\ top \in Seq(W) /\ under \in Seq(Seq(W)) /\ at \in Nat /\ says \in Seq(W)
  /\ deep \in Nat /\ Len(under) \in Nat /\ Len(under) <= deep

\* What is ahead has these types.
LEMMA AheadIs ==
  ASSUME NEW T, NEW W, NEW K, Way(T, W, K), NEW top, NEW under, NEW at, NEW says, NEW deep,
         Ahead(top, under, at, says, deep) \in K
  PROVE  AheadTyped(W, top, under, at, says, deep)
  <1>1. Lies(T, W, K, top, under, at, says, deep)
    BY AheadLies, Zenon
  <1>2. under \in Seq(Seq(W)) => Len(under) \in Nat
    OBVIOUS
  <1> QED
    BY <1>1, <1>2, Zenon DEF Lies, AheadTyped

\* A node that is read at once.
LEMMA LeafGoes ==
  ASSUME NEW t, NEW p, NEW cs, NEW o, NEW T, NEW W, NEW K, NEW top, NEW under, NEW says, NEW deep,
         On(t, p, cs, o, T, W, K, top, under, says, deep), top # <<>>, Len(under) <= MaxDepth,
         NEW d, NEW says2, NEW deep2, NodeAhead(T, K, top, under, p, says, deep, d, says2, deep2),
         d.nested = 0, NEW o2, o2 = IF Mutes(Tail(top)) \/ Muting(under) THEN o ELSE o \o d.says
  PROVE  Onward(t, d.to, <<Left(top, d)>> \o under, o2, T, W, o, says, deep)
  <1>1. /\ d \in T /\ Ahead(Left(top, d), under, d.to, says2, deep2) \in K
        /\ says = IF Mutes(Tail(top)) \/ Muting(under) THEN says2 ELSE d.says \o says2
        /\ deep = Deeper(Len(under) + d.nested, deep2)
    BY Zenon DEF NodeAhead
  <1>2. d.says \in Seq(W) /\ o \in Seq(W)
    BY <1>1, Zenon DEF On, ParseTree
  <1>3. AheadTyped(W, Left(top, d), under, d.to, says2, deep2)
    BY <1>1, AheadIs, Zenon DEF On
  <1>4. says2 \in Seq(W) /\ deep2 \in Nat /\ Len(under) \in Nat /\ Len(under) <= deep2
    BY <1>3, Zenon DEF AheadTyped
  <1>5. deep = deep2
    BY <1>1, <1>4 DEF Deeper
  <1>6. o2 \in Seq(W)
    <2>1. o \o d.says \in Seq(W)
      BY <1>2, ConcatProperties
    <2> QED
      BY <1>2, <2>1, Zenon
  <1>7. o2 \o says2 = o \o says
    <2>1. CASE Mutes(Tail(top)) \/ Muting(under)
      BY <1>1, <2>1, Zenon
    <2>2. CASE ~(Mutes(Tail(top)) \/ Muting(under))
      <3>1. \A x, y, z \in Seq(W) : (x \o y) \o z = x \o (y \o z)
        BY ConcatAssociative
      <3>2. (o \o d.says) \o says2 = o \o (d.says \o says2)
        BY <1>2, <1>4, <3>1, Zenon
      <3> QED
        BY <1>1, <2>2, <3>2, Zenon
    <2> QED
      BY <2>1, <2>2, Zenon
  <1>8. On(t, d.to, <<Left(top, d)>> \o under, o2, T, W, K, Left(top, d), under, says2, deep2)
    BY <1>1, <1>6, Zenon DEF On
  <1> QED
    BY <1>5, <1>7, <1>8, Zenon DEF Onward

\* A node whose items are treated in the same call.
LEMMA ItemsGo ==
  ASSUME NEW t, NEW p, NEW cs, NEW o, NEW T, NEW W, NEW K, NEW top, NEW under, NEW says, NEW deep,
         On(t, p, cs, o, T, W, K, top, under, says, deep), top # <<>>, Head(top) # "member",
         NEW d, NEW says2, NEW deep2, NodeAhead(T, K, top, under, p, says, deep, d, says2, deep2),
         NEW items, NEW i, Row(T, W, items, i, d.to, d.says, d.nested)
  PROVE  Onward(t, i, <<items \o Tail(top)>> \o under, o, T, W, o, says, deep)
  <1>1. /\ d \in T /\ Ahead(Left(top, d), under, d.to, says2, deep2) \in K
        /\ says = IF Mutes(Tail(top)) \/ Muting(under) THEN says2 ELSE d.says \o says2
        /\ deep = Deeper(Len(under) + d.nested, deep2)
        /\ d.item = Head(top)
    BY Zenon DEF NodeAhead
  <1>2. Left(top, d) = Tail(top)
    BY <1>1, Zenon DEF Left
  <1>3. ParseTree(t, T, W) /\ Way(T, W, K) /\ o \in Seq(W)
    BY Zenon DEF On
  <1>4. PICK K2 :
           /\ Way(T, W, K2) /\ K \subseteq K2
           /\ Ahead(items \o Tail(top), under, i,
                    IF Mutes(Tail(top)) \/ Muting(under) THEN says2 ELSE d.says \o says2,
                    Deeper(Len(under) + d.nested, deep2)) \in K2
    <2>1. RowBefore(T, W, K, Tail(top), under, says2, deep2, items, i, d.says, d.nested)
      BY <1>1, <1>2, <1>3, RowAhead, Zenon
    <2> QED
      BY <2>1, Zenon DEF RowBefore
  <1>5. Ahead(items \o Tail(top), under, i, says, deep) \in K2
    BY <1>1, <1>4, Zenon
  <1>6. On(t, i, <<items \o Tail(top)>> \o under, o, T, W, K2, items \o Tail(top), under, says, deep)
    BY <1>3, <1>4, <1>5, Zenon DEF On
  <1> QED
    BY <1>6, Zenon DEF Onward

\* Two calls are one and another.
LEMMA Paired == ASSUME NEW x, NEW y PROVE <<x, y>> = <<x>> \o <<y>>
  <1> DEFINE S == {x, y}
             c == <<x>> \o <<y>>
  <1>1. <<x>> \in Seq(S) /\ <<y>> \in Seq(S) /\ Len(<<x>>) = 1 /\ Len(<<y>>) = 1 /\ <<x>>[1] = x /\ <<y>>[1] = y
    OBVIOUS
  <1>2. <<x, y>> \in Seq(S) /\ Len(<<x, y>>) = 2 /\ <<x, y>>[1] = x /\ <<x, y>>[2] = y
    OBVIOUS
  <1> HIDE DEF S
  <1>3. c \in Seq(S) /\ Len(c) = 1 + 1 /\ \A k \in 1..(1 + 1) : c[k] = IF k <= 1 THEN <<x>>[k] ELSE <<y>>[k - 1]
    BY <1>1, ConcatProperties
  <1> HIDE DEF c
  <1>4. c[1] = x /\ c[2] = y
    BY <1>1, <1>3
  <1>5. \A k \in 1..2 : <<x, y>>[k] = c[k]
    BY <1>2, <1>4
  <1>6. <<x, y>> = c
    BY <1>2, <1>3, <1>5, SeqEqual
  <1> QED
    BY <1>6 DEF c

\* A node whose items are treated in a call of their own.
LEMMA CallGoes ==
  ASSUME NEW t, NEW p, NEW cs, NEW o, NEW T, NEW W, NEW K, NEW top, NEW under, NEW says, NEW deep,
         On(t, p, cs, o, T, W, K, top, under, says, deep), top # <<>>, Head(top) # "member",
         NEW d, NEW says2, NEW deep2, NodeAhead(T, K, top, under, p, says, deep, d, says2, deep2),
         NEW items, NEW i, NEW n \in Nat, d.nested = n + 1, Row(T, W, items, i, d.to, d.says, n)
  PROVE  Onward(t, i, <<items, Tail(top)>> \o under, o, T, W, o, says, deep)
  <1>1. /\ d \in T /\ Ahead(Left(top, d), under, d.to, says2, deep2) \in K
        /\ says = IF Mutes(Tail(top)) \/ Muting(under) THEN says2 ELSE d.says \o says2
        /\ deep = Deeper(Len(under) + d.nested, deep2)
        /\ d.item = Head(top)
    BY Zenon DEF NodeAhead
  <1>2. Left(top, d) = Tail(top)
    BY <1>1, Zenon DEF Left
  <1>3. ParseTree(t, T, W) /\ Way(T, W, K) /\ o \in Seq(W)
    BY Zenon DEF On
  <1>4. AheadTyped(W, Tail(top), under, d.to, says2, deep2)
    BY <1>1, <1>2, <1>3, AheadIs, Zenon
  <1> DEFINE below == <<Tail(top)>> \o under
             deep3 == Deeper(Len(below), deep2)
             K1 == K \cup {Ahead(<<>>, below, d.to, says2, deep3)}
  <1>5. PICK D \in Nat : D = Len(under)
    BY <1>4 DEF AheadTyped
  <1>6. /\ Tail(top) \in Seq(W) /\ under \in Seq(Seq(W)) /\ d.to \in Nat /\ says2 \in Seq(W)
        /\ deep2 \in Nat /\ D <= deep2
    BY <1>4, <1>5, Zenon DEF AheadTyped
  <1>7. below \in Seq(Seq(W)) /\ Len(below) = D + 1
    BY <1>5, <1>6
  <1>8. Split(below, Tail(top), under)
    BY <1>6, CallsSplit
  <1>9. Muting(below) <=> Mutes(Tail(top)) \/ Muting(under)
    BY <1>8, Zenon DEF Split
  <1>10. Head(below) = Tail(top) /\ Tail(below) = under /\ below # <<>>
    BY <1>8, Zenon DEF Split
  <1> HIDE DEF below
  <1>11. deep3 \in Nat /\ Len(below) <= deep3
    BY <1>6, <1>7 DEF Deeper
  <1>12. Lies(T, W, K, <<>>, below, d.to, says2, deep3)
    <2>1. Ahead(Head(below), Tail(below), d.to, says2, deep2) \in K
      BY <1>1, <1>2, <1>10, Zenon
    <2>2. <<>> \in Seq(W)
      OBVIOUS
    <2> QED
      BY <1>6, <1>7, <1>10, <1>11, <2>1, <2>2, Zenon DEF Lies
  <1>13. Way(T, W, K1)
    <2> HIDE DEF deep3
    <2> QED
      BY <1>3, <1>12, WayGrows
  <1>14. Ahead(<<>>, below, d.to, says2, deep3) \in K1
    OBVIOUS
  <1> HIDE DEF K1
  <1>15. PICK K2 :
           /\ Way(T, W, K2) /\ K1 \subseteq K2
           /\ Ahead(items \o <<>>, below, i,
                    IF Mutes(<<>>) \/ Muting(below) THEN says2 ELSE d.says \o says2,
                    Deeper(Len(below) + n, deep3)) \in K2
    <2> HIDE DEF deep3
    <2>1. RowBefore(T, W, K1, <<>>, below, says2, deep3, items, i, d.says, n)
      BY <1>3, <1>13, <1>14, RowAhead, Zenon
    <2> QED
      BY <2>1, Zenon DEF RowBefore
  <1>16. items \o <<>> = items
    <2>1. items \in Seq(W)
      BY Zenon DEF Row, RowOf
    <2> QED
      BY <2>1, ConcatEmptySeq
  <1>17. ~Mutes(<<>>)
    BY DEF Mutes
  <1>18. Deeper(Len(below) + n, deep3) = deep
    BY <1>1, <1>5, <1>6, <1>7 DEF Deeper
  <1>19. (IF Mutes(<<>>) \/ Muting(below) THEN says2 ELSE d.says \o says2) = says
    BY <1>1, <1>9, <1>17, Zenon
  <1>20. Ahead(items, below, i, says, deep) \in K2
    BY <1>15, <1>16, <1>18, <1>19, Zenon
  <1>21. <<items, Tail(top)>> \o under = <<items>> \o below
    <2>1. <<items>> \in Seq(Seq(W)) /\ <<Tail(top)>> \in Seq(Seq(W))
      <3>1. items \in Seq(W)
        BY Zenon DEF Row, RowOf
      <3> QED
        BY <1>6, <3>1
    <2>2. <<items, Tail(top)>> = <<items>> \o <<Tail(top)>>
      BY Paired
    <2>3. (<<items>> \o <<Tail(top)>>) \o under = <<items>> \o (<<Tail(top)>> \o under)
      BY <1>6, <2>1, ConcatAssociative
    <2> QED
      BY <2>2, <2>3, Zenon DEF below
  <1>22. On(t, i, <<items, Tail(top)>> \o under, o, T, W, K2, items, below, says, deep)
    BY <1>3, <1>15, <1>20, <1>21, Zenon DEF On
  <1> QED
    BY <1>22, Zenon DEF Onward

\* The v0 parser is on its way, and the calls are counted.
Reading(T, W, K, top, under, says, deep) ==
  /\ On(text, pos, calls, out, T, W, K, top, under, says, deep) /\ phase = "v0"
  /\ depth = Len(under) /\ Len(under) <= MaxDepth

\* It has gone on, or has said everything, or is too deep.
Advanced(T, W, says, deep) ==
  \/ phase' = "v0" /\ text' = text /\ Onward(text, pos', calls', out', T, W, out, says, deep)
  \/ phase' = "parsed" /\ out' = out /\ says = <<>> /\ deep = 0
  \/ phase' = "rejected" /\ MaxDepth < deep

\* The words of its state.
InCall(W, top, under, says, deep) ==
  /\ Head(calls) = top /\ Tail(calls) = under /\ (top # <<>> => Item = Head(top) /\ Rest = Tail(top))
  /\ Muting(calls) <=> Mutes(top) \/ Muting(under)
  /\ AheadTyped(W, top, under, pos, says, deep) /\ out \in Seq(W) /\ text \in Seq(W)

\* The state on the way is of such words.
LEMMA InCallIs ==
  ASSUME NEW T, NEW W, NEW K, NEW top, NEW under, NEW says, NEW deep, Reading(T, W, K, top, under, says, deep)
  PROVE  InCall(W, top, under, says, deep)
  <1>1. /\ Way(T, W, K) /\ Ahead(top, under, pos, says, deep) \in K /\ calls = <<top>> \o under
        /\ out \in Seq(W) /\ text \in Seq(W)
    BY Zenon DEF Reading, On, ParseTree
  <1>2. AheadTyped(W, top, under, pos, says, deep)
    BY <1>1, AheadIs, Zenon
  <1>3. under \in Seq(Seq(W))
    BY <1>2, Zenon DEF AheadTyped
  <1>4. Split(calls, top, under)
    BY <1>1, <1>3, CallsSplit, Zenon
  <1> QED
    BY <1>1, <1>2, <1>4, Zenon DEF InCall, Split, Item, Rest

\* An item that is not "unmute" does not mute.
LEMMA MutesBehind ==
  ASSUME NEW W, NEW top \in Seq(W), top # <<>>, Head(top) # "unmute"
  PROVE  Mutes(top) <=> Mutes(Tail(top))
  <1>0. PICK n \in Nat : n = Len(top)
    OBVIOUS
  <1>1. n >= 1
    BY <1>0, EmptySeq
  <1>2. /\ top # <<>> /\ Head(top) = top[1] /\ Tail(top) \in Seq(W) /\ Len(Tail(top)) = n - 1
        /\ \A k \in 1..(n - 1) : Tail(top)[k] = top[k + 1]
    BY <1>0, <1>1, Popped
  <1>3. ASSUME Mutes(top) PROVE Mutes(Tail(top))
    <2>1. PICK k \in 1..n : top[k] = "unmute"
      BY <1>0, <1>3 DEF Mutes
    <2>2. k # 1
      BY <1>2, <2>1
    <2>3. k - 1 \in 1..(n - 1) /\ (k - 1) + 1 = k
      BY <2>2
    <2>4. Tail(top)[k - 1] = "unmute"
      BY <1>2, <2>1, <2>3
    <2> QED
      BY <1>2, <2>3, <2>4 DEF Mutes
  <1>4. ASSUME Mutes(Tail(top)) PROVE Mutes(top)
    <2>1. PICK k \in 1..(n - 1) : Tail(top)[k] = "unmute"
      BY <1>2, <1>4 DEF Mutes
    <2>2. k + 1 \in 1..n
      BY <1>1
    <2>3. top[k + 1] = "unmute"
      BY <1>2, <2>1
    <2> QED
      BY <1>0, <2>2, <2>3 DEF Mutes
  <1> QED
    BY <1>3, <1>4

\* What is printed.
LEMMA EmitIs ==
  ASSUME NEW W, NEW top, NEW under, NEW says, NEW deep, InCall(W, top, under, says, deep), top # <<>>,
         Head(top) # "unmute", NEW s, Emit(s)
  PROVE  out' = IF Mutes(Tail(top)) \/ Muting(under) THEN out ELSE out \o s
  <1>1. out' = IF Muting(calls) THEN out ELSE out \o s
    BY DEF Emit, Muting, Mutes
  <1>2. Muting(calls) <=> Mutes(top) \/ Muting(under)
    BY Zenon DEF InCall
  <1>3. top \in Seq(W)
    BY Zenon DEF InCall, AheadTyped
  <1>4. Mutes(top) <=> Mutes(Tail(top))
    BY <1>3, MutesBehind
  <1> QED
    BY <1>1, <1>2, <1>4, Zenon

\* A call returns.
LEMMA ReturnGoes ==
  ASSUME NEW T, NEW W, NEW K, NEW top, NEW under, NEW says, NEW deep, Reading(T, W, K, top, under, says, deep),
         Return
  PROVE  Advanced(T, W, says, deep)
  <1>1. InCall(W, top, under, says, deep)
    BY InCallIs, Zenon
  <1>2. top = <<>> /\ Tail(calls) = under
    BY <1>1, Zenon DEF InCall, Return
  <1>3. Way(T, W, K) /\ Ahead(top, under, pos, says, deep) \in K /\ ParseTree(text, T, W)
    BY Zenon DEF Reading, On
  <1>4. Lies(T, W, K, top, under, pos, says, deep)
    BY <1>3, AheadLies, Zenon
  <1>5. out' = out /\ text' = text /\ pos' = pos /\ calls' = under /\ phase' = (IF under = <<>> THEN "parsed" ELSE phase)
    BY <1>2 DEF Return, cursor
  <1>6. CASE under = <<>>
    <2>1. says = <<>> /\ deep = 0
      BY <1>2, <1>4, <1>6, Zenon DEF Lies
    <2> QED
      BY <1>5, <1>6, <2>1, Zenon DEF Advanced
  <1>7. CASE under # <<>>
    <2>1. PICK deep2 \in Nat :
             /\ deep = Deeper(Len(under), deep2)
             /\ Ahead(Head(under), Tail(under), pos, says, deep2) \in K
      BY <1>2, <1>4, <1>7, Zenon DEF Lies
    <2>2. Len(under) <= MaxDepth /\ Len(under) \in Nat /\ deep \in Nat /\ under \in Seq(Seq(W)) /\ out \in Seq(W)
      BY <1>1, Zenon DEF Reading, InCall, AheadTyped
    <2>3. deep2 <= MaxDepth <=> deep <= MaxDepth
      BY <2>1, <2>2, V0Assumption DEF Deeper
    <2>4. under = <<Head(under)>> \o Tail(under)
      BY <1>7, <2>2
    <2>5. On(text, pos', calls', out', T, W, K, Head(under), Tail(under), says, deep2)
      BY <1>3, <1>5, <2>1, <2>2, <2>4, Zenon DEF On
    <2>6. Onward(text, pos', calls', out', T, W, out, says, deep)
      BY <1>5, <2>3, <2>5, Zenon DEF Onward
    <2>7. phase' = "v0"
      BY <1>5, <1>7, Zenon DEF Reading
    <2> QED
      BY <1>5, <2>6, <2>7, Zenon DEF Advanced
  <1> QED
    BY <1>6, <1>7, Zenon

\* The node of the item that is next.
AtNode(T, W, K, top, under, says, deep, d, says2, deep2) ==
  /\ Reading(T, W, K, top, under, says, deep) /\ top # <<>>
  /\ NodeAhead(T, K, top, under, pos, says, deep, d, says2, deep2)

\* It is read from here on.
LEMMA NodeNext ==
  ASSUME NEW T, NEW W, NEW K, NEW top, NEW under, NEW says, NEW deep, NEW d, NEW says2, NEW deep2,
         AtNode(T, W, K, top, under, says, deep, d, says2, deep2)
  PROVE  /\ d \in T /\ d.item = Item /\ d.item = Head(top) /\ d.from = pos /\ pos \in Nat /\ d.to \in Nat
         /\ Tail(calls) = under /\ Rest = Tail(top) /\ Len(text) \in Nat
         /\ text \in Seq(W) /\ ParseTree(text, T, W) /\ InCall(W, top, under, says, deep)
         /\ On(text, pos, calls, out, T, W, K, top, under, says, deep) /\ Len(under) <= MaxDepth
  <1>1. InCall(W, top, under, says, deep)
    BY InCallIs, Zenon DEF AtNode
  <1>2. text \in Seq(W) => Len(text) \in Nat
    OBVIOUS
  <1>3. d \in T /\ d.item = Head(top) /\ d.from = pos
    BY Zenon DEF AtNode, NodeAhead
  <1>4. ParseTree(text, T, W)
    BY Zenon DEF AtNode, Reading, On
  <1>5. d.to \in Nat /\ d.from \in Nat
    BY <1>3, <1>4, Zenon DEF ParseTree
  <1>6. On(text, pos, calls, out, T, W, K, top, under, says, deep) /\ Len(under) <= MaxDepth
    BY Zenon DEF AtNode, Reading
  <1> QED
    BY <1>1, <1>2, <1>3, <1>4, <1>5, <1>6, Zenon DEF AtNode, InCall, AheadTyped

\* Too deep a call of path or type is refused.
LEMMA TooDeep ==
  ASSUME NEW T, NEW W, NEW K, NEW top, NEW under, NEW says, NEW deep, NEW d, NEW says2, NEW deep2,
         AtNode(T, W, K, top, under, says, deep, d, says2, deep2), NEW n \in Nat, d.nested = n + 1,
         ~(depth < MaxDepth), Throw
  PROVE  Advanced(T, W, says, deep)
  <1>1. AheadTyped(W, top, under, pos, says, deep)
    BY NodeNext, Zenon DEF InCall
  <1>2. depth = Len(under) /\ Len(under) \in Nat /\ deep \in Nat
    BY <1>1, Zenon DEF AtNode, Reading, AheadTyped
  <1>3. deep = Deeper(Len(under) + (n + 1), deep2)
    BY Zenon DEF AtNode, NodeAhead
  <1>4. MaxDepth < deep
    BY <1>2, <1>3, V0Assumption DEF Deeper
  <1> QED
    BY <1>4 DEF Advanced, Throw, Reject

-----------------------------------------------------------------------------
(* The productions.                                                        *)

\* A call of path.
LEMMA PathGoes ==
  ASSUME NEW T, NEW W, NEW K, NEW top, NEW under, NEW says, NEW deep, NEW d, NEW says2, NEW deep2,
         AtNode(T, W, K, top, under, says, deep, d, says2, deep2), path
  PROVE  Advanced(T, W, says, deep)
  <1>1. /\ d \in T /\ d.item = Item /\ d.item = Head(top) /\ d.from = pos /\ pos \in Nat /\ d.to \in Nat
        /\ Tail(calls) = under /\ Rest = Tail(top) /\ Len(text) \in Nat
        /\ text \in Seq(W) /\ ParseTree(text, T, W) /\ InCall(W, top, under, says, deep)
        /\ On(text, pos, calls, out, T, W, K, top, under, says, deep) /\ Len(under) <= MaxDepth
    BY NodeNext, Zenon
  <1>2. Item = "path"
    BY Zenon DEF path
  <1>3. PathWriting(text, T, W, d)
    BY <1>1, Zenon DEF ParseTree
  <1>4. /\ pos <= Len(text) /\ text[pos] \in DOMAIN PathBody
        /\ \E n \in Nat : d.nested = n + 1 /\ Row(T, W, PathBody[text[pos]], pos + 1, d.to, d.says, n)
    BY <1>1, <1>2, <1>3, Zenon DEF PathWriting
  <1>5. PICK n \in Nat : d.nested = n + 1 /\ Row(T, W, PathBody[text[pos]], pos + 1, d.to, d.says, n)
    BY <1>4, Zenon
  <1>6. ~AtEnd
    BY <1>1, <1>4 DEF AtEnd
  <1>7. CASE depth < MaxDepth
    <2>1. Enter(1, PathBody[text[pos]])
      BY <1>4, <1>6, <1>7, Zenon DEF path
    <2>2. /\ pos' = pos + 1 /\ calls' = <<PathBody[text[pos]], Tail(top)>> \o under
          /\ text' = text /\ out' = out /\ phase' = phase
      BY <1>1, <2>1, Zenon DEF Enter
    <2>3. top # <<>> /\ phase = "v0" /\ NodeAhead(T, K, top, under, pos, says, deep, d, says2, deep2)
      BY Zenon DEF AtNode, Reading
    <2>4. Head(top) # "member"
      BY <1>1, <1>2
    <2>5. Onward(text, pos + 1, <<PathBody[text[pos]], Tail(top)>> \o under, out, T, W, out, says, deep)
      BY <1>1, <1>5, <2>3, <2>4, CallGoes, Zenon
    <2> QED
      BY <2>2, <2>3, <2>5, Zenon DEF Advanced
  <1>8. CASE ~(depth < MaxDepth)
    <2>1. Throw
      BY <1>8, Zenon DEF path
    <2> QED
      BY <1>5, <1>8, <2>1, TooDeep, Zenon
  <1> QED
    BY <1>7, <1>8, Zenon

\* A call is entered.
LEMMA EnterGoes ==
  ASSUME NEW T, NEW W, NEW K, NEW top, NEW under, NEW says, NEW deep, NEW d, NEW says2, NEW deep2,
         AtNode(T, W, K, top, under, says, deep, d, says2, deep2), d.item # "member",
         NEW c, NEW items, Enter(c, items), NEW i, i = pos + c,
         NEW n \in Nat, d.nested = n + 1, Row(T, W, items, i, d.to, d.says, n)
  PROVE  Advanced(T, W, says, deep)
  <1>1. /\ d \in T /\ d.item = Item /\ d.item = Head(top) /\ d.from = pos /\ pos \in Nat /\ d.to \in Nat
        /\ Tail(calls) = under /\ Rest = Tail(top) /\ Len(text) \in Nat
        /\ text \in Seq(W) /\ ParseTree(text, T, W) /\ InCall(W, top, under, says, deep)
        /\ On(text, pos, calls, out, T, W, K, top, under, says, deep) /\ Len(under) <= MaxDepth
    BY NodeNext, Zenon
  <1>2. top # <<>> /\ phase = "v0" /\ NodeAhead(T, K, top, under, pos, says, deep, d, says2, deep2)
    BY Zenon DEF AtNode, Reading
  <1>3. /\ pos' = i /\ calls' = <<items, Tail(top)>> \o under
        /\ text' = text /\ out' = out /\ phase' = phase
    BY <1>1, Zenon DEF Enter
  <1>4. Onward(text, i, <<items, Tail(top)>> \o under, out, T, W, out, says, deep)
    BY <1>1, <1>2, CallGoes, Zenon
  <1> QED
    BY <1>2, <1>3, <1>4, Zenon DEF Advanced

\* A call of type.
LEMMA TypeGoes ==
  ASSUME NEW T, NEW W, NEW K, NEW top, NEW under, NEW says, NEW deep, NEW d, NEW says2, NEW deep2,
         AtNode(T, W, K, top, under, says, deep, d, says2, deep2), type
  PROVE  Advanced(T, W, says, deep)
  <1>1. /\ d \in T /\ d.item = Item /\ d.item = Head(top) /\ d.from = pos /\ pos \in Nat /\ d.to \in Nat
        /\ Tail(calls) = under /\ Rest = Tail(top) /\ Len(text) \in Nat
        /\ text \in Seq(W) /\ ParseTree(text, T, W) /\ InCall(W, top, under, says, deep)
        /\ On(text, pos, calls, out, T, W, K, top, under, says, deep) /\ Len(under) <= MaxDepth
    BY NodeNext, Zenon
  <1>2. top # <<>> /\ phase = "v0" /\ NodeAhead(T, K, top, under, pos, says, deep, d, says2, deep2)
    BY Zenon DEF AtNode, Reading
  <1>3. Item = "type"
    BY Zenon DEF type
  <1>4. TypeWriting(text, T, W, d)
    BY <1>1, Zenon DEF ParseTree
  <1>5. PICK n \in Nat :
          /\ d.nested = n + 1
          /\ IF text[pos] \in DOMAIN BasicTypes
             THEN Row(T, W, <<BasicTypes[text[pos]]>>, pos + 1, d.to, d.says, n)
             ELSE IF text[pos] \in DOMAIN TypeBody
             THEN Row(T, W, TypeBody[text[pos]], pos + 1, d.to, d.says, n)
             ELSE Row(T, W, <<"path">>, pos, d.to, d.says, n)
    BY <1>1, <1>3, <1>4, Zenon DEF TypeWriting
  <1>6. ~AtEnd
    <2>1. pos <= Len(text)
      BY <1>1, <1>3, <1>4, Zenon DEF TypeWriting
    <2> QED
      BY <1>1, <2>1 DEF AtEnd
  <1>7. d.item # "member"
    BY <1>1, <1>3
  <1>8. CASE depth < MaxDepth
    <2>1. TypeCall
      BY <1>6, <1>8, Zenon DEF type
    <2>2. CASE text[pos] \in DOMAIN BasicTypes
      <3>1. Enter(1, <<BasicTypes[text[pos]]>>)
        BY <2>1, <2>2, Zenon DEF TypeCall
      <3> QED
        BY <1>5, <1>7, <2>2, <3>1, EnterGoes, Zenon
    <2>3. CASE text[pos] \notin DOMAIN BasicTypes /\ text[pos] \in DOMAIN TypeBody
      <3>1. Enter(1, TypeBody[text[pos]])
        BY <2>1, <2>3, Zenon DEF TypeCall
      <3> QED
        BY <1>5, <1>7, <2>3, <3>1, EnterGoes, Zenon
    <2>4. CASE text[pos] \notin DOMAIN BasicTypes /\ text[pos] \notin DOMAIN TypeBody
      <3>1. Enter(0, <<"path">>)
        BY <2>1, <2>4, Zenon DEF TypeCall
      <3>2. pos = pos + 0
        BY <1>1
      <3> QED
        BY <1>5, <1>7, <2>4, <3>1, <3>2, EnterGoes, Zenon
    <2> QED
      BY <2>2, <2>3, <2>4, Zenon
  <1>9. CASE ~(depth < MaxDepth)
    <2>1. Throw
      BY <1>9, Zenon DEF type
    <2> QED
      BY <1>5, <1>9, <2>1, TooDeep, Zenon
  <1> QED
    BY <1>8, <1>9, Zenon

\* The call goes on with the items of the node.
LEMMA ContinueGoes ==
  ASSUME NEW T, NEW W, NEW K, NEW top, NEW under, NEW says, NEW deep, NEW d, NEW says2, NEW deep2,
         AtNode(T, W, K, top, under, says, deep, d, says2, deep2), d.item # "member",
         NEW items, Continue(items \o Rest), text' = text, out' = out, phase' = phase,
         Row(T, W, items, pos', d.to, d.says, d.nested)
  PROVE  Advanced(T, W, says, deep)
  <1>1. /\ d \in T /\ d.item = Item /\ d.item = Head(top) /\ d.from = pos /\ pos \in Nat /\ d.to \in Nat
        /\ Tail(calls) = under /\ Rest = Tail(top) /\ Len(text) \in Nat
        /\ text \in Seq(W) /\ ParseTree(text, T, W) /\ InCall(W, top, under, says, deep)
        /\ On(text, pos, calls, out, T, W, K, top, under, says, deep) /\ Len(under) <= MaxDepth
    BY NodeNext, Zenon
  <1>2. top # <<>> /\ phase = "v0" /\ NodeAhead(T, K, top, under, pos, says, deep, d, says2, deep2)
    BY Zenon DEF AtNode, Reading
  <1>3. calls' = <<items \o Tail(top)>> \o under
    BY <1>1, Zenon DEF Continue
  <1>4. Onward(text, pos', <<items \o Tail(top)>> \o under, out, T, W, out, says, deep)
    BY <1>1, <1>2, ItemsGo, Zenon
  <1> QED
    BY <1>2, <1>3, <1>4, Zenon DEF Advanced

\* A character that may be there or not.
LEMMA EatGoes ==
  ASSUME NEW T, NEW W, NEW K, NEW top, NEW under, NEW says, NEW deep, NEW d, NEW says2, NEW deep2,
         AtNode(T, W, K, top, under, says, deep, d, says2, deep2), Eat
  PROVE  Advanced(T, W, says, deep)
  <1>1. /\ d \in T /\ d.item = Item /\ d.item = Head(top) /\ d.from = pos /\ pos \in Nat /\ d.to \in Nat
        /\ Tail(calls) = under /\ Rest = Tail(top) /\ Len(text) \in Nat
        /\ text \in Seq(W) /\ ParseTree(text, T, W) /\ InCall(W, top, under, says, deep)
        /\ On(text, pos, calls, out, T, W, K, top, under, says, deep) /\ Len(under) <= MaxDepth
    BY NodeNext, Zenon
  <1>2. top # <<>> /\ phase = "v0" /\ NodeAhead(T, K, top, under, pos, says, deep, d, says2, deep2)
    BY Zenon DEF AtNode, Reading
  <1>3. Item \in DOMAIN Eats
    BY Zenon DEF Eat
  <1>4. EatWriting(text, T, W, d)
    BY <1>1, Zenon DEF ParseTree
  <1>5. Looking(Eats[Item][1]) <=> pos <= Len(text) /\ text[pos] = Eats[Item][1]
    BY DEF Looking, At
  <1>6. d.item # "member"
    <2>1. "member" \notin DOMAIN Eats
      BY DEF Eats
    <2> QED
      BY <1>1, <1>3, <2>1, Zenon
  <1>7. text' = text /\ out' = out /\ phase' = phase
    BY DEF Eat
  <1>8. CASE Looking(Eats[Item][1])
    <2>1. Continue(Eats[Item][2] \o Rest) /\ pos' = pos + 1
      BY <1>8, Zenon DEF Eat
    <2>2. Row(T, W, Eats[Item][2], pos', d.to, d.says, d.nested)
      BY <1>1, <1>3, <1>4, <1>5, <1>8, <2>1, Zenon DEF EatWriting
    <2> QED
      BY <1>6, <1>7, <2>1, <2>2, ContinueGoes, Zenon
  <1>9. CASE ~Looking(Eats[Item][1])
    <2>1. Continue(Eats[Item][3] \o Rest) /\ pos' = pos
      BY <1>9, Zenon DEF Eat
    <2>2. Row(T, W, Eats[Item][3], pos', d.to, d.says, d.nested)
      BY <1>1, <1>3, <1>4, <1>5, <1>9, <2>1, Zenon DEF EatWriting
    <2> QED
      BY <1>6, <1>7, <2>1, <2>2, ContinueGoes, Zenon
  <1> QED
    BY <1>8, <1>9, Zenon

\* The type of a constant and its value.
LEMMA TypedGoes ==
  ASSUME NEW T, NEW W, NEW K, NEW top, NEW under, NEW says, NEW deep, NEW d, NEW says2, NEW deep2,
         AtNode(T, W, K, top, under, says, deep, d, says2, deep2), Typed
  PROVE  Advanced(T, W, says, deep)
  <1>1. /\ d \in T /\ d.item = Item /\ d.item = Head(top) /\ d.from = pos /\ pos \in Nat /\ d.to \in Nat
        /\ Tail(calls) = under /\ Rest = Tail(top) /\ Len(text) \in Nat
        /\ text \in Seq(W) /\ ParseTree(text, T, W) /\ InCall(W, top, under, says, deep)
        /\ On(text, pos, calls, out, T, W, K, top, under, says, deep) /\ Len(under) <= MaxDepth
    BY NodeNext, Zenon
  <1>2. top # <<>> /\ phase = "v0" /\ NodeAhead(T, K, top, under, pos, says, deep, d, says2, deep2)
    BY Zenon DEF AtNode, Reading
  <1>3. Item = "typed"
    BY Zenon DEF Typed
  <1>4. TypedWriting(text, T, W, d)
    BY <1>1, Zenon DEF ParseTree
  <1>5. Looking("b") <=> pos <= Len(text) /\ text[pos] = "b"
    BY DEF Looking, At
  <1>6. d.item # "member"
    BY <1>1, <1>3
  <1>7. text' = text /\ out' = out /\ phase' = phase /\ pos' = pos
    BY DEF Typed, cursor
  <1> DEFINE items == <<"type", "unmute", IF Looking("b") THEN "boolsign" ELSE "sign">>
  <1>8. Continue(items \o Rest)
    BY DEF Typed
  <1>9. Row(T, W, items, pos', d.to, d.says, d.nested)
    BY <1>1, <1>3, <1>4, <1>5, <1>7, Zenon DEF TypedWriting
  <1> HIDE DEF items
  <1> QED
    BY <1>6, <1>7, <1>8, <1>9, ContinueGoes, Zenon

\* The node is read at once.
LEMMA ReadGoes ==
  ASSUME NEW T, NEW W, NEW K, NEW top, NEW under, NEW says, NEW deep, NEW d, NEW says2, NEW deep2,
         AtNode(T, W, K, top, under, says, deep, d, says2, deep2), d.nested = 0,
         Continue(Left(top, d)), pos' = d.to, text' = text, phase' = phase,
         out' = IF Mutes(Tail(top)) \/ Muting(under) THEN out ELSE out \o d.says
  PROVE  Advanced(T, W, says, deep)
  <1>1. /\ d \in T /\ d.item = Item /\ d.item = Head(top) /\ d.from = pos /\ pos \in Nat /\ d.to \in Nat
        /\ Tail(calls) = under /\ Rest = Tail(top) /\ Len(text) \in Nat
        /\ text \in Seq(W) /\ ParseTree(text, T, W) /\ InCall(W, top, under, says, deep)
        /\ On(text, pos, calls, out, T, W, K, top, under, says, deep) /\ Len(under) <= MaxDepth
    BY NodeNext, Zenon
  <1>2. top # <<>> /\ phase = "v0" /\ NodeAhead(T, K, top, under, pos, says, deep, d, says2, deep2)
    BY Zenon DEF AtNode, Reading
  <1>3. calls' = <<Left(top, d)>> \o under
    BY <1>1, Zenon DEF Continue
  <1>4. Onward(text, d.to, <<Left(top, d)>> \o under, out', T, W, out, says, deep)
    BY <1>1, <1>2, LeafGoes, Zenon
  <1> QED
    BY <1>2, <1>3, <1>4, Zenon DEF Advanced

\* A literal of the result.
LEMMA LiteralGoes ==
  ASSUME NEW T, NEW W, NEW K, NEW top, NEW under, NEW says, NEW deep, NEW d, NEW says2, NEW deep2,
         AtNode(T, W, K, top, under, says, deep, d, says2, deep2), Literal
  PROVE  Advanced(T, W, says, deep)
  <1>1. /\ d \in T /\ d.item = Item /\ d.item = Head(top) /\ d.from = pos /\ pos \in Nat /\ d.to \in Nat
        /\ Tail(calls) = under /\ Rest = Tail(top) /\ Len(text) \in Nat
        /\ text \in Seq(W) /\ ParseTree(text, T, W) /\ InCall(W, top, under, says, deep)
        /\ On(text, pos, calls, out, T, W, K, top, under, says, deep) /\ Len(under) <= MaxDepth
    BY NodeNext, Zenon
  <1>2. top # <<>> /\ phase = "v0" /\ NodeAhead(T, K, top, under, pos, says, deep, d, says2, deep2)
    BY Zenon DEF AtNode, Reading
  <1>3. Item \notin Functions
    BY Zenon DEF Literal
  <1>4. ItemWriting(d)
    BY <1>1, Zenon DEF ParseTree
  <1>5. d.to = pos /\ d.says = (IF Item = "unmute" THEN <<>> ELSE <<Item>>) /\ d.nested = 0
    BY <1>1, <1>3, <1>4, Zenon DEF ItemWriting
  <1>6. Item # "member"
    BY <1>3 DEF Functions
  <1>7. Left(top, d) = Tail(top)
    BY <1>1, <1>6, Zenon DEF Left
  <1>8. text' = text /\ phase' = phase /\ pos' = d.to /\ Continue(Left(top, d))
    BY <1>1, <1>5, <1>7 DEF Literal, cursor
  <1>9. out' = IF Mutes(Tail(top)) \/ Muting(under) THEN out ELSE out \o d.says
    <2>1. CASE Item = "unmute"
      <3>1. out' = out /\ d.says = <<>>
        BY <1>5, <2>1, Zenon DEF Literal
      <3>2. out \in Seq(W)
        BY <1>1, Zenon DEF InCall
      <3>3. out \o <<>> = out
        BY <3>2, ConcatEmptySeq
      <3> QED
        BY <3>1, <3>3, Zenon
    <2>2. CASE Item # "unmute"
      <3>1. Emit(<<Item>>) /\ d.says = <<Item>>
        BY <1>5, <2>2, Zenon DEF Literal
      <3>2. Head(top) # "unmute"
        BY <1>1, <2>2, Zenon
      <3> QED
        BY <1>1, <1>2, <3>1, <3>2, EmitIs, Zenon
    <2> QED
      BY <2>1, <2>2, Zenon
  <1> QED
    BY <1>5, <1>8, <1>9, ReadGoes, Zenon

\* A run of characters that are not in a set ends where one is.
LEMMA RunTo ==
  ASSUME NEW i \in Nat, 1 <= i, NEW e \in Nat, i <= e, e <= Len(text), Len(text) \in Nat, NEW X,
         \A k \in i..(e - 1) : text[k] \notin X, text[e] \in X
  PROVE  RunEnd(i, {text[k] : k \in 1..Len(text)} \ X) = e
  <1> DEFINE chars == {text[k] : k \in 1..Len(text)}
             class == chars \ X
  <1>0. PICK L \in Nat : L = Len(text)
    OBVIOUS
  <1>1. \A k \in i..(e - 1) : k \in 1..Len(text)
    BY <1>0
  <1>2. \A k \in i..(e - 1) : text[k] \in class
    BY <1>1
  <1>3. text[e] \notin class
    OBVIOUS
  <1>4. e \in i..(Len(text) + 1)
    BY <1>0
  <1> HIDE DEF class, chars
  <1>5. RunEnd(i, class) = e
    BY <1>2, <1>3, <1>4, RunEndIs
  <1> QED
    BY <1>5 DEF class, chars

\* A number in base 62.
LEMMA Base62Goes ==
  ASSUME NEW T, NEW W, NEW K, NEW top, NEW under, NEW says, NEW deep, NEW d, NEW says2, NEW deep2,
         AtNode(T, W, K, top, under, says, deep, d, says2, deep2), base62
  PROVE  Advanced(T, W, says, deep)
  <1>1. /\ d \in T /\ d.item = Item /\ d.item = Head(top) /\ d.from = pos /\ pos \in Nat /\ d.to \in Nat
        /\ Tail(calls) = under /\ Rest = Tail(top) /\ Len(text) \in Nat
        /\ text \in Seq(W) /\ ParseTree(text, T, W) /\ InCall(W, top, under, says, deep)
        /\ On(text, pos, calls, out, T, W, K, top, under, says, deep) /\ Len(under) <= MaxDepth
    BY NodeNext, Zenon
  <1>2. top # <<>> /\ phase = "v0" /\ NodeAhead(T, K, top, under, pos, says, deep, d, says2, deep2)
    BY Zenon DEF AtNode, Reading
  <1>3. Item = "base62"
    BY Zenon DEF base62
  <1>4. Base62Writing(text, d)
    BY <1>1, Zenon DEF ParseTree
  <1>5. PICK e \in Nat :
           /\ pos <= e /\ e <= Len(text) /\ text[e] = "_" /\ \A k \in pos..(e - 1) : text[k] \notin {"_", "$", "."}
           /\ d.to = e + 1
    BY <1>1, <1>3, <1>4, Zenon DEF Base62Writing
  <1>6. d.says = <<>> /\ d.nested = 0
    BY <1>1, <1>3, <1>4, Zenon DEF Base62Writing
  <1>7. 1 <= pos
    BY <1>1, Zenon DEF ParseTree
  <1>8. Len(text) \in Nat /\ pos \in Nat /\ text[e] \in {"_", "$", "."}
    BY <1>1, <1>5
  <1>10. RunEnd(pos, {text[k] : k \in 1..Len(text)} \ {"_", "$", "."}) = e
    BY <1>5, <1>7, <1>8, RunTo, Zenon
  <1>11. At(e, "_")
    BY <1>5 DEF At
  <1>12. /\ pos' = e + 1 /\ Continue(Rest) /\ text' = text /\ out' = out /\ phase' = phase
    BY <1>10, <1>11, Zenon DEF base62
  <1>13. Left(top, d) = Tail(top)
    BY <1>1, <1>3 DEF Left
  <1>14. out' = IF Mutes(Tail(top)) \/ Muting(under) THEN out ELSE out \o d.says
    <2>1. out \in Seq(W)
      BY <1>1, Zenon DEF InCall
    <2>2. out \o <<>> = out
      BY <2>1, ConcatEmptySeq
    <2> QED
      BY <1>6, <1>12, <2>2, Zenon
  <1>15. Continue(Left(top, d)) /\ pos' = d.to
    BY <1>1, <1>5, <1>12, <1>13, Zenon
  <1> QED
    BY <1>6, <1>12, <1>14, <1>15, ReadGoes, Zenon

\* The value of a constant.
LEMMA HexGoes ==
  ASSUME NEW T, NEW W, NEW K, NEW top, NEW under, NEW says, NEW deep, NEW d, NEW says2, NEW deep2,
         AtNode(T, W, K, top, under, says, deep, d, says2, deep2), hex_const
  PROVE  Advanced(T, W, says, deep)
  <1>1. /\ d \in T /\ d.item = Item /\ d.item = Head(top) /\ d.from = pos /\ pos \in Nat /\ d.to \in Nat
        /\ Tail(calls) = under /\ Rest = Tail(top) /\ Len(text) \in Nat
        /\ text \in Seq(W) /\ ParseTree(text, T, W) /\ InCall(W, top, under, says, deep)
        /\ On(text, pos, calls, out, T, W, K, top, under, says, deep) /\ Len(under) <= MaxDepth
    BY NodeNext, Zenon
  <1>2. top # <<>> /\ phase = "v0" /\ NodeAhead(T, K, top, under, pos, says, deep, d, says2, deep2)
    BY Zenon DEF AtNode, Reading
  <1>3. Item \in {"value", "boolvalue"}
    BY Zenon DEF hex_const
  <1>4. HexWriting(text, d)
    BY <1>1, Zenon DEF ParseTree
  <1> DEFINE value(e) == Hexadecimal(SubSeq(text, pos, e - 1))
  <1>5. PICK e \in Nat :
           /\ pos <= e /\ e <= Len(text) /\ text[e] = "_" /\ \A k \in pos..(e - 1) : text[k] \in HexSet
           /\ d.to = e + 1 /\ ~(value(e) > LongLongMax)
           /\ d.says = IF Item = "value" THEN Spelling[value(e)] ELSE IF value(e) = 1 THEN <<"true">> ELSE <<"false">>
    BY <1>1, <1>3, <1>4, Zenon DEF HexWriting
  <1>6. d.nested = 0
    BY <1>1, <1>3, <1>4, Zenon DEF HexWriting
  <1>7. 1 <= pos
    BY <1>1, Zenon DEF ParseTree
  <1>8. "_" \notin HexSet
    BY DigitsAre DEF HexSet, LowerSet
  <1>0. PICK L \in Nat, i \in Nat : L = Len(text) /\ i = pos
    BY <1>1
  <1>19. pos <= e /\ e <= Len(text) /\ text[e] = "_" /\ \A k \in pos..(e - 1) : text[k] \in HexSet
    BY <1>5, Zenon
  <1>20. 1 <= i /\ i <= e /\ e <= L /\ e \in i..(L + 1)
    <2>1. 1 <= i /\ i <= e /\ e <= L
      BY <1>0, <1>7, <1>19, Zenon
    <2> QED
      BY <2>1
  <1>9. HexEnd = e
    <2>1. \A k \in pos..(e - 1) : text[k] \notin {"_"}
      BY <1>8, <1>19, Zenon
    <2>2. text[e] \in {"_"} /\ Len(text) \in Nat /\ pos \in Nat
      BY <1>1, <1>19
    <2>3. RunEnd(pos, {text[k] : k \in 1..Len(text)} \ {"_"}) = e
      BY <1>7, <1>19, <2>1, <2>2, RunTo, Zenon
    <2> QED
      BY <2>3 DEF HexEnd
  <1>10. HexDigits = SubSeq(text, pos, e - 1)
    <2>2. \A k \in pos..(e - 1) : text[k] \in HexSet
      BY <1>19, Zenon
    <2>3. e \in pos..(Len(text) + 1)
      BY <1>0, <1>20
    <2>4. e <= Len(text) => text[e] \notin HexSet
      BY <1>8, <1>19, Zenon
    <2>5. RunEnd(pos, HexSet) = e
      BY <1>1, <2>2, <2>3, <2>4, RunEndIs
    <2> QED
      BY <2>5 DEF HexDigits
  <1>21. Hexadecimal(HexDigits) = value(e)
    BY <1>10, Zenon
  <1>11. ~(HexEnd > pos /\ (HexDigits = <<>> \/ Hexadecimal(HexDigits) > LongLongMax))
    <2>0. ~(value(e) > LongLongMax)
      BY <1>5, Zenon
    <2> SUFFICES ASSUME e > pos, SubSeq(text, pos, e - 1) = <<>> PROVE FALSE
      BY <1>9, <1>10, <1>21, <2>0, Zenon
    <2>1. pos \in Int /\ e - 1 \in Int /\ pos <= e - 1
      BY <1>1
    <2>2. \A k \in pos..(e - 1) : k \in 1..Len(text)
      BY <1>0, <1>20
    <2>3. \A k \in pos..(e - 1) : text[k] \in W
      BY <1>1, <2>2
    <2>4. Len(SubSeq(text, pos, e - 1)) = (e - 1) - pos + 1
      BY <2>1, <2>3, SubSeqProperties
    <2>5. Len(<<>>) = 0
      OBVIOUS
    <2>6. (e - 1) - pos + 1 > 0
      BY <2>1
    <2>7. (e - 1) - pos + 1 = 0
      BY <2>4, <2>5, Zenon
    <2> QED
      BY <2>6, <2>7
  <1>12. ~(HexEnd > Len(text))
    BY <1>0, <1>9, <1>20
  <1> HIDE DEF value
  <1>13. pos' = e + 1 /\ Continue(Rest) /\ text' = text /\ phase' = phase
    BY <1>9, <1>11, <1>12, Zenon DEF hex_const
  <1>14. Emit(d.says)
    <2>2. Emit(IF Item = "value" THEN Spelling[Hexadecimal(HexDigits)]
                      ELSE IF Hexadecimal(HexDigits) = 1 THEN <<"true">> ELSE <<"false">>)
      BY <1>11, Zenon DEF hex_const
    <2> QED
      BY <1>5, <1>21, <2>2, Zenon
  <1>15. Head(top) # "unmute" /\ Head(top) # "member"
    BY <1>1, <1>3
  <1>16. out' = IF Mutes(Tail(top)) \/ Muting(under) THEN out ELSE out \o d.says
    BY <1>1, <1>2, <1>14, <1>15, EmitIs, Zenon
  <1>17. Left(top, d) = Tail(top)
    BY <1>1, <1>15, Zenon DEF Left
  <1>18. Continue(Left(top, d)) /\ pos' = d.to
    BY <1>1, <1>5, <1>13, <1>17, Zenon
  <1> QED
    BY <1>6, <1>13, <1>16, <1>18, ReadGoes, Zenon

\* A name is found where it is written.
NameFound(c, j) ==
  /\ ~Looking("u") /\ NumberEnd # NumberAt /\ NameAt = c /\ NameEnd = j /\ NameEnd <= Len(text) + 1
  /\ Name = SubSeq(text, c, j - 1)

\* The number, the first byte and the end that identifier finds are the ones written.
LEMMA NameIs ==
  ASSUME NEW W, text \in Seq(W), pos \in Nat, 1 <= pos, NEW c \in Nat, NEW j \in Nat, NameWriting(text, pos, c, j)
  PROVE  NameFound(c, j)
  <1>0. PICK L \in Nat, i \in Nat : L = Len(text) /\ i = pos
    OBVIOUS
  <1>1. PICK b \in Nat, n \in Nat :
          /\ pos < b /\ (\A k \in pos..(b - 1) : text[k] \in DigitSet) /\ (b <= Len(text) => text[b] \notin DigitSet)
          /\ c = IF b <= Len(text) /\ text[b] = "_" THEN b + 1 ELSE b
          /\ n = Decimal(SubSeq(text, pos, b - 1)) /\ j = c + n /\ j <= Len(text) + 1
    BY DEF NameWriting
  <1>2. j <= L + 1 /\ j = c + n /\ i < b /\ b <= c
    <2>1. j <= L + 1 /\ j = c + n /\ i < b
      BY <1>0, <1>1, Zenon
    <2>2. c = b + 1 \/ c = b
      BY <1>1, Zenon
    <2>3. b <= c
      BY <2>2
    <2> QED
      BY <2>1, <2>3, Zenon
  <1>3. i <= L /\ b \in i..(L + 1) /\ c <= j /\ 1 <= c
    BY <1>2
  <1>4. \A k \in pos..(b - 1) : text[k] \in DigitSet
    BY <1>1, Zenon
  <1>5. text[pos] \in DigitSet
    <2>1. i \in i..(b - 1)
      BY <1>2
    <2> QED
      BY <1>0, <1>4, <2>1, Zenon
  <1>6. ~Looking("u")
    <2>1. "u" \notin DigitSet
      BY DigitsAre
    <2> QED
      BY <1>5, <2>1, Zenon DEF Looking, At
  <1>7. NumberAt = pos
    BY <1>6, Zenon DEF NumberAt
  <1>8. NumberEnd = b
    <2>1. b <= Len(text) => text[b] \notin DigitSet
      BY <1>1, Zenon
    <2>2. b \in pos..(Len(text) + 1)
      BY <1>0, <1>3
    <2>3. Len(text) \in Nat
      OBVIOUS
    <2>4. RunEnd(pos, DigitSet) = b
      BY <1>4, <2>1, <2>2, <2>3, RunEndIs, Zenon
    <2> QED
      BY <1>7, <2>4, Zenon DEF NumberEnd
  <1>9. NameAt = c
    BY <1>1, <1>8, Zenon DEF NameAt, At
  <1>10. NameEnd = j
    <2>1. NameEnd = c + Decimal(SubSeq(text, pos, b - 1))
      BY <1>7, <1>8, <1>9, Zenon DEF NameEnd
    <2>2. n = Decimal(SubSeq(text, pos, b - 1))
      BY <1>1, Zenon
    <2> QED
      BY <1>2, <2>1, <2>2, Zenon
  <1>11. NumberEnd # NumberAt
    BY <1>0, <1>2, <1>7, <1>8
  <1>12. NameEnd <= Len(text) + 1
    BY <1>0, <1>2, <1>10, Zenon
  <1>13. Name = SubSeq(text, c, j - 1)
    <2>1. Name = <<>> \o SubSeq(text, c, j - 1)
      BY <1>6, <1>9, <1>10, Zenon DEF Name
    <2>2. \A k \in c..(j - 1) : k \in 1..Len(text)
      BY <1>0, <1>2, <1>3
    <2>3. \A k \in c..(j - 1) : text[k] \in W
      BY <2>2
    <2>4. c \in Int /\ j - 1 \in Int
      OBVIOUS
    <2>5. SubSeq(text, c, j - 1) \in Seq(W)
      BY <2>3, <2>4, SubSeqProperties
    <2>6. <<>> \o SubSeq(text, c, j - 1) = SubSeq(text, c, j - 1)
      BY <2>5, ConcatEmptySeq
    <2> QED
      BY <2>1, <2>6, Zenon
  <1> QED
    BY <1>6, <1>9, <1>10, <1>11, <1>12, <1>13, Zenon DEF NameFound

\* A spelling that begins otherwise is another.
LEMMA NamedApart ==
  ASSUME NEW W, NEW bytes \in Seq(W)
  PROVE  <<"::">> \o bytes # <<"::{">>
  <1>0. PICK n \in Nat : n = Len(bytes)
    OBVIOUS
  <1>1. (<<"::">> \o bytes)[1] = "::"
    BY <1>0, Pushed
  <1>2. <<"::{">>[1] = "::{" /\ "::" # "::{"
    OBVIOUS
  <1> QED
    BY <1>1, <1>2, Zenon

\* A name.
LEMMA NameGoes ==
  ASSUME NEW T, NEW W, NEW K, NEW top, NEW under, NEW says, NEW deep, NEW d, NEW says2, NEW deep2,
         AtNode(T, W, K, top, under, says, deep, d, says2, deep2), identifier
  PROVE  Advanced(T, W, says, deep)
  <1>1. /\ d \in T /\ d.item = Item /\ d.item = Head(top) /\ d.from = pos /\ pos \in Nat /\ d.to \in Nat
        /\ Tail(calls) = under /\ Rest = Tail(top) /\ Len(text) \in Nat
        /\ text \in Seq(W) /\ ParseTree(text, T, W) /\ InCall(W, top, under, says, deep)
        /\ On(text, pos, calls, out, T, W, K, top, under, says, deep) /\ Len(under) <= MaxDepth
    BY NodeNext, Zenon
  <1>2. top # <<>> /\ phase = "v0" /\ NodeAhead(T, K, top, under, pos, says, deep, d, says2, deep2)
    BY Zenon DEF AtNode, Reading
  <1>3. Item \in {"identifier", "member"}
    BY Zenon DEF identifier
  <1>4. IdentifierWriting(text, d)
    BY <1>1, Zenon DEF ParseTree
  <1>5. PICK c \in Nat :
           /\ NameWriting(text, pos, c, d.to)
           /\ d.says = IF Item = "identifier" THEN SubSeq(text, c, d.to - 1)
                       ELSE IF c = d.to THEN <<"::{">> ELSE <<"::">> \o SubSeq(text, c, d.to - 1)
    BY <1>1, <1>3, <1>4, Zenon DEF IdentifierWriting
  <1>6. d.nested = 0
    BY <1>1, <1>3, <1>4, Zenon DEF IdentifierWriting
  <1>7. 1 <= pos
    BY <1>1, Zenon DEF ParseTree
  <1>8. NameFound(c, d.to)
    BY <1>1, <1>5, <1>7, NameIs, Zenon
  <1>9. ASSUME NEW spelling, NEW items, Named(spelling, items)
        PROVE  pos' = d.to /\ Emit(spelling) /\ Continue(items) /\ text' = text /\ phase' = phase
    <2>1. ~(NumberEnd = NumberAt \/ NameEnd > Len(text) + 1) /\ NameEnd = d.to
      <3>1. NumberEnd # NumberAt /\ NameEnd = d.to /\ NameEnd <= Len(text) + 1
        BY <1>8, Zenon DEF NameFound
      <3>2. ~(d.to > Len(text) + 1)
        <4>1. d.to <= Len(text) + 1
          BY <3>1, Zenon
        <4> QED
          BY <1>1, <4>1
      <3> QED
        BY <3>1, <3>2, Zenon
    <2> QED
      BY <1>9, <2>1, Zenon DEF Named
  <1>10. Head(top) # "unmute"
    BY <1>1, <1>3
  <1>11. ASSUME Named(d.says, Left(top, d)) PROVE Advanced(T, W, says, deep)
    <2>1. pos' = d.to /\ Emit(d.says) /\ Continue(Left(top, d)) /\ text' = text /\ phase' = phase
      BY <1>9, <1>11, Zenon
    <2>2. out' = IF Mutes(Tail(top)) \/ Muting(under) THEN out ELSE out \o d.says
      BY <1>1, <1>2, <1>10, <2>1, EmitIs, Zenon
    <2> QED
      BY <1>6, <2>1, <2>2, ReadGoes, Zenon
  <1>12. CASE Item = "identifier"
    <2>1. Named(Name, Rest)
      BY <1>8, <1>12 DEF identifier, NameFound
    <2>2. d.says = Name
      BY <1>5, <1>8, <1>12, Zenon DEF NameFound
    <2>3. d.item # "member"
      BY <1>1, <1>12
    <2>4. Left(top, d) = Rest
      BY <1>1, <2>3, Zenon DEF Left
    <2> QED
      BY <1>11, <2>1, <2>2, <2>4, Zenon
  <1>13. CASE Item = "member"
    <2>0. Item # "identifier"
      BY <1>13
    <2>1. IF d.to = c THEN Named(<<"::{">>, Rest) ELSE Named(<<"::">> \o Name, SubSeq(Rest, 3, Len(Rest)))
      <3>1. NameEnd = d.to /\ NameAt = c /\ ~Looking("u")
        BY <1>8, Zenon DEF NameFound
      <3> QED
        BY <2>0, <3>1, Zenon DEF identifier
    <2>2. CASE d.to = c
      <3>1. d.says = <<"::{">>
        BY <1>5, <2>0, <2>2, Zenon
      <3>2. Left(top, d) = Rest
        BY <1>1, <3>1, Zenon DEF Left
      <3> QED
        BY <1>11, <2>1, <2>2, <3>1, <3>2, Zenon
    <2>3. CASE d.to # c
      <3>1. d.says = <<"::">> \o Name
        BY <1>5, <1>8, <2>0, <2>3, Zenon DEF NameFound
      <3>2. d.says # <<"::{">>
        <4>1. PICK L \in Nat : L = Len(text)
          BY <1>1
        <4>2. 1 <= c /\ d.to <= L + 1
          <5>1. NameWriting(text, pos, c, d.to)
            BY <1>5, Zenon
          <5>2. PICK b \in Nat, n \in Nat :
              /\ pos < b /\ c = (IF b <= Len(text) /\ text[b] = "_" THEN b + 1 ELSE b) /\ d.to <= Len(text) + 1
            BY <5>1 DEF NameWriting
          <5>3. c = b + 1 \/ c = b
            BY <5>2, Zenon
          <5>4. d.to <= L + 1
            BY <4>1, <5>2, Zenon
          <5>5. pos < b
            BY <5>2, Zenon
          <5> QED
            BY <1>1, <5>3, <5>4, <5>5
        <4>3. \A k \in c..(d.to - 1) : k \in 1..Len(text)
          BY <1>1, <4>1, <4>2
        <4>4. \A k \in c..(d.to - 1) : text[k] \in W
          BY <1>1, <4>3
        <4>5. c \in Int /\ d.to - 1 \in Int
          BY <1>1
        <4>6. SubSeq(text, c, d.to - 1) \in Seq(W)
          BY <4>4, <4>5, SubSeqProperties
        <4>7. Name = SubSeq(text, c, d.to - 1)
          BY <1>8, Zenon DEF NameFound
        <4> QED
          BY <3>1, <4>6, <4>7, NamedApart, Zenon
      <3>3. Left(top, d) = SubSeq(Rest, 3, Len(Rest))
        BY <1>1, <1>13, <3>2, Zenon DEF Left
      <3> QED
        BY <1>11, <2>1, <2>3, <3>1, <3>3, Zenon
    <2> QED
      BY <2>2, <2>3, Zenon
  <1> QED
    BY <1>3, <1>12, <1>13

\* A call goes on behind one item.
LEMMA Longer ==
  ASSUME NEW W, NEW x \in W, NEW rest \in Seq(W)
  PROVE  /\ <<x>> \o rest \in Seq(W) /\ <<x>> \o rest # <<>>
         /\ Head(<<x>> \o rest) = x /\ Tail(<<x>> \o rest) = rest
  <1> DEFINE c == <<x>> \o rest
  <1>0. <<x>> \in Seq(W)
    OBVIOUS
  <1>1. c \in Seq(W)
    BY <1>0, ConcatProperties
  <1>2. Split(c, x, rest)
    BY CallsSplit
  <1> QED
    BY <1>1, <1>2, Zenon DEF Split

\* The items of a namespace.
FiveJoined(a, b, c, d, e, rest) == <<a, b>> \o (<<c>> \o (<<d, e>> \o rest)) = <<a, b, c, d, e>> \o rest

\* They are the items of the path, of the name and of what is printed for an empty one.
LEMMA FiveItems ==
  ASSUME NEW W, NEW a \in W, NEW b \in W, NEW c \in W, NEW d \in W, NEW e \in W, NEW rest \in Seq(W)
  PROVE  FiveJoined(a, b, c, d, e, rest)
  <1>0. \A p, q, r \in Seq(W) : (p \o q) \o r = p \o (q \o r)
    BY ConcatAssociative
  <1>1. /\ <<a, b>> \in Seq(W) /\ <<c>> \in Seq(W) /\ <<d, e>> \in Seq(W)
        /\ <<a, b, c>> \in Seq(W) /\ <<a, b, c, d, e>> \in Seq(W)
    OBVIOUS
  <1>2. <<d, e>> \o rest \in Seq(W)
    BY <1>1, ConcatProperties
  <1>3. <<a, b>> \o <<c>> = <<a, b, c>>
    <2> DEFINE s == <<a, b>> \o <<c>>
    <2>1. Len(<<a, b>>) = 2 /\ Len(<<c>>) = 1 /\ Len(<<a, b, c>>) = 3
      OBVIOUS
    <2>2. s \in Seq(W) /\ Len(s) = 2 + 1 /\ \A k \in 1..(2 + 1) : s[k] = IF k <= 2 THEN <<a, b>>[k] ELSE <<c>>[k - 2]
      BY <1>1, <2>1, ConcatProperties
    <2> HIDE DEF s
    <2>3. s[1] = a /\ s[2] = b /\ s[3] = c
      BY <2>2
    <2>4. \A k \in 1..3 : s[k] = <<a, b, c>>[k]
      BY <2>3
    <2>5. s = <<a, b, c>>
      BY <1>1, <2>1, <2>2, <2>4, SeqEqual
    <2> QED
      BY <2>5 DEF s
  <1>4. <<a, b, c>> \o <<d, e>> = <<a, b, c, d, e>>
    <2> DEFINE s == <<a, b, c>> \o <<d, e>>
    <2>1. Len(<<a, b, c>>) = 3 /\ Len(<<d, e>>) = 2 /\ Len(<<a, b, c, d, e>>) = 5
      OBVIOUS
    <2>2. s \in Seq(W) /\ Len(s) = 3 + 2 /\ \A k \in 1..(3 + 2) : s[k] = IF k <= 3 THEN <<a, b, c>>[k] ELSE <<d, e>>[k - 3]
      BY <1>1, <2>1, ConcatProperties
    <2> HIDE DEF s
    <2>3. s[1] = a /\ s[2] = b /\ s[3] = c /\ s[4] = d /\ s[5] = e
      BY <2>2
    <2>4. \A k \in 1..5 : s[k] = <<a, b, c, d, e>>[k]
      BY <2>3
    <2>5. s = <<a, b, c, d, e>>
      BY <1>1, <2>1, <2>2, <2>4, SeqEqual
    <2> QED
      BY <2>5 DEF s
  <1>5. <<a, b>> \o (<<c>> \o (<<d, e>> \o rest)) = <<a, b, c>> \o (<<d, e>> \o rest)
    <2> DEFINE p == <<a, b>>
               q == <<c>>
               r == <<d, e>> \o rest
               pq == <<a, b, c>>
    <2>1. p \in Seq(W) /\ q \in Seq(W) /\ r \in Seq(W) /\ p \o q = pq
      BY <1>1, <1>2, <1>3
    <2> HIDE DEF p, q, r, pq
    <2>2. p \o (q \o r) = pq \o r
      BY <1>0, <2>1, Zenon
    <2> QED
      BY <2>2 DEF p, q, r, pq
  <1>6. <<a, b, c>> \o (<<d, e>> \o rest) = <<a, b, c, d, e>> \o rest
    <2> DEFINE p == <<a, b, c>>
               q == <<d, e>>
               pq == <<a, b, c, d, e>>
    <2>1. p \in Seq(W) /\ q \in Seq(W) /\ p \o q = pq
      BY <1>1, <1>4
    <2> HIDE DEF p, q, pq
    <2>2. p \o (q \o rest) = pq \o rest
      BY <1>0, <2>1, Zenon
    <2> QED
      BY <2>2 DEF p, q, pq
  <1> QED
    BY <1>5, <1>6, Zenon DEF FiveJoined

\* A path in a namespace, and the name in it.
LEMMA NamespaceGoes ==
  ASSUME NEW T, NEW W, NEW K, NEW top, NEW under, NEW says, NEW deep, NEW d, NEW says2, NEW deep2,
         AtNode(T, W, K, top, under, says, deep, d, says2, deep2), Namespace
  PROVE  Advanced(T, W, says, deep)
  <1>1. /\ d \in T /\ d.item = Item /\ d.item = Head(top) /\ d.from = pos /\ pos \in Nat /\ d.to \in Nat
        /\ Tail(calls) = under /\ Rest = Tail(top) /\ Len(text) \in Nat
        /\ text \in Seq(W) /\ ParseTree(text, T, W) /\ InCall(W, top, under, says, deep)
        /\ On(text, pos, calls, out, T, W, K, top, under, says, deep) /\ Len(under) <= MaxDepth
    BY NodeNext, Zenon
  <1>2. top # <<>> /\ phase = "v0" /\ NodeAhead(T, K, top, under, pos, says, deep, d, says2, deep2)
    BY Zenon DEF AtNode, Reading
  <1>3. Item = "namespace"
    BY Zenon DEF Namespace
  <1> DEFINE c == text[pos]
             last == <<c, "}">>
             rest == Tail(top)
             mute == Mutes(rest) \/ Muting(under)
  <1>4. NamespaceWriting(text, T, W, d)
    BY <1>1, Zenon DEF ParseTree
  <1>5. pos <= Len(text) /\ c # "unmute" /\
        \E m \in T : \E before :
           /\ m.item = "member" /\ m.to = d.to
           /\ Row(T, W, <<"path", "disambiguator">>, pos + 1, m.from, before, d.nested)
           /\ Row(T, W, last, d.to, d.to, last, 0)
           /\ d.says = before \o (m.says \o (IF m.says = <<"::{">> THEN last ELSE <<>>))
    BY <1>1, <1>3, <1>4, Zenon DEF NamespaceWriting
  <1>6. PICK m \in T : \E before :
           /\ m.item = "member" /\ m.to = d.to
           /\ Row(T, W, <<"path", "disambiguator">>, pos + 1, m.from, before, d.nested)
           /\ Row(T, W, last, d.to, d.to, last, 0)
           /\ d.says = before \o (m.says \o (IF m.says = <<"::{">> THEN last ELSE <<>>))
    BY <1>5, Zenon
  <1>7. PICK before :
           /\ m.item = "member" /\ m.to = d.to
           /\ Row(T, W, <<"path", "disambiguator">>, pos + 1, m.from, before, d.nested)
           /\ Row(T, W, last, d.to, d.to, last, 0)
           /\ d.says = before \o (m.says \o (IF m.says = <<"::{">> THEN last ELSE <<>>))
    BY <1>6, Zenon
  <1> DEFINE X == IF m.says = <<"::{">> THEN last ELSE <<>>
             says3 == IF mute THEN says2 ELSE X \o says2
             says4 == IF mute THEN says3 ELSE m.says \o says3
             top3 == <<"member">> \o (last \o rest)
             first == <<"path", "disambiguator">>
  <1>8. Left(top, d) = rest
    BY <1>1, <1>3 DEF Left
  <1>9. /\ Ahead(rest, under, d.to, says2, deep2) \in K
        /\ says = IF mute THEN says2 ELSE d.says \o says2
        /\ deep = Deeper(Len(under) + d.nested, deep2)
    BY <1>2, <1>8, Zenon DEF NodeAhead
  <1>10. ParseTree(text, T, W) /\ Way(T, W, K) /\ out \in Seq(W)
    BY <1>1, Zenon DEF On
  <1>11. AheadTyped(W, rest, under, d.to, says2, deep2)
    BY <1>9, <1>10, AheadIs, Zenon
  <1>12. /\ rest \in Seq(W) /\ under \in Seq(Seq(W)) /\ says2 \in Seq(W)
         /\ deep2 \in Nat /\ Len(under) \in Nat /\ Len(under) <= deep2
    BY <1>11, Zenon DEF AheadTyped
  <1>13. m.says \in Seq(W) /\ m.nested \in Nat /\ m.from \in Nat /\ "member" \in W /\ d.says \in Seq(W) /\ IdentifierWriting(text, m)
    BY <1>1, <1>7, Zenon DEF ParseTree
  <1>14. m.nested = 0
    BY <1>7, <1>13 DEF IdentifierWriting
  <1>15. last \in Seq(W) /\ first \in Seq(W) /\ before \in Seq(W)
    <2>1. last \in Seq(W) /\ first \in Seq(W)
      BY <1>7, Zenon DEF Row, RowOf
    <2>2. PICK e, e2, s, n : RowOf(T, W, first, pos + 1, m.from, e, e2, s, n) /\ s[0] = before
      BY <1>7, Zenon DEF Row
    <2>3. s \in [0..Len(first) -> Seq(W)]
      BY <2>2, Zenon DEF RowOf
    <2>4. Len(first) = 2
      OBVIOUS
    <2>5. s[0] \in Seq(W)
      BY <2>3, <2>4
    <2> QED
      BY <2>1, <2>2, <2>5, Zenon
  <1>16. c \in W /\ "}" \in W /\ "path" \in W /\ "disambiguator" \in W
    <2>1. Len(last) = 2 /\ last[1] = c /\ last[2] = "}" /\ Len(first) = 2 /\ first[1] = "path" /\ first[2] = "disambiguator"
      OBVIOUS
    <2>2. \A q \in Seq(W) : Len(q) = 2 => q[1] \in W /\ q[2] \in W
      OBVIOUS
    <2> HIDE DEF last, first, c
    <2> QED
      BY <1>15, <2>1, <2>2
  <1>17. X \in Seq(W)
    <2>1. <<>> \in Seq(W)
      OBVIOUS
    <2> HIDE DEF last
    <2> QED
      BY <1>15, <2>1, Zenon
  <1>18. says3 \in Seq(W) /\ says4 \in Seq(W)
    <2> HIDE DEF X, mute
    <2>1. X \o says2 \in Seq(W)
      BY <1>12, <1>17, ConcatProperties
    <2>2. says3 \in Seq(W)
      BY <1>12, <2>1, Zenon
    <2> HIDE DEF says3
    <2>3. m.says \o says3 \in Seq(W)
      BY <1>13, <2>2, ConcatProperties
    <2> QED
      BY <2>2, <2>3, Zenon
  <1>19. ~Mutes(last)
    <2>1. Len(last) = 2 /\ last[1] = c /\ last[2] = "}"
      OBVIOUS
    <2> HIDE DEF last, c
    <2>0. \A k \in 1..2 : k = 1 \/ k = 2
      OBVIOUS
    <2>2. \A k \in 1..Len(last) : k = 1 \/ k = 2
      BY <2>0, <2>1, Zenon
    <2>3. "}" # "unmute"
      OBVIOUS
    <2> QED
      BY <1>5, <2>1, <2>2, <2>3, Zenon DEF Mutes
  <1>20. Mutes(last \o rest) <=> Mutes(rest)
    <2> HIDE DEF last, rest
    <2> QED
      BY <1>12, <1>15, <1>19, MutesBoth
  <1>21. last \o rest \in Seq(W)
    <2> HIDE DEF last, rest
    <2> QED
      BY <1>12, <1>15, ConcatProperties
  <1>22. top3 \in Seq(W) /\ top3 # <<>> /\ Head(top3) = "member" /\ Tail(top3) = last \o rest
    <2> HIDE DEF last, rest
    <2> QED
      BY <1>13, <1>21, Longer
  <1>23. Mutes(top3) <=> Mutes(rest)
    <2>1. Head(top3) # "unmute"
      BY <1>22
    <2>2. Mutes(top3) <=> Mutes(Tail(top3))
      <3> HIDE DEF top3
      <3> QED
        BY <1>22, <2>1, MutesBehind
    <2> QED
      BY <1>20, <1>22, <2>2, Zenon
  \* Behind the name.
  <1>24. \E K1 : Way(T, W, K1) /\ Ahead(Left(top3, m), under, m.to, says3, deep2) \in K1
    <2>1. CASE m.says = <<"::{">>
      <3> HIDE DEF last, rest, mute
      <3>1. RowBefore(T, W, K, rest, under, says2, deep2, last, d.to, last, 0)
        BY <1>7, <1>9, <1>10, RowAhead, Zenon
      <3>2. PICK K1 :
              /\ Way(T, W, K1) /\ K \subseteq K1
              /\ Ahead(last \o rest, under, d.to,
                       IF Mutes(rest) \/ Muting(under) THEN says2 ELSE last \o says2, Deeper(Len(under) + 0, deep2)) \in K1
        BY <3>1, Zenon DEF RowBefore
      <3>3. Deeper(Len(under) + 0, deep2) = deep2
        BY <1>12 DEF Deeper
      <3>4. X = last
        BY <2>1, Zenon
      <3>5. says3 = IF Mutes(rest) \/ Muting(under) THEN says2 ELSE last \o says2
        BY <3>4, Zenon DEF mute
      <3>6. Left(top3, m) = last \o rest
        BY <1>22, <2>1, Zenon DEF Left
      <3> QED
        BY <1>7, <3>2, <3>3, <3>5, <3>6, Zenon
    <2>2. CASE m.says # <<"::{">>
      <3>1. X = <<>>
        BY <2>2, Zenon
      <3>2. says3 = says2
        <4>1. <<>> \o says2 = says2
          BY <1>12, ConcatEmptySeq
        <4> QED
          BY <3>1, <4>1, Zenon
      <3>3. Left(top3, m) = rest
        <4>1. Left(top3, m) = SubSeq(last \o rest, 3, Len(last \o rest))
          BY <1>7, <1>22, <2>2, Zenon DEF Left
        <4>2. RestRemains(W, last, rest, 2)
          <5>1. 2 \in 0..Len(last)
            OBVIOUS
          <5> HIDE DEF last, rest
          <5> QED
            BY <1>12, <1>15, <5>1, Remain
        <4>3. Len(last) = 2 /\ 2 + 1 = 3
          OBVIOUS
        <4> HIDE DEF last, rest
        <4>4. Dropped(last, rest, 2) = rest
          BY <4>2, <4>3, Zenon DEF RestRemains
        <4> QED
          BY <4>1, <4>3, <4>4, Zenon DEF Dropped
      <3> QED
        BY <1>7, <1>9, <1>10, <3>2, <3>3, Zenon
    <2> QED
      BY <2>1, <2>2, Zenon
  <1>25. PICK K1 : Way(T, W, K1) /\ Ahead(Left(top3, m), under, m.to, says3, deep2) \in K1
    BY <1>24, Zenon
  <1>26. Lies(T, W, K1, top3, under, m.from, says4, deep2)
    <2> HIDE DEF says3, top3, last, rest
    <2>1. deep2 = Deeper(Len(under) + m.nested, deep2)
      BY <1>12, <1>14 DEF Deeper
    <2>2. says4 = IF Mutes(Tail(top3)) \/ Muting(under) THEN says3 ELSE m.says \o says3
      BY <1>20, <1>22, Zenon
    <2>3. m.item = Head(top3)
      BY <1>7, <1>22, Zenon
    <2> HIDE DEF says4
    <2> QED
      BY <1>12, <1>13, <1>18, <1>22, <1>25, <2>1, <2>2, <2>3, Zenon DEF Lies
  <1> DEFINE K2 == K1 \cup {Ahead(top3, under, m.from, says4, deep2)}
  <1>27. Way(T, W, K2)
    <2> HIDE DEF top3, says4
    <2> QED
      BY <1>25, <1>26, WayGrows
  <1>28. Ahead(top3, under, m.from, says4, deep2) \in K2
    OBVIOUS
  <1> HIDE DEF K2
  <1>29. RowBefore(T, W, K2, top3, under, says4, deep2, first, pos + 1, before, d.nested)
    <2> HIDE DEF top3, says4, first
    <2>1. Row(T, W, first, pos + 1, m.from, before, d.nested)
      BY <1>7, Zenon DEF first
    <2> QED
      BY <1>10, <1>27, <1>28, <2>1, RowAhead, Zenon
  <1>30. PICK K3 :
          /\ Way(T, W, K3) /\ K2 \subseteq K3
          /\ Ahead(first \o top3, under, pos + 1,
                   IF Mutes(top3) \/ Muting(under) THEN says4 ELSE before \o says4,
                   Deeper(Len(under) + d.nested, deep2)) \in K3
    <2> HIDE DEF top3, says4, first
    <2> QED
      BY <1>29, Zenon DEF RowBefore
  <1>31. (IF Mutes(top3) \/ Muting(under) THEN says4 ELSE before \o says4) = says
    <2>1. CASE mute
      <3> HIDE DEF top3
      <3> QED
        BY <1>9, <1>23, <2>1, Zenon
    <2>2. CASE ~mute
      <3>1. says4 = m.says \o (X \o says2) /\ says = d.says \o says2
        BY <1>9, <2>2, Zenon
      <3>2. d.says = before \o (m.says \o X)
        BY <1>7, Zenon
      <3> HIDE DEF X, says4, top3, rest
      <3>3. \A p, q, r \in Seq(W) : (p \o q) \o r = p \o (q \o r)
        BY ConcatAssociative
      <3>4. m.says \o X \in Seq(W)
        BY <1>13, <1>17, ConcatProperties
      <3>5. (before \o (m.says \o X)) \o says2 = before \o ((m.says \o X) \o says2)
        <4> DEFINE y == m.says \o X
        <4>1. y \in Seq(W)
          BY <3>4
        <4> HIDE DEF y
        <4>2. (before \o y) \o says2 = before \o (y \o says2)
          BY <1>12, <1>15, <3>3, <4>1, Zenon
        <4> QED
          BY <4>2 DEF y
      <3>6. (m.says \o X) \o says2 = m.says \o (X \o says2)
        BY <1>12, <1>13, <1>17, <3>3, Zenon
      <3>7. before \o says4 = says
        BY <3>1, <3>2, <3>5, <3>6, Zenon
      <3> QED
        BY <1>23, <2>2, <3>7, Zenon
    <2> QED
      BY <2>1, <2>2, Zenon
  <1> DEFINE five == <<"path", "disambiguator", "member", c, "}">>
  <1>32. first \o top3 = five \o rest
    <2> HIDE DEF rest, c
    <2>1. <<"path", "disambiguator">> \o (<<"member">> \o (<<c, "}">> \o rest))
          = <<"path", "disambiguator", "member", c, "}">> \o rest
      <3>1. PICK w1 \in W, w2 \in W, w3 \in W, w4 \in W, w5 \in W :
              w1 = "path" /\ w2 = "disambiguator" /\ w3 = "member" /\ w4 = c /\ w5 = "}"
        BY <1>13, <1>16, Zenon
      <3>2. <<w1, w2>> \o (<<w3>> \o (<<w4, w5>> \o rest)) = <<w1, w2, w3, w4, w5>> \o rest
        <4>1. FiveJoined(w1, w2, w3, w4, w5, rest)
          BY <1>12, FiveItems, Zenon
        <4> QED
          BY <4>1, Zenon DEF FiveJoined
      <3> QED
        BY <3>1, <3>2, Zenon
    <2> QED
      BY <2>1, Zenon DEF first, top3, five, last
  <1>33. Continue(five \o Rest) /\ pos' = pos + 1 /\ text' = text /\ out' = out /\ phase' = phase
    <2>0. pos <= Len(text) /\ pos \in Nat /\ Len(text) \in Nat
      BY <1>1, <1>5, Zenon
    <2>1. ~AtEnd
      BY <2>0 DEF AtEnd
    <2> QED
      BY <2>1, Zenon DEF Namespace
  <1> HIDE DEF five, first, top3, says4, rest
  <1>34. calls' = <<five \o rest>> \o under
    BY <1>1, <1>33, Zenon DEF Continue, rest
  <1>35. Ahead(five \o rest, under, pos + 1, says, deep) \in K3
    BY <1>9, <1>30, <1>31, <1>32, Zenon
  <1>36. On(text, pos', calls', out', T, W, K3, five \o rest, under, says, deep)
    BY <1>10, <1>30, <1>33, <1>34, <1>35, Zenon DEF On
  <1>37. Onward(text, pos', calls', out', T, W, out, says, deep)
    BY <1>33, <1>36, Zenon DEF Onward
  <1> QED
    BY <1>2, <1>33, <1>37, Zenon DEF Advanced

-----------------------------------------------------------------------------

\* A step of the v0 parser goes on towards the end of what is written.
LEMMA V0Goes ==
  ASSUME NEW T, NEW W, NEW K, NEW top, NEW under, NEW says, NEW deep, Reading(T, W, K, top, under, says, deep),
         V0Step
  PROVE  Advanced(T, W, says, deep)
  <1>1. CASE Return
    BY <1>1, ReturnGoes, Zenon
  <1>2. CASE Head(calls) # <<>>
    <2>1. top # <<>>
      BY <1>2, InCallIs, Zenon DEF InCall
    <2>2. On(text, pos, calls, out, T, W, K, top, under, says, deep)
      BY Zenon DEF Reading
    <2>3. PICK d, says2, deep2 : NodeAhead(T, K, top, under, pos, says, deep, d, says2, deep2)
      BY <2>1, <2>2, NodeIs, Zenon
    <2>4. AtNode(T, W, K, top, under, says, deep, d, says2, deep2)
      BY <2>1, <2>3, Zenon DEF AtNode
    <2>5. CASE path
      BY <2>4, <2>5, PathGoes, Zenon
    <2>6. CASE type
      BY <2>4, <2>6, TypeGoes, Zenon
    <2>7. CASE Eat
      BY <2>4, <2>7, EatGoes, Zenon
    <2>8. CASE Namespace
      BY <2>4, <2>8, NamespaceGoes, Zenon
    <2>9. CASE base62
      BY <2>4, <2>9, Base62Goes, Zenon
    <2>10. CASE identifier
      BY <2>4, <2>10, NameGoes, Zenon
    <2>11. CASE Typed
      BY <2>4, <2>11, TypedGoes, Zenon
    <2>12. CASE hex_const
      BY <2>4, <2>12, HexGoes, Zenon
    <2>13. CASE Literal
      BY <2>4, <2>13, LiteralGoes, Zenon
    <2>14. path \/ type \/ Eat \/ Namespace \/ base62 \/ identifier \/ Typed \/ hex_const \/ Literal
      <3>1. ~Return
        BY <1>2, Zenon DEF Return
      <3> QED
        BY <3>1, Zenon DEF V0Step
    <2> QED
      BY <2>5, <2>6, <2>7, <2>8, <2>9, <2>10, <2>11, <2>12, <2>13, <2>14, Zenon
  <1> QED
    BY <1>1, <1>2, Zenon DEF V0Step

-----------------------------------------------------------------------------
(* The prefixes of thunks.                                                 *)

\* A thunk prefix stands behind k others.
Thunk(s, k) == Prefixed(From(s, 2 * k + 1), <<"j", "_">>)

\* StripThunks is the function of the number of thunks that StripStep determines.
StripStep(s, f) ==
  f = [k \in 0..(Len(s) \div 2) |->
        IF Prefixed(From(s, 2 * k + 1), <<"j", "_">>) THEN f[k + 1] ELSE From(s, 2 * k + 1)]

\* It is that function at the beginning.
LEMMA StripUnfolds == ASSUME NEW s PROVE StripThunks(s) = (CHOOSE f : StripStep(s, f))[0]
  BY Zenon DEF StripThunks, StripStep

\* A thunk prefix has two characters.
LEMMA ThunkFits ==
  ASSUME NEW W, NEW s \in Seq(W), NEW k \in Nat, Thunk(s, k)
  PROVE  2 * k + 2 <= Len(s)
  <1>0. PICK L \in Nat : L = Len(s)
    OBVIOUS
  <1> DEFINE i == 2 * k + 1
             u == SubSeq(s, i, L)
  <1>1. i \in Int /\ L \in Int /\ i >= 1
    OBVIOUS
  <1>2. \A h \in i..L : s[h] \in W
    BY <1>0, <1>1
  <1> HIDE DEF i
  <1>3. Len(u) = IF i <= L THEN L - i + 1 ELSE 0
    BY <1>1, <1>2, SubSeqProperties
  <1>4. Len(<<"j", "_">>) = 2
    OBVIOUS
  <1>5. Len(u) >= 2
    <2>1. Len(From(s, i)) >= Len(<<"j", "_">>)
      BY Zenon DEF Thunk, Prefixed, i
    <2>2. From(s, i) = u
      BY <1>0, Zenon DEF From
    <2> HIDE DEF u
    <2> QED
      BY <1>4, <2>1, <2>2, Zenon
  <1> HIDE DEF u
  <1>6. L - i + 1 >= 2
    BY <1>0, <1>1, <1>3, <1>5
  <1> QED
    BY <1>0, <1>6 DEF i

\* The last of the thunks that begin with the one behind k others has r before it.
LastThunk(s, k, r) == r \in Nat /\ k <= r /\ ~Thunk(s, r) /\ \A l \in k..(r - 1) : Thunk(s, l)

\* There is a last thunk, as a symbol is finite.
LEMMA LastThunkIs ==
  ASSUME NEW W, NEW s \in Seq(W), NEW k \in Nat
  PROVE  \E r : LastThunk(s, k, r)
  <1>0. PICK L \in Nat : L = Len(s)
    OBVIOUS
  <1> DEFINE R == {r \in Nat : k <= r /\ ~Thunk(s, r)}
  <1>1. R # {}
    <2>1. k + L \in Nat /\ ~(2 * (k + L) + 2 <= Len(s))
      BY <1>0
    <2>2. ~Thunk(s, k + L)
      BY <2>1, ThunkFits
    <2> QED
      BY <2>1, <2>2
  <1>2. R \subseteq Nat
    OBVIOUS
  <1> HIDE DEF R
  <1>3. PICK r \in R : \A l \in R : r <= l
    BY <1>1, <1>2, LeastNumber, Zenon
  <1>4. r \in Nat /\ k <= r /\ ~Thunk(s, r)
    BY <1>3 DEF R
  <1>5. ASSUME NEW l \in k..(r - 1) PROVE Thunk(s, l)
    <2>1. l \in Nat /\ k <= l /\ ~(r <= l)
      BY <1>4
    <2>2. l \notin R
      BY <1>3, <2>1
    <2> QED
      BY <2>1, <2>2 DEF R
  <1> QED
    BY <1>4, <1>5 DEF LastThunk

\* So there is such a function.
LEMMA StripExists ==
  ASSUME NEW W, NEW s \in Seq(W)
  PROVE  StripStep(s, CHOOSE f : StripStep(s, f))
  <1> DEFINE H == Len(s) \div 2
             last(k) == CHOOSE r : LastThunk(s, k, r)
             f == [k \in 0..H |-> From(s, 2 * last(k) + 1)]
  <1>0. PICK L \in Nat : L = Len(s)
    OBVIOUS
  <1>1. H \in Nat /\ L < 2 * H + 2
    BY <1>0
  <1>2. ASSUME NEW k \in Nat PROVE LastThunk(s, k, last(k))
    BY LastThunkIs, Zenon
  <1> HIDE DEF H, last
  <1>3. ASSUME NEW k \in 0..H
        PROVE  f[k] = IF Prefixed(From(s, 2 * k + 1), <<"j", "_">>) THEN f[k + 1] ELSE From(s, 2 * k + 1)
    <2>0. k \in Nat /\ k + 1 \in Nat
      BY <1>1
    <2>1. LastThunk(s, k, last(k)) /\ LastThunk(s, k + 1, last(k + 1))
      BY <1>2, <2>0
    <2>2. f[k] = From(s, 2 * last(k) + 1)
      OBVIOUS
    <2>3. CASE Thunk(s, k)
      <3>1. 2 * k + 2 <= Len(s)
        BY <2>0, <2>3, ThunkFits
      <3>2. k + 1 \in 0..H
        BY <1>0, <1>1, <3>1
      <3>3. f[k + 1] = From(s, 2 * last(k + 1) + 1)
        BY <3>2
      <3>4. last(k) = last(k + 1)
        <4>1. PICK a, b : a = last(k) /\ b = last(k + 1)
          OBVIOUS
        <4>2. /\ a \in Nat /\ k <= a /\ ~Thunk(s, a) /\ \A l \in k..(a - 1) : Thunk(s, l)
              /\ b \in Nat /\ k + 1 <= b /\ ~Thunk(s, b) /\ \A l \in (k + 1)..(b - 1) : Thunk(s, l)
          BY <2>1, <4>1, Zenon DEF LastThunk
        <4>3. a # k
          BY <2>3, <4>2, Zenon
        <4>4. ~(a < b)
          <5> SUFFICES ASSUME a < b PROVE FALSE
            OBVIOUS
          <5>1. a \in (k + 1)..(b - 1)
            BY <2>0, <4>2, <4>3
          <5> QED
            BY <4>2, <5>1, Zenon
        <4>5. ~(b < a)
          <5> SUFFICES ASSUME b < a PROVE FALSE
            OBVIOUS
          <5>1. b \in k..(a - 1)
            BY <2>0, <4>2
          <5> QED
            BY <4>2, <5>1, Zenon
        <4>6. a = b
          BY <4>2, <4>4, <4>5
        <4> QED
          BY <4>1, <4>6, Zenon
      <3> QED
        BY <2>2, <2>3, <3>3, <3>4, Zenon DEF Thunk
    <2>4. CASE ~Thunk(s, k)
      <3>1. PICK a : a = last(k)
        OBVIOUS
      <3>2. a \in Nat /\ k <= a /\ \A l \in k..(a - 1) : Thunk(s, l)
        BY <2>1, <3>1, Zenon DEF LastThunk
      <3>3. ~(k < a)
        <4> SUFFICES ASSUME k < a PROVE FALSE
          OBVIOUS
        <4>1. k \in k..(a - 1)
          BY <2>0, <3>2
        <4> QED
          BY <2>4, <3>2, <4>1, Zenon
      <3>4. a = k
        BY <2>0, <3>2, <3>3
      <3> QED
        BY <2>2, <2>4, <3>1, <3>4, Zenon DEF Thunk
    <2> QED
      BY <2>3, <2>4
  <1>4. StripStep(s, f)
    <2>1. f = [k \in 0..H |-> f[k]]
      OBVIOUS
    <2> HIDE DEF f
    <2>2. f = [k \in 0..H |-> IF Prefixed(From(s, 2 * k + 1), <<"j", "_">>) THEN f[k + 1] ELSE From(s, 2 * k + 1)]
      BY <1>3, <2>1, Zenon
    <2> QED
      BY <2>2, Zenon DEF StripStep, H
  <1> QED
    BY <1>4, Zenon

\* As many thunk prefixes as there are are stripped.
LEMMA Stripped ==
  ASSUME NEW W, NEW s \in Seq(W), NEW n \in Nat, \A k \in 0..(n - 1) : Thunk(s, k), ~Thunk(s, n)
  PROVE  StripThunks(s) = From(s, 2 * n + 1)
  <1> DEFINE f == CHOOSE f : StripStep(s, f)
             H == Len(s) \div 2
             S == {j \in Nat : f[j] = From(s, 2 * n + 1)}
  <1>0. PICK L \in Nat : L = Len(s)
    OBVIOUS
  <1>1. H \in Nat /\ L < 2 * H + 2
    BY <1>0
  <1>2. StripStep(s, f)
    BY StripExists, Zenon
  <1> HIDE DEF f
  <1>3. f = [k \in 0..H |-> IF Prefixed(From(s, 2 * k + 1), <<"j", "_">>) THEN f[k + 1] ELSE From(s, 2 * k + 1)]
    BY <1>2, Zenon DEF StripStep
  <1> HIDE DEF H
  <1>4. ASSUME NEW k \in 0..H PROVE f[k] = IF Thunk(s, k) THEN f[k + 1] ELSE From(s, 2 * k + 1)
    BY <1>3, Zenon DEF Thunk
  <1>5. n \in 0..H
    <2>1. CASE n = 0
      BY <1>1, <2>1
    <2>2. CASE n # 0
      <3>1. n - 1 \in 0..(n - 1) /\ n - 1 \in Nat
        BY <2>2
      <3>2. Thunk(s, n - 1)
        BY <3>1
      <3>3. 2 * (n - 1) + 2 <= Len(s)
        BY <3>1, <3>2, ThunkFits
      <3> QED
        BY <1>0, <1>1, <3>3
    <2> QED
      BY <2>1, <2>2
  <1>6. n \in S
    <2>1. f[n] = From(s, 2 * n + 1)
      BY <1>4, <1>5
    <2> QED
      BY <2>1
  <1>7. ASSUME NEW j \in 1..n, j \in S PROVE j - 1 \in S
    <2>1. j - 1 \in 0..H /\ j - 1 \in 0..(n - 1) /\ (j - 1) + 1 = j /\ j - 1 \in Nat
      BY <1>1, <1>5
    <2>2. Thunk(s, j - 1)
      BY <2>1
    <2>3. f[j - 1] = f[(j - 1) + 1]
      BY <1>4, <2>1, <2>2
    <2>4. f[j - 1] = From(s, 2 * n + 1)
      BY <1>7, <2>1, <2>3
    <2> QED
      BY <2>1, <2>4
  <1> HIDE DEF S
  <1>8. 0 \in S
    <2>1. \A j \in 0..n : j \in S
      BY <1>6, <1>7, DownInduction
    <2> QED
      BY <2>1
  <1>9. f[0] = From(s, 2 * n + 1)
    BY <1>8 DEF S
  <1> QED
    BY <1>9, StripUnfolds, Zenon DEF f

-----------------------------------------------------------------------------
(* How a legacy symbol is written.                                         *)

\* A component: its length, which is all the digits that stand at i, and as many
\* characters, from b to j.
ComponentWriting(t, i, b, j) ==
  /\ i < b /\ b <= Len(t) + 1
  /\ (\A k \in i..(b - 1) : t[k] \in DigitSet) /\ (b <= Len(t) => t[b] \notin DigitSet)
  /\ \E n \in Nat : n = Decimal(SubSeq(t, i, b - 1)) /\ j = b + n

\* Components one behind the other, which decode_legacy_ident makes parts.
LegacyWriting(t, W, n, at, parts, S) ==
  /\ t \in Seq(W) /\ Len(t) < WordSize
  /\ n \in Nat /\ n <= MaxParts /\ parts \in Seq(S) /\ Len(parts) = n
  /\ at \in [0..n -> Nat] /\ at[0] = 1
  /\ \A k \in 1..n : at[k] <= Len(t) + 1 /\
       \E b \in Nat : ComponentWriting(t, at[k - 1], b, at[k]) /\ parts[k] = decode_legacy_ident(SubSeq(t, b, at[k] - 1))

\* Behind them the symbol ends, or there is no length, or one that goes beyond the end.
LegacyEnd(t, i) == i > Len(t) \/ t[i] = "E"
\* (A length at which the arithmetic of size_t wraps is neither.)
LegacyBreak(t, i) ==
  /\ i <= Len(t) /\ t[i] # "E"
  /\ \/ t[i] \notin DigitSet
     \/ \E b \in Nat, j \in Nat : ComponentWriting(t, i, b, j) /\ j > Len(t) + 1 /\ (j <= WordSize \/ j >= b + WordSize)

\* What the n components say: the path of them, or nothing.
LegacySays(t, n, at, parts, m) ==
  \/ LegacyEnd(t, at[n]) /\ n > 0 /\ m.path = WithoutHash(Joined(parts)) /\ m.nested = 0
  \/ LegacyEnd(t, at[n]) /\ n = 0 /\ m.path = m.symbol
  \/ LegacyBreak(t, at[n]) /\ m.path = m.symbol

\* The parser has read k components.
LegacyOn(t, W, n, at, parts, S, p, o, k) ==
  /\ LegacyWriting(t, W, n, at, parts, S) /\ k \in 0..n
  /\ p = at[k] /\ o \in Seq(S) /\ Len(o) = k /\ \A l \in 1..k : o[l] = parts[l]

\* A component is found where it is written.
LEMMA ComponentIs ==
  ASSUME NEW W, text \in Seq(W), pos \in Nat, NEW b \in Nat, NEW j \in Nat, ComponentWriting(text, pos, b, j)
  PROVE  ~AtEnd /\ ~Looking("E") /\ LengthEnd = b /\ b # pos /\ ComponentLength = j - b /\ b <= j
  <1>0. PICK L \in Nat, i \in Nat : L = Len(text) /\ i = pos
    OBVIOUS
  <1>1. i < b /\ b <= L + 1 /\ \A k \in i..(b - 1) : text[k] \in DigitSet
    BY <1>0, Zenon DEF ComponentWriting
  <1>2. text[i] \in DigitSet
    <2>1. i \in i..(b - 1)
      BY <1>1
    <2> QED
      BY <1>1, <2>1, Zenon
  <1>3. ~AtEnd
    BY <1>0, <1>1 DEF AtEnd
  <1>4. ~Looking("E")
    <2>1. "E" \notin DigitSet
      BY DigitsAre
    <2> QED
      BY <1>0, <1>2, <2>1, Zenon DEF Looking, At
  <1>5. LengthEnd = b
    <2>1. b \in pos..(Len(text) + 1) /\ Len(text) \in Nat
      BY <1>0, <1>1
    <2>2. b <= Len(text) => text[b] \notin DigitSet
      BY Zenon DEF ComponentWriting
    <2>3. \A k \in pos..(b - 1) : text[k] \in DigitSet
      BY Zenon DEF ComponentWriting
    <2> QED
      BY <2>1, <2>2, <2>3, RunEndIs, Zenon DEF LengthEnd
  <1>6. ComponentLength = j - b /\ b <= j
    <2>1. PICK n \in Nat : n = Decimal(SubSeq(text, pos, b - 1)) /\ j = b + n
      BY Zenon DEF ComponentWriting
    <2>2. ComponentLength = n
      BY <1>5, <2>1, Zenon DEF ComponentLength
    <2>4. n = j - b /\ b <= j
      BY <2>1
    <2> QED
      BY <2>2, <2>4
  <1> QED
    BY <1>0, <1>1, <1>3, <1>4, <1>5, <1>6

\* A number below its modulus is its own remainder.
LEMMA Unwrapped == \A n, w \in Nat : n < w => n % w = n
  OBVIOUS

\* The next component is read.
LEMMA ComponentGoes ==
  ASSUME NEW W, NEW n, NEW at, NEW parts, NEW S, NEW k, LegacyOn(text, W, n, at, parts, S, pos, out, k),
         LegacyStep, k < n
  PROVE  phase' = "legacy" /\ text' = text /\ LegacyOn(text, W, n, at, parts, S, pos', out', k + 1)
  <1>0. PICK L \in Nat : L = Len(text)
    BY DEF LegacyOn, LegacyWriting
  <1>1. /\ text \in Seq(W) /\ n \in Nat /\ n <= MaxParts /\ parts \in Seq(S) /\ Len(parts) = n
        /\ at \in [0..n -> Nat] /\ k \in 0..n /\ pos = at[k] /\ out \in Seq(S) /\ Len(out) = k
        /\ (\A l \in 1..k : out[l] = parts[l]) /\ L < WordSize
    BY <1>0, Zenon DEF LegacyOn, LegacyWriting
  <1>2. k + 1 \in 1..n /\ (k + 1) - 1 = k /\ k \in Nat
    BY <1>1
  <1>3. pos \in Nat /\ at[k + 1] \in Nat
    BY <1>1, <1>2
  <1>4. at[k + 1] <= L + 1 /\
       \E b \in Nat : /\ ComponentWriting(text, pos, b, at[k + 1])
                      /\ parts[k + 1] = decode_legacy_ident(SubSeq(text, b, at[k + 1] - 1))
    <2>1. \A h \in 1..n : at[h] <= L + 1 /\
       \E b \in Nat : /\ ComponentWriting(text, at[h - 1], b, at[h])
                      /\ parts[h] = decode_legacy_ident(SubSeq(text, b, at[h] - 1))
      BY <1>0, Zenon DEF LegacyOn, LegacyWriting
    <2> QED
      BY <1>1, <1>2, <2>1, Zenon
  <1>5. PICK b \in Nat : /\ ComponentWriting(text, pos, b, at[k + 1])
                         /\ parts[k + 1] = decode_legacy_ident(SubSeq(text, b, at[k + 1] - 1))
    BY <1>4, Zenon
  <1>6. PICK j \in Nat : j = at[k + 1]
    BY <1>3
  <1>7. ~AtEnd /\ ~Looking("E") /\ LengthEnd = b /\ b # pos /\ ComponentLength = j - b /\ b <= j
    BY <1>1, <1>3, <1>5, <1>6, ComponentIs, Zenon
  <1>8. j <= L + 1 /\ WordSize \in Nat /\ 1 <= b
    <2>1. pos < b
      BY <1>5, Zenon DEF ComponentWriting
    <2>2. 1 <= b
      BY <1>3, <2>1
    <2> QED
      BY <1>4, <1>6, <2>2, LegacyAssumption
  <1>9. ComponentEnd = j - 1
    <2>1. ComponentEnd = (b - 1 + (j - b)) % WordSize
      BY <1>7, Zenon DEF ComponentEnd
    <2>2. b - 1 + (j - b) = j - 1 /\ j - 1 \in Nat /\ j - 1 < WordSize
      BY <1>1, <1>7, <1>8
    <2> QED
      BY <1>8, <2>1, <2>2, Unwrapped, Zenon
  <1>10. ~Malformed
    <2>1. ~(j - b >= WordSize) /\ ~(j - 1 > L)
      BY <1>1, <1>8
    <2> QED
      BY <1>0, <1>7, <1>9, <2>1, Zenon DEF Malformed
  <1>11. ~LegacyEnds
    BY <1>7, Zenon DEF LegacyEnds
  <1>12. Component
    BY <1>10, <1>11, Zenon DEF LegacyStep
  <1>13. Identifier = SubSeq(text, b, j - 1)
    <2>1. ~(j - b > L + 1 - b) /\ b + (j - b) - 1 = j - 1
      BY <1>8
    <2> QED
      BY <1>0, <1>7, <2>1, Zenon DEF Identifier
  <1>14. out' = Append(out, parts[k + 1])
    <2>1. \E ident \in {Identifier} : out' = IF Len(out) < MaxParts THEN Append(out, decode_legacy_ident(ident)) ELSE out
      BY <1>12, Zenon DEF Component
    <2>2. Len(out) < MaxParts
      BY <1>1, <1>2, LegacyAssumption
    <2>3. out' = Append(out, decode_legacy_ident(Identifier))
      BY <2>1, <2>2, Zenon
    <2> QED
      BY <1>5, <1>6, <1>13, <2>3, Zenon
  <1>15. parts[k + 1] \in S
    BY <1>1, <1>2
  <1>16. /\ out' \in Seq(S) /\ Len(out') = k + 1 /\ \A l \in 1..(k + 1) : out'[l] = parts[l]
    <2> DEFINE o == Append(out, parts[k + 1])
    <2>1. out \in Seq(S)
      BY <1>1
    <2>2. o \in Seq(S) /\ Len(o) = Len(out) + 1 /\ (\A l \in 1..Len(out) : o[l] = out[l]) /\ o[Len(out) + 1] = parts[k + 1]
      BY <1>15, <2>1, AppendProperties
    <2> HIDE DEF o
    <2>3. \A l \in 1..(k + 1) : o[l] = parts[l]
      BY <1>1, <1>2, <2>2
    <2>4. Len(o) = k + 1
      BY <1>1, <2>2
    <2> QED
      BY <1>14, <2>2, <2>3, <2>4, Zenon DEF o
  <1>17. pos' = at[k + 1]
    <2>1. pos' = ComponentEnd + 1
      BY <1>12, Zenon DEF Component
    <2> QED
      BY <1>6, <1>9, <2>1
  <1>18. text' = text /\ phase' = "legacy"
    BY <1>12, Zenon DEF Component, AtComponent
  <1>19. k + 1 \in 0..n
    BY <1>2
  <1>20. LegacyWriting(text, W, n, at, parts, S)
    BY Zenon DEF LegacyOn
  <1> QED
    BY <1>16, <1>17, <1>18, <1>19, <1>20, Zenon DEF LegacyOn

\* Behind the last one it ends.
LEMMA LegacyStops ==
  ASSUME NEW W, NEW n, NEW at, NEW parts, NEW S, LegacyOn(text, W, n, at, parts, S, pos, out, n),
         NEW m, LegacySays(text, n, at, parts, m), LegacyStep
  PROVE  \/ phase' = "parsed" /\ WithoutHash(out') = m.path /\ m.nested = 0
         \/ phase' = "rejected" /\ m.path = m.symbol
  <1>0. PICK L \in Nat : L = Len(text)
    BY DEF LegacyOn, LegacyWriting
  <1>1. /\ text \in Seq(W) /\ n \in Nat /\ parts \in Seq(S) /\ Len(parts) = n
        /\ at \in [0..n -> Nat] /\ pos = at[n] /\ out \in Seq(S) /\ Len(out) = n
        /\ (\A l \in 1..n : out[l] = parts[l]) /\ L < WordSize
    BY <1>0, Zenon DEF LegacyOn, LegacyWriting
  <1>2. pos \in Nat
    BY <1>1
  <1>3. CASE LegacyEnd(text, pos)
    <2>1. AtEnd \/ Looking("E")
      BY <1>0, <1>2, <1>3 DEF LegacyEnd, AtEnd, Looking, At
    <2>2. LegacyEnds
      BY <2>1, Zenon DEF LegacyStep, Malformed, Component, AtComponent
    <2>3. ~LegacyBreak(text, pos)
      BY <1>0, <1>2, <1>3 DEF LegacyEnd, LegacyBreak
    <2>4. CASE n > 0
      <3>1. out # <<>>
        BY <1>1, <2>4
      <3>2. out = parts
        BY <1>1, SeqEqual
      <3>3. out' = Joined(parts) /\ phase' = "parsed"
        BY <2>2, <3>1, <3>2, Zenon DEF LegacyEnds
      <3>4. m.path = WithoutHash(Joined(parts)) /\ m.nested = 0
        <4>1. ~(n = 0)
          BY <2>4
        <4> QED
          BY <1>1, <2>3, <4>1, Zenon DEF LegacySays
      <3> QED
        BY <3>3, <3>4, Zenon
    <2>5. CASE ~(n > 0)
      <3>1. out = <<>>
        BY <1>1, <2>5
      <3>2. phase' = "rejected"
        BY <2>2, <3>1 DEF LegacyEnds, Reject
      <3>3. m.path = m.symbol
        BY <2>5, Zenon DEF LegacySays
      <3> QED
        BY <3>2, <3>3
    <2> QED
      BY <2>4, <2>5
  <1>4. CASE ~LegacyEnd(text, pos)
    <2>1. LegacyBreak(text, pos) /\ m.path = m.symbol
      BY <1>1, <1>4, Zenon DEF LegacySays
    <2>2. ~AtEnd /\ ~Looking("E")
      BY <1>0, <1>2, <1>4 DEF LegacyEnd, AtEnd, Looking, At
    <2>3. ~LegacyEnds
      BY <2>2, Zenon DEF LegacyEnds
    <2>4. ~Component
      <3>1. CASE text[pos] \notin DigitSet
        <4>1. pos \in pos..(Len(text) + 1) /\ Len(text) \in Nat
          BY <1>0, <1>2, <2>2 DEF AtEnd
        <4>2. \A h \in pos..(pos - 1) : text[h] \in DigitSet
          BY <1>2
        <4>3. LengthEnd = pos
          BY <1>2, <3>1, <4>1, <4>2, RunEndIs, Zenon DEF LengthEnd
        <4> QED
          BY <4>3, Zenon DEF Component
      <3>2. CASE \E b \in Nat, j \in Nat :
                   /\ ComponentWriting(text, pos, b, j) /\ j > Len(text) + 1
                   /\ j <= WordSize \/ j >= b + WordSize
        <4>1. PICK b \in Nat, j \in Nat :
                   /\ ComponentWriting(text, pos, b, j) /\ j > Len(text) + 1
                   /\ j <= WordSize \/ j >= b + WordSize
          BY <3>2
        <4>2. LengthEnd = b /\ ComponentLength = j - b /\ b <= j
          BY <1>1, <1>2, <4>1, ComponentIs, Zenon
        <4>3. WordSize \in Nat
          BY LegacyAssumption
        <4>4. CASE j >= b + WordSize
          <5>1. ~(j - b < WordSize)
            BY <4>3, <4>4
          <5> QED
            BY <4>2, <5>1, Zenon DEF Component
        <4>5. CASE j <= WordSize
          <5>1. pos < b
            BY <4>1, Zenon DEF ComponentWriting
          <5>2. b - 1 + (j - b) = j - 1 /\ j - 1 \in Nat /\ j - 1 < WordSize
            BY <1>2, <4>2, <4>3, <4>5, <5>1
          <5>3. ComponentEnd = (b - 1 + (j - b)) % WordSize
            BY <4>2, Zenon DEF ComponentEnd
          <5>4. ComponentEnd = j - 1
            BY <4>3, <5>2, <5>3, Unwrapped, Zenon
          <5>5. ~(j - 1 <= Len(text))
            BY <1>0, <4>1
          <5> QED
            BY <5>4, <5>5, Zenon DEF Component
        <4> QED
          BY <4>1, <4>4, <4>5, Zenon
      <3> QED
        BY <2>1, <3>1, <3>2, Zenon DEF LegacyBreak
    <2>5. Malformed
      BY <2>3, <2>4, Zenon DEF LegacyStep
    <2> QED
      BY <2>1, <2>5 DEF Malformed, Reject
  <1> QED
    BY <1>3, <1>4

-----------------------------------------------------------------------------
(* Rows of items.                                                          *)

\* Nodes of the tree T for the items behind the first q, from i to j.
RowFromOf(T, W, items, q, i, j, e, d, says, nested) ==
  LET L == Len(items)
  IN  /\ items \in Seq(W) /\ q \in 0..L
      /\ e \in [q..L -> Nat] /\ e[q] = i /\ e[L] = j
      /\ says \in [q..L -> Seq(W)] /\ says[L] = <<>>
      /\ nested \in [q..L -> Nat] /\ nested[L] = 0
      /\ \A k \in (q + 1)..L :
           /\ d[k] \in T /\ d[k].item = items[k] /\ items[k] # "member"
           /\ d[k].from = e[k - 1] /\ d[k].to = e[k]
           /\ says[k - 1] = IF \E l \in (k + 1)..L : items[l] = "unmute" THEN says[k]
                            ELSE d[k].says \o says[k]
           /\ nested[k - 1] = Deeper(d[k].nested, nested[k])

\* Such nodes from the q-th item on say s and nest n paths and types.
RowFrom(T, W, items, q, i, j, s, n) ==
  \E e, d, says, nested : RowFromOf(T, W, items, q, i, j, e, d, says, nested) /\ says[q] = s /\ nested[q] = n

\* Behind the last item nothing is left.
LEMMA RowEnds ==
  ASSUME NEW T, NEW W, NEW items \in Seq(W), NEW j \in Nat
  PROVE  RowFrom(T, W, items, Len(items), j, j, <<>>, 0)
  <1> DEFINE L == Len(items)
             e == [k \in L..L |-> j]
             says == [k \in L..L |-> <<>>]
             nested == [k \in L..L |-> 0]
  <1>1. L \in Nat /\ L \in 0..L /\ <<>> \in Seq(W)
    OBVIOUS
  <1>2. L \in L..L /\ \A k \in (L + 1)..L : FALSE
    BY <1>1
  <1>3. e \in [L..L -> Nat] /\ says \in [L..L -> Seq(W)] /\ nested \in [L..L -> Nat]
    BY <1>1
  <1>4. e[L] = j /\ says[L] = <<>> /\ nested[L] = 0
    BY <1>2
  <1> HIDE DEF e, says, nested
  <1>5. RowFromOf(T, W, items, L, j, j, e, <<>>, says, nested)
    BY <1>1, <1>2, <1>3, <1>4 DEF RowFromOf
  <1> QED
    BY <1>4, <1>5 DEF RowFrom

\* A row is one from its beginning on.
LEMMA RowIs ==
  ASSUME NEW T, NEW W, NEW items, NEW i, NEW j, NEW s, NEW n, RowFrom(T, W, items, 0, i, j, s, n)
  PROVE  Row(T, W, items, i, j, s, n)
  <1>1. PICK e, d, says, nested : RowFromOf(T, W, items, 0, i, j, e, d, says, nested) /\ says[0] = s /\ nested[0] = n
    BY Zenon DEF RowFrom
  <1>2. 0 + 1 = 1
    OBVIOUS
  <1>3. RowOf(T, W, items, i, j, e, d, says, nested)
    BY <1>1, <1>2, Zenon DEF RowFromOf, RowOf
  <1> QED
    BY <1>1, <1>3, Zenon DEF Row

\* What a rest of a row says and nests is typed.
LEMMA RowTyped ==
  ASSUME NEW T, NEW W, NEW items, NEW q, NEW i, NEW j, NEW s, NEW n, RowFrom(T, W, items, q, i, j, s, n)
  PROVE  items \in Seq(W) /\ q \in 0..Len(items) /\ i \in Nat /\ j \in Nat /\ s \in Seq(W) /\ n \in Nat
  <1>1. PICK e, d, says, nested : RowFromOf(T, W, items, q, i, j, e, d, says, nested) /\ says[q] = s /\ nested[q] = n
    BY Zenon DEF RowFrom
  <1>2. q \in q..Len(items) /\ Len(items) \in q..Len(items)
    BY <1>1 DEF RowFromOf
  <1> QED
    BY <1>1, <1>2 DEF RowFromOf

\* The first of the items is put before the others.
LEMMA RowGrows ==
  ASSUME NEW T, NEW W, NEW items, NEW q \in Nat, NEW j, NEW s, NEW n, NEW d \in T,
         RowFrom(T, W, items, q + 1, d.to, j, s, n),
         d.item = items[q + 1], d.item # "member", d.from \in Nat, d.says \in Seq(W), d.nested \in Nat
  PROVE  RowFrom(T, W, items, q, d.from, j,
                 IF \E l \in (q + 2)..Len(items) : items[l] = "unmute" THEN s ELSE d.says \o s, Deeper(d.nested, n))
  <1>1. PICK e, ds, says, nested :
          RowFromOf(T, W, items, q + 1, d.to, j, e, ds, says, nested) /\ says[q + 1] = s /\ nested[q + 1] = n
    BY Zenon DEF RowFrom
  <1> DEFINE L == Len(items)
             s2 == IF \E l \in (q + 2)..L : items[l] = "unmute" THEN s ELSE d.says \o s
             n2 == Deeper(d.nested, n)
             e2 == [k \in q..L |-> IF k = q THEN d.from ELSE e[k]]
             ds2 == [k \in (q + 1)..L |-> IF k = q + 1 THEN d ELSE ds[k]]
             says2 == [k \in q..L |-> IF k = q THEN s2 ELSE says[k]]
             nested2 == [k \in q..L |-> IF k = q THEN n2 ELSE nested[k]]
  <1>2. items \in Seq(W) /\ q + 1 \in 0..L /\ L \in Nat /\ s \in Seq(W) /\ n \in Nat
    BY <1>1, RowTyped DEF RowFromOf
  <1>3. s2 \in Seq(W) /\ n2 \in Nat
    <2>1. d.says \o s \in Seq(W)
      BY <1>2, ConcatProperties
    <2> QED
      BY <1>2, <2>1 DEF Deeper
  <1> HIDE DEF s2, n2
  <1>4. e \in [(q + 1)..L -> Nat] /\ says \in [(q + 1)..L -> Seq(W)] /\ nested \in [(q + 1)..L -> Nat]
    BY <1>1 DEF RowFromOf
  <1>5. e2 \in [q..L -> Nat] /\ says2 \in [q..L -> Seq(W)] /\ nested2 \in [q..L -> Nat]
    <2>1. \A k \in q..L : k # q => k \in (q + 1)..L
      BY <1>2
    <2> QED
      BY <1>3, <1>4, <2>1
  <1>6. e2[q] = d.from /\ e2[L] = j /\ says2[q] = s2 /\ says2[L] = <<>> /\ nested2[q] = n2 /\ nested2[L] = 0
    <2>1. q \in q..L /\ L \in q..L /\ L # q
      BY <1>2
    <2> QED
      BY <1>1, <2>1 DEF RowFromOf
  <1>7. ASSUME NEW k \in (q + 1)..L
        PROVE  /\ ds2[k] \in T /\ ds2[k].item = items[k] /\ items[k] # "member"
               /\ ds2[k].from = e2[k - 1] /\ ds2[k].to = e2[k]
               /\ says2[k - 1] = IF \E l \in (k + 1)..L : items[l] = "unmute" THEN says2[k]
                                 ELSE ds2[k].says \o says2[k]
               /\ nested2[k - 1] = Deeper(ds2[k].nested, nested2[k])
    <2>1. CASE k = q + 1
      <3>1. k - 1 = q /\ k \in q..L /\ k # q /\ k + 1 = q + 2 /\ q \in q..L
        BY <1>2, <2>1
      <3>2. ds2[k] = d /\ e2[k - 1] = d.from /\ e2[k] = e[k] /\ says2[k - 1] = s2 /\ says2[k] = says[k]
            /\ nested2[k - 1] = n2 /\ nested2[k] = nested[k]
        BY <2>1, <3>1
      <3>3. e[k] = d.to /\ says[k] = s /\ nested[k] = n
        BY <1>1, <2>1 DEF RowFromOf
      <3> HIDE DEF ds2, e2, says2, nested2
      <3> QED
        BY <2>1, <3>1, <3>2, <3>3, Zenon DEF s2, n2
    <2>2. CASE k # q + 1
      <3>1. k \in (q + 1 + 1)..L /\ k - 1 \in q..L /\ k - 1 # q /\ k \in q..L /\ k # q
        BY <1>2, <2>2
      <3>2. ds2[k] = ds[k] /\ e2[k - 1] = e[k - 1] /\ e2[k] = e[k] /\ says2[k - 1] = says[k - 1] /\ says2[k] = says[k]
            /\ nested2[k - 1] = nested[k - 1] /\ nested2[k] = nested[k]
        BY <2>2, <3>1
      <3>3. /\ ds[k] \in T /\ ds[k].item = items[k] /\ items[k] # "member"
            /\ ds[k].from = e[k - 1] /\ ds[k].to = e[k]
            /\ says[k - 1] = IF \E l \in (k + 1)..L : items[l] = "unmute" THEN says[k] ELSE ds[k].says \o says[k]
            /\ nested[k - 1] = Deeper(ds[k].nested, nested[k])
        BY <1>1, <3>1, Zenon DEF RowFromOf
      <3> HIDE DEF ds2, e2, says2, nested2
      <3> QED
        BY <3>2, <3>3, Zenon
    <2> QED
      BY <2>1, <2>2
  <1> HIDE DEF ds2, e2, says2, nested2
  <1>8. q \in 0..L
    BY <1>2
  <1>9. RowFromOf(T, W, items, q, d.from, j, e2, ds2, says2, nested2)
    BY <1>2, <1>5, <1>6, <1>7, <1>8, Zenon DEF RowFromOf
  <1> QED
    BY <1>6, <1>9, Zenon DEF RowFrom, s2, n2

\* What the parser takes for an item.
Taken(item, i, j, s, n) == [item |-> item, from |-> i, to |-> j, says |-> s, nested |-> n]

\* Nodes that are typed.
Nodes(V) == [item : V, from : Nat \ {0}, to : Nat, says : Seq(V), nested : Nat]

\* The nodes of T are typed, and every literal is there.
Worded(T, V) ==
  /\ T \subseteq Nodes(V)
  /\ \A x \in V \ Functions, i \in Nat \ {0} : Taken(x, i, i, IF x = "unmute" THEN <<>> ELSE <<x>>, 0) \in T

\* None of the items behind the first c ends a muted stretch.
Clear(items, c) == \A l \in (c + 1)..Len(items) : items[l] # "unmute"

\* A node of the tree is typed, and its item is a word.
LEMMA TakenIs ==
  ASSUME NEW T, NEW V, Worded(T, V), NEW x, NEW i, NEW k, NEW s, NEW n, Taken(x, i, k, s, n) \in T
  PROVE  x \in V /\ i \in Nat \ {0} /\ k \in Nat /\ s \in Seq(V) /\ n \in Nat
  <1>1. Taken(x, i, k, s, n) \in Nodes(V)
    BY DEF Worded
  <1> QED
    BY <1>1 DEF Nodes, Taken

\* The next of the items is put before the others; before an "unmute" it is not printed.
LEMMA Before ==
  ASSUME NEW T, NEW V, Worded(T, V), NEW items, NEW q \in Nat, NEW r, r = q + 1, NEW j, NEW s, NEW n, NEW x, NEW i, NEW k,
         NEW s1, NEW n1, RowFrom(T, V, items, r, k, j, s, n), Taken(x, i, k, s1, n1) \in T, items[r] = x, x # "member"
  PROVE  /\ Clear(items, r) => RowFrom(T, V, items, q, i, j, s1 \o s, Deeper(n1, n))
         /\ (\E l \in (r + 1)..Len(items) : items[l] = "unmute") => RowFrom(T, V, items, q, i, j, s, Deeper(n1, n))
  <1> DEFINE d == Taken(x, i, k, s1, n1)
  <1>1. i \in Nat /\ k \in Nat /\ s1 \in Seq(V) /\ n1 \in Nat
    BY TakenIs
  <1>2. d.item = x /\ d.from = i /\ d.to = k /\ d.says = s1 /\ d.nested = n1
    BY DEF Taken
  <1>3. d \in T
    OBVIOUS
  <1> HIDE DEF d
  <1>4. RowFrom(T, V, items, q, i, j,
                 IF \E l \in (q + 2)..Len(items) : items[l] = "unmute" THEN s ELSE s1 \o s, Deeper(n1, n))
    BY <1>1, <1>2, <1>3, RowGrows, Zenon
  <1>5. r + 1 = q + 2
    OBVIOUS
  <1> QED
    BY <1>4, <1>5, Zenon DEF Clear

\* A node before a rest that is printed says what both say.
LEMMA NodeBefore ==
  ASSUME NEW T, NEW V, Worded(T, V), NEW items, NEW c, Clear(items, c), NEW q \in Nat, NEW r, r = q + 1, c \in 0..r,
         NEW j, NEW s, NEW n, NEW x, NEW i, NEW k,
         NEW s1, NEW n1, RowFrom(T, V, items, r, k, j, s, n), Taken(x, i, k, s1, n1) \in T, items[r] = x, x # "member"
  PROVE  RowFrom(T, V, items, q, i, j, s1 \o s, Deeper(n1, n))
  <1>1. Clear(items, r)
    BY RowTyped DEF Clear
  <1> QED
    BY <1>1, Before, Zenon

\* What says nothing and nests nothing.
LEMMA NothingBefore ==
  ASSUME NEW T, NEW V, Worded(T, V), NEW items, NEW q \in Nat, NEW r, r = q + 1, NEW c \in 0..r, 
         Clear(items, c), NEW j, NEW s, NEW n, NEW x, NEW i, NEW k,
         RowFrom(T, V, items, r, k, j, s, n), Taken(x, i, k, <<>>, 0) \in T, items[r] = x, x # "member"
  PROVE  RowFrom(T, V, items, q, i, j, s, n)
  <1>1. RowFrom(T, V, items, q, i, j, <<>> \o s, Deeper(0, n))
    BY NodeBefore
  <1>2. s \in Seq(V) /\ n \in Nat
    BY RowTyped
  <1>3. <<>> \o s = s /\ Deeper(0, n) = n
    BY <1>2, ConcatEmptySeq DEF Deeper
  <1> QED
    BY <1>1, <1>3

\* A node before an "unmute" says nothing.
LEMMA MutedBefore ==
  ASSUME NEW T, NEW V, Worded(T, V), NEW items, NEW q \in Nat, NEW r, r = q + 1, NEW u \in Nat, r < u, u <= Len(items),
         items[u] = "unmute", NEW j, NEW s, NEW n, NEW x, NEW i, NEW k,
         NEW s1, NEW n1, RowFrom(T, V, items, r, k, j, s, n), Taken(x, i, k, s1, n1) \in T, items[r] = x, x # "member"
  PROVE  RowFrom(T, V, items, q, i, j, s, Deeper(n1, n))
  <1>1. u \in (r + 1)..Len(items)
    BY RowTyped
  <1> QED
    BY <1>1, Before, Zenon

\* The last item.
LEMMA NodeLast ==
  ASSUME NEW T, NEW V, Worded(T, V), NEW items \in Seq(V), NEW q \in Nat, NEW r, r = q + 1, Len(items) = r,
         NEW x, NEW i, NEW j, NEW s, NEW n, Taken(x, i, j, s, n) \in T, items[r] = x, x # "member"
  PROVE  RowFrom(T, V, items, q, i, j, s, n)
  <1>1. j \in Nat /\ s \in Seq(V) /\ n \in Nat
    BY TakenIs
  <1>2. RowFrom(T, V, items, q + 1, j, j, <<>>, 0)
    BY <1>1, RowEnds
  <1>3. Clear(items, q + 1) /\ q + 1 \in 0..(q + 1)
    BY DEF Clear
  <1>4. RowFrom(T, V, items, q, i, j, s \o <<>>, Deeper(n, 0))
    BY <1>2, <1>3, NodeBefore
  <1>5. s \o <<>> = s /\ Deeper(n, 0) = n
    BY <1>1, ConcatEmptySeq DEF Deeper
  <1> QED
    BY <1>4, <1>5

-----------------------------------------------------------------------------
(* The grammar of RFC 2603, as the items of the parser.                    *)

\* The words that the parser adds to those of the symbol.
Lexicon ==
  Functions \cup
  {"unmute", "<", ">", " as ", "_", "[", "]", "; ", "(", "&", "*const ", "*mut ", "fn(", "dyn ", "mut ", "'_ ", "'_",
   "::<", ", ", ")", ",)", ") -> ", "?", " + ", "-", "}", "::{", "::", "true", "false"}
  \cup {BasicNames[c] : c \in DOMAIN BasicNames}

\* All words there are.
Words(W) == W \cup Lexicon

\* What a node of the grammar is, taken for an item.
ByRule(G, rule, d) == \E g \in Of(G, rule, d.from) : g.to = d.to /\ g.says = d.says /\ g.nested = d.nested

\* What may be there or not.
OptionIs(t, d, c, says) ==
  /\ d.nested = 0
  /\ \/ Marked(t, d.from, c, d.to) /\ d.says = says
     \/ ~Holds(t, d.from, c) /\ d.to = d.from /\ d.says = <<>>

\* Behind a member of a list: the end, or sep and the other members.
Others(t, G, rule, sep, i, j, s, n) ==
  \/ Holds(t, i, "E") /\ j = i + 1 /\ s = <<>> /\ n = 0
  \/ \E r \in Of(G, rule, i) : j = r.to /\ s = <<sep>> \o r.says /\ n = r.nested

\* Behind the first type of a tuple.
SingleIs(t, G, i, j, s, n) ==
  \/ Holds(t, i, "E") /\ j = i + 1 /\ s = <<",)">> /\ n = 0
  \/ \E r \in Of(G, "types", i) : j = r.to /\ s = <<", ">> \o (r.says \o <<")">>) /\ n = r.nested

\* What a tuple says behind its opening bracket.
TupleIs(t, G, i, j, s, n) ==
  \/ Holds(t, i, "E") /\ j = i + 1 /\ s = <<")">> /\ n = 0
  \/ \E y \in Of(G, "type", i) : \E s2, n2 :
       SingleIs(t, G, y.to, j, s2, n2) /\ s = y.says \o s2 /\ n = Deeper(y.nested, n2)

\* What a function type says behind its parameters.
ParamsIs(t, G, i, j, s, n) ==
  \/ \E y \in Of(G, "type", i + 1) : Holds(t, i, "E") /\ j = y.to /\ s = <<") -> ">> \o y.says /\ n = y.nested
  \/ \E r \in Of(G, "types", i) : \E y \in Of(G, "type", r.to) :
       j = y.to /\ s = r.says \o (<<") -> ">> \o y.says) /\ n = Deeper(r.nested, y.nested)

\* What a function type says behind its first parameter.
MoreParamsIs(t, G, i, j, s, n) ==
  \E k, s2, n2 : \E y \in Of(G, "type", k) :
    Others(t, G, "types", ", ", i, k, s2, n2) /\ j = y.to /\ s = s2 \o (<<") -> ">> \o y.says) /\ n = Deeper(n2, y.nested)

\* Bindings of a trait, which say nothing, or none.
AssocIs(t, G, d) ==
  /\ d.says = <<>> /\ ~Holds(t, d.to, "p")
  /\ \/ d.to = d.from /\ d.nested = 0
     \/ \E b \in Of(G, "bindings", d.from) : d.to = b.to /\ d.nested = b.nested

\* A number, negative or not.
SignedIs(t, G, d) ==
  \/ ByRule(G, "number", d)
  \/ \E g \in Of(G, "number", d.from + 1) :
       Holds(t, d.from, "n") /\ g.to = d.to /\ d.says = <<"-">> \o g.says /\ d.nested = 0

\* What a constant of type bool says.
TruthIs(t, d) ==
  /\ d.nested = 0
  /\ \/ HexNumber(t, d.from, d.to, 0) /\ d.says = <<"false">>
     \/ HexNumber(t, d.from, d.to, 1) /\ d.says = <<"true">>

\* An item that is made of others.
InnerIs(t, G, d) ==
  /\ d.item = "path" => ByRule(G, "path", d)
  /\ d.item = "type" => ByRule(G, "type", d)
  /\ d.item = "namespace" =>
       \E g \in Of(G, "path", d.from - 1) :
         Holds(t, d.from - 1, "N") /\ g.to = d.to /\ g.says = d.says /\ g.nested = d.nested + 1
  /\ d.item = "disambiguator" => OptionIs(t, d, "s", <<>>)
  /\ d.item = "lifetime" => OptionIs(t, d, "L", <<"'_ ">>)
  /\ d.item = "nolifetime" => OptionIs(t, d, "L", <<>>)
  /\ d.item = "binder" => OptionIs(t, d, "G", <<>>)
  /\ d.item = "unsafe" =>
       d.to = (IF Holds(t, d.from, "U") THEN d.from + 1 ELSE d.from) /\ d.says = <<>> /\ d.nested = 0
  /\ d.item = "abi" =>
       /\ d.says = <<>> /\ d.nested = 0
       /\ IF Holds(t, d.from, "K") THEN Abi(t, d.from, d.to) ELSE d.to = d.from
  /\ d.item = "abiname" => Abi(t, d.from - 1, d.to) /\ d.says = <<>> /\ d.nested = 0
  /\ d.item = "args" =>
       \/ Holds(t, d.from, "E") /\ d.to = d.from + 1 /\ d.says = <<>> /\ d.nested = 0
       \/ \E a \in Of(G, "generic-args", d.from) :
            d.to = a.to /\ d.says = <<"::<">> \o (a.says \o <<">">>) /\ d.nested = a.nested
  /\ d.item = "moreargs" =>
       \E s : Others(t, G, "generic-args", ", ", d.from, d.to, s, d.nested) /\ d.says = s \o <<">">>
  /\ d.item = "arg" => ByRule(G, "generic-arg", d)
  /\ d.item = "nonlifetime" => ByRule(G, "generic-arg", d) /\ ~Holds(t, d.from, "L")
  /\ d.item = "tuple" => TupleIs(t, G, d.from, d.to, d.says, d.nested)
  /\ d.item = "single" => SingleIs(t, G, d.from, d.to, d.says, d.nested)
  /\ d.item = "moretuple" =>
       \E s : Others(t, G, "types", ", ", d.from, d.to, s, d.nested) /\ d.says = s \o <<")">>
  /\ d.item = "params" => ParamsIs(t, G, d.from, d.to, d.says, d.nested)
  /\ d.item = "moreparams" => MoreParamsIs(t, G, d.from, d.to, d.says, d.nested)
  /\ d.item = "bounds" =>
       \/ Holds(t, d.from, "E") /\ d.to = d.from + 1 /\ d.says = <<"?">> /\ d.nested = 0
       \/ ByRule(G, "dyn-traits", d)
  /\ d.item = "morebounds" => Others(t, G, "dyn-traits", " + ", d.from, d.to, d.says, d.nested)
  /\ d.item = "assoc" => AssocIs(t, G, d)
  /\ d.item = "constant" => ByRule(G, "const", d)
  /\ d.item = "typed" => ByRule(G, "const", d)
  /\ d.item = "sign" => SignedIs(t, G, d)
  /\ d.item = "placeholder" => ByRule(G, "number", d)
  /\ d.item = "boolsign" => TruthIs(t, d)
  /\ d.item = "boolplace" => TruthIs(t, d)

\* One that is read at once.
LeafIs(t, d) == Base62Writing(t, d) /\ IdentifierWriting(t, d) /\ HexWriting(t, d) /\ ItemWriting(d)

\* The tree of the items.
Tree(t, G, W) == {d \in Nodes(Words(W)) : LeafIs(t, d) /\ InnerIs(t, G, d)}

\* The items that are made of others.
Inner == DOMAIN Eats \cup {"path", "type", "namespace", "typed"}

\* All items that are functions of the parser.
LEMMA FunctionsAre ==
  Functions = {"disambiguator", "lifetime", "nolifetime", "binder", "unsafe", "abi", "abiname", "args", "moreargs", "arg",
               "nonlifetime", "tuple", "single", "moretuple", "params", "moreparams", "bounds", "morebounds", "assoc",
               "constant", "sign", "placeholder", "boolsign", "boolplace", "path", "type", "namespace", "base62",
               "identifier", "member", "typed", "value", "boolvalue"}
  BY DEF Functions, Eats

\* All items that are made of others.
LEMMA InnerAre ==
  Inner = {"disambiguator", "lifetime", "nolifetime", "binder", "unsafe", "abi", "abiname", "args", "moreargs", "arg",
           "nonlifetime", "tuple", "single", "moretuple", "params", "moreparams", "bounds", "morebounds", "assoc",
           "constant", "sign", "placeholder", "boolsign", "boolplace", "path", "type", "namespace", "typed"}
  BY DEF Inner, Eats

\* A literal stands wherever it is asked for.
LEMMA TreeWorded == ASSUME NEW t, NEW G, NEW W PROVE Worded(Tree(t, G, W), Words(W))
  <1> SUFFICES ASSUME NEW x \in Words(W) \ Functions, NEW i \in Nat \ {0}
               PROVE  Taken(x, i, i, IF x = "unmute" THEN <<>> ELSE <<x>>, 0) \in Tree(t, G, W)
    BY DEF Worded, Tree
  <1> DEFINE s == IF x = "unmute" THEN <<>> ELSE <<x>>
             d == Taken(x, i, i, s, 0)
  <1>1. s \in Seq(Words(W))
    OBVIOUS
  <1>2. d.item = x /\ d.from = i /\ d.to = i /\ d.says = s /\ d.nested = 0
    BY DEF Taken
  <1>3. d \in Nodes(Words(W))
    BY <1>1 DEF Nodes, Taken
  <1> HIDE DEF d
  <1>4. ItemWriting(d)
    BY <1>2, Zenon DEF ItemWriting, s
  <1>5. Base62Writing(t, d) /\ IdentifierWriting(t, d) /\ HexWriting(t, d)
    BY <1>2 DEF Functions, Base62Writing, IdentifierWriting, HexWriting
  <1>6. InnerIs(t, G, d)
    BY <1>2, FunctionsAre DEF InnerIs
  <1> QED
    BY <1>3, <1>4, <1>5, <1>6 DEF Tree, LeafIs, d

\* A node is in the tree if it is what its item says.
LEMMA InTree ==
  ASSUME NEW t, NEW G, NEW W, NEW x \in Inner, NEW i \in Nat \ {0}, NEW j \in Nat, NEW s \in Seq(Words(W)), NEW n \in Nat,
         InnerIs(t, G, Taken(x, i, j, s, n))
  PROVE  Taken(x, i, j, s, n) \in Tree(t, G, W)
  <1> DEFINE d == Taken(x, i, j, s, n)
  <1>1. d.item = x
    BY DEF Taken
  <1>2. x \in Functions /\ x \notin {"base62", "identifier", "member", "value", "boolvalue"}
    BY InnerAre, FunctionsAre
  <1>3. x \in Words(W)
    BY <1>2 DEF Words, Lexicon
  <1>4. d \in Nodes(Words(W))
    BY <1>3 DEF Nodes, Taken
  <1> HIDE DEF d
  <1>5. LeafIs(t, d)
    BY <1>1, <1>2 DEF LeafIs, Base62Writing, IdentifierWriting, HexWriting, ItemWriting
  <1> QED
    BY <1>4, <1>5 DEF Tree, d

\* A node of the grammar is typed.
LEMMA OfIs ==
  ASSUME NEW t, NEW G, NEW W, Grammatical(t, G, W, LongLongMax), NEW rule, NEW i, NEW g \in Of(G, rule, i)
  PROVE  /\ g \in G /\ g.rule = rule /\ g.from = i /\ i \in Nat \ {0} /\ g.to \in Nat \ {0} /\ g.says \in Seq(W)
         /\ g.says \in Seq(Words(W)) /\ g.nested \in Nat
  <1>1. g \in G /\ g.rule = rule /\ g.from = i
    BY DEF Of
  <1>2. i \in Nat \ {0} /\ g.to \in Nat \ {0} /\ g.says \in Seq(W) /\ g.nested \in Nat
    BY <1>1, Zenon DEF Grammatical
  <1>3. g.says \in Seq(Words(W))
    BY <1>2 DEF Words
  <1> QED
    BY <1>1, <1>2, <1>3

\* What a path begins with.
PathLetters == {"C", "N", "M", "X", "Y", "I"}

\* What a type begins with.
TypeLetters == DOMAIN BasicNames \cup PathLetters \cup {"A", "S", "T", "R", "Q", "P", "O", "F", "D"}

\* The basic types of the grammar are those of the parser.
LEMMA BasicsAre ==
  /\ BasicNames = BasicTypes
  /\ DOMAIN BasicNames = {"a", "b", "c", "d", "e", "f", "h", "i", "j", "l", "m", "n", "o", "p", "s", "t", "u", "v", "x", "y", "z"}
  /\ \A c \in DOMAIN BasicNames : BasicNames[c] \notin Functions /\ BasicNames[c] # "unmute" /\ BasicNames[c] \in Lexicon
  <1>1. BasicNames = BasicTypes
    BY DEF BasicNames, BasicTypes
  <1>2. DOMAIN BasicNames = {"a", "b", "c", "d", "e", "f", "h", "i", "j", "l", "m", "n", "o", "p", "s", "t", "u", "v", "x", "y", "z"}
    BY DEF BasicNames
  <1>3. /\ BasicNames["a"] = "i8" /\ BasicNames["b"] = "bool" /\ BasicNames["c"] = "char" /\ BasicNames["d"] = "f64" /\ BasicNames["e"] = "str"
        /\ BasicNames["f"] = "f32" /\ BasicNames["h"] = "u8" /\ BasicNames["i"] = "isize" /\ BasicNames["j"] = "usize" /\ BasicNames["l"] = "i32"
        /\ BasicNames["m"] = "u32" /\ BasicNames["n"] = "i128" /\ BasicNames["o"] = "u128" /\ BasicNames["p"] = "_" /\ BasicNames["s"] = "i16"
        /\ BasicNames["t"] = "u16" /\ BasicNames["u"] = "()" /\ BasicNames["v"] = "..." /\ BasicNames["x"] = "i64" /\ BasicNames["y"] = "u64"
        /\ BasicNames["z"] = "!"
    BY DEF BasicNames
  <1>4. \A c \in DOMAIN BasicNames : BasicNames[c] \notin Functions /\ BasicNames[c] # "unmute"
    <2> SUFFICES ASSUME NEW c \in DOMAIN BasicNames PROVE BasicNames[c] \notin Functions /\ BasicNames[c] # "unmute"
      OBVIOUS
    <2> DEFINE P(w) == w \notin Functions /\ w # "unmute"
    <2>1. P("i8") /\ P("bool") /\ P("char") /\ P("f64") /\ P("str") /\ P("f32") /\ P("u8")
      BY FunctionsAre
    <2>2. P("isize") /\ P("usize") /\ P("i32") /\ P("u32") /\ P("i128") /\ P("u128") /\ P("_")
      BY FunctionsAre
    <2>3. P("i16") /\ P("u16") /\ P("()") /\ P("...") /\ P("i64") /\ P("u64") /\ P("!")
      BY FunctionsAre
    <2> HIDE DEF P
    <2>4. P(BasicNames[c])
      BY <1>2, <1>3, <2>1, <2>2, <2>3, ZenonT(60)
    <2> QED
      BY <2>4 DEF P
  <1>5. \A c \in DOMAIN BasicNames : BasicNames[c] \in Lexicon
    BY Zenon DEF Lexicon
  <1> QED
    BY <1>1, <1>2, <1>4, <1>5

\* A path begins with its tag.
LEMMA PathFirst ==
  ASSUME NEW t, NEW G, NEW W, Grammatical(t, G, W, LongLongMax), NEW i, NEW g \in Of(G, "path", i)
  PROVE  i <= Len(t) /\ t[i] \in PathLetters /\ PathIs(t, G, g)
  <1>1. g \in G /\ g.rule = "path" /\ g.from = i
    BY OfIs
  <1>2. PathIs(t, G, g)
    BY <1>1, Zenon DEF Grammatical
  <1> QED
    BY <1>1, <1>2 DEF PathIs, Holds, PathLetters

\* A type begins with its tag, or that of a path.
LEMMA TypeFirst ==
  ASSUME NEW t, NEW G, NEW W, Grammatical(t, G, W, LongLongMax), NEW i, NEW g \in Of(G, "type", i)
  PROVE  i <= Len(t) /\ t[i] \in TypeLetters /\ TypeIs(t, G, g)
  <1>1. g \in G /\ g.rule = "type" /\ g.from = i
    BY OfIs
  <1>2. TypeIs(t, G, g)
    BY <1>1, Zenon DEF Grammatical
  <1>3. CASE BasicType(t, g)
    BY <1>1, <1>2, <1>3 DEF BasicType, TypeLetters
  <1>4. CASE NamedType(G, g)
    <2>1. PICK p \in Of(G, "path", g.from) : TRUE
      BY <1>4 DEF NamedType
    <2> QED
      BY <1>1, <1>2, <2>1, PathFirst DEF TypeLetters
  <1>5. CASE g.from <= Len(t) /\ t[g.from] \in {"A", "S", "T", "R", "Q", "P", "O", "F", "D"}
    BY <1>1, <1>2, <1>5 DEF TypeLetters
  <1> QED
    BY <1>2, <1>3, <1>4, <1>5 DEF TypeIs, Holds

-----------------------------------------------------------------------------
(* What has no paths and types in it.                                      *)

\* A place is a number.
LEMMA PlaceIs ==
  ASSUME NEW W, NEW t \in Seq(W), NEW e \in Places(t)
  PROVE  e \in Nat \ {0} /\ e <= Len(t) + 1 /\ Len(t) \in Nat
  BY DEF Places

\* A number in base 62 is a node of the tree.
LEMMA Base62In ==
  ASSUME NEW t, NEW G, NEW W, t \in Seq(W), NEW i \in Nat \ {0}, NEW j, Base62(t, i, j)
  PROVE  Taken("base62", i, j, <<>>, 0) \in Tree(t, G, W) /\ j \in Nat \ {0}
  <1> DEFINE d == Taken("base62", i, j, <<>>, 0)
  <1>1. PICK e \in Places(t) :
          /\ i <= e /\ Holds(t, e, "_") /\ j = e + 1
          /\ \A k \in i..(e - 1) : t[k] \in Letters \cup DigitSet
    BY DEF Base62
  <1>2. e \in Nat /\ e >= 1 /\ j \in Nat \ {0}
    <2>1. e \in Nat \ {0}
      BY PlaceIs
    <2>2. j = e + 1
      BY <1>1, Zenon
    <2> QED
      BY <2>1, <2>2
  <1>3. \A k \in i..(e - 1) : t[k] \notin {"_", "$", "."}
    <2>1. \A c \in Letters \cup DigitSet : c \notin {"_", "$", "."}
      BY DigitsAre DEF Letters
    <2> QED
      BY <1>1, <2>1
  <1>4. d.item = "base62" /\ d.from = i /\ d.to = j /\ d.says = <<>> /\ d.nested = 0
    BY DEF Taken
  <1>5. d \in Nodes(Words(W))
    <2>1. "base62" \in Words(W)
      BY FunctionsAre DEF Words, Lexicon
    <2> QED
      BY <1>2, <2>1 DEF Nodes, Taken
  <1> HIDE DEF d
  <1>6. Base62Writing(t, d)
    <2>1. t[e] = "_" /\ e <= Len(t)
      BY <1>1 DEF Holds
    <2> QED
      BY <1>1, <1>2, <1>3, <1>4, <2>1, Zenon DEF Base62Writing
  <1>7. IdentifierWriting(t, d) /\ HexWriting(t, d) /\ ItemWriting(d)
    BY <1>4, FunctionsAre DEF IdentifierWriting, HexWriting, ItemWriting
  <1>8. InnerIs(t, G, d)
    BY <1>4 DEF InnerIs
  <1> QED
    BY <1>2, <1>5, <1>6, <1>7, <1>8 DEF Tree, LeafIs, d

\* So is a name.
LEMMA NameIn ==
  ASSUME NEW t, NEW G, NEW W, t \in Seq(W), NEW i \in Nat \ {0}, NEW c, NEW j, Undisambiguated(t, i, c, j)
  PROVE  /\ Taken("identifier", i, j, SubSeq(t, c, j - 1), 0) \in Tree(t, G, W)
         /\ Taken("member", i, j, IF c = j THEN <<"::{">> ELSE <<"::">> \o SubSeq(t, c, j - 1), 0) \in Tree(t, G, W)
         /\ i <= Len(t) /\ t[i] \in DigitSet /\ c \in Nat \ {0} /\ j \in Nat \ {0} /\ c <= j /\ j <= Len(t) + 1
  <1>1. PICK b \in Places(t), n \in 0..Len(t) :
          /\ i < b /\ (\A k \in i..(b - 1) : t[k] \in DigitSet) /\ (b <= Len(t) => t[b] \notin DigitSet)
          /\ c = IF Holds(t, b, "_") THEN b + 1 ELSE b
          /\ n = Decimal(SubSeq(t, i, b - 1)) /\ j = c + n /\ j <= Len(t) + 1
    BY DEF Undisambiguated
  <1>2. /\ b \in Nat \ {0} /\ n \in Nat /\ c \in Nat \ {0} /\ j \in Nat \ {0} /\ c <= j /\ b <= Len(t) + 1
        /\ j <= Len(t) + 1 /\ Len(t) \in Nat /\ i < b
    <2>1. b \in Nat \ {0} /\ b <= Len(t) + 1 /\ Len(t) \in Nat
      BY PlaceIs
    <2>2. n \in Nat
      BY <2>1
    <2>3. i < b /\ j = c + n /\ j <= Len(t) + 1
      BY <1>1, Zenon
    <2>4. c = b + 1 \/ c = b
      BY <1>1, Zenon
    <2> QED
      BY <2>1, <2>2, <2>3, <2>4
  <1>3. i <= Len(t) /\ t[i] \in DigitSet
    <2>1. i \in i..(b - 1) /\ i <= Len(t)
      BY <1>2
    <2> QED
      BY <1>1, <2>1, Zenon
  <1>4. NameWriting(t, i, c, j)
    <2>1. c = IF b <= Len(t) /\ t[b] = "_" THEN b + 1 ELSE b
      BY <1>1 DEF Holds
    <2> QED
      BY <1>1, <1>2, <2>1, Zenon DEF NameWriting
  <1>5. SubSeq(t, c, j - 1) \in Seq(Words(W))
    <2>1. \A k \in c..(j - 1) : t[k] \in W
      <3>1. \A k \in c..(j - 1) : k \in 1..Len(t)
        BY <1>2
      <3> QED
        BY <3>1, ElementOfSeq
    <2>2. SubSeq(t, c, j - 1) \in Seq(W)
      BY <1>2, <2>1, SubSeqProperties
    <2> QED
      BY <2>2 DEF Words
  <1>6. (IF c = j THEN <<"::{">> ELSE <<"::">> \o SubSeq(t, c, j - 1)) \in Seq(Words(W))
    <2>1. <<"::{">> \in Seq(Words(W)) /\ <<"::">> \in Seq(Words(W))
      BY DEF Words, Lexicon
    <2> QED
      BY <1>5, <2>1, ConcatProperties
  <1>7. ASSUME NEW x \in {"identifier", "member"}, NEW s \in Seq(Words(W)),
               s = IF x = "identifier" THEN SubSeq(t, c, j - 1)
                   ELSE IF c = j THEN <<"::{">> ELSE <<"::">> \o SubSeq(t, c, j - 1)
        PROVE  Taken(x, i, j, s, 0) \in Tree(t, G, W)
    <2> DEFINE d == Taken(x, i, j, s, 0)
    <2>1. d.item = x /\ d.from = i /\ d.to = j /\ d.says = s /\ d.nested = 0
      BY DEF Taken
    <2>2. d \in Nodes(Words(W))
      <3>1. x \in Words(W)
        BY FunctionsAre DEF Words, Lexicon
      <3> QED
        BY <1>2, <3>1 DEF Nodes, Taken
    <2> HIDE DEF d
    <2>3. IdentifierWriting(t, d)
      <3>1. c \in Nat
        BY <1>2
      <3> QED
        BY <1>4, <1>7, <2>1, <3>1, Zenon DEF IdentifierWriting
    <2>4. Base62Writing(t, d) /\ HexWriting(t, d) /\ ItemWriting(d)
      BY <2>1, FunctionsAre DEF Base62Writing, HexWriting, ItemWriting
    <2>5. InnerIs(t, G, d)
      BY <2>1 DEF InnerIs
    <2> QED
      BY <2>2, <2>3, <2>4, <2>5 DEF Tree, LeafIs, d
  <1>8. Taken("identifier", i, j, SubSeq(t, c, j - 1), 0) \in Tree(t, G, W)
    BY <1>5, <1>7, Zenon
  <1>9. Taken("member", i, j, IF c = j THEN <<"::{">> ELSE <<"::">> \o SubSeq(t, c, j - 1), 0) \in Tree(t, G, W)
    BY <1>6, <1>7, Zenon
  <1> QED
    BY <1>2, <1>3, <1>8, <1>9

\* So is the value of a constant.
LEMMA HexIn ==
  ASSUME NEW t, NEW G, NEW W, t \in Seq(W), NEW i \in Nat \ {0}, NEW j, NEW n \in 0..LongLongMax, HexNumber(t, i, j, n)
  PROVE  /\ Spelling[n] \in Seq(Words(W)) => Taken("value", i, j, Spelling[n], 0) \in Tree(t, G, W)
         /\ Taken("boolvalue", i, j, IF n = 1 THEN <<"true">> ELSE <<"false">>, 0) \in Tree(t, G, W)
         /\ i <= Len(t) /\ t[i] \in DigitSet \cup LowerSet \cup {"_"} /\ j \in Nat \ {0}
  <1>1. PICK e \in Places(t) :
          /\ i <= e /\ Holds(t, e, "_") /\ j = e + 1
          /\ \A k \in i..(e - 1) : t[k] \in DigitSet \cup LowerSet
          /\ n = Hexadecimal(SubSeq(t, i, e - 1))
    BY DEF HexNumber
  <1>2. e \in Nat \ {0} /\ j \in Nat \ {0} /\ i <= e
    <2>1. e \in Nat \ {0}
      BY PlaceIs
    <2>2. j = e + 1 /\ i <= e
      BY <1>1, Zenon
    <2> QED
      BY <2>1, <2>2
  <1>3. t[e] = "_" /\ e <= Len(t)
    BY <1>1 DEF Holds
  <1>4. i <= Len(t) /\ t[i] \in DigitSet \cup LowerSet \cup {"_"}
    <2>1. CASE i = e
      BY <1>3, <2>1
    <2>2. CASE i # e
      <3>1. Len(t) \in Nat
        BY LenProperties
      <3>2. e <= Len(t)
        BY <1>3
      <3>3. i \in i..(e - 1) /\ i <= Len(t)
        BY <1>2, <2>2, <3>1, <3>2
      <3> QED
        BY <1>1, <3>3, Zenon
    <2> QED
      BY <2>1, <2>2
  <1>5. (IF n = 1 THEN <<"true">> ELSE <<"false">>) \in Seq(Words(W))
    <2>1. "true" \in Words(W) /\ "false" \in Words(W)
      BY DEF Words, Lexicon
    <2> QED
      BY <2>1
  <1>6. ~(n > LongLongMax)
    BY TextReaderAssumption
  <1>7. \A k \in i..(e - 1) : t[k] \in HexSet
    BY <1>1 DEF HexSet
  <1>8. ASSUME NEW x \in {"value", "boolvalue"}, NEW s \in Seq(Words(W)),
               s = IF x = "value" THEN Spelling[n] ELSE IF n = 1 THEN <<"true">> ELSE <<"false">>
        PROVE  Taken(x, i, j, s, 0) \in Tree(t, G, W)
    <2> DEFINE d == Taken(x, i, j, s, 0)
    <2>1. d.item = x /\ d.from = i /\ d.to = j /\ d.says = s /\ d.nested = 0
      BY DEF Taken
    <2>2. d \in Nodes(Words(W))
      <3>1. x \in Words(W)
        BY FunctionsAre DEF Words, Lexicon
      <3> QED
        BY <1>2, <3>1 DEF Nodes, Taken
    <2> HIDE DEF d
    <2>3. HexWriting(t, d)
      <3>1. e \in Nat
        BY <1>2
      <3>2. d.from <= e /\ e <= Len(t) /\ t[e] = "_" /\ \A k \in d.from..(e - 1) : t[k] \in HexSet
        BY <1>1, <1>3, <1>7, <2>1, Zenon
      <3>3. n = Hexadecimal(SubSeq(t, d.from, e - 1)) /\ d.to = e + 1
        BY <1>1, <2>1, Zenon
      <3>4. d.says = IF d.item = "value" THEN Spelling[n] ELSE IF n = 1 THEN <<"true">> ELSE <<"false">>
        BY <1>8, <2>1, Zenon
      <3> QED
        BY <1>6, <2>1, <3>1, <3>2, <3>3, <3>4, Zenon DEF HexWriting
    <2>4. Base62Writing(t, d) /\ IdentifierWriting(t, d) /\ ItemWriting(d)
      BY <2>1, FunctionsAre DEF Base62Writing, IdentifierWriting, ItemWriting
    <2>5. InnerIs(t, G, d)
      BY <2>1 DEF InnerIs
    <2> QED
      BY <2>2, <2>3, <2>4, <2>5 DEF Tree, LeafIs, d
  <1> QED
    BY <1>2, <1>4, <1>5, <1>8

-----------------------------------------------------------------------------
(* Lists, and what is optional.                                            *)

\* What an eat() of item x takes from i to j.
EatRow(t, T, V, x, i, j, s, n) ==
  IF Holds(t, i, Eats[x][1]) THEN Row(T, V, Eats[x][2], i + 1, j, s, n) ELSE Row(T, V, Eats[x][3], i, j, s, n)

\* Places in a list of items.
Counting ==
  /\ 0 \in Nat /\ 1 \in Nat /\ 2 \in Nat /\ 3 \in Nat /\ 4 \in Nat /\ 5 \in Nat /\ 6 \in Nat /\ 7 \in Nat
  /\ 1 = 0 + 1 /\ 2 = 1 + 1 /\ 3 = 2 + 1 /\ 4 = 3 + 1 /\ 5 = 4 + 1 /\ 6 = 5 + 1 /\ 7 = 6 + 1 /\ 8 = 7 + 1
  /\ 0 \in 0..1 /\ 0 \in 0..2 /\ 0 \in 0..3 /\ 0 \in 0..4 /\ 0 \in 0..5 /\ 0 \in 0..6

\* So it is.
LEMMA Counts == Counting
  BY DEF Counting

\* No item takes nothing.
LEMMA RowEmpty == ASSUME NEW T, NEW V, NEW i \in Nat PROVE Row(T, V, <<>>, i, i, <<>>, 0)
  <1>1. <<>> \in Seq(V) /\ Len(<<>>) = 0
    OBVIOUS
  <1>2. RowFrom(T, V, <<>>, 0, i, i, <<>>, 0)
    BY <1>1, RowEnds
  <1> QED
    BY <1>2, RowIs

\* A row of one item.
LEMMA RowOne ==
  ASSUME NEW T, NEW V, Worded(T, V), NEW x, x # "member", NEW i, NEW j, NEW s, NEW n, Taken(x, i, j, s, n) \in T
  PROVE  Row(T, V, <<x>>, i, j, s, n)
  <1>1. x \in V
    BY TakenIs
  <1>2. <<x>> \in Seq(V) /\ Len(<<x>>) = 1 /\ <<x>>[1] = x
    BY <1>1
  <1>3. RowFrom(T, V, <<x>>, 0, i, j, s, n)
    BY <1>2, NodeLast, Counts, Zenon DEF Counting
  <1> QED
    BY <1>3, RowIs

\* A row of one literal.
LEMMA RowWord ==
  ASSUME NEW T, NEW V, Worded(T, V), NEW x, x \in V, x \notin Functions, x # "unmute", NEW i \in Nat \ {0}
  PROVE  Row(T, V, <<x>>, i, i, <<x>>, 0)
  <1>1. Taken(x, i, i, <<x>>, 0) \in T
    BY Zenon DEF Worded
  <1>2. x # "member"
    BY DEF Functions
  <1> QED
    BY <1>1, <1>2, RowOne

\* A row of two items.
LEMMA RowPair ==
  ASSUME NEW T, NEW V, Worded(T, V), NEW x, x # "member", NEW y, y # "member", y # "unmute",
         NEW i, NEW j, NEW k, NEW s, NEW n, NEW s2, NEW n2,
         Taken(x, i, k, s, n) \in T, Taken(y, k, j, s2, n2) \in T
  PROVE  Row(T, V, <<x, y>>, i, j, s \o s2, Deeper(n, n2))
  <1>1. x \in V /\ y \in V
    BY TakenIs
  <1>2. <<x, y>> \in Seq(V) /\ Len(<<x, y>>) = 2 /\ <<x, y>>[1] = x /\ <<x, y>>[2] = y /\ Clear(<<x, y>>, 1)
    BY <1>1 DEF Clear
  <1> DEFINE B == <<x, y>>
  <1> HIDE DEF B
  <1>3. RowFrom(T, V, B, 1, k, j, s2, n2)
    BY <1>2, NodeLast, Counts, Zenon DEF B, Counting
  <1>4. RowFrom(T, V, B, 0, i, j, s \o s2, Deeper(n, n2))
    BY <1>2, <1>3, NodeBefore DEF B
  <1> QED
    BY <1>4, RowIs DEF B

\* The words that stand for nothing in the symbol.
LEMMA WordIs ==
  ASSUME NEW W,
         NEW x \in {"<", ">", " as ", "_", "[", "]", "; ", "(", "&", "*const ", "*mut ", "fn(", "dyn ", "mut ", "'_ ", "'_",
                    "::<", ", ", ")", ",)", ") -> ", "?", " + ", "-", "}", "true", "false"}
  PROVE  x \in Words(W) /\ x \notin Functions /\ x # "unmute" /\ x # "member"
  <1>1. x \notin Functions /\ x # "unmute" /\ x # "member"
    BY FunctionsAre
  <1>2. x \in Lexicon
    BY DEF Lexicon
  <1> QED
    BY <1>1, <1>2 DEF Words

\* A literal is a node of the tree.
LEMMA WordTaken ==
  ASSUME NEW T, NEW V, Worded(T, V), NEW x \in V, x \notin Functions, x # "unmute", NEW i \in Nat \ {0}
  PROVE  Taken(x, i, i, <<x>>, 0) \in T
  BY Zenon DEF Worded

\* An optional mark is found where the next character is none.
LEMMA OptionFound ==
  ASSUME NEW t, NEW W, t \in Seq(W), NEW i \in Nat \ {0}, NEW c, NEW j, Optionally(t, i, c, j), ~Holds(t, j, c), NEW x, NEW says
  PROVE  j \in Nat \ {0} /\ OptionIs(t, Taken(x, i, j, IF j = i THEN <<>> ELSE says, 0), c, says)
  <1> DEFINE d == Taken(x, i, j, IF j = i THEN <<>> ELSE says, 0)
  <1>1. d.from = i /\ d.to = j /\ d.says = (IF j = i THEN <<>> ELSE says) /\ d.nested = 0
    BY DEF Taken
  <1> HIDE DEF d
  <1>2. CASE j = i
    BY <1>1, <1>2 DEF OptionIs, d
  <1>3. CASE j # i
    <2>1. Marked(t, i, c, j)
      BY <1>3 DEF Optionally
    <2>2. j \in Nat \ {0}
      <3>1. Base62(t, i + 1, j) /\ i + 1 \in Nat \ {0}
        BY <2>1 DEF Marked
      <3> QED
        BY <3>1, Base62In, Zenon
    <2> QED
      BY <1>1, <1>3, <2>1, <2>2 DEF OptionIs, d
  <1> QED
    BY <1>2, <1>3

\* x is an optional mark.
OptionEat(x, c, says) ==
  /\ Eats[x][1] = c /\ Eats[x][3] = <<>>
  /\ \/ Eats[x][2] = <<"base62">> /\ says = <<>>
     \/ Eats[x][2] = <<"base62", "'_ ">> /\ says = <<"'_ ">>

\* An optional mark is what an eat() of it takes.
LEMMA OptionRow ==
  ASSUME NEW t, NEW G, NEW W, t \in Seq(W), NEW i \in Nat \ {0}, NEW j \in Nat, NEW s \in Seq(Words(W)), NEW n, NEW x, NEW c,
         NEW says, OptionIs(t, Taken(x, i, j, s, n), c, says),
         OptionEat(x, c, says)
  PROVE  EatRow(t, Tree(t, G, W), Words(W), x, i, j, s, n)
  <1> DEFINE T == Tree(t, G, W)
             V == Words(W)
  <1>1. Worded(T, V)
    BY TreeWorded
  <1>2. OptionIs(t, Taken(x, i, j, s, n), c, says) <=>
          n = 0 /\ ((Marked(t, i, c, j) /\ s = says) \/ (~Holds(t, i, c) /\ j = i /\ s = <<>>))
    BY DEF OptionIs, Taken
  <1>3. n = 0 /\ ((Marked(t, i, c, j) /\ s = says) \/ (~Holds(t, i, c) /\ j = i /\ s = <<>>))
    BY <1>2
  <1> HIDE DEF T, V
  <1>4. CASE Holds(t, i, c)
    <2>1. Marked(t, i, c, j) /\ s = says
      BY <1>3, <1>4
    <2>2. Taken("base62", i + 1, j, <<>>, 0) \in T /\ j \in Nat \ {0}
      <3>1. Base62(t, i + 1, j) /\ i + 1 \in Nat \ {0}
        BY <2>1 DEF Marked
      <3> QED
        BY <3>1, Base62In, Zenon DEF T
    <2>3. CASE Eats[x][2] = <<"base62">> /\ says = <<>>
      <3>1. Row(T, V, <<"base62">>, i + 1, j, <<>>, 0)
        BY <1>1, <2>2, RowOne
      <3> QED
        BY <1>2, <1>3, <1>4, <2>1, <2>3, <3>1 DEF EatRow, OptionEat, T, V
    <2>4. CASE Eats[x][2] = <<"base62", "'_ ">> /\ says = <<"'_ ">>
      <3>1. Taken("'_ ", j, j, <<"'_ ">>, 0) \in T /\ "'_ " # "member" /\ "'_ " # "unmute"
        BY <1>1, <2>2, WordIs, WordTaken DEF V
      <3>2. Row(T, V, <<"base62", "'_ ">>, i + 1, j, <<>> \o <<"'_ ">>, Deeper(0, 0))
        BY <1>1, <2>2, <3>1, RowPair
      <3>3. <<>> \o <<"'_ ">> = <<"'_ ">> /\ Deeper(0, 0) = 0
        <4>1. <<"'_ ">> \in Seq({"'_ "})
          OBVIOUS
        <4> QED
          BY <4>1, ConcatEmptySeq DEF Deeper
      <3> QED
        BY <1>2, <1>3, <1>4, <2>1, <2>4, <3>2, <3>3 DEF EatRow, OptionEat, T, V
    <2> QED
      BY <2>3, <2>4, Zenon DEF OptionEat
  <1>5. CASE ~Holds(t, i, c)
    <2>1. j = i /\ s = <<>>
      BY <1>3, <1>5 DEF Marked
    <2>2. Row(T, V, <<>>, i, i, <<>>, 0)
      BY RowEmpty
    <2> QED
      BY <1>2, <1>3, <1>5, <2>1, <2>2 DEF EatRow, OptionEat, T, V
  <1> QED
    BY <1>4, <1>5

\* A node of the grammar, taken for an item.
LEMMA RuleIn ==
  ASSUME NEW t, NEW G, NEW W, Grammatical(t, G, W, LongLongMax), NEW rule, NEW i, NEW g \in Of(G, rule, i), NEW x,
         \/ x = "path" /\ rule = "path"
         \/ x = "type" /\ rule = "type"
         \/ x = "arg" /\ rule = "generic-arg"
         \/ x = "nonlifetime" /\ rule = "generic-arg" /\ ~Holds(t, i, "L")
         \/ x = "constant" /\ rule = "const"
         \/ x = "typed" /\ rule = "const"
         \/ x = "placeholder" /\ rule = "number"
         \/ x = "sign" /\ rule = "number"
         \/ x = "bounds" /\ rule = "dyn-traits"
  PROVE  Taken(x, i, g.to, g.says, g.nested) \in Tree(t, G, W)
  <1>1. /\ g.from = i /\ i \in Nat \ {0} /\ g.to \in Nat /\ g.says \in Seq(Words(W)) /\ g.nested \in Nat
    BY OfIs
  <1>2. x \in Inner
    BY InnerAre
  <1> DEFINE d == Taken(x, i, g.to, g.says, g.nested)
  <1>3. d.item = x /\ d.from = i /\ d.to = g.to /\ d.says = g.says /\ d.nested = g.nested
    BY DEF Taken
  <1> HIDE DEF d
  <1>4. ByRule(G, rule, d)
    BY <1>3, Zenon DEF ByRule
  <1>5. InnerIs(t, G, d)
    BY <1>3, <1>4 DEF InnerIs, SignedIs
  <1> QED
    BY <1>1, <1>2, <1>5, InTree DEF d

\* The letters that begin paths and types are not those of marks.
LEMMA LettersApart ==
  /\ \A c \in PathLetters : c \notin {"B", "E", "L", "K", "G", "U", "s", "p"} /\ c \notin DOMAIN BasicNames
  /\ \A c \in TypeLetters : c \notin {"B", "E", "L", "K", "G", "U"}
  /\ \A c \in DigitSet : c \notin {"B", "E", "L", "K", "G", "U", "s", "p", "C"}
  /\ \A c \in DigitSet \cup LowerSet \cup {"_"} : c \notin {"n", "p"}
  /\ \A c \in Letters : c \notin Functions /\ c # "unmute" /\ c # "member"
  <1>1. DOMAIN BasicNames = {"a", "b", "c", "d", "e", "f", "h", "i", "j", "l", "m", "n", "o", "p", "s", "t", "u", "v", "x", "y", "z"}
    BY BasicsAre
  <1>2. \A c \in PathLetters : c \notin {"B", "E", "L", "K", "G", "U", "s", "p"} /\ c \notin DOMAIN BasicNames
    BY <1>1 DEF PathLetters
  <1>3. \A c \in TypeLetters : c \notin {"B", "E", "L", "K", "G", "U"}
    BY <1>1 DEF PathLetters, TypeLetters
  <1>4. \A c \in DigitSet : c \notin {"B", "E", "L", "K", "G", "U", "s", "p", "C"}
    BY DigitsAre
  <1>5. \A c \in DigitSet \cup LowerSet \cup {"_"} : c \notin {"n", "p"}
    BY DigitsAre DEF LowerSet
  <1>6. \A c \in Letters : c \notin Functions /\ c # "unmute" /\ c # "member"
    BY FunctionsAre DEF Letters
  <1> QED
    BY <1>2, <1>3, <1>4, <1>5, <1>6

\* A type does not begin with a mark.
LEMMA TypeApart ==
  ASSUME NEW t, NEW G, NEW W, Grammatical(t, G, W, LongLongMax), NEW i, NEW y \in Of(G, "type", i)
  PROVE  ~Holds(t, i, "B") /\ ~Holds(t, i, "E") /\ ~Holds(t, i, "L") /\ ~Holds(t, i, "K") /\ ~Holds(t, i, "G") /\ ~Holds(t, i, "U")
  BY TypeFirst, LettersApart DEF Holds

\* Nor does a path.
LEMMA PathApart ==
  ASSUME NEW t, NEW G, NEW W, Grammatical(t, G, W, LongLongMax), NEW i, NEW y \in Of(G, "path", i)
  PROVE  ~Holds(t, i, "E") /\ ~Holds(t, i, "s") /\ ~Holds(t, i, "p") /\ ~Holds(t, i, "G")
  BY PathFirst, LettersApart DEF Holds

\* One character stands at a place.
LEMMA HoldsOne == ASSUME NEW t, NEW i, NEW c, NEW e, Holds(t, i, c), c # e PROVE ~Holds(t, i, e)
  BY DEF Holds

\* An argument of a generic is what an eat() of it takes.
LEMMA ArgRow ==
  ASSUME NEW t, NEW G, NEW W, Grammatical(t, G, W, LongLongMax), NEW i, NEW g \in Of(G, "generic-arg", i)
  PROVE  /\ EatRow(t, Tree(t, G, W), Words(W), "arg", i, g.to, g.says, g.nested)
         /\ ~Holds(t, i, "L") => EatRow(t, Tree(t, G, W), Words(W), "nonlifetime", i, g.to, g.says, g.nested)
  <1> DEFINE T == Tree(t, G, W)
             V == Words(W)
  <1>1. Worded(T, V)
    BY TreeWorded
  <1>2. /\ g \in G /\ g.rule = "generic-arg" /\ g.from = i /\ i \in Nat \ {0} /\ g.to \in Nat \ {0} /\ g.says \in Seq(V)
        /\ g.nested \in Nat
    BY OfIs
  <1>3. t \in Seq(W) /\ GenericArg(t, G, g)
    BY <1>2, Zenon DEF Grammatical
  <1>4. Eats["arg"][1] = "L" /\ Eats["arg"][2] = <<"base62", "'_">> /\ Eats["arg"][3] = <<"nonlifetime">>
    BY DEF Eats
  <1>5. Eats["nonlifetime"][1] = "K" /\ Eats["nonlifetime"][2] = <<"constant">> /\ Eats["nonlifetime"][3] = <<"type">>
    BY DEF Eats
  <1>6. ~Holds(t, i, "L") => Row(T, V, <<"nonlifetime">>, i, g.to, g.says, g.nested)
    BY <1>1, RuleIn, RowOne
  <1> HIDE DEF T, V
  <1>7. CASE Marked(t, i, "L", g.to) /\ g.says = <<"'_">> /\ g.nested = 0
    <2>1. Holds(t, i, "L") /\ Base62(t, i + 1, g.to) /\ i + 1 \in Nat \ {0}
      BY <1>2, <1>7 DEF Marked
    <2>2. Taken("base62", i + 1, g.to, <<>>, 0) \in T
      BY <1>3, <2>1, Base62In, Zenon DEF T
    <2>3. Taken("'_", g.to, g.to, <<"'_">>, 0) \in T
      BY <1>1, <1>2, WordIs, WordTaken DEF V
    <2>4. Row(T, V, <<"base62", "'_">>, i + 1, g.to, <<>> \o <<"'_">>, Deeper(0, 0))
      BY <1>1, <2>2, <2>3, RowPair
    <2>5. <<>> \o <<"'_">> = <<"'_">> /\ Deeper(0, 0) = 0
      BY ConcatEmptySeq DEF Deeper
    <2> QED
      BY <1>4, <1>7, <2>1, <2>4, <2>5, Zenon DEF EatRow, T, V
  <1>8. CASE \E n \in Of(G, "const", i + 1) : Holds(t, i, "K") /\ g.to = n.to /\ g.says = n.says /\ g.nested = n.nested
    <2>1. PICK n \in Of(G, "const", i + 1) : Holds(t, i, "K") /\ g.to = n.to /\ g.says = n.says /\ g.nested = n.nested
      BY <1>8
    <2>2. ~Holds(t, i, "L")
      BY <2>1, HoldsOne
    <2>3. Taken("constant", i + 1, n.to, n.says, n.nested) \in T
      BY RuleIn DEF T
    <2>4. Row(T, V, <<"constant">>, i + 1, g.to, g.says, g.nested)
      BY <1>1, <2>1, <2>3, RowOne
    <2> QED
      BY <1>4, <1>5, <1>6, <2>1, <2>2, <2>4, Zenon DEF EatRow, T, V
  <1>9. CASE \E y \in Of(G, "type", i) : g.to = y.to /\ g.says = y.says /\ g.nested = y.nested
    <2>1. PICK y \in Of(G, "type", i) : g.to = y.to /\ g.says = y.says /\ g.nested = y.nested
      BY <1>9
    <2>2. ~Holds(t, i, "L") /\ ~Holds(t, i, "K")
      BY TypeApart
    <2>3. Taken("type", i, y.to, y.says, y.nested) \in T
      BY RuleIn DEF T
    <2>4. Row(T, V, <<"type">>, i, g.to, g.says, g.nested)
      BY <1>1, <2>1, <2>3, RowOne
    <2> QED
      BY <1>4, <1>5, <1>6, <2>2, <2>4, Zenon DEF EatRow, T, V
  <1> QED
    BY <1>2, <1>3, <1>7, <1>8, <1>9 DEF GenericArg

\* An item that is a node of its own and mutes nothing.
Printing(x) == x # "member" /\ x # "unmute"

\* Those words, wherever they stand in a list.
LEMMA WordAt ==
  ASSUME NEW t, NEW G, NEW W, NEW i \in Nat \ {0},
         NEW x \in {"<", ">", " as ", "_", "[", "]", "; ", "(", "&", "*const ", "*mut ", "fn(", "dyn ", "mut ", "'_ ", "'_",
                    "::<", ", ", ")", ",)", ") -> ", "?", " + ", "-", "}", "true", "false"}
  PROVE  /\ Taken(x, i, i, <<x>>, 0) \in Tree(t, G, W) /\ Printing(x) /\ <<x>> \in Seq(Words(W))
         /\ Row(Tree(t, G, W), Words(W), <<x>>, i, i, <<x>>, 0)
  <1> DEFINE T == Tree(t, G, W)
             V == Words(W)
  <1>1. Worded(T, V)
    BY TreeWorded
  <1>2. x \in V /\ x \notin Functions /\ x # "unmute" /\ x # "member"
    BY WordIs, Zenon
  <1> HIDE DEF T, V
  <1>3. Taken(x, i, i, <<x>>, 0) \in T /\ Printing(x)
    BY <1>1, <1>2, WordTaken, Zenon DEF Printing
  <1>4. Row(T, V, <<x>>, i, i, <<x>>, 0)
    BY <1>1, <1>2, RowWord, Zenon
  <1>5. <<x>> \in Seq(V)
    BY <1>1, <1>3, TakenIs, Zenon
  <1> QED
    BY <1>3, <1>4, <1>5, Zenon DEF T, V

\* A row of three items.
LEMMA RowTriple ==
  ASSUME NEW T, NEW V, Worded(T, V), NEW x1, NEW x2, NEW x3, Printing(x1), Printing(x2), Printing(x3),
         NEW i, NEW i2, NEW i3, NEW j, NEW s1, NEW s2, NEW s3, NEW n1, NEW n2, NEW n3,
         Taken(x1, i, i2, s1, n1) \in T, Taken(x2, i2, i3, s2, n2) \in T, Taken(x3, i3, j, s3, n3) \in T
  PROVE  Row(T, V, <<x1, x2, x3>>, i, j, s1 \o (s2 \o s3), Deeper(n1, Deeper(n2, n3)))
  <1> DEFINE B == <<x1, x2, x3>>
  <1>1. x1 \in V /\ x2 \in V /\ x3 \in V
    BY TakenIs
  <1>2. B \in Seq(V) /\ Len(B) = 3 /\ B[1] = x1 /\ B[2] = x2 /\ B[3] = x3
    BY <1>1
  <1>3. Clear(B, 0)
    BY <1>2 DEF Clear, Printing
  <1> HIDE DEF B
  <1>4. RowFrom(T, V, B, 2, i3, j, s3, n3)
    BY <1>2, NodeLast, Counts, Zenon DEF Counting, Printing
  <1>5. RowFrom(T, V, B, 1, i2, j, s2 \o s3, Deeper(n2, n3))
    BY <1>2, <1>3, <1>4, NodeBefore, Counts, Zenon DEF Counting, Printing
  <1>6. RowFrom(T, V, B, 0, i, j, s1 \o (s2 \o s3), Deeper(n1, Deeper(n2, n3)))
    BY <1>2, <1>3, <1>5, NodeBefore, Counts, Zenon DEF Counting, Printing
  <1> QED
    BY <1>6, RowIs DEF B

\* A row of four items.
LEMMA RowFour ==
  ASSUME NEW T, NEW V, Worded(T, V), NEW x1, NEW x2, NEW x3, NEW x4, Printing(x1), Printing(x2), Printing(x3), Printing(x4),
         NEW i, NEW i2, NEW i3, NEW i4, NEW j, NEW s1, NEW s2, NEW s3, NEW s4, NEW n1, NEW n2, NEW n3, NEW n4,
         Taken(x1, i, i2, s1, n1) \in T, Taken(x2, i2, i3, s2, n2) \in T, Taken(x3, i3, i4, s3, n3) \in T,
         Taken(x4, i4, j, s4, n4) \in T
  PROVE  Row(T, V, <<x1, x2, x3, x4>>, i, j, s1 \o (s2 \o (s3 \o s4)), Deeper(n1, Deeper(n2, Deeper(n3, n4))))
  <1> DEFINE B == <<x1, x2, x3, x4>>
  <1>1. x1 \in V /\ x2 \in V /\ x3 \in V /\ x4 \in V
    BY TakenIs
  <1>2. B \in Seq(V) /\ Len(B) = 4 /\ B[1] = x1 /\ B[2] = x2 /\ B[3] = x3 /\ B[4] = x4
    BY <1>1
  <1>3. Clear(B, 0)
    BY <1>2 DEF Clear, Printing
  <1> HIDE DEF B
  <1>4. RowFrom(T, V, B, 3, i4, j, s4, n4)
    BY <1>2, NodeLast, Counts, Zenon DEF Counting, Printing
  <1>5. RowFrom(T, V, B, 2, i3, j, s3 \o s4, Deeper(n3, n4))
    BY <1>2, <1>3, <1>4, NodeBefore, Counts, Zenon DEF Counting, Printing
  <1>6. RowFrom(T, V, B, 1, i2, j, s2 \o (s3 \o s4), Deeper(n2, Deeper(n3, n4)))
    BY <1>2, <1>3, <1>5, NodeBefore, Counts, Zenon DEF Counting, Printing
  <1>7. RowFrom(T, V, B, 0, i, j, s1 \o (s2 \o (s3 \o s4)), Deeper(n1, Deeper(n2, Deeper(n3, n4))))
    BY <1>2, <1>3, <1>6, NodeBefore, Counts, Zenon DEF Counting, Printing
  <1> QED
    BY <1>7, RowIs DEF B

\* A row of five items.
LEMMA RowFive ==
  ASSUME NEW T, NEW V, Worded(T, V), NEW x1, NEW x2, NEW x3, NEW x4, NEW x5,
         Printing(x1), Printing(x2), Printing(x3), Printing(x4), Printing(x5),
         NEW i, NEW i2, NEW i3, NEW i4, NEW i5, NEW j, NEW s1, NEW s2, NEW s3, NEW s4, NEW s5,
         NEW n1, NEW n2, NEW n3, NEW n4, NEW n5,
         Taken(x1, i, i2, s1, n1) \in T, Taken(x2, i2, i3, s2, n2) \in T, Taken(x3, i3, i4, s3, n3) \in T,
         Taken(x4, i4, i5, s4, n4) \in T, Taken(x5, i5, j, s5, n5) \in T
  PROVE  Row(T, V, <<x1, x2, x3, x4, x5>>, i, j, s1 \o (s2 \o (s3 \o (s4 \o s5))),
             Deeper(n1, Deeper(n2, Deeper(n3, Deeper(n4, n5)))))
  <1> DEFINE B == <<x1, x2, x3, x4, x5>>
  <1>1. x1 \in V /\ x2 \in V /\ x3 \in V /\ x4 \in V /\ x5 \in V
    BY TakenIs
  <1>2. B \in Seq(V) /\ Len(B) = 5 /\ B[1] = x1 /\ B[2] = x2 /\ B[3] = x3 /\ B[4] = x4 /\ B[5] = x5
    BY <1>1
  <1>3. Clear(B, 0)
    BY <1>2 DEF Clear, Printing
  <1> HIDE DEF B
  <1>4. RowFrom(T, V, B, 4, i5, j, s5, n5)
    BY <1>2, NodeLast, Counts, Zenon DEF Counting, Printing
  <1>5. RowFrom(T, V, B, 3, i4, j, s4 \o s5, Deeper(n4, n5))
    BY <1>2, <1>3, <1>4, NodeBefore, Counts, Zenon DEF Counting, Printing
  <1>6. RowFrom(T, V, B, 2, i3, j, s3 \o (s4 \o s5), Deeper(n3, Deeper(n4, n5)))
    BY <1>2, <1>3, <1>5, NodeBefore, Counts, Zenon DEF Counting, Printing
  <1>7. RowFrom(T, V, B, 1, i2, j, s2 \o (s3 \o (s4 \o s5)), Deeper(n2, Deeper(n3, Deeper(n4, n5))))
    BY <1>2, <1>3, <1>6, NodeBefore, Counts, Zenon DEF Counting, Printing
  <1>8. RowFrom(T, V, B, 0, i, j, s1 \o (s2 \o (s3 \o (s4 \o s5))), Deeper(n1, Deeper(n2, Deeper(n3, Deeper(n4, n5)))))
    <2>1. 0 \in Nat /\ 1 = 0 + 1 /\ 0 \in 0..1
      OBVIOUS
    <2> QED
      BY <1>2, <1>3, <1>7, <2>1, NodeBefore, ZenonT(30) DEF Printing
  <1> QED
    BY <1>8, RowIs DEF B

\* The lists of the grammar, and what they are lists of.
Lists(rule, member, sep) ==
  \/ rule = "generic-args" /\ member = "generic-arg" /\ sep = ", "
  \/ rule = "types" /\ member = "type" /\ sep = ", "
  \/ rule = "dyn-traits" /\ member = "dyn-trait" /\ sep = " + "

\* A member of a list does not begin with the end of it.
LEMMA MemberApart ==
  ASSUME NEW t, NEW G, NEW W, Grammatical(t, G, W, LongLongMax), NEW rule, NEW member, NEW sep, Lists(rule, member, sep),
         NEW i, NEW y \in Of(G, member, i)
  PROVE  ~Holds(t, i, "E") /\ (member = "dyn-trait" => ~Holds(t, i, "p"))
  <1>1. y \in G /\ y.rule = member /\ y.from = i
    BY OfIs
  <1>2. CASE member = "generic-arg"
    <2>1. GenericArg(t, G, y)
      BY <1>1, <1>2, Zenon DEF Grammatical
    <2>2. Holds(t, i, "L") \/ Holds(t, i, "K") \/ \E z \in Of(G, "type", i) : TRUE
      BY <1>1, <2>1, Zenon DEF GenericArg, Marked
    <2> QED
      BY <1>2, <2>2, HoldsOne, TypeApart
  <1>3. CASE member = "type"
    BY <1>3, TypeApart
  <1>4. CASE member = "dyn-trait"
    <2>1. DynTrait(G, y)
      BY <1>1, <1>4, Zenon DEF Grammatical
    <2>2. \E z \in Of(G, "path", i) : TRUE
      BY <1>1, <2>1, Zenon DEF DynTrait
    <2> QED
      BY <2>2, PathApart
  <1> QED
    BY <1>2, <1>3, <1>4 DEF Lists

\* What is printed between the members of a list.
Separator(sep) == sep \in {", ", " + "}

\* What follows a member of a list is typed.
LEMMA OthersTyped ==
  ASSUME NEW t, NEW G, NEW W, Grammatical(t, G, W, LongLongMax), NEW rule, NEW sep, Separator(sep), NEW i \in Nat \ {0},
         NEW j, NEW s, NEW n, Others(t, G, rule, sep, i, j, s, n)
  PROVE  j \in Nat \ {0} /\ s \in Seq(Words(W)) /\ n \in Nat
  <1>1. CASE Holds(t, i, "E") /\ j = i + 1 /\ s = <<>> /\ n = 0
    <2>1. i + 1 \in Nat \ {0} /\ <<>> \in Seq(Words(W)) /\ 0 \in Nat
      OBVIOUS
    <2> QED
      BY <1>1, <2>1, Zenon
  <1>2. CASE \E r \in Of(G, rule, i) : j = r.to /\ s = <<sep>> \o r.says /\ n = r.nested
    <2>1. PICK r \in Of(G, rule, i) : j = r.to /\ s = <<sep>> \o r.says /\ n = r.nested
      BY <1>2
    <2>2. r.to \in Nat \ {0} /\ r.says \in Seq(Words(W)) /\ r.nested \in Nat
      BY OfIs
    <2>3. <<sep>> \in Seq(Words(W))
      <3>1. sep \in Words(W)
        BY WordIs DEF Separator
      <3> QED
        BY <3>1
    <2> QED
      BY <2>1, <2>2, <2>3, ConcatProperties
  <1> QED
    BY <1>1, <1>2 DEF Others

\* A list is a member and what follows it.
LEMMA ListIs ==
  ASSUME NEW t, NEW G, NEW W, Grammatical(t, G, W, LongLongMax), NEW rule, NEW member, NEW sep, Lists(rule, member, sep),
         NEW i, NEW g \in Of(G, rule, i)
  PROVE  \E y \in Of(G, member, i), s \in Seq(Words(W)), n \in Nat :
           /\ Others(t, G, rule, sep, y.to, g.to, s, n) /\ g.says = y.says \o s /\ g.nested = Deeper(y.nested, n)
  <1>1. g \in G /\ g.rule = rule /\ g.from = i
    BY OfIs
  <1>2. List(t, G, g, member, sep)
    BY <1>1, Zenon DEF Grammatical, Lists
  <1>3. PICK y \in Of(G, member, i) :
          \/ Holds(t, y.to, "E") /\ g.to = y.to + 1 /\ g.says = y.says /\ g.nested = y.nested
          \/ \E r \in Of(G, rule, y.to) :
               g.to = r.to /\ g.says = y.says \o (<<sep>> \o r.says) /\ g.nested = Deeper(y.nested, r.nested)
    BY <1>1, <1>2, Zenon DEF List
  <1>4. y.to \in Nat \ {0} /\ y.says \in Seq(Words(W)) /\ y.nested \in Nat
    BY OfIs
  <1>5. CASE Holds(t, y.to, "E") /\ g.to = y.to + 1 /\ g.says = y.says /\ g.nested = y.nested
    <2>1. Others(t, G, rule, sep, y.to, g.to, <<>>, 0)
      BY <1>5, Zenon DEF Others
    <2>2. y.says \o <<>> = y.says /\ Deeper(y.nested, 0) = y.nested
      BY <1>4, ConcatEmptySeq DEF Deeper
    <2>3. <<>> \in Seq(Words(W)) /\ 0 \in Nat
      OBVIOUS
    <2> QED
      BY <1>5, <2>1, <2>2, <2>3, Zenon
  <1>6. CASE \E r \in Of(G, rule, y.to) :
               g.to = r.to /\ g.says = y.says \o (<<sep>> \o r.says) /\ g.nested = Deeper(y.nested, r.nested)
    <2>1. PICK r \in Of(G, rule, y.to) :
               g.to = r.to /\ g.says = y.says \o (<<sep>> \o r.says) /\ g.nested = Deeper(y.nested, r.nested)
      BY <1>6
    <2>2. Others(t, G, rule, sep, y.to, g.to, <<sep>> \o r.says, r.nested)
      BY <2>1, Zenon DEF Others
    <2>3. Separator(sep)
      BY DEF Lists, Separator
    <2>4. <<sep>> \o r.says \in Seq(Words(W)) /\ r.nested \in Nat
      BY <1>4, <2>2, <2>3, OthersTyped
    <2> QED
      BY <2>1, <2>2, <2>4, Zenon
  <1> QED
    BY <1>3, <1>5, <1>6

\* Sequences are joined in any grouping.
Grouped(S) == \A a, b, c \in Seq(S) : (a \o b) \o c = a \o (b \o c)

\* So they are.
LEMMA Regroup == ASSUME NEW S PROVE Grouped(S)
  BY ConcatAssociative DEF Grouped

\* The item x for members of the list, of which y is one, with the c that ends it.
Closes(x, y, rule, member, sep, c) ==
  \/ x = "moreargs" /\ y = "arg" /\ rule = "generic-args" /\ member = "generic-arg" /\ sep = ", " /\ c = ">"
  \/ x = "moretuple" /\ y = "type" /\ rule = "types" /\ member = "type" /\ sep = ", " /\ c = ")"

\* The items behind a comma.
LEMMA CommaEats ==
  /\ Eats["moreargs"][1] = "E" /\ Eats["moreargs"][2] = <<">">> /\ Eats["moreargs"][3] = <<", ", "arg", "moreargs">>
  /\ Eats["moretuple"][1] = "E" /\ Eats["moretuple"][2] = <<")">> /\ Eats["moretuple"][3] = <<", ", "type", "moretuple">>
  /\ Eats["single"][1] = "E" /\ Eats["single"][2] = <<",)">> /\ Eats["single"][3] = <<", ", "type", "moretuple">>
  /\ Eats["moreparams"][1] = "E" /\ Eats["moreparams"][2] = <<") -> ", "type">>
  /\ Eats["moreparams"][3] = <<", ", "type", "moreparams">>
  BY DEF Eats

\* The members of a list behind the first, the end of which is printed as c.
LEMMA MoreRow ==
  ASSUME NEW t, NEW G, NEW W, Grammatical(t, G, W, LongLongMax), NEW i \in Nat \ {0}, NEW j, NEW s, NEW n,
         NEW rule, NEW member, NEW x, NEW y, NEW sep, NEW c, Closes(x, y, rule, member, sep, c), Others(t, G, rule, sep, i, j, s, n)
  PROVE  EatRow(t, Tree(t, G, W), Words(W), x, i, j, s \o <<c>>, n) /\ Taken(x, i, j, s \o <<c>>, n) \in Tree(t, G, W)
  <1> DEFINE T == Tree(t, G, W)
             V == Words(W)
  <1>1. Worded(T, V)
    BY TreeWorded
  <1>2. Lists(rule, member, sep) /\ Separator(sep) /\ x \in Inner /\ Printing(x) /\ Printing(y)
    BY InnerAre DEF Lists, Printing, Closes, Separator
  <1>3. c \in V /\ c \notin Functions /\ c # "unmute" /\ <<c>> \in Seq(V)
    <2>1. c \in V /\ c \notin Functions /\ c # "unmute"
      BY WordIs DEF Closes
    <2> QED
      BY <2>1
  <1>4. Eats[x][1] = "E" /\ Eats[x][2] = <<c>> /\ Eats[x][3] = <<sep, y, x>>
    BY CommaEats, Zenon DEF Closes
  <1>5. \A k \in Nat \ {0} : \A m, s2, n2 : Others(t, G, rule, sep, k, m, s2, n2) => Taken(x, k, m, s2 \o <<c>>, n2) \in T
    <2> SUFFICES ASSUME NEW k \in Nat \ {0}, NEW m, NEW s2, NEW n2, Others(t, G, rule, sep, k, m, s2, n2)
                 PROVE  Taken(x, k, m, s2 \o <<c>>, n2) \in T
      OBVIOUS
    <2>1. m \in Nat /\ s2 \o <<c>> \in Seq(V) /\ n2 \in Nat
      BY <1>2, <1>3, OthersTyped, ConcatProperties
    <2> DEFINE d == Taken(x, k, m, s2 \o <<c>>, n2)
    <2>2. d.item = x /\ d.from = k /\ d.to = m /\ d.says = s2 \o <<c>> /\ d.nested = n2
      BY DEF Taken
    <2> HIDE DEF d
    <2>3. \E u : Others(t, G, rule, sep, d.from, d.to, u, d.nested) /\ d.says = u \o <<c>>
      BY <2>2, Zenon
    <2>4. InnerIs(t, G, d)
      BY <2>2, <2>3, Zenon DEF InnerIs, Closes
    <2> QED
      BY <1>2, <2>1, <2>4, InTree DEF d
  <1> HIDE DEF T, V
  <1>8. Grouped(V)
    BY Regroup
  <1>6. CASE Holds(t, i, "E") /\ j = i + 1 /\ s = <<>> /\ n = 0
    <2>1. Row(T, V, <<c>>, i + 1, i + 1, <<c>>, 0)
      <3>1. i + 1 \in Nat \ {0}
        OBVIOUS
      <3> QED
        BY <1>1, <1>3, <3>1, RowWord
    <2>2. <<>> \o <<c>> = <<c>>
      BY <1>3, ConcatEmptySeq
    <2> QED
      BY <1>4, <1>5, <1>6, <2>1, <2>2, Zenon DEF EatRow, T, V
  <1>7. CASE \E r \in Of(G, rule, i) : j = r.to /\ s = <<sep>> \o r.says /\ n = r.nested
    <2>1. PICK r \in Of(G, rule, i) : j = r.to /\ s = <<sep>> \o r.says /\ n = r.nested
      BY <1>7
    <2>2. PICK g \in Of(G, member, i), s2 \in Seq(V), n2 \in Nat :
            Others(t, G, rule, sep, g.to, r.to, s2, n2) /\ r.says = g.says \o s2 /\ r.nested = Deeper(g.nested, n2)
      BY <1>2, ListIs DEF V
    <2>3. ~Holds(t, i, "E")
      BY <1>2, MemberApart
    <2>4. g.to \in Nat \ {0} /\ g.says \in Seq(V) /\ g.nested \in Nat
      BY OfIs DEF V
    <2>5. Taken(x, g.to, j, s2 \o <<c>>, n2) \in T
      BY <1>5, <2>1, <2>2, <2>4
    <2>6. Taken(y, i, g.to, g.says, g.nested) \in T
      BY RuleIn DEF T, Closes
    <2>7. Taken(sep, i, i, <<sep>>, 0) \in T /\ Printing(sep) /\ <<sep>> \in Seq(V)
      <3>1. sep \in V /\ sep \notin Functions /\ Printing(sep)
        BY WordIs DEF V, Printing, Closes
      <3> QED
        BY <1>1, <3>1, WordTaken DEF Printing
    <2>8. Row(T, V, <<sep, y, x>>, i, j, <<sep>> \o (g.says \o (s2 \o <<c>>)), Deeper(0, Deeper(g.nested, n2)))
      BY <1>1, <1>2, <2>5, <2>6, <2>7, RowTriple
    <2>9. s \o <<c>> = <<sep>> \o (g.says \o (s2 \o <<c>>))
      <3>1. <<c>> \in Seq(V) /\ <<sep>> \in Seq(V)
        BY <1>3, <2>7, Zenon
      <3>2. r.says \in Seq(V)
        BY <2>2, <2>4, ConcatProperties
      <3>3. (<<sep>> \o r.says) \o <<c>> = <<sep>> \o (r.says \o <<c>>)
        BY <1>8, <3>1, <3>2, Zenon DEF Grouped
      <3>4. (g.says \o s2) \o <<c>> = g.says \o (s2 \o <<c>>)
        BY <1>8, <2>4, <3>1, Zenon DEF Grouped
      <3> QED
        BY <2>1, <2>2, <3>3, <3>4, Zenon
    <2>10. n = Deeper(0, Deeper(g.nested, n2))
      BY <2>1, <2>2, <2>4 DEF Deeper
    <2> QED
      BY <1>4, <1>5, <1>7, <2>3, <2>8, <2>9, <2>10, Zenon DEF EatRow, T, V
  <1> QED
    BY <1>6, <1>7, <1>5 DEF Others, T

\* The comma, by a name: as a literal it is more than the provers read.
Comma == ", "

\* The comma separates arguments and types.
LEMMA CommaIs ==
  /\ Closes("moreargs", "arg", "generic-args", "generic-arg", Comma, ">")
  /\ Closes("moretuple", "type", "types", "type", Comma, ")")
  /\ Lists("generic-args", "generic-arg", Comma) /\ Lists("types", "type", Comma)
  /\ Separator(Comma) /\ Printing(Comma) /\ \A W : Comma \in Words(W) /\ Comma \notin Functions
  /\ Eats["single"][3] = <<Comma, "type", "moretuple">> /\ Eats["moreparams"][3] = <<Comma, "type", "moreparams">>
  <1>1. /\ Closes("moreargs", "arg", "generic-args", "generic-arg", Comma, ">")
        /\ Closes("moretuple", "type", "types", "type", Comma, ")")
    BY Zenon DEF Closes, Comma
  <1>2. Lists("generic-args", "generic-arg", Comma) /\ Lists("types", "type", Comma)
    BY Zenon DEF Lists, Comma
  <1>3. Separator(Comma) /\ Printing(Comma)
    BY Zenon DEF Separator, Printing, Comma
  <1>4. \A W : Comma \in Words(W) /\ Comma \notin Functions
    BY WordIs, Zenon DEF Comma
  <1>5. Eats["single"][3] = <<Comma, "type", "moretuple">> /\ Eats["moreparams"][3] = <<Comma, "type", "moreparams">>
    BY CommaEats, Zenon DEF Comma
  <1> QED
    BY <1>1, <1>2, <1>3, <1>4, <1>5

\* The arguments of a generic are what an eat() of them takes.
LEMMA ArgsRow ==
  ASSUME NEW t, NEW G, NEW W, Grammatical(t, G, W, LongLongMax), NEW i \in Nat \ {0}, NEW j, NEW s, NEW n,
         \/ Holds(t, i, "E") /\ j = i + 1 /\ s = <<>> /\ n = 0
         \/ \E a \in Of(G, "generic-args", i) :
              j = a.to /\ s = <<"::<">> \o (a.says \o <<">">>) /\ n = a.nested
  PROVE  EatRow(t, Tree(t, G, W), Words(W), "args", i, j, s, n)
  <1> DEFINE T == Tree(t, G, W)
             V == Words(W)
  <1>1. Worded(T, V)
    BY TreeWorded
  <1>2. Eats["args"][1] = "E" /\ Eats["args"][2] = <<>> /\ Eats["args"][3] = <<"::<", "arg", "moreargs">>
    BY DEF Eats
  <1> HIDE DEF T, V
  <1>12. Grouped(V)
    BY Regroup
  <1>3. ASSUME Holds(t, i, "E"), j = i + 1, s = <<>>, n = 0
        PROVE  EatRow(t, Tree(t, G, W), Words(W), "args", i, j, s, n)
    <2>1. Row(T, V, <<>>, i + 1, i + 1, <<>>, 0)
      BY RowEmpty
    <2> QED
      BY <1>2, <1>3, <2>1, Zenon DEF EatRow, T, V
  <1>4. ASSUME NEW a \in Of(G, "generic-args", i),
               j = a.to, s = <<"::<">> \o (a.says \o <<">">>), n = a.nested
        PROVE  EatRow(t, Tree(t, G, W), Words(W), "args", i, j, s, n)
    <2>1. PICK g \in Of(G, "generic-arg", i), s2 \in Seq(V), n2 \in Nat :
            Others(t, G, "generic-args", Comma, g.to, a.to, s2, n2) /\ a.says = g.says \o s2 /\ a.nested = Deeper(g.nested, n2)
      BY CommaIs, ListIs DEF V
    <2>2. ~Holds(t, i, "E")
      BY CommaIs, MemberApart
    <2>3. g.to \in Nat \ {0} /\ g.says \in Seq(V) /\ g.nested \in Nat
      BY OfIs DEF V
    <2>4. Taken("moreargs", g.to, a.to, s2 \o <<">">>, n2) \in T
      BY <2>1, <2>3, CommaIs, MoreRow, Zenon DEF T
    <2>5. Taken("arg", i, g.to, g.says, g.nested) \in T
      BY RuleIn DEF T
    <2>6. Taken("::<", i, i, <<"::<">>, 0) \in T
      BY <1>1, WordIs, WordTaken DEF V
    <2>7. Row(T, V, <<"::<", "arg", "moreargs">>, i, a.to, <<"::<">> \o (g.says \o (s2 \o <<">">>)), Deeper(0, Deeper(g.nested, n2)))
      BY <1>1, <2>4, <2>5, <2>6, RowTriple DEF Printing
    <2>8. a.says \o <<">">> = g.says \o (s2 \o <<">">>)
      <3>1. <<">">> \in Seq(V)
        BY WordAt, Zenon DEF V
      <3>2. (g.says \o s2) \o <<">">> = g.says \o (s2 \o <<">">>)
        BY <2>3, <3>1, <1>12, Zenon DEF Grouped
      <3> QED
        BY <2>1, <3>2, Zenon
    <2>9. n = Deeper(0, Deeper(g.nested, n2))
      <3>1. Deeper(g.nested, n2) \in Nat
        BY <2>3 DEF Deeper
      <3>2. Deeper(0, Deeper(g.nested, n2)) = Deeper(g.nested, n2)
        BY <3>1 DEF Deeper
      <3> QED
        BY <1>4, <2>1, <3>2
    <2> QED
      BY <1>2, <1>4, <2>2, <2>7, <2>8, <2>9, Zenon DEF EatRow, T, V
  <1> QED
    BY <1>3, <1>4

\* So is what follows the first type of a tuple,
LEMMA SingleRow ==
  ASSUME NEW t, NEW G, NEW W, Grammatical(t, G, W, LongLongMax), NEW i \in Nat \ {0}, NEW j, NEW s, NEW n,
         SingleIs(t, G, i, j, s, n)
  PROVE  /\ EatRow(t, Tree(t, G, W), Words(W), "single", i, j, s, n) /\ Taken("single", i, j, s, n) \in Tree(t, G, W)
         /\ j \in Nat \ {0} /\ s \in Seq(Words(W)) /\ n \in Nat
  <1> DEFINE T == Tree(t, G, W)
             V == Words(W)
  <1>1. Worded(T, V)
    BY TreeWorded
  <1>2. Eats["single"][1] = "E" /\ Eats["single"][2] = <<",)">> /\ Eats["single"][3] = <<Comma, "type", "moretuple">>
    BY CommaEats, CommaIs
  <1>11. <<Comma>> \in Seq(V) /\ <<")">> \in Seq(V) /\ <<",)">> \in Seq(V)
    BY CommaIs, WordAt, Zenon DEF Comma
  <1> HIDE DEF T, V
  <1>12. Grouped(V)
    BY Regroup
  <1>3. ASSUME Holds(t, i, "E"), j = i + 1, s = <<",)">>, n = 0
        PROVE  EatRow(t, T, V, "single", i, j, s, n) /\ j \in Nat \ {0} /\ s \in Seq(V) /\ n \in Nat
    <2>1. Row(T, V, <<",)">>, i + 1, i + 1, <<",)">>, 0)
      <3>1. i + 1 \in Nat \ {0}
        OBVIOUS
      <3> QED
        BY <3>1, WordAt, Zenon DEF T, V
    <2>2. j \in Nat \ {0} /\ n \in Nat
      <3>1. i + 1 \in Nat \ {0} /\ 0 \in Nat
        OBVIOUS
      <3> QED
        BY <1>3, <3>1, Zenon
    <2> QED
      BY <1>2, <1>3, <1>11, <2>1, <2>2, Zenon DEF EatRow
  <1>4. ASSUME NEW r \in Of(G, "types", i), j = r.to, s = <<Comma>> \o (r.says \o <<")">>), n = r.nested
        PROVE  EatRow(t, T, V, "single", i, j, s, n) /\ j \in Nat \ {0} /\ s \in Seq(V) /\ n \in Nat
    <2>1. PICK g \in Of(G, "type", i), s2 \in Seq(V), n2 \in Nat :
            Others(t, G, "types", Comma, g.to, r.to, s2, n2) /\ r.says = g.says \o s2 /\ r.nested = Deeper(g.nested, n2)
      BY CommaIs, ListIs DEF V
    <2>2. ~Holds(t, i, "E")
      BY TypeApart
    <2>3. g.to \in Nat \ {0} /\ g.says \in Seq(V) /\ g.nested \in Nat
      BY OfIs DEF V
    <2>4. Taken("moretuple", g.to, r.to, s2 \o <<")">>, n2) \in T
      BY <2>1, <2>3, CommaIs, MoreRow, Zenon DEF T
    <2>5. Taken("type", i, g.to, g.says, g.nested) \in T
      BY RuleIn DEF T
    <2>6. Taken(Comma, i, i, <<Comma>>, 0) \in T /\ Printing(Comma)
      BY <1>1, CommaIs, WordTaken DEF V, Printing
    <2>7. Row(T, V, <<Comma, "type", "moretuple">>, i, r.to, <<Comma>> \o (g.says \o (s2 \o <<")">>)), Deeper(0, Deeper(g.nested, n2)))
      BY <1>1, <2>4, <2>5, <2>6, RowTriple DEF Printing
    <2>8. r.says \o <<")">> = g.says \o (s2 \o <<")">>)
      <3>1. (g.says \o s2) \o <<")">> = g.says \o (s2 \o <<")">>)
        BY <1>11, <2>3, <1>12, Zenon DEF Grouped
      <3> QED
        BY <2>1, <3>1, Zenon
    <2>9. n = Deeper(0, Deeper(g.nested, n2))
      <3>1. Deeper(g.nested, n2) \in Nat
        BY <2>3 DEF Deeper
      <3>2. Deeper(0, Deeper(g.nested, n2)) = Deeper(g.nested, n2)
        BY <3>1 DEF Deeper
      <3> QED
        BY <1>4, <2>1, <3>2
    <2>10. r.to \in Nat \ {0} /\ r.says \in Seq(V) /\ r.nested \in Nat
      BY OfIs DEF V
    <2>11. s \in Seq(V)
      BY <1>4, <1>11, <2>10, ConcatProperties
    <2> QED
      BY <1>2, <1>4, <2>2, <2>7, <2>8, <2>9, <2>10, <2>11, Zenon DEF EatRow
  <1>5. EatRow(t, T, V, "single", i, j, s, n) /\ j \in Nat \ {0} /\ s \in Seq(V) /\ n \in Nat
    BY <1>3, <1>4, Zenon DEF SingleIs, Comma
  <1>6. Taken("single", i, j, s, n) \in T
    <2> DEFINE d == Taken("single", i, j, s, n)
    <2>1. d.item = "single" /\ d.from = i /\ d.to = j /\ d.says = s /\ d.nested = n
      BY DEF Taken
    <2> HIDE DEF d
    <2>2. SingleIs(t, G, d.from, d.to, d.says, d.nested)
      BY <2>1, Zenon
    <2>3. InnerIs(t, G, d)
      BY <2>1, <2>2 DEF InnerIs
    <2>4. "single" \in Inner /\ j \in Nat
      BY <1>5, InnerAre
    <2> QED
      BY <1>5, <2>3, <2>4, InTree DEF d, T, V
  <1> QED
    BY <1>5, <1>6 DEF T, V

\* and so are the types of a tuple.
LEMMA TupleRow ==
  ASSUME NEW t, NEW G, NEW W, Grammatical(t, G, W, LongLongMax), NEW i \in Nat \ {0}, NEW j, NEW s, NEW n,
         TupleIs(t, G, i, j, s, n)
  PROVE  EatRow(t, Tree(t, G, W), Words(W), "tuple", i, j, s, n)
  <1> DEFINE T == Tree(t, G, W)
             V == Words(W)
  <1>1. Worded(T, V)
    BY TreeWorded
  <1>2. Eats["tuple"][1] = "E" /\ Eats["tuple"][2] = <<")">> /\ Eats["tuple"][3] = <<"type", "single">>
    BY DEF Eats
  <1> HIDE DEF T, V
  <1>3. ASSUME Holds(t, i, "E"), j = i + 1, s = <<")">>, n = 0
        PROVE  EatRow(t, T, V, "tuple", i, j, s, n)
    <2>1. Row(T, V, <<")">>, i + 1, i + 1, <<")">>, 0)
      <3>1. i + 1 \in Nat \ {0}
        OBVIOUS
      <3> QED
        BY <3>1, WordAt, Zenon DEF T, V
    <2> QED
      BY <1>2, <1>3, <2>1, Zenon DEF EatRow
  <1>4. ASSUME NEW y \in Of(G, "type", i), NEW s2, NEW n2,
               SingleIs(t, G, y.to, j, s2, n2), s = y.says \o s2, n = Deeper(y.nested, n2)
        PROVE  EatRow(t, T, V, "tuple", i, j, s, n)
    <2>1. ~Holds(t, i, "E")
      BY TypeApart
    <2>2. y.to \in Nat \ {0}
      BY OfIs
    <2>3. Taken("single", y.to, j, s2, n2) \in T
      BY <1>4, <2>2, SingleRow, Zenon DEF T
    <2>4. Taken("type", i, y.to, y.says, y.nested) \in T
      BY RuleIn DEF T
    <2>5. Row(T, V, <<"type", "single">>, i, j, y.says \o s2, Deeper(y.nested, n2))
      BY <1>1, <2>3, <2>4, RowPair
    <2> QED
      BY <1>2, <1>4, <2>1, <2>5, Zenon DEF EatRow
  <1> QED
    BY <1>3, <1>4, Zenon DEF TupleIs, T, V

\* The greater of two depths.
LEMMA DeeperIs ==
  /\ \A a, b \in Nat : Deeper(a, b) \in Nat
  /\ \A a \in Nat : Deeper(0, a) = a /\ Deeper(a, 0) = a
  /\ \A a, b, c \in Nat : Deeper(Deeper(a, b), c) = Deeper(a, Deeper(b, c))
  BY DEF Deeper

\* The next place.
LEMMA NextPlace == \A i \in Nat \ {0} : i + 1 \in Nat \ {0} /\ i + 1 \in Nat
  OBVIOUS

\* The arrow of a function type, by a name.
Arrow == <<") -> ">>

\* What follows the first parameter of a function type is what an eat() of it takes,
LEMMA MoreParamsRow ==
  ASSUME NEW t, NEW G, NEW W, Grammatical(t, G, W, LongLongMax), NEW i \in Nat \ {0}, NEW j, NEW s, NEW n,
         MoreParamsIs(t, G, i, j, s, n)
  PROVE  /\ EatRow(t, Tree(t, G, W), Words(W), "moreparams", i, j, s, n) /\ Taken("moreparams", i, j, s, n) \in Tree(t, G, W)
         /\ j \in Nat \ {0} /\ s \in Seq(Words(W)) /\ n \in Nat
  <1> DEFINE T == Tree(t, G, W)
             V == Words(W)
  <1>1. Worded(T, V)
    BY TreeWorded
  <1>2. Eats["moreparams"][1] = "E" /\ Eats["moreparams"][2] = <<") -> ", "type">> /\ Eats["moreparams"][3] = <<Comma, "type", "moreparams">>
    BY CommaEats, CommaIs
  <1>3. Arrow \in Seq(V) /\ <<Comma>> \in Seq(V)
    BY CommaIs, WordAt, Zenon DEF Comma, Arrow
  <1>4. \A k \in Nat \ {0} : \A m, s2, n2 : MoreParamsIs(t, G, k, m, s2, n2) =>
          /\ m \in Nat \ {0} /\ s2 \in Seq(V) /\ n2 \in Nat /\ Taken("moreparams", k, m, s2, n2) \in T
    <2> SUFFICES ASSUME NEW k \in Nat \ {0}, NEW m, NEW s2, NEW n2, MoreParamsIs(t, G, k, m, s2, n2)
                 PROVE  /\ m \in Nat \ {0} /\ s2 \in Seq(V) /\ n2 \in Nat /\ Taken("moreparams", k, m, s2, n2) \in T
      BY Zenon
    <2>1. PICK e, s3, n3 : \E y \in Of(G, "type", e) :
            Others(t, G, "types", Comma, k, e, s3, n3) /\ m = y.to /\ s2 = s3 \o (Arrow \o y.says) /\ n2 = Deeper(n3, y.nested)
      BY Zenon DEF MoreParamsIs, Comma, Arrow
    <2>2. PICK y \in Of(G, "type", e) :
            Others(t, G, "types", Comma, k, e, s3, n3) /\ m = y.to /\ s2 = s3 \o (Arrow \o y.says) /\ n2 = Deeper(n3, y.nested)
      BY <2>1, Zenon
    <2>3. s3 \in Seq(V) /\ n3 \in Nat
      BY <2>2, OthersTyped, CommaIs, Zenon
    <2>4. y.to \in Nat \ {0} /\ y.says \in Seq(V) /\ y.nested \in Nat
      BY OfIs, Zenon
    <2>5. s2 \in Seq(V)
      <3>1. Arrow \o y.says \in Seq(V)
        BY <1>3, <2>4, ConcatProperties
      <3> QED
        BY <2>2, <2>3, <3>1, ConcatProperties
    <2>6. m \in Nat \ {0} /\ n2 \in Nat /\ m \in Nat
      BY <2>2, <2>3, <2>4, DeeperIs
    <2> DEFINE d == Taken("moreparams", k, m, s2, n2)
    <2>7. d.item = "moreparams" /\ d.from = k /\ d.to = m /\ d.says = s2 /\ d.nested = n2
      BY DEF Taken
    <2> HIDE DEF d
    <2>8. MoreParamsIs(t, G, d.from, d.to, d.says, d.nested)
      BY <2>7, Zenon
    <2>9. InnerIs(t, G, d)
      BY <2>7, <2>8 DEF InnerIs
    <2>10. "moreparams" \in Inner
      BY InnerAre
    <2> QED
      BY <2>5, <2>6, <2>9, <2>10, InTree, Zenon DEF d
  <1> HIDE DEF T, V
  <1>5. PICK k, s2, n2 : \E y \in Of(G, "type", k) :
          Others(t, G, "types", Comma, i, k, s2, n2) /\ j = y.to /\ s = s2 \o (Arrow \o y.says) /\ n = Deeper(n2, y.nested)
    BY Zenon DEF MoreParamsIs, Comma, Arrow
  <1>6. PICK y \in Of(G, "type", k) :
          Others(t, G, "types", Comma, i, k, s2, n2) /\ j = y.to /\ s = s2 \o (Arrow \o y.says) /\ n = Deeper(n2, y.nested)
    BY <1>5, Zenon
  <1>7. y.to \in Nat \ {0} /\ y.says \in Seq(V) /\ y.nested \in Nat
    BY OfIs DEF V
  <1>8. ASSUME Holds(t, i, "E"), k = i + 1, s2 = <<>>, n2 = 0
        PROVE  EatRow(t, T, V, "moreparams", i, j, s, n)
    <2>1. Taken("type", i + 1, y.to, y.says, y.nested) \in T
      BY <1>8, RuleIn, Zenon DEF T
    <2>2. Taken(") -> ", i + 1, i + 1, Arrow, 0) \in T
      BY NextPlace, WordAt, Zenon DEF T, Arrow
    <2>3. Row(T, V, <<") -> ", "type">>, i + 1, j, Arrow \o y.says, Deeper(0, y.nested))
      BY <1>1, <1>6, <2>1, <2>2, RowPair
    <2>4. s = Arrow \o y.says
      <3>1. Arrow \o y.says \in Seq(V)
        BY <1>3, <1>7, ConcatProperties DEF V
      <3>2. <<>> \o (Arrow \o y.says) = Arrow \o y.says
        BY <3>1, ConcatEmptySeq
      <3> QED
        BY <1>6, <1>8, <3>2, Zenon
    <2> QED
      BY <1>2, <1>6, <1>8, <2>3, <2>4, Zenon DEF EatRow
  <1>9. ASSUME NEW r \in Of(G, "types", i), k = r.to, s2 = <<Comma>> \o r.says, n2 = r.nested
        PROVE  EatRow(t, T, V, "moreparams", i, j, s, n)
    <2>1. PICK g \in Of(G, "type", i), s3 \in Seq(V), n3 \in Nat :
            Others(t, G, "types", Comma, g.to, r.to, s3, n3) /\ r.says = g.says \o s3 /\ r.nested = Deeper(g.nested, n3)
      BY CommaIs, ListIs DEF V
    <2>2. ~Holds(t, i, "E")
      BY TypeApart
    <2>3. g.to \in Nat \ {0} /\ g.says \in Seq(V) /\ g.nested \in Nat
      BY OfIs DEF V
    <2>4. Taken("moreparams", g.to, j, s3 \o (Arrow \o y.says), Deeper(n3, y.nested)) \in T
      <3>1. MoreParamsIs(t, G, g.to, j, s3 \o (Arrow \o y.says), Deeper(n3, y.nested))
        BY <1>6, <1>9, <2>1, Zenon DEF MoreParamsIs, Comma, Arrow
      <3> QED
        BY <1>4, <2>3, <3>1, Zenon
    <2>5. Taken("type", i, g.to, g.says, g.nested) \in T
      BY RuleIn DEF T
    <2>6. Taken(Comma, i, i, <<Comma>>, 0) \in T /\ Printing(Comma)
      BY <1>1, CommaIs, WordTaken DEF V, Printing
    <2>7. Row(T, V, <<Comma, "type", "moreparams">>, i, j, <<Comma>> \o (g.says \o (s3 \o (Arrow \o y.says))),
              Deeper(0, Deeper(g.nested, Deeper(n3, y.nested))))
      BY <1>1, <2>4, <2>5, <2>6, RowTriple DEF Printing
    <2>8. s = <<Comma>> \o (g.says \o (s3 \o (Arrow \o y.says)))
      <3> DEFINE c == Arrow \o y.says
      <3>1. c \in Seq(V) /\ r.says \in Seq(V) /\ <<Comma>> \in Seq(V)
        <4>1. c \in Seq(V) /\ <<Comma>> \in Seq(V)
          BY <1>3, <1>7, ConcatProperties DEF V
        <4> QED
          BY <4>1, OfIs, Zenon DEF V
      <3> HIDE DEF c
      <3>2. Grouped(V)
        BY Regroup
      <3>3. (<<Comma>> \o r.says) \o c = <<Comma>> \o (r.says \o c)
        BY <3>1, <3>2, Zenon DEF Grouped
      <3>4. (g.says \o s3) \o c = g.says \o (s3 \o c)
        BY <2>3, <3>1, <3>2, Zenon DEF Grouped
      <3> QED
        BY <1>6, <1>9, <2>1, <3>3, <3>4, Zenon DEF c
    <2>9. n = Deeper(0, Deeper(g.nested, Deeper(n3, y.nested)))
      <3>1. Deeper(g.nested, Deeper(n3, y.nested)) \in Nat
        BY <1>7, <2>3, DeeperIs
      <3>2. Deeper(Deeper(g.nested, n3), y.nested) = Deeper(g.nested, Deeper(n3, y.nested))
        <4>1. y.nested \in Nat /\ g.nested \in Nat /\ n3 \in Nat
          BY <1>7, <2>3
        <4> QED
          BY <4>1, DeeperIs, Zenon
      <3> QED
        BY <1>6, <1>9, <2>1, <3>1, <3>2, DeeperIs, Zenon
    <2> QED
      BY <1>2, <2>2, <2>7, <2>8, <2>9, Zenon DEF EatRow
  <1>10. EatRow(t, T, V, "moreparams", i, j, s, n)
    BY <1>6, <1>8, <1>9, Zenon DEF Others
  <1> QED
    BY <1>4, <1>10, Zenon DEF T, V

\* and so are all its parameters.
LEMMA ParamsRow ==
  ASSUME NEW t, NEW G, NEW W, Grammatical(t, G, W, LongLongMax), NEW i \in Nat \ {0}, NEW j, NEW s, NEW n,
         ParamsIs(t, G, i, j, s, n)
  PROVE  EatRow(t, Tree(t, G, W), Words(W), "params", i, j, s, n)
  <1> DEFINE T == Tree(t, G, W)
             V == Words(W)
  <1>1. Worded(T, V)
    BY TreeWorded
  <1>2. Eats["params"][1] = "E" /\ Eats["params"][2] = <<") -> ", "type">> /\ Eats["params"][3] = <<"type", "moreparams">>
    BY DEF Eats
  <1>3. Arrow \in Seq(V)
    BY WordAt, Zenon DEF Arrow
  <1> HIDE DEF T, V
  <1>4. ASSUME NEW y \in Of(G, "type", i + 1), Holds(t, i, "E"), j = y.to, s = Arrow \o y.says, n = y.nested
        PROVE  EatRow(t, T, V, "params", i, j, s, n)
    <2>1. Taken("type", i + 1, y.to, y.says, y.nested) \in T
      BY RuleIn, Zenon DEF T
    <2>2. Taken(") -> ", i + 1, i + 1, Arrow, 0) \in T
      BY NextPlace, WordAt, Zenon DEF T, Arrow
    <2>3. Row(T, V, <<") -> ", "type">>, i + 1, j, Arrow \o y.says, Deeper(0, y.nested))
      BY <1>1, <1>4, <2>1, <2>2, RowPair
    <2>4. n = Deeper(0, y.nested)
      <3>1. y.nested \in Nat
        BY OfIs
      <3> QED
        BY <1>4, <3>1, DeeperIs
    <2> QED
      BY <1>2, <1>4, <2>3, <2>4, Zenon DEF EatRow
  <1>5. ASSUME NEW r \in Of(G, "types", i), NEW y \in Of(G, "type", r.to), j = y.to, s = r.says \o (Arrow \o y.says),
               n = Deeper(r.nested, y.nested)
        PROVE  EatRow(t, T, V, "params", i, j, s, n)
    <2>1. PICK g \in Of(G, "type", i), s3 \in Seq(V), n3 \in Nat :
            Others(t, G, "types", Comma, g.to, r.to, s3, n3) /\ r.says = g.says \o s3 /\ r.nested = Deeper(g.nested, n3)
      BY CommaIs, ListIs DEF V
    <2>2. ~Holds(t, i, "E")
      BY TypeApart
    <2>3. g.to \in Nat \ {0} /\ g.says \in Seq(V) /\ g.nested \in Nat /\ y.says \in Seq(V) /\ y.nested \in Nat
      BY OfIs DEF V
    <2>4. Taken("moreparams", g.to, j, s3 \o (Arrow \o y.says), Deeper(n3, y.nested)) \in T
      <3>1. MoreParamsIs(t, G, g.to, j, s3 \o (Arrow \o y.says), Deeper(n3, y.nested))
        BY <1>5, <2>1, Zenon DEF MoreParamsIs, Comma, Arrow
      <3> QED
        BY <2>3, <3>1, MoreParamsRow, Zenon DEF T
    <2>5. Taken("type", i, g.to, g.says, g.nested) \in T
      BY RuleIn DEF T
    <2>6. Row(T, V, <<"type", "moreparams">>, i, j, g.says \o (s3 \o (Arrow \o y.says)),
              Deeper(g.nested, Deeper(n3, y.nested)))
      BY <1>1, <2>4, <2>5, RowPair
    <2>7. s = g.says \o (s3 \o (Arrow \o y.says))
      <3> DEFINE c == Arrow \o y.says
      <3>1. c \in Seq(V)
        BY <1>3, <2>3, ConcatProperties DEF V
      <3> HIDE DEF c
      <3>2. Grouped(V)
        BY Regroup
      <3>3. (g.says \o s3) \o c = g.says \o (s3 \o c)
        BY <2>3, <3>1, <3>2, Zenon DEF Grouped
      <3> QED
        BY <1>5, <2>1, <3>3, Zenon DEF c
    <2>8. n = Deeper(g.nested, Deeper(n3, y.nested))
      <3>1. Deeper(Deeper(g.nested, n3), y.nested) = Deeper(g.nested, Deeper(n3, y.nested))
        BY <2>3, DeeperIs
      <3> QED
        BY <1>5, <2>1, <3>1, Zenon
    <2> QED
      BY <1>2, <2>2, <2>6, <2>7, <2>8, Zenon DEF EatRow
  <1> QED
    BY <1>4, <1>5, Zenon DEF ParamsIs, T, V, Arrow

\* The plus between traits, by a name.
Plus == " + "

\* It separates the traits of a trait object.
LEMMA PlusIs ==
  /\ Lists("dyn-traits", "dyn-trait", Plus) /\ Separator(Plus)
  /\ Eats["morebounds"][3] = <<Plus, "path", "assoc", "morebounds">>
  <1>1. Lists("dyn-traits", "dyn-trait", Plus) /\ Separator(Plus)
    BY Zenon DEF Lists, Separator, Plus
  <1>2. Eats["morebounds"][3] = <<" + ", "path", "assoc", "morebounds">>
    BY DEF Eats
  <1> QED
    BY <1>1, <1>2, Zenon DEF Plus

\* A marked node that mutes what was before it: its items are x1, x2, the unmuting and x4.
LEMMA RowUnmuted ==
  ASSUME NEW T, NEW V, Worded(T, V), NEW x1, NEW x2, NEW x4, x1 # "member", x2 # "member", x4 # "member", x4 # "unmute",
         "unmute" \in V, NEW i, NEW i2, NEW i3 \in Nat \ {0}, NEW j, NEW s1, NEW s2, NEW s4, NEW n1, NEW n2, NEW n4,
         Taken(x1, i, i2, s1, n1) \in T, Taken(x2, i2, i3, s2, n2) \in T, Taken(x4, i3, j, s4, n4) \in T
  PROVE  Row(T, V, <<x1, x2, "unmute", x4>>, i, j, s4, Deeper(n1, Deeper(n2, n4)))
  <1> DEFINE B == <<x1, x2, "unmute", x4>>
  <1>1. x1 \in V /\ x2 \in V /\ x4 \in V
    BY TakenIs
  <1>2. B \in Seq(V) /\ Len(B) = 4 /\ B[1] = x1 /\ B[2] = x2 /\ B[3] = "unmute" /\ B[4] = x4
    BY <1>1
  <1>3. Clear(B, 3) /\ 3 \in 0..3
    BY <1>2 DEF Clear
  <1>4. Taken("unmute", i3, i3, <<>>, 0) \in T
    <2>1. "unmute" \notin Functions
      BY FunctionsAre
    <2> QED
      BY <2>1, Zenon DEF Worded
  <1>5. 2 < 3 /\ 1 < 3 /\ 3 <= 4 /\ 3 \in Nat /\ "unmute" # "member"
    OBVIOUS
  <1> HIDE DEF B
  <1>6. RowFrom(T, V, B, 3, i3, j, s4, n4)
    BY <1>2, NodeLast, Counts, Zenon DEF Counting
  <1>7. RowFrom(T, V, B, 2, i3, j, s4, n4)
    BY <1>2, <1>3, <1>4, <1>5, <1>6, NothingBefore, Counts, Zenon DEF Counting
  <1>8. RowFrom(T, V, B, 1, i2, j, s4, Deeper(n2, n4))
    BY <1>2, <1>5, <1>7, MutedBefore, Counts, Zenon DEF Counting
  <1>9. RowFrom(T, V, B, 0, i, j, s4, Deeper(n1, Deeper(n2, n4)))
    <2>1. 0 \in Nat /\ 1 = 0 + 1
      OBVIOUS
    <2> QED
      BY <1>2, <1>5, <1>8, <2>1, MutedBefore, ZenonT(30)
  <1> QED
    BY <1>9, RowIs DEF B

\* The bindings of a trait are what an eat() of them takes.
LEMMA AssocRow ==
  ASSUME NEW t, NEW G, NEW W, Grammatical(t, G, W, LongLongMax), NEW i \in Nat \ {0}, NEW j, NEW n, ~Holds(t, j, "p"),
         \/ j = i /\ n = 0
         \/ \E b \in Of(G, "bindings", i) : j = b.to /\ n = b.nested
  PROVE  /\ EatRow(t, Tree(t, G, W), Words(W), "assoc", i, j, <<>>, n) /\ Taken("assoc", i, j, <<>>, n) \in Tree(t, G, W)
         /\ j \in Nat \ {0} /\ n \in Nat
  <1> DEFINE T == Tree(t, G, W)
             V == Words(W)
  <1>1. Worded(T, V) /\ "unmute" \in V
    BY TreeWorded DEF Words, Lexicon
  <1>2. Eats["assoc"][1] = "p" /\ Eats["assoc"][2] = <<"identifier", "type", "unmute", "assoc">> /\ Eats["assoc"][3] = <<>>
    BY DEF Eats
  <1>3. \A k \in Nat \ {0} : \A m, n2 :
          ~Holds(t, m, "p") /\ ((m = k /\ n2 = 0) \/ \E b \in Of(G, "bindings", k) : m = b.to /\ n2 = b.nested) =>
            m \in Nat \ {0} /\ n2 \in Nat /\ Taken("assoc", k, m, <<>>, n2) \in T
    <2> SUFFICES ASSUME NEW k \in Nat \ {0}, NEW m, NEW n2, ~Holds(t, m, "p"),
                        (m = k /\ n2 = 0) \/ \E b \in Of(G, "bindings", k) : m = b.to /\ n2 = b.nested
                 PROVE  m \in Nat \ {0} /\ n2 \in Nat /\ Taken("assoc", k, m, <<>>, n2) \in T
      BY Zenon
    <2>1. m \in Nat \ {0} /\ m \in Nat /\ n2 \in Nat
      <3>1. 0 \in Nat /\ k \in Nat \ {0} /\ k \in Nat
        OBVIOUS
      <3>2. \A b \in Of(G, "bindings", k) : b.to \in Nat \ {0} /\ b.nested \in Nat /\ b.to \in Nat
        BY OfIs
      <3> QED
        BY <3>1, <3>2, Zenon
    <2> DEFINE d == Taken("assoc", k, m, <<>>, n2)
    <2>2. d.item = "assoc" /\ d.from = k /\ d.to = m /\ d.says = <<>> /\ d.nested = n2
      BY DEF Taken
    <2> HIDE DEF d
    <2>3. AssocIs(t, G, d)
      BY <2>2, Zenon DEF AssocIs
    <2>4. InnerIs(t, G, d)
      BY <2>2, <2>3 DEF InnerIs
    <2>5. "assoc" \in Inner /\ <<>> \in Seq(V)
      BY InnerAre
    <2> QED
      BY <2>1, <2>4, <2>5, InTree, Zenon DEF d
  <1>4. j \in Nat \ {0} /\ n \in Nat /\ Taken("assoc", i, j, <<>>, n) \in T
    BY <1>3, Zenon
  <1> HIDE DEF T, V
  <1>5. ASSUME j = i, n = 0
        PROVE  EatRow(t, T, V, "assoc", i, j, <<>>, n)
    <2>1. Row(T, V, <<>>, i, i, <<>>, 0)
      BY RowEmpty
    <2> QED
      BY <1>2, <1>5, <2>1, Zenon DEF EatRow
  <1>6. ASSUME NEW b \in Of(G, "bindings", i), j = b.to, n = b.nested
        PROVE  EatRow(t, T, V, "assoc", i, j, <<>>, n)
    <2>1. b \in G /\ b.rule = "bindings" /\ b.from = i
      BY OfIs
    <2>2. Bindings(t, G, b) /\ t \in Seq(W)
      BY <2>1, Zenon DEF Grammatical
    <2>3. PICK k \in Places(t), c \in Places(t) : \E y \in Of(G, "type", k) :
            /\ Holds(t, i, "p") /\ Undisambiguated(t, i + 1, c, k)
            /\ \/ j = y.to /\ n = y.nested
               \/ \E b2 \in Of(G, "bindings", y.to) : j = b2.to /\ n = Deeper(y.nested, b2.nested)
      BY <1>6, <2>1, <2>2, Zenon DEF Bindings
    <2>4. PICK y \in Of(G, "type", k) :
            /\ Holds(t, i, "p") /\ Undisambiguated(t, i + 1, c, k)
            /\ \/ j = y.to /\ n = y.nested
               \/ \E b2 \in Of(G, "bindings", y.to) : j = b2.to /\ n = Deeper(y.nested, b2.nested)
      BY <2>3, Zenon
    <2>5. y.to \in Nat \ {0} /\ y.nested \in Nat /\ 0 \in Nat
      BY OfIs
    <2>6. PICK n2 : n = Deeper(y.nested, n2) /\ n2 \in Nat /\ Taken("assoc", y.to, j, <<>>, n2) \in T
      <3>1. CASE j = y.to /\ n = y.nested
        <4>1. Taken("assoc", y.to, j, <<>>, 0) \in T
          BY <1>3, <2>5, <3>1, Zenon DEF T
        <4>2. n = Deeper(y.nested, 0)
          BY <2>5, <3>1, DeeperIs, Zenon
        <4> QED
          BY <2>5, <4>1, <4>2, Zenon
      <3>2. CASE \E b2 \in Of(G, "bindings", y.to) : j = b2.to /\ n = Deeper(y.nested, b2.nested)
        BY <1>3, <2>5, <3>2, Zenon DEF T
      <3> QED
        BY <2>4, <3>1, <3>2, Zenon
    <2>7. Taken("identifier", i + 1, k, SubSeq(t, c, k - 1), 0) \in T
      BY <2>2, <2>4, NextPlace, NameIn, Zenon DEF T
    <2>8. Taken("type", k, y.to, y.says, y.nested) \in T
      BY RuleIn, Zenon DEF T
    <2>9. Row(T, V, <<"identifier", "type", "unmute", "assoc">>, i + 1, j, <<>>, Deeper(0, Deeper(y.nested, n2)))
      BY <1>1, <2>5, <2>6, <2>7, <2>8, RowUnmuted
    <2>10. n = Deeper(0, Deeper(y.nested, n2))
      BY <1>4, <2>6, DeeperIs, Zenon
    <2> QED
      BY <1>2, <2>4, <2>9, <2>10, Zenon DEF EatRow
  <1> QED
    BY <1>4, <1>5, <1>6, Zenon DEF T, V

\* A bound of a dyn type: its path, and its bindings, which are not said.
LEMMA BoundIs ==
  ASSUME NEW t, NEW G, NEW W, Grammatical(t, G, W, LongLongMax), NEW i, NEW g \in Of(G, "dyn-trait", i), ~Holds(t, g.to, "p")
  PROVE  \E p \in Of(G, "path", i), n \in Nat :
           Taken("assoc", p.to, g.to, <<>>, n) \in Tree(t, G, W) /\ g.says = p.says /\ g.nested = Deeper(p.nested, n)
  <1>1. g \in G /\ g.rule = "dyn-trait" /\ g.from = i
    BY OfIs
  <1>2. DynTrait(G, g)
    BY <1>1, Zenon DEF Grammatical
  <1>3. PICK p \in Of(G, "path", i) :
          /\ g.says = p.says
          /\ \/ g.to = p.to /\ g.nested = p.nested
             \/ \E b \in Of(G, "bindings", p.to) : g.to = b.to /\ g.nested = Deeper(p.nested, b.nested)
    BY <1>1, <1>2, Zenon DEF DynTrait
  <1>4. p.to \in Nat \ {0} /\ p.nested \in Nat /\ 0 \in Nat
    BY OfIs
  <1>5. CASE g.to = p.to /\ g.nested = p.nested
    <2>1. Taken("assoc", p.to, g.to, <<>>, 0) \in Tree(t, G, W)
      BY <1>4, <1>5, AssocRow, Zenon
    <2>2. g.nested = Deeper(p.nested, 0)
      BY <1>4, <1>5, DeeperIs, Zenon
    <2> QED
      BY <1>3, <1>4, <2>1, <2>2, Zenon
  <1>6. CASE \E b \in Of(G, "bindings", p.to) : g.to = b.to /\ g.nested = Deeper(p.nested, b.nested)
    <2>1. PICK b \in Of(G, "bindings", p.to) : g.to = b.to /\ g.nested = Deeper(p.nested, b.nested)
      BY <1>6
    <2>2. Taken("assoc", p.to, g.to, <<>>, b.nested) \in Tree(t, G, W) /\ b.nested \in Nat
      BY <1>4, <2>1, AssocRow, Zenon
    <2> QED
      BY <1>3, <2>1, <2>2, Zenon
  <1> QED
    BY <1>3, <1>5, <1>6, Zenon

\* What follows a member of a list of traits is no binding.
LEMMA OthersApart ==
  ASSUME NEW t, NEW G, NEW W, Grammatical(t, G, W, LongLongMax), NEW i, NEW j, NEW s, NEW n,
         Others(t, G, "dyn-traits", Plus, i, j, s, n)
  PROVE  ~Holds(t, i, "p")
  <1>1. CASE Holds(t, i, "E")
    BY <1>1, HoldsOne
  <1>2. ASSUME NEW r \in Of(G, "dyn-traits", i)
        PROVE  ~Holds(t, i, "p")
    <2>1. PICK y \in Of(G, "dyn-trait", i) : TRUE
      BY PlusIs, ListIs, Zenon
    <2> QED
      BY PlusIs, MemberApart, Zenon
  <1> QED
    BY <1>1, <1>2, Zenon DEF Others

\* What follows the first trait of a trait object is what an eat() of it takes.
LEMMA MoreBoundsRow ==
  ASSUME NEW t, NEW G, NEW W, Grammatical(t, G, W, LongLongMax), NEW i \in Nat \ {0}, NEW j, NEW s, NEW n,
         Others(t, G, "dyn-traits", Plus, i, j, s, n)
  PROVE  EatRow(t, Tree(t, G, W), Words(W), "morebounds", i, j, s, n) /\ Taken("morebounds", i, j, s, n) \in Tree(t, G, W)
  <1> DEFINE T == Tree(t, G, W)
             V == Words(W)
  <1>1. Worded(T, V)
    BY TreeWorded
  <1>2. Eats["morebounds"][1] = "E" /\ Eats["morebounds"][2] = <<>> /\ Eats["morebounds"][3] = <<Plus, "path", "assoc", "morebounds">>
    <2>1. Eats["morebounds"][1] = "E" /\ Eats["morebounds"][2] = <<>>
      BY DEF Eats
    <2> QED
      BY <2>1, PlusIs
  <1>3. \A k \in Nat \ {0} : \A m, s2, n2 : Others(t, G, "dyn-traits", Plus, k, m, s2, n2) =>
          Taken("morebounds", k, m, s2, n2) \in T
    <2> SUFFICES ASSUME NEW k \in Nat \ {0}, NEW m, NEW s2, NEW n2, Others(t, G, "dyn-traits", Plus, k, m, s2, n2)
                 PROVE  Taken("morebounds", k, m, s2, n2) \in T
      BY Zenon
    <2>1. m \in Nat \ {0} /\ s2 \in Seq(V) /\ n2 \in Nat
      BY PlusIs, OthersTyped, Zenon
    <2> DEFINE d == Taken("morebounds", k, m, s2, n2)
    <2>2. d.item = "morebounds" /\ d.from = k /\ d.to = m /\ d.says = s2 /\ d.nested = n2
      BY DEF Taken
    <2> HIDE DEF d
    <2>3. Others(t, G, "dyn-traits", " + ", d.from, d.to, d.says, d.nested)
      BY <2>2, Zenon DEF Plus
    <2>4. InnerIs(t, G, d)
      BY <2>2, <2>3 DEF InnerIs
    <2>5. "morebounds" \in Inner /\ m \in Nat
      BY <2>1, InnerAre
    <2> QED
      BY <2>1, <2>4, <2>5, InTree, Zenon DEF d
  <1> HIDE DEF T, V
  <1>4. ASSUME Holds(t, i, "E"), j = i + 1, s = <<>>, n = 0
        PROVE  EatRow(t, T, V, "morebounds", i, j, s, n)
    <2>1. Row(T, V, <<>>, i + 1, i + 1, <<>>, 0)
      BY RowEmpty
    <2> QED
      BY <1>2, <1>4, <2>1, Zenon DEF EatRow
  <1>5. ASSUME NEW r \in Of(G, "dyn-traits", i), j = r.to, s = <<Plus>> \o r.says, n = r.nested
        PROVE  EatRow(t, T, V, "morebounds", i, j, s, n)
    <2>1. PICK g \in Of(G, "dyn-trait", i), s2 \in Seq(V), n2 \in Nat :
            Others(t, G, "dyn-traits", Plus, g.to, r.to, s2, n2) /\ r.says = g.says \o s2 /\ r.nested = Deeper(g.nested, n2)
      BY PlusIs, ListIs DEF V
    <2>2. ~Holds(t, i, "E") /\ ~Holds(t, g.to, "p")
      BY <2>1, PlusIs, MemberApart, OthersApart, Zenon
    <2>3. g.to \in Nat \ {0}
      BY OfIs
    <2>4. PICK p \in Of(G, "path", i), na \in Nat :
            Taken("assoc", p.to, g.to, <<>>, na) \in T /\ g.says = p.says /\ g.nested = Deeper(p.nested, na)
      BY <2>2, BoundIs DEF T
    <2>5. Taken("path", i, p.to, p.says, p.nested) \in T
      BY RuleIn DEF T
    <2>6. Taken("morebounds", g.to, j, s2, n2) \in T
      BY <1>3, <1>5, <2>1, <2>3, Zenon
    <2>7. Taken(Plus, i, i, <<Plus>>, 0) \in T /\ Printing(Plus)
      BY WordAt, Zenon DEF T, Plus
    <2>8. Row(T, V, <<Plus, "path", "assoc", "morebounds">>, i, j, <<Plus>> \o (p.says \o (<<>> \o s2)),
              Deeper(0, Deeper(p.nested, Deeper(na, n2))))
      BY <1>1, <2>4, <2>5, <2>6, <2>7, RowFour DEF Printing
    <2>9. s = <<Plus>> \o (p.says \o (<<>> \o s2))
      <3>1. <<>> \o s2 = s2
        BY ConcatEmptySeq
      <3> QED
        BY <1>5, <2>1, <2>4, <3>1, Zenon
    <2>10. n = Deeper(0, Deeper(p.nested, Deeper(na, n2)))
      <3>1. p.nested \in Nat /\ na \in Nat /\ n2 \in Nat
        BY OfIs
      <3>2. Deeper(Deeper(p.nested, na), n2) = Deeper(p.nested, Deeper(na, n2))
        BY <3>1, DeeperIs, Zenon
      <3>3. Deeper(p.nested, Deeper(na, n2)) \in Nat
        BY <3>1, DeeperIs, Zenon
      <3> QED
        BY <1>5, <2>1, <2>4, <3>2, <3>3, DeeperIs, Zenon
    <2> QED
      BY <1>2, <2>2, <2>8, <2>9, <2>10, Zenon DEF EatRow
  <1>6. EatRow(t, T, V, "morebounds", i, j, s, n)
    BY <1>4, <1>5, Zenon DEF Others
  <1> QED
    BY <1>3, <1>6, Zenon DEF T, V

\* The traits of a trait object, or none.
BoundsAre(t, G, i, j, s, n) ==
  \/ Holds(t, i, "E") /\ j = i + 1 /\ s = <<"?">> /\ n = 0
  \/ \E r \in Of(G, "dyn-traits", i) : r.to = j /\ r.says = s /\ r.nested = n

\* They are what an eat() of them takes.
LEMMA BoundsRow ==
  ASSUME NEW t, NEW G, NEW W, Grammatical(t, G, W, LongLongMax), NEW i \in Nat \ {0}, NEW j, NEW s, NEW n,
         BoundsAre(t, G, i, j, s, n)
  PROVE  EatRow(t, Tree(t, G, W), Words(W), "bounds", i, j, s, n)
  <1> DEFINE T == Tree(t, G, W)
             V == Words(W)
  <1>1. Worded(T, V)
    BY TreeWorded
  <1>2. Eats["bounds"][1] = "E" /\ Eats["bounds"][2] = <<"?">> /\ Eats["bounds"][3] = <<"path", "assoc", "morebounds">>
    BY DEF Eats
  <1> HIDE DEF T, V
  <1>3. ASSUME Holds(t, i, "E"), j = i + 1, s = <<"?">>, n = 0
        PROVE  EatRow(t, T, V, "bounds", i, j, s, n)
    <2>1. Row(T, V, <<"?">>, i + 1, i + 1, <<"?">>, 0)
      BY NextPlace, WordAt, Zenon DEF T, V
    <2> QED
      BY <1>2, <1>3, <2>1, Zenon DEF EatRow
  <1>4. ASSUME NEW r \in Of(G, "dyn-traits", i), r.to = j, r.says = s, r.nested = n
        PROVE  EatRow(t, T, V, "bounds", i, j, s, n)
    <2>1. PICK g \in Of(G, "dyn-trait", i), s2 \in Seq(V), n2 \in Nat :
            Others(t, G, "dyn-traits", Plus, g.to, r.to, s2, n2) /\ r.says = g.says \o s2 /\ r.nested = Deeper(g.nested, n2)
      BY PlusIs, ListIs DEF V
    <2>2. ~Holds(t, i, "E") /\ ~Holds(t, g.to, "p")
      BY <2>1, PlusIs, MemberApart, OthersApart, Zenon
    <2>3. g.to \in Nat \ {0}
      BY OfIs
    <2>4. PICK p \in Of(G, "path", i), na \in Nat :
            Taken("assoc", p.to, g.to, <<>>, na) \in T /\ g.says = p.says /\ g.nested = Deeper(p.nested, na)
      BY <2>2, BoundIs DEF T
    <2>5. Taken("path", i, p.to, p.says, p.nested) \in T
      BY RuleIn DEF T
    <2>6. Taken("morebounds", g.to, j, s2, n2) \in T
      BY <1>4, <2>1, <2>3, MoreBoundsRow, Zenon DEF T
    <2>8. Row(T, V, <<"path", "assoc", "morebounds">>, i, j, p.says \o (<<>> \o s2),
              Deeper(p.nested, Deeper(na, n2)))
      BY <1>1, <2>4, <2>5, <2>6, RowTriple DEF Printing
    <2>9. s = p.says \o (<<>> \o s2)
      <3>1. <<>> \o s2 = s2
        BY ConcatEmptySeq
      <3> QED
        BY <1>4, <2>1, <2>4, <3>1, Zenon
    <2>10. n = Deeper(p.nested, Deeper(na, n2))
      <3>1. p.nested \in Nat /\ na \in Nat /\ n2 \in Nat
        BY OfIs
      <3>2. Deeper(Deeper(p.nested, na), n2) = Deeper(p.nested, Deeper(na, n2))
        BY <3>1, DeeperIs, Zenon
      <3> QED
        BY <1>4, <2>1, <2>4, <3>2, Zenon
    <2> QED
      BY <1>2, <2>2, <2>8, <2>9, <2>10, Zenon DEF EatRow
  <1> QED
    BY <1>3, <1>4, Zenon DEF BoundsAre, T, V

\* "U" before a function type is what an eat() of it takes,
LEMMA UnsafeRow ==
  ASSUME NEW t, NEW G, NEW W, NEW i \in Nat \ {0}, NEW j, j = IF Holds(t, i, "U") THEN i + 1 ELSE i
  PROVE  EatRow(t, Tree(t, G, W), Words(W), "unsafe", i, j, <<>>, 0)
  <1>1. Eats["unsafe"][1] = "U" /\ Eats["unsafe"][2] = <<>> /\ Eats["unsafe"][3] = <<>>
    BY DEF Eats
  <1>2. Row(Tree(t, G, W), Words(W), <<>>, i + 1, i + 1, <<>>, 0) /\ Row(Tree(t, G, W), Words(W), <<>>, i, i, <<>>, 0)
    BY RowEmpty
  <1> QED
    BY <1>1, <1>2, Zenon DEF EatRow

\* and so is its abi,
LEMMA AbiRow ==
  ASSUME NEW t, NEW G, NEW W, Grammatical(t, G, W, LongLongMax), NEW i \in Nat \ {0}, NEW j,
         IF Holds(t, i, "K") THEN Abi(t, i, j) ELSE j = i
  PROVE  EatRow(t, Tree(t, G, W), Words(W), "abi", i, j, <<>>, 0)
  <1> DEFINE T == Tree(t, G, W)
             V == Words(W)
  <1>1. Worded(T, V) /\ t \in Seq(W)
    BY TreeWorded, Zenon DEF Grammatical
  <1>2. Eats["abi"][1] = "K" /\ Eats["abi"][2] = <<"abiname">> /\ Eats["abi"][3] = <<>>
    BY DEF Eats
  <1>3. CASE ~Holds(t, i, "K")
    <2>1. Row(T, V, <<>>, i, i, <<>>, 0)
      BY RowEmpty
    <2> QED
      BY <1>2, <1>3, <2>1, Zenon DEF EatRow
  <1>4. CASE Holds(t, i, "K")
    <2>1. Abi(t, i, j)
      BY <1>4
    <2>2. j \in Nat
      <3>1. CASE j = i + 2
        BY <3>1
      <3>2. ASSUME NEW c \in Places(t), Undisambiguated(t, i + 1, c, j)
            PROVE  j \in Nat
        <4>1. j \in Nat \ {0}
          BY <1>1, <3>2, NextPlace, NameIn, Zenon
        <4> QED
          BY <4>1
      <3> QED
        BY <2>1, <3>1, <3>2, Zenon DEF Abi
    <2> DEFINE d == Taken("abiname", i + 1, j, <<>>, 0)
    <2>3. d.item = "abiname" /\ d.from = i + 1 /\ d.to = j /\ d.says = <<>> /\ d.nested = 0
      BY DEF Taken
    <2>4. (i + 1) - 1 = i /\ i + 1 \in Nat \ {0} /\ <<>> \in Seq(V) /\ 0 \in Nat
      OBVIOUS
    <2> HIDE DEF d
    <2>5. Abi(t, d.from - 1, d.to)
      BY <2>1, <2>3, <2>4, Zenon
    <2>6. InnerIs(t, G, d)
      BY <2>3, <2>5 DEF InnerIs
    <2>7. "abiname" \in Inner
      BY InnerAre
    <2>8. d \in T
      BY <2>2, <2>4, <2>6, <2>7, InTree, Zenon DEF d
    <2>9. Row(T, V, <<"abiname">>, i + 1, j, <<>>, 0)
      BY <1>1, <2>8, RowOne DEF d
    <2> QED
      BY <1>2, <1>4, <2>9, Zenon DEF EatRow
  <1> QED
    BY <1>3, <1>4

\* A node, and the unmuting.
LEMMA RowHidden ==
  ASSUME NEW T, NEW V, Worded(T, V), NEW x1, x1 # "member", "unmute" \in V, NEW i, NEW j \in Nat \ {0}, NEW s1, NEW n1,
         Taken(x1, i, j, s1, n1) \in T
  PROVE  Row(T, V, <<x1, "unmute">>, i, j, <<>>, n1)
  <1> DEFINE B == <<x1, "unmute">>
  <1>1. x1 \in V
    BY TakenIs
  <1>2. B \in Seq(V) /\ Len(B) = 2 /\ B[1] = x1 /\ B[2] = "unmute"
    BY <1>1
  <1>3. Taken("unmute", j, j, <<>>, 0) \in T
    <2>1. "unmute" \notin Functions
      BY FunctionsAre
    <2> QED
      BY <2>1, Zenon DEF Worded
  <1>4. 1 < 2 /\ 2 <= 2 /\ 2 \in Nat /\ "unmute" # "member"
    OBVIOUS
  <1> HIDE DEF B
  <1>5. RowFrom(T, V, B, 1, j, j, <<>>, 0)
    BY <1>2, <1>3, <1>4, NodeLast, Counts, Zenon DEF Counting
  <1>6. RowFrom(T, V, B, 0, i, j, <<>>, Deeper(n1, 0))
    BY <1>2, <1>4, <1>5, MutedBefore, Counts, Zenon DEF Counting
  <1>7. Deeper(n1, 0) = n1
    BY TakenIs DEF Deeper
  <1> QED
    BY <1>6, <1>7, RowIs DEF B

\* and so is the name of that.
LEMMA AbiNameRow ==
  ASSUME NEW t, NEW G, NEW W, Grammatical(t, G, W, LongLongMax), NEW i \in Nat \ {0}, NEW j, Abi(t, i - 1, j)
  PROVE  EatRow(t, Tree(t, G, W), Words(W), "abiname", i, j, <<>>, 0)
  <1> DEFINE T == Tree(t, G, W)
             V == Words(W)
  <1>1. Worded(T, V) /\ t \in Seq(W) /\ "unmute" \in V
    <2>1. Worded(T, V) /\ t \in Seq(W)
      BY TreeWorded, Zenon DEF Grammatical
    <2> QED
      BY <2>1 DEF Words, Lexicon
  <1>2. Eats["abiname"][1] = "C" /\ Eats["abiname"][2] = <<>> /\ Eats["abiname"][3] = <<"identifier", "unmute">>
    BY DEF Eats
  <1>3. (i - 1) + 1 = i /\ (i - 1) + 2 = i + 1
    OBVIOUS
  <1> HIDE DEF T, V
  <1>4. CASE Holds(t, i, "C") /\ j = i + 1
    <2>1. Row(T, V, <<>>, i + 1, i + 1, <<>>, 0)
      BY RowEmpty
    <2> QED
      BY <1>2, <1>4, <2>1, Zenon DEF EatRow, T, V
  <1>5. ASSUME NEW c \in Places(t), Undisambiguated(t, i, c, j)
        PROVE  EatRow(t, T, V, "abiname", i, j, <<>>, 0)
    <2>1. Taken("identifier", i, j, SubSeq(t, c, j - 1), 0) \in T /\ j \in Nat \ {0} /\ t[i] \in DigitSet
      BY <1>1, <1>5, NameIn, Zenon DEF T
    <2>2. ~Holds(t, i, "C")
      BY <2>1, LettersApart DEF Holds
    <2>3. Row(T, V, <<"identifier", "unmute">>, i, j, <<>>, 0)
      BY <1>1, <2>1, RowHidden
    <2> QED
      BY <1>2, <2>2, <2>3, Zenon DEF EatRow
  <1> QED
    BY <1>3, <1>4, <1>5, Zenon DEF Abi, T, V

\* A constant is what an eat() of it takes,
LEMMA ConstantRow ==
  ASSUME NEW t, NEW G, NEW W, Grammatical(t, G, W, LongLongMax), NEW i, NEW g \in Of(G, "const", i)
  PROVE  EatRow(t, Tree(t, G, W), Words(W), "constant", i, g.to, g.says, g.nested)
  <1> DEFINE T == Tree(t, G, W)
             V == Words(W)
  <1>1. Worded(T, V)
    BY TreeWorded
  <1>2. Eats["constant"][1] = "B" /\ Eats["constant"][3] = <<"typed">>
    BY DEF Eats
  <1>3. g \in G /\ g.rule = "const" /\ g.from = i
    BY OfIs
  <1>4. Constant(t, G, g)
    BY <1>3, Zenon DEF Grammatical
  <1>5. \E y \in Of(G, "type", i) : TRUE
    BY <1>3, <1>4, Zenon DEF Constant
  <1>6. ~Holds(t, i, "B")
    BY <1>5, TypeApart
  <1>7. Taken("typed", i, g.to, g.says, g.nested) \in T
    BY RuleIn
  <1> HIDE DEF T, V
  <1>8. Row(T, V, <<"typed">>, i, g.to, g.says, g.nested)
    BY <1>1, <1>7, RowOne
  <1> QED
    BY <1>2, <1>6, <1>8, Zenon DEF EatRow, T, V

\* A number, of which the digits are taken for its value.
LEMMA NumberIs ==
  ASSUME NEW t, NEW G, NEW W, Grammatical(t, G, W, LongLongMax), NEW i, NEW g \in Of(G, "number", i)
  PROVE  /\ Taken("value", i, g.to, g.says, g.nested) \in Tree(t, G, W) /\ Row(Tree(t, G, W), Words(W), <<"value">>, i, g.to, g.says, g.nested)
         /\ ~Holds(t, i, "n") /\ ~Holds(t, i, "p") /\ g.nested = 0
  <1>1. g \in G /\ g.rule = "number" /\ g.from = i /\ i \in Nat \ {0} /\ g.says \in Seq(Words(W))
    BY OfIs
  <1>2. t \in Seq(W) /\ HexValue(t, g, LongLongMax)
    BY <1>1, Zenon DEF Grammatical
  <1>3. PICK v \in 0..LongLongMax : HexNumber(t, i, g.to, v) /\ g.says = Spelling[v] /\ g.nested = 0
    BY <1>1, <1>2, Zenon DEF HexValue
  <1>4. Taken("value", i, g.to, Spelling[v], 0) \in Tree(t, G, W) /\ t[i] \in DigitSet \cup LowerSet \cup {"_"}
    BY <1>1, <1>2, <1>3, HexIn, Zenon
  <1>5. ~Holds(t, i, "n") /\ ~Holds(t, i, "p")
    BY <1>4, LettersApart DEF Holds
  <1>6. Taken("value", i, g.to, g.says, g.nested) \in Tree(t, G, W)
    BY <1>3, <1>4, Zenon
  <1>7. Row(Tree(t, G, W), Words(W), <<"value">>, i, g.to, g.says, g.nested)
    <2>1. Worded(Tree(t, G, W), Words(W)) /\ "value" # "member"
      BY TreeWorded
    <2> QED
      BY <1>6, <2>1, RowOne, Zenon
  <1> QED
    BY <1>3, <1>5, <1>6, <1>7, Zenon

\* and so is a number that is no placeholder,
LEMMA PlaceholderRow ==
  ASSUME NEW t, NEW G, NEW W, Grammatical(t, G, W, LongLongMax), NEW i, NEW g \in Of(G, "number", i)
  PROVE  EatRow(t, Tree(t, G, W), Words(W), "placeholder", i, g.to, g.says, g.nested)
  <1>1. Eats["placeholder"][1] = "p" /\ Eats["placeholder"][3] = <<"value">>
    BY DEF Eats
  <1> QED
    BY <1>1, NumberIs, Zenon DEF EatRow

\* and so is one with its sign,
LEMMA SignRow ==
  ASSUME NEW t, NEW G, NEW W, Grammatical(t, G, W, LongLongMax), NEW d, d.from \in Nat \ {0}, SignedIs(t, G, d)
  PROVE  EatRow(t, Tree(t, G, W), Words(W), "sign", d.from, d.to, d.says, d.nested)
  <1> DEFINE T == Tree(t, G, W)
             V == Words(W)
  <1>1. Worded(T, V)
    BY TreeWorded
  <1>2. Eats["sign"][1] = "n" /\ Eats["sign"][2] = <<"-", "value">> /\ Eats["sign"][3] = <<"placeholder">>
    BY DEF Eats
  <1> HIDE DEF T, V
  <1>3. ASSUME NEW g \in Of(G, "number", d.from), g.to = d.to, g.says = d.says, g.nested = d.nested
        PROVE  EatRow(t, T, V, "sign", d.from, d.to, d.says, d.nested)
    <2>1. ~Holds(t, d.from, "n")
      BY NumberIs, Zenon
    <2>2. Taken("placeholder", d.from, g.to, g.says, g.nested) \in T
      BY RuleIn DEF T
    <2>3. Row(T, V, <<"placeholder">>, d.from, g.to, g.says, g.nested)
      BY <1>1, <2>2, RowOne
    <2> QED
      BY <1>2, <1>3, <2>1, <2>3, Zenon DEF EatRow
  <1>4. ASSUME NEW g \in Of(G, "number", d.from + 1), Holds(t, d.from, "n"), g.to = d.to, d.says = <<"-">> \o g.says, d.nested = 0
        PROVE  EatRow(t, T, V, "sign", d.from, d.to, d.says, d.nested)
    <2>1. Taken("value", d.from + 1, g.to, g.says, g.nested) \in T /\ g.nested = 0
      BY NumberIs, Zenon DEF T
    <2>2. Taken("-", d.from + 1, d.from + 1, <<"-">>, 0) \in T
      BY NextPlace, WordAt, Zenon DEF T
    <2>3. Row(T, V, <<"-", "value">>, d.from + 1, g.to, <<"-">> \o g.says, Deeper(0, g.nested))
      BY <1>1, <2>1, <2>2, RowPair
    <2>4. Deeper(0, g.nested) = 0
      BY <2>1, DeeperIs
    <2> QED
      BY <1>2, <1>4, <2>3, <2>4, Zenon DEF EatRow
  <1> QED
    BY <1>3, <1>4, Zenon DEF SignedIs, ByRule, T, V

\* and so is a truth value.
LEMMA TruthRow ==
  ASSUME NEW t, NEW G, NEW W, Grammatical(t, G, W, LongLongMax), NEW d, d.from \in Nat \ {0}, TruthIs(t, d)
  PROVE  /\ EatRow(t, Tree(t, G, W), Words(W), "boolsign", d.from, d.to, d.says, d.nested)
         /\ EatRow(t, Tree(t, G, W), Words(W), "boolplace", d.from, d.to, d.says, d.nested)
         /\ Taken("boolsign", d.from, d.to, d.says, d.nested) \in Tree(t, G, W)
  <1> DEFINE T == Tree(t, G, W)
             V == Words(W)
  <1>1. Worded(T, V) /\ t \in Seq(W)
    BY TreeWorded, Zenon DEF Grammatical
  <1>2. /\ Eats["boolsign"][1] = "n" /\ Eats["boolsign"][3] = <<"boolplace">>
        /\ Eats["boolplace"][1] = "p" /\ Eats["boolplace"][3] = <<"boolvalue">>
    BY DEF Eats
  <1>3. 0 \in 0..LongLongMax /\ 1 \in 0..LongLongMax /\ 0 # 1 /\ 0 \in Nat
    BY TextReaderAssumption
  <1>4. /\ Taken("boolvalue", d.from, d.to, d.says, 0) \in T /\ d.to \in Nat \ {0}
        /\ t[d.from] \in DigitSet \cup LowerSet \cup {"_"} /\ d.nested = 0
    <2>1. CASE HexNumber(t, d.from, d.to, 0) /\ d.says = <<"false">>
      BY <1>1, <1>3, <2>1, HexIn, Zenon DEF TruthIs
    <2>2. CASE HexNumber(t, d.from, d.to, 1) /\ d.says = <<"true">>
      BY <1>1, <1>3, <2>2, HexIn, Zenon DEF TruthIs
    <2> QED
      BY <2>1, <2>2, Zenon DEF TruthIs
  <1>5. d.says \in Seq(V) /\ d.to \in Nat
    <2>1. Worded(T, V) /\ Taken("boolvalue", d.from, d.to, d.says, 0) \in T
      BY <1>1, <1>4
    <2> HIDE DEF T, V
    <2> QED
      BY <2>1, TakenIs
  <1>6. ~Holds(t, d.from, "n") /\ ~Holds(t, d.from, "p")
    BY <1>4, LettersApart DEF Holds
  <1>7. ASSUME NEW x \in {"boolsign", "boolplace"}
        PROVE  Taken(x, d.from, d.to, d.says, 0) \in T
    <2> DEFINE f == Taken(x, d.from, d.to, d.says, 0)
    <2>1. f.item = x /\ f.from = d.from /\ f.to = d.to /\ f.says = d.says /\ f.nested = 0
      BY DEF Taken
    <2> HIDE DEF f
    <2>2. TruthIs(t, f)
      BY <2>1, Zenon DEF TruthIs
    <2>3. InnerIs(t, G, f)
      BY <1>7, <2>1, <2>2 DEF InnerIs
    <2>4. x \in Inner
      BY InnerAre
    <2> QED
      BY <1>3, <1>5, <2>3, <2>4, InTree, Zenon DEF f
  <1> HIDE DEF T, V
  <1>8. Row(T, V, <<"boolplace">>, d.from, d.to, d.says, 0) /\ Row(T, V, <<"boolvalue">>, d.from, d.to, d.says, 0)
    <2>1. "boolplace" # "member" /\ "boolvalue" # "member"
      OBVIOUS
    <2> QED
      BY <1>1, <1>4, <1>7, <2>1, RowOne, Zenon
  <1> QED
    BY <1>2, <1>4, <1>6, <1>7, <1>8, Zenon DEF EatRow, T, V

\* A muted node, the unmuting and a node.
LEMMA RowBehind ==
  ASSUME NEW T, NEW V, Worded(T, V), NEW x1, NEW x3, x1 # "member", x3 # "member", x3 # "unmute",
         "unmute" \in V, NEW i, NEW i2 \in Nat \ {0}, NEW j, NEW s1, NEW s3, NEW n1, NEW n3,
         Taken(x1, i, i2, s1, n1) \in T, Taken(x3, i2, j, s3, n3) \in T
  PROVE  Row(T, V, <<x1, "unmute", x3>>, i, j, s3, Deeper(n1, n3))
  <1> DEFINE B == <<x1, "unmute", x3>>
  <1>1. x1 \in V /\ x3 \in V
    BY TakenIs
  <1>2. B \in Seq(V) /\ Len(B) = 3 /\ B[1] = x1 /\ B[2] = "unmute" /\ B[3] = x3
    BY <1>1
  <1>3. Clear(B, 2) /\ 2 \in 0..2
    BY <1>2 DEF Clear
  <1>4. Taken("unmute", i2, i2, <<>>, 0) \in T
    <2>1. "unmute" \notin Functions
      BY FunctionsAre
    <2> QED
      BY <2>1, Zenon DEF Worded
  <1>5. 1 < 2 /\ 2 <= 3 /\ 2 \in Nat /\ "unmute" # "member"
    OBVIOUS
  <1> HIDE DEF B
  <1>6. RowFrom(T, V, B, 2, i2, j, s3, n3)
    BY <1>2, NodeLast, Counts, Zenon DEF Counting
  <1>7. RowFrom(T, V, B, 1, i2, j, s3, n3)
    BY <1>2, <1>3, <1>4, <1>5, <1>6, NothingBefore, Counts, Zenon DEF Counting
  <1>8. RowFrom(T, V, B, 0, i, j, s3, Deeper(n1, n3))
    <2>1. 0 \in Nat /\ 1 = 0 + 1
      OBVIOUS
    <2> QED
      BY <1>2, <1>5, <1>7, <2>1, MutedBefore, ZenonT(30)
  <1> QED
    BY <1>8, RowIs DEF B

\* The items of an inherent impl.
LEMMA RowImpl ==
  ASSUME NEW T, NEW V, Worded(T, V), NEW x1, NEW x2, NEW x4, NEW x5, NEW x6, x1 # "member", x2 # "member",
         Printing(x4), Printing(x5), Printing(x6),
         "unmute" \in V, NEW i, NEW i2, NEW i3 \in Nat \ {0}, NEW i5, NEW i6, NEW j,
         NEW s1, NEW s2, NEW s4, NEW s5, NEW s6, NEW n1, NEW n2, NEW n4, NEW n5, NEW n6,
         Taken(x1, i, i2, s1, n1) \in T, Taken(x2, i2, i3, s2, n2) \in T, Taken(x4, i3, i5, s4, n4) \in T,
         Taken(x5, i5, i6, s5, n5) \in T, Taken(x6, i6, j, s6, n6) \in T
  PROVE  Row(T, V, <<x1, x2, "unmute", x4, x5, x6>>, i, j, s4 \o (s5 \o s6),
             Deeper(n1, Deeper(n2, Deeper(n4, Deeper(n5, n6)))))
  <1> DEFINE B == <<x1, x2, "unmute", x4, x5, x6>>
  <1>1. x1 \in V /\ x2 \in V /\ x4 \in V /\ x5 \in V /\ x6 \in V
    BY TakenIs
  <1>2. B \in Seq(V) /\ Len(B) = 6 /\ B[1] = x1 /\ B[2] = x2 /\ B[3] = "unmute" /\ B[4] = x4 /\ B[5] = x5 /\ B[6] = x6
    BY <1>1
  <1>3. Clear(B, 3) /\ 3 \in 0..3 /\ 3 \in 0..4 /\ 3 \in 0..5
    BY <1>2 DEF Clear, Printing
  <1>4. Taken("unmute", i3, i3, <<>>, 0) \in T
    <2>1. "unmute" \notin Functions
      BY FunctionsAre
    <2> QED
      BY <2>1, Zenon DEF Worded
  <1>5. 2 < 3 /\ 1 < 3 /\ 3 <= 6 /\ 3 \in Nat /\ "unmute" # "member"
    OBVIOUS
  <1> HIDE DEF B
  <1>6. RowFrom(T, V, B, 5, i6, j, s6, n6)
    BY <1>2, NodeLast, Counts, Zenon DEF Counting, Printing
  <1>7. RowFrom(T, V, B, 4, i5, j, s5 \o s6, Deeper(n5, n6))
    BY <1>2, <1>3, <1>6, NodeBefore, Counts, Zenon DEF Counting, Printing
  <1>8. RowFrom(T, V, B, 3, i3, j, s4 \o (s5 \o s6), Deeper(n4, Deeper(n5, n6)))
    <2>1. 3 \in Nat /\ 4 = 3 + 1 /\ 3 \in 0..4 /\ Clear(B, 3) /\ B[4] = x4 /\ x4 # "member"
      BY <1>2, <1>3 DEF Printing
    <2> QED
      BY <1>7, <2>1, NodeBefore, ZenonT(30)
  <1> DEFINE s == s4 \o (s5 \o s6)
             n == Deeper(n4, Deeper(n5, n6))
  <1> HIDE DEF s, n
  <1>9. RowFrom(T, V, B, 2, i3, j, s, n)
    BY <1>2, <1>3, <1>4, <1>5, <1>8, NothingBefore, Counts, Zenon DEF Counting, s, n
  <1>10. RowFrom(T, V, B, 1, i2, j, s, Deeper(n2, n))
    BY <1>2, <1>5, <1>9, MutedBefore, Counts, Zenon DEF Counting
  <1>11. RowFrom(T, V, B, 0, i, j, s, Deeper(n1, Deeper(n2, n)))
    <2>1. 0 \in Nat /\ 1 = 0 + 1
      OBVIOUS
    <2> QED
      BY <1>2, <1>5, <1>10, <2>1, MutedBefore, ZenonT(30)
  <1> QED
    BY <1>11, RowIs DEF B, s, n

\* The items of an impl of a trait.
LEMMA RowTraitImpl ==
  ASSUME NEW T, NEW V, Worded(T, V), NEW x1, NEW x2, NEW x4, NEW x5, NEW x6, NEW x7, NEW x8, x1 # "member", x2 # "member",
         Printing(x4), Printing(x5), Printing(x6), Printing(x7), Printing(x8),
         "unmute" \in V, NEW i, NEW i2, NEW i3 \in Nat \ {0}, NEW i5, NEW i6, NEW i7, NEW i8, NEW j,
         NEW s1, NEW s2, NEW s4, NEW s5, NEW s6, NEW s7, NEW s8, NEW n1, NEW n2, NEW n4, NEW n5, NEW n6, NEW n7, NEW n8,
         Taken(x1, i, i2, s1, n1) \in T, Taken(x2, i2, i3, s2, n2) \in T, Taken(x4, i3, i5, s4, n4) \in T,
         Taken(x5, i5, i6, s5, n5) \in T, Taken(x6, i6, i7, s6, n6) \in T, Taken(x7, i7, i8, s7, n7) \in T,
         Taken(x8, i8, j, s8, n8) \in T
  PROVE  Row(T, V, <<x1, x2, "unmute", x4, x5, x6, x7, x8>>, i, j, s4 \o (s5 \o (s6 \o (s7 \o s8))),
             Deeper(n1, Deeper(n2, Deeper(n4, Deeper(n5, Deeper(n6, Deeper(n7, n8)))))))
  <1> DEFINE B == <<x1, x2, "unmute", x4, x5, x6, x7, x8>>
  <1>1. x1 \in V /\ x2 \in V /\ x4 \in V /\ x5 \in V /\ x6 \in V /\ x7 \in V /\ x8 \in V
    BY TakenIs
  <1>2. /\ B \in Seq(V) /\ Len(B) = 8 /\ B[1] = x1 /\ B[2] = x2 /\ B[3] = "unmute" /\ B[4] = x4 /\ B[5] = x5 /\ B[6] = x6
        /\ B[7] = x7 /\ B[8] = x8
    BY <1>1
  <1>3. Clear(B, 3) /\ 3 \in 0..3 /\ 3 \in 0..4 /\ 3 \in 0..5 /\ 3 \in 0..6 /\ 3 \in 0..7
    BY <1>2 DEF Clear, Printing
  <1>4. Taken("unmute", i3, i3, <<>>, 0) \in T
    <2>1. "unmute" \notin Functions
      BY FunctionsAre
    <2> QED
      BY <2>1, Zenon DEF Worded
  <1>5. 2 < 3 /\ 1 < 3 /\ 3 <= 8 /\ 3 \in Nat /\ "unmute" # "member"
    OBVIOUS
  <1> HIDE DEF B
  <1>6. RowFrom(T, V, B, 7, i8, j, s8, n8)
    BY <1>2, NodeLast, Counts, Zenon DEF Counting, Printing
  <1>7. RowFrom(T, V, B, 6, i7, j, s7 \o s8, Deeper(n7, n8))
    BY <1>2, <1>3, <1>6, NodeBefore, Counts, Zenon DEF Counting, Printing
  <1>8. RowFrom(T, V, B, 5, i6, j, s6 \o (s7 \o s8), Deeper(n6, Deeper(n7, n8)))
    <2>1. 5 \in Nat /\ 6 = 5 + 1 /\ 3 \in 0..6 /\ Clear(B, 3) /\ B[6] = x6 /\ x6 # "member"
      BY <1>2, <1>3 DEF Printing
    <2> QED
      BY <1>7, <2>1, NodeBefore, ZenonT(30)
  <1> DEFINE sa == s6 \o (s7 \o s8)
             na == Deeper(n6, Deeper(n7, n8))
  <1> HIDE DEF sa, na
  <1>9. RowFrom(T, V, B, 4, i5, j, s5 \o sa, Deeper(n5, na))
    BY <1>2, <1>3, <1>8, NodeBefore, Counts, Zenon DEF Counting, Printing, sa, na
  <1>10. RowFrom(T, V, B, 3, i3, j, s4 \o (s5 \o sa), Deeper(n4, Deeper(n5, na)))
    <2>1. 3 \in Nat /\ 4 = 3 + 1 /\ 3 \in 0..4 /\ Clear(B, 3) /\ B[4] = x4 /\ x4 # "member"
      BY <1>2, <1>3 DEF Printing
    <2> QED
      BY <1>9, <2>1, NodeBefore, ZenonT(30)
  <1> DEFINE s == s4 \o (s5 \o sa)
             n == Deeper(n4, Deeper(n5, na))
  <1> HIDE DEF s, n
  <1>11. RowFrom(T, V, B, 2, i3, j, s, n)
    BY <1>2, <1>3, <1>4, <1>5, <1>10, NothingBefore, Counts, Zenon DEF Counting, s, n
  <1>12. RowFrom(T, V, B, 1, i2, j, s, Deeper(n2, n))
    BY <1>2, <1>5, <1>11, MutedBefore, Counts, Zenon DEF Counting
  <1>13. RowFrom(T, V, B, 0, i, j, s, Deeper(n1, Deeper(n2, n)))
    <2>1. 0 \in Nat /\ 1 = 0 + 1
      OBVIOUS
    <2> QED
      BY <1>2, <1>5, <1>12, <2>1, MutedBefore, ZenonT(30)
  <1> QED
    BY <1>13, RowIs DEF B, s, n, sa, na

\* An optional mark.
OptionItem(x, c, says) ==
  \/ x = "disambiguator" /\ c = "s" /\ says = <<>>
  \/ x = "lifetime" /\ c = "L" /\ says = <<"'_ ">>
  \/ x = "nolifetime" /\ c = "L" /\ says = <<>>
  \/ x = "binder" /\ c = "G" /\ says = <<>>

\* An optional mark is a node of the tree.
LEMMA OptionIn ==
  ASSUME NEW t, NEW G, NEW W, t \in Seq(W), NEW i \in Nat \ {0}, NEW x, NEW c, NEW says, OptionItem(x, c, says), NEW j,
         Optionally(t, i, c, j), ~Holds(t, j, c)
  PROVE  /\ Taken(x, i, j, IF j = i THEN <<>> ELSE says, 0) \in Tree(t, G, W) /\ j \in Nat \ {0}
         /\ (IF j = i THEN <<>> ELSE says) \in Seq(Words(W)) /\ Printing(x)
  <1> DEFINE s == IF j = i THEN <<>> ELSE says
             d == Taken(x, i, j, s, 0)
  <1>1. j \in Nat \ {0} /\ OptionIs(t, d, c, says)
    BY OptionFound, Zenon
  <1>2. d.item = x
    BY DEF Taken
  <1>3. s \in Seq(Words(W))
    <2>1. says \in Seq(Words(W))
      <3>1. <<"'_ ">> \in Seq(Words(W))
        BY WordAt, Zenon DEF OptionItem
      <3>2. <<>> \in Seq(Words(W))
        OBVIOUS
      <3> QED
        BY <3>1, <3>2, Zenon DEF OptionItem
    <2> QED
      BY <2>1
  <1> HIDE DEF s, d
  <1>4. InnerIs(t, G, d)
    BY <1>1, <1>2 DEF InnerIs, OptionItem
  <1>5. x \in Inner /\ Printing(x)
    BY InnerAre DEF OptionItem, Printing
  <1>6. j \in Nat /\ 0 \in Nat
    BY <1>1
  <1> QED
    BY <1>1, <1>3, <1>4, <1>5, <1>6, InTree, Zenon DEF d, s

\* All optional marks.
LEMMA OptionItems ==
  /\ OptionItem("disambiguator", "s", <<>>) /\ OptionItem("lifetime", "L", <<"'_ ">>)
  /\ OptionItem("nolifetime", "L", <<>>) /\ OptionItem("binder", "G", <<>>)
  BY DEF OptionItem

\* All of them are eaten.
LEMMA OptionEats ==
  /\ OptionEat("disambiguator", "s", <<>>) /\ OptionEat("lifetime", "L", <<"'_ ">>)
  /\ OptionEat("nolifetime", "L", <<>>) /\ OptionEat("binder", "G", <<>>)
  BY DEF OptionEat, Eats

\* "unmute" is a word.
LEMMA UnmuteIs == ASSUME NEW W PROVE "unmute" \in Words(W)
  BY DEF Words, Lexicon

\* Two words one behind the other.
LEMMA Joined2 == ASSUME NEW a, NEW b PROVE <<a>> \o <<b>> = <<a, b>>
  <1> DEFINE S == {a, b}
             u == <<a>>
             v == <<b>>
             w == <<a, b>>
  <1>1. u \in Seq(S) /\ v \in Seq(S) /\ w \in Seq(S)
    OBVIOUS
  <1>2. Len(u) = 1 /\ Len(v) = 1 /\ Len(w) = 2 /\ u[1] = a /\ v[1] = b /\ w[1] = a /\ w[2] = b
    OBVIOUS
  <1> HIDE DEF u, v, w, S
  <1>3. u \o v \in Seq(S) /\ Len(u \o v) = 2 /\ (u \o v)[1] = a /\ (u \o v)[2] = b
    BY <1>1, <1>2, ConcatProperties
  <1>4. u \o v = w
    BY <1>1, <1>2, <1>3, SeqEqual
  <1> QED
    BY <1>4 DEF u, v, w

\* Three words one behind the other.
LEMMA Joined3 == ASSUME NEW a, NEW b, NEW c PROVE <<a>> \o <<b, c>> = <<a, b, c>>
  <1> DEFINE S == {a, b, c}
             u == <<a>>
             v == <<b, c>>
             w == <<a, b, c>>
  <1>1. u \in Seq(S) /\ v \in Seq(S) /\ w \in Seq(S)
    OBVIOUS
  <1>2. Len(u) = 1 /\ Len(v) = 2 /\ Len(w) = 3 /\ u[1] = a /\ v[1] = b /\ v[2] = c /\ w[1] = a /\ w[2] = b /\ w[3] = c
    OBVIOUS
  <1> HIDE DEF u, v, w, S
  <1>3. u \o v \in Seq(S) /\ Len(u \o v) = 3 /\ (u \o v)[1] = a /\ (u \o v)[2] = b /\ (u \o v)[3] = c
    <2>1. u \o v \in Seq(S) /\ Len(u \o v) = Len(u) + Len(v)
          /\ \A i \in 1..(Len(u) + Len(v)) : (u \o v)[i] = IF i <= Len(u) THEN u[i] ELSE v[i - Len(u)]
      BY <1>1, ConcatProperties, Zenon
    <2>2. Len(u) + Len(v) = 3 /\ 2 - 1 = 1 /\ 3 - 1 = 2 /\ 1 <= 1 /\ ~(2 <= 1) /\ ~(3 <= 1) /\ 1 \in 1..3 /\ 2 \in 1..3 /\ 3 \in 1..3
      BY <1>2
    <2>3. (u \o v)[1] = a /\ (u \o v)[2] = b /\ (u \o v)[3] = c
      BY <1>2, <2>1, <2>2, Zenon
    <2> QED
      BY <2>1, <2>2, <2>3, Zenon
  <1>4. u \o v = w
    BY <1>1, <1>2, <1>3, SeqEqual
  <1> QED
    BY <1>4 DEF u, v, w

\* A constant: its type, and its value.
LEMMA TypedRow ==
  ASSUME NEW t, NEW G, NEW W, Grammatical(t, G, W, LongLongMax), NEW i, NEW g \in Of(G, "const", i)
  PROVE  Row(Tree(t, G, W), Words(W), <<"type", "unmute", IF i <= Len(t) /\ t[i] = "b" THEN "boolsign" ELSE "sign">>,
             i, g.to, g.says, g.nested)
  <1> DEFINE T == Tree(t, G, W)
             V == Words(W)
  <1>1. Worded(T, V) /\ "unmute" \in V
    BY TreeWorded, UnmuteIs
  <1>2. g \in G /\ g.rule = "const" /\ g.from = i /\ i \in Nat \ {0} /\ g.to \in Nat \ {0} /\ g.says \in Seq(V)
    BY OfIs
  <1>3. Constant(t, G, g)
    BY <1>2, Zenon DEF Grammatical
  <1>4. PICK y \in Of(G, "type", i) :
          /\ y.to = i + 1 /\ g.nested = y.nested
          /\ \/ Holds(t, i, "b") /\ HexNumber(t, y.to, g.to, 0) /\ g.says = <<"false">>
             \/ Holds(t, i, "b") /\ HexNumber(t, y.to, g.to, 1) /\ g.says = <<"true">>
             \/ \E n \in Of(G, "number", y.to) : t[i] \in Integral /\ g.to = n.to /\ g.says = n.says
             \/ \E n \in Of(G, "number", y.to + 1) :
                  Holds(t, y.to, "n") /\ t[i] \in Integral /\ g.to = n.to /\ g.says = <<"-">> \o n.says
    BY <1>2, <1>3, Zenon DEF Constant
  <1>5. y.to \in Nat \ {0} /\ y.nested \in Nat /\ Deeper(y.nested, 0) = y.nested
    BY OfIs, DeeperIs
  <1>6. Taken("type", i, y.to, y.says, y.nested) \in T
    BY RuleIn
  <1> DEFINE x == IF i <= Len(t) /\ t[i] = "b" THEN "boolsign" ELSE "sign"
  <1> HIDE DEF T, V, x
  <1>7. CASE Holds(t, i, "b") /\ \/ HexNumber(t, y.to, g.to, 0) /\ g.says = <<"false">>
                                 \/ HexNumber(t, y.to, g.to, 1) /\ g.says = <<"true">>
    <2>1. x = "boolsign"
      BY <1>7 DEF x, Holds
    <2> DEFINE d == Taken("boolsign", y.to, g.to, g.says, 0)
    <2>2. d.from = y.to /\ d.to = g.to /\ d.says = g.says /\ d.nested = 0
      BY DEF Taken
    <2> HIDE DEF d
    <2>3. TruthIs(t, d) /\ d.from \in Nat \ {0}
      BY <1>5, <1>7, <2>2, Zenon DEF TruthIs
    <2>4. Taken("boolsign", y.to, g.to, g.says, 0) \in T
      BY <2>2, <2>3, TruthRow, Zenon DEF T
    <2>5. Row(T, V, <<"type", "unmute", "boolsign">>, i, g.to, g.says, Deeper(y.nested, 0))
      BY <1>1, <1>5, <1>6, <2>4, RowBehind
    <2> QED
      BY <1>4, <1>5, <2>1, <2>5, Zenon DEF x, T, V
  <1>8. ASSUME t[i] \in Integral, NEW d, d.item = "sign", d.from = y.to, d.to = g.to, d.says = g.says, d.nested = 0,
               SignedIs(t, G, d), d = Taken("sign", y.to, g.to, g.says, 0)
        PROVE  Row(T, V, <<"type", "unmute", x>>, i, g.to, g.says, g.nested)
    <2>1. x = "sign"
      BY <1>8 DEF x, Integral
    <2>2. InnerIs(t, G, d)
      BY <1>8 DEF InnerIs
    <2>3. "sign" \in Inner /\ g.to \in Nat /\ 0 \in Nat
      BY <1>2, InnerAre
    <2>4. Taken("sign", y.to, g.to, g.says, 0) \in T
      BY <1>2, <1>5, <1>8, <2>2, <2>3, InTree, Zenon DEF T, V
    <2>5. Row(T, V, <<"type", "unmute", "sign">>, i, g.to, g.says, Deeper(y.nested, 0))
      BY <1>1, <1>5, <1>6, <2>4, RowBehind
    <2> QED
      BY <1>4, <1>5, <2>1, <2>5, Zenon
  <1> DEFINE d == Taken("sign", y.to, g.to, g.says, 0)
  <1>9. d.item = "sign" /\ d.from = y.to /\ d.to = g.to /\ d.says = g.says /\ d.nested = 0
    BY DEF Taken
  <1>10. d = Taken("sign", y.to, g.to, g.says, 0)
    OBVIOUS
  <1> HIDE DEF d
  <1>11. ASSUME NEW n \in Of(G, "number", y.to), t[i] \in Integral, g.to = n.to, g.says = n.says
         PROVE  Row(T, V, <<"type", "unmute", x>>, i, g.to, g.says, g.nested)
    <2>1. n.nested = 0
      BY NumberIs, Zenon
    <2>2. SignedIs(t, G, d)
      BY <1>9, <1>11, <2>1, Zenon DEF SignedIs, ByRule
    <2> QED
      BY <1>8, <1>9, <1>10, <1>11, <2>2, Zenon
  <1>12. ASSUME NEW n \in Of(G, "number", y.to + 1), Holds(t, y.to, "n"), t[i] \in Integral, g.to = n.to,
                g.says = <<"-">> \o n.says
         PROVE  Row(T, V, <<"type", "unmute", x>>, i, g.to, g.says, g.nested)
    <2>1. SignedIs(t, G, d)
      BY <1>9, <1>12, Zenon DEF SignedIs
    <2> QED
      BY <1>8, <1>9, <1>10, <1>12, <2>1, Zenon
  <1>13. Row(T, V, <<"type", "unmute", x>>, i, g.to, g.says, g.nested)
    <2>1. CASE Holds(t, i, "b") /\ \/ HexNumber(t, y.to, g.to, 0) /\ g.says = <<"false">>
                                   \/ HexNumber(t, y.to, g.to, 1) /\ g.says = <<"true">>
      BY <1>7, <2>1, Zenon DEF x, T, V
    <2>2. CASE \E n \in Of(G, "number", y.to) : t[i] \in Integral /\ g.to = n.to /\ g.says = n.says
      BY <1>11, <2>2, Zenon
    <2>3. CASE \E n \in Of(G, "number", y.to + 1) :
                 Holds(t, y.to, "n") /\ t[i] \in Integral /\ g.to = n.to /\ g.says = <<"-">> \o n.says
      BY <1>12, <2>3, Zenon
    <2> QED
      BY <1>4, <2>1, <2>2, <2>3, Zenon
  <1> QED
    BY <1>13, Zenon DEF x, T, V

\* What is said of a member, whose node is read behind its path.
LEMMA MemberWriting ==
  ASSUME NEW t, NEW G, NEW W, Grammatical(t, G, W, LongLongMax), NEW d \in Tree(t, G, W)
  PROVE  NamespaceWriting(t, Tree(t, G, W), Words(W), d)
  <1> SUFFICES ASSUME d.item = "namespace"
               PROVE  NamespaceWriting(t, Tree(t, G, W), Words(W), d)
    BY DEF NamespaceWriting
  <1> DEFINE T == Tree(t, G, W)
             V == Words(W)
  <1>1. Worded(T, V) /\ t \in Seq(W)
    BY TreeWorded, Zenon DEF Grammatical
  <1>2. InnerIs(t, G, d) /\ d.from \in Nat \ {0} /\ d.to \in Nat /\ d.says \in Seq(V) /\ d.nested \in Nat
    BY DEF Tree, Nodes
  <1>3. PICK g \in Of(G, "path", d.from - 1) :
          Holds(t, d.from - 1, "N") /\ g.to = d.to /\ g.says = d.says /\ g.nested = d.nested + 1
    BY <1>2 DEF InnerIs
  <1>4. g \in G /\ g.rule = "path" /\ g.from = d.from - 1 /\ PathIs(t, G, g) /\ g.from \in Nat \ {0} /\ g.nested \in Nat
    BY OfIs, PathFirst
  <1>5. MemberPath(t, G, g)
    <2>1. ~Holds(t, g.from, "C") /\ ~Holds(t, g.from, "M") /\ ~Holds(t, g.from, "X") /\ ~Holds(t, g.from, "Y") /\ ~Holds(t, g.from, "I")
      BY <1>3, <1>4, HoldsOne
    <2> QED
      BY <1>4, <2>1, Zenon DEF PathIs
  <1>6. g.from + 1 = d.from /\ g.from + 2 = d.from + 1
    BY <1>2, <1>4
  <1> HIDE DEF T, V
  <1>7. PICK k \in Places(t), c \in Places(t) : \E p \in Of(G, "path", d.from + 1) :
          /\ g.from < Len(t) /\ t[d.from] \in Letters
          /\ Optionally(t, p.to, "s", k) /\ Undisambiguated(t, k, c, g.to)
          /\ g.says = p.says \o (IF c = g.to THEN <<"::{", t[d.from], "}">> ELSE <<"::">> \o SubSeq(t, c, g.to - 1))
          /\ g.nested = p.nested + 1
    BY <1>5, <1>6, Zenon DEF MemberPath
  <1>8. PICK p \in Of(G, "path", d.from + 1) :
          /\ g.from < Len(t) /\ t[d.from] \in Letters
          /\ Optionally(t, p.to, "s", k) /\ Undisambiguated(t, k, c, g.to)
          /\ g.says = p.says \o (IF c = g.to THEN <<"::{", t[d.from], "}">> ELSE <<"::">> \o SubSeq(t, c, g.to - 1))
          /\ g.nested = p.nested + 1
    BY <1>7, Zenon
  <1>9. p.to \in Nat \ {0} /\ p.says \in Seq(V) /\ p.nested \in Nat
    BY OfIs DEF V
  <1>10. k \in Nat \ {0}
    BY <1>1, PlaceIs
  <1> DEFINE said == IF c = g.to THEN <<"::{">> ELSE <<"::">> \o SubSeq(t, c, g.to - 1)
             member == Taken("member", k, g.to, said, 0)
  <1>11. member \in T /\ t[k] \in DigitSet
    BY <1>1, <1>8, <1>10, NameIn, Zenon DEF T
  <1>12. member.item = "member" /\ member.from = k /\ member.to = g.to /\ member.says = said
    BY DEF Taken
  <1>13. Taken("disambiguator", p.to, k, <<>>, 0) \in T
    <2>1. ~Holds(t, k, "s")
      BY <1>11, LettersApart DEF Holds
    <2>2. Taken("disambiguator", p.to, k, IF k = p.to THEN <<>> ELSE <<>>, 0) \in T
      BY <1>1, <1>8, <1>9, <2>1, OptionItems, OptionIn, Zenon DEF T
    <2>3. (IF k = p.to THEN <<>> ELSE <<>>) = <<>>
      OBVIOUS
    <2> QED
      BY <2>2, <2>3
  <1>14. Row(T, V, <<"path", "disambiguator">>, d.from + 1, k, p.says, d.nested)
    <2>1. Taken("path", d.from + 1, p.to, p.says, p.nested) \in T
      BY RuleIn DEF T
    <2>2. Row(T, V, <<"path", "disambiguator">>, d.from + 1, k, p.says \o <<>>, Deeper(p.nested, 0))
      BY <1>1, <1>13, <2>1, RowPair
    <2>3. p.says \o <<>> = p.says /\ Deeper(p.nested, 0) = p.nested
      BY <1>9, ConcatEmptySeq, DeeperIs
    <2>4. p.nested = d.nested
      <3>1. p.nested + 1 = d.nested + 1
        BY <1>3, <1>8, Zenon
      <3>2. p.nested \in Nat /\ d.nested \in Nat
        BY <1>2, <1>9
      <3> QED
        BY <3>1, <3>2
    <2> QED
      BY <2>2, <2>3, <2>4, Zenon
  <1> DEFINE l == t[d.from]
  <1>15. d.from <= Len(t) /\ l # "unmute" /\ l \notin Functions /\ l \in V /\ d.to \in Nat \ {0}
    <2>1. Len(t) \in Nat
      BY <1>1, LenProperties
    <2>2. d.from <= Len(t)
      <3>1. g.from < Len(t) /\ g.from + 1 = d.from /\ g.from \in Nat \ {0}
        BY <1>4, <1>6, <1>8, Zenon
      <3> QED
        BY <2>1, <3>1
    <2>3. l \in W
      BY <1>1, <1>2, <2>1, <2>2, ElementOfSeq
    <2>4. l # "unmute" /\ l \notin Functions
      BY <1>8, LettersApart
    <2>5. d.to \in Nat \ {0}
      BY <1>1, <1>3, <1>8, <1>10, NameIn, Zenon
    <2> QED
      BY <2>2, <2>3, <2>4, <2>5 DEF V, Words
  <1>16. Row(T, V, <<l, "}">>, d.to, d.to, <<l, "}">>, 0)
    <2>1. l # "member" /\ "}" # "member" /\ "}" # "unmute"
      BY <1>15, FunctionsAre
    <2>2. Taken(l, d.to, d.to, <<l>>, 0) \in T /\ Taken("}", d.to, d.to, <<"}">>, 0) \in T
      BY <1>1, <1>15, WordTaken, WordAt, Zenon DEF T, V
    <2>3. Row(T, V, <<l, "}">>, d.to, d.to, <<l>> \o <<"}">>, Deeper(0, 0))
      BY <1>1, <2>1, <2>2, RowPair
    <2>4. Deeper(0, 0) = 0
      BY DEF Deeper
    <2> HIDE DEF l
    <2> QED
      BY <2>3, <2>4, Joined2, Zenon
  <1> HIDE DEF member
  <1>17. d.says = p.says \o (said \o (IF said = <<"::{">> THEN <<l, "}">> ELSE <<>>))
    <2>1. CASE c = g.to
      <3>1. said = <<"::{">>
        BY <2>1
      <3>2. d.says = p.says \o <<"::{", l, "}">>
        BY <1>3, <1>8, <2>1, Zenon
      <3> HIDE DEF l
      <3>3. <<"::{">> \o <<l, "}">> = <<"::{", l, "}">>
        BY Joined3, Zenon
      <3> QED
        BY <3>1, <3>2, <3>3, Zenon
    <2>2. CASE c # g.to
      <3> DEFINE b == SubSeq(t, c, g.to - 1)
      <3>1. b \in Seq(W)
        <4>1. c \in Nat \ {0} /\ g.to \in Nat \ {0} /\ c <= g.to /\ g.to <= Len(t) + 1 /\ Len(t) \in Nat
          <5>1. c \in Nat \ {0} /\ g.to \in Nat \ {0} /\ c <= g.to /\ g.to <= Len(t) + 1
            BY <1>1, <1>8, <1>10, NameIn, Zenon
          <5> QED
            BY <1>1, <5>1, LenProperties
        <4>2. \A m \in c..(g.to - 1) : t[m] \in W
          <5>1. \A m \in c..(g.to - 1) : m \in 1..Len(t)
            BY <4>1
          <5> QED
            BY <1>1, <5>1, ElementOfSeq
        <4> QED
          BY <1>1, <4>1, <4>2, SubSeqProperties
      <3> HIDE DEF b
      <3>2. <<"::">> \o b \in Seq(W \cup {"::"}) /\ (<<"::">> \o b)[1] = "::"
        BY <3>1
      <3>3. <<"::">> \o b # <<"::{">>
        <4>1. <<"::{">>[1] = "::{"
          OBVIOUS
        <4>2. "::" # "::{"
          OBVIOUS
        <4> QED
          BY <3>2, <4>1, <4>2, Zenon
      <3>4. (<<"::">> \o b) \o <<>> = <<"::">> \o b
        BY <3>2, ConcatEmptySeq
      <3>5. said = <<"::">> \o b
        BY <2>2 DEF b
      <3> QED
        BY <1>3, <1>8, <2>2, <3>3, <3>4, <3>5, Zenon DEF b
    <2> QED
      BY <2>1, <2>2
  <1>18. \E m \in T : \E before :
           /\ m.item = "member" /\ m.to = d.to
           /\ Row(T, V, <<"path", "disambiguator">>, d.from + 1, m.from, before, d.nested)
           /\ Row(T, V, <<t[d.from], "}">>, d.to, d.to, <<t[d.from], "}">>, 0)
           /\ d.says = before \o (m.says \o (IF m.says = <<"::{">> THEN <<t[d.from], "}">> ELSE <<>>))
    BY <1>3, <1>11, <1>12, <1>14, <1>16, <1>17, Zenon
  <1> QED
    BY <1>15, <1>18, Zenon DEF NamespaceWriting, T, V

-----------------------------------------------------------------------------
(* Paths.                                                                  *)

\* The items of a path behind its tag.
LEMMA PathBodies ==
  /\ PathBody["C"] = <<"disambiguator", "identifier">> /\ PathBody["N"] = <<"namespace">>
  /\ PathBody["M"] = <<"disambiguator", "path", "unmute", "<", "type", ">">>
  /\ PathBody["X"] = <<"disambiguator", "path", "unmute", "<", "type", " as ", "path", ">">>
  /\ PathBody["Y"] = <<"<", "type", " as ", "path", ">">> /\ PathBody["I"] = <<"path", "args">>
  /\ PathLetters \subseteq DOMAIN PathBody
  BY DEF PathBody, PathLetters

\* The items of a path, behind its letter.
PathRowIs(t, T, V, items, g) == \E n \in Nat : g.nested = n + 1 /\ Row(T, V, items, g.from + 1, g.to, g.says, n)

\* What a path or a type nests besides itself.
LEMMA Nesting ==
  /\ \A a \in Nat : 1 + a = a + 1 /\ (a + 1) - 1 = a
  /\ \A a, b \in Nat : 1 + Deeper(a, b) = Deeper(a, b) + 1 /\ Deeper(a, b) \in Nat
  /\ 1 = 0 + 1 /\ 0 \in Nat
  BY DEF Deeper

\* The root of a crate is read as its items,
LEMMA CrateRow ==
  ASSUME NEW t, NEW G, NEW W, Grammatical(t, G, W, LongLongMax), NEW g, g.from \in Nat \ {0}, CrateRoot(t, g)
  PROVE  PathRowIs(t, Tree(t, G, W), Words(W), <<"disambiguator", "identifier">>, g)
  <1> DEFINE T == Tree(t, G, W)
             V == Words(W)
  <1>1. Worded(T, V) /\ t \in Seq(W)
    BY TreeWorded, Zenon DEF Grammatical
  <1> HIDE DEF T, V
  <1>2. PICK k \in Places(t), c \in Places(t) :
          /\ Optionally(t, g.from + 1, "s", k) /\ Undisambiguated(t, k, c, g.to)
          /\ g.says = SubSeq(t, c, g.to - 1) /\ g.nested = 1
    BY Zenon DEF CrateRoot
  <1>3. k \in Nat \ {0}
    BY <1>1, PlaceIs
  <1>4. Taken("identifier", k, g.to, g.says, 0) \in T /\ t[k] \in DigitSet
    BY <1>1, <1>2, <1>3, NameIn, Zenon DEF T
  <1>5. Taken("disambiguator", g.from + 1, k, <<>>, 0) \in T
    <2>1. ~Holds(t, k, "s")
      BY <1>4, LettersApart DEF Holds
    <2>2. Taken("disambiguator", g.from + 1, k, IF k = g.from + 1 THEN <<>> ELSE <<>>, 0) \in T
      BY <1>1, <1>2, <2>1, NextPlace, OptionItems, OptionIn, Zenon DEF T
    <2>3. (IF k = g.from + 1 THEN <<>> ELSE <<>>) = <<>>
      OBVIOUS
    <2> QED
      BY <2>2, <2>3
  <1>6. Row(T, V, <<"disambiguator", "identifier">>, g.from + 1, g.to, <<>> \o g.says, Deeper(0, 0))
    BY <1>1, <1>4, <1>5, RowPair
  <1>7. <<>> \o g.says = g.says /\ Deeper(0, 0) = 0
    <2>1. g.says \in Seq(V)
      BY <1>1, <1>4, TakenIs
    <2> QED
      BY <2>1, ConcatEmptySeq, DeeperIs
  <1> QED
    BY <1>2, <1>6, <1>7, Nesting, Zenon DEF PathRowIs, T, V

\* and so is a member of a path,
LEMMA MemberRow ==
  ASSUME NEW t, NEW G, NEW W, Grammatical(t, G, W, LongLongMax), NEW i, NEW g \in Of(G, "path", i), Holds(t, g.from, "N"),
         MemberPath(t, G, g)
  PROVE  PathRowIs(t, Tree(t, G, W), Words(W), <<"namespace">>, g)
  <1> DEFINE T == Tree(t, G, W)
             V == Words(W)
  <1>1. Worded(T, V)
    BY TreeWorded
  <1>2. g.from = i /\ i \in Nat \ {0} /\ g.to \in Nat /\ g.says \in Seq(V) /\ g.nested \in Nat
    BY OfIs
  <1>3. PICK k \in Places(t), c \in Places(t) : \E p \in Of(G, "path", g.from + 2) : g.nested = p.nested + 1
    BY Zenon DEF MemberPath
  <1>4. PICK p \in Of(G, "path", g.from + 2) : g.nested = p.nested + 1
    BY <1>3, Zenon
  <1>5. p.nested \in Nat
    BY OfIs
  <1> DEFINE d == Taken("namespace", i + 1, g.to, g.says, p.nested)
  <1>6. d.item = "namespace" /\ d.from = i + 1 /\ d.to = g.to /\ d.says = g.says /\ d.nested = p.nested
    BY DEF Taken
  <1>7. (i + 1) - 1 = i /\ i + 1 \in Nat \ {0}
    BY <1>2
  <1> HIDE DEF d
  <1>8. \E h \in Of(G, "path", d.from - 1) :
          Holds(t, d.from - 1, "N") /\ h.to = d.to /\ h.says = d.says /\ h.nested = d.nested + 1
    BY <1>2, <1>4, <1>6, <1>7, Zenon
  <1>9. InnerIs(t, G, d)
    BY <1>6, <1>8 DEF InnerIs
  <1>10. "namespace" \in Inner
    BY InnerAre
  <1>11. d \in T
    BY <1>2, <1>5, <1>7, <1>9, <1>10, InTree, Zenon DEF d
  <1> HIDE DEF T, V
  <1>12. Row(T, V, <<"namespace">>, i + 1, g.to, g.says, p.nested)
    BY <1>1, <1>11, RowOne DEF d
  <1> QED
    BY <1>2, <1>4, <1>5, <1>12, Zenon DEF PathRowIs, T, V

\* The disambiguator of an impl, before its path.
LEMMA ImplMark ==
  ASSUME NEW t, NEW G, NEW W, Grammatical(t, G, W, LongLongMax), NEW i \in Nat \ {0}, NEW k, Optionally(t, i, "s", k),
         NEW p \in Of(G, "path", k)
  PROVE  Taken("disambiguator", i, k, <<>>, 0) \in Tree(t, G, W)
  <1>1. ~Holds(t, k, "s") /\ t \in Seq(W)
    BY PathApart, Zenon DEF Grammatical
  <1>2. Taken("disambiguator", i, k, IF k = i THEN <<>> ELSE <<>>, 0) \in Tree(t, G, W)
    BY <1>1, OptionItems, OptionIn, Zenon
  <1>3. (IF k = i THEN <<>> ELSE <<>>) = <<>>
    OBVIOUS
  <1> QED
    BY <1>2, <1>3

\* and so is an inherent impl,
LEMMA ImplRow ==
  ASSUME NEW t, NEW G, NEW W, Grammatical(t, G, W, LongLongMax), NEW g, g.from \in Nat \ {0}, InherentImpl(t, G, g)
  PROVE  PathRowIs(t, Tree(t, G, W), Words(W), <<"disambiguator", "path", "unmute", "<", "type", ">">>, g)
  <1> DEFINE T == Tree(t, G, W)
             V == Words(W)
  <1>1. Worded(T, V) /\ "unmute" \in V
    BY TreeWorded, UnmuteIs
  <1> HIDE DEF T, V
  <1>2. PICK k \in Places(t) : \E p \in Of(G, "path", k) : \E y \in Of(G, "type", p.to) :
          /\ Optionally(t, g.from + 1, "s", k) /\ g.to = y.to
          /\ g.says = <<"<">> \o (y.says \o <<">">>)
          /\ g.nested = 1 + Deeper(p.nested, y.nested)
    BY Zenon DEF InherentImpl
  <1>3. PICK p \in Of(G, "path", k) : \E y \in Of(G, "type", p.to) :
          /\ Optionally(t, g.from + 1, "s", k) /\ g.to = y.to
          /\ g.says = <<"<">> \o (y.says \o <<">">>)
          /\ g.nested = 1 + Deeper(p.nested, y.nested)
    BY <1>2, Zenon
  <1>4. PICK y \in Of(G, "type", p.to) :
          /\ Optionally(t, g.from + 1, "s", k) /\ g.to = y.to
          /\ g.says = <<"<">> \o (y.says \o <<">">>)
          /\ g.nested = 1 + Deeper(p.nested, y.nested)
    BY <1>3, Zenon
  <1>5. p.to \in Nat \ {0} /\ p.nested \in Nat /\ y.to \in Nat \ {0} /\ y.nested \in Nat
    BY OfIs
  <1>6. Taken("disambiguator", g.from + 1, k, <<>>, 0) \in T
    BY <1>4, NextPlace, ImplMark, Zenon DEF T
  <1>7. Taken("path", k, p.to, p.says, p.nested) \in T
    BY RuleIn DEF T
  <1>8. Taken("type", p.to, y.to, y.says, y.nested) \in T
    BY RuleIn DEF T
  <1>9. /\ Taken("<", p.to, p.to, <<"<">>, 0) \in T /\ Printing("<")
        /\ Taken(">", y.to, y.to, <<">">>, 0) \in T /\ Printing(">")
    BY <1>5, WordAt, Zenon DEF T
  <1>10. "disambiguator" # "member" /\ "path" # "member" /\ Printing("type")
    BY DEF Printing
  <1>11. Row(T, V, <<"disambiguator", "path", "unmute", "<", "type", ">">>, g.from + 1, y.to, <<"<">> \o (y.says \o <<">">>),
             Deeper(0, Deeper(p.nested, Deeper(0, Deeper(y.nested, 0)))))
    BY <1>1, <1>5, <1>6, <1>7, <1>8, <1>9, <1>10, RowImpl, ZenonT(30)
  <1>12. Deeper(0, Deeper(p.nested, Deeper(0, Deeper(y.nested, 0)))) = Deeper(p.nested, y.nested)
    BY <1>5, DeeperIs
  <1>13. Deeper(p.nested, y.nested) \in Nat /\ 1 + Deeper(p.nested, y.nested) = Deeper(p.nested, y.nested) + 1
    BY <1>5, Nesting, Zenon
  <1> QED
    BY <1>4, <1>11, <1>12, <1>13, Zenon DEF PathRowIs, T, V

\* (The items of an impl of a trait, in two parts.)
LEMMA TraitImplItems ==
  ASSUME NEW T, NEW V, Worded(T, V), "unmute" \in V, NEW x1, NEW x2, NEW x4, NEW x5, NEW x6, NEW x7, NEW x8,
         x1 # "member", x2 # "member", Printing(x4), Printing(x5), Printing(x6), Printing(x7), Printing(x8),
         NEW i, NEW i2, NEW i3 \in Nat \ {0}, NEW i6, NEW j, NEW s2, NEW s5, NEW s7, NEW n2, NEW n5, NEW n7,
         Taken(x1, i, i2, <<>>, 0) \in T, Taken(x2, i2, i3, s2, n2) \in T, Taken(x4, i3, i3, <<x4>>, 0) \in T,
         Taken(x5, i3, i6, s5, n5) \in T, Taken(x6, i6, i6, <<x6>>, 0) \in T, Taken(x7, i6, j, s7, n7) \in T,
         Taken(x8, j, j, <<x8>>, 0) \in T
  PROVE  Row(T, V, <<x1, x2, "unmute", x4, x5, x6, x7, x8>>, i, j, <<x4>> \o (s5 \o (<<x6>> \o (s7 \o <<x8>>))),
             Deeper(0, Deeper(n2, Deeper(0, Deeper(n5, Deeper(0, Deeper(n7, 0)))))))
  BY RowTraitImpl

\* and so is an impl of a trait,
LEMMA TraitImplRow ==
  ASSUME NEW t, NEW G, NEW W, Grammatical(t, G, W, LongLongMax), NEW g, g.from \in Nat \ {0}, TraitImpl(t, G, g)
  PROVE  PathRowIs(t, Tree(t, G, W), Words(W), <<"disambiguator", "path", "unmute", "<", "type", " as ", "path", ">">>, g)
  <1> DEFINE T == Tree(t, G, W)
             V == Words(W)
  <1>1. Worded(T, V) /\ "unmute" \in V
    BY TreeWorded, UnmuteIs
  <1> HIDE DEF T, V
  <1>2. PICK k \in Places(t) : \E p \in Of(G, "path", k) : \E y \in Of(G, "type", p.to) : \E q \in Of(G, "path", y.to) :
          /\ Optionally(t, g.from + 1, "s", k) /\ g.to = q.to
          /\ g.says = <<"<">> \o (y.says \o (<<" as ">> \o (q.says \o <<">">>)))
          /\ g.nested = 1 + Deeper(p.nested, Deeper(y.nested, q.nested))
    BY Zenon DEF TraitImpl
  <1>3. PICK p \in Of(G, "path", k) : \E y \in Of(G, "type", p.to) : \E q \in Of(G, "path", y.to) :
          /\ Optionally(t, g.from + 1, "s", k) /\ g.to = q.to
          /\ g.says = <<"<">> \o (y.says \o (<<" as ">> \o (q.says \o <<">">>)))
          /\ g.nested = 1 + Deeper(p.nested, Deeper(y.nested, q.nested))
    BY <1>2, Zenon
  <1>4. PICK y \in Of(G, "type", p.to) : \E q \in Of(G, "path", y.to) :
          /\ Optionally(t, g.from + 1, "s", k) /\ g.to = q.to
          /\ g.says = <<"<">> \o (y.says \o (<<" as ">> \o (q.says \o <<">">>)))
          /\ g.nested = 1 + Deeper(p.nested, Deeper(y.nested, q.nested))
    BY <1>3, Zenon
  <1>5. PICK q \in Of(G, "path", y.to) :
          /\ Optionally(t, g.from + 1, "s", k) /\ g.to = q.to
          /\ g.says = <<"<">> \o (y.says \o (<<" as ">> \o (q.says \o <<">">>)))
          /\ g.nested = 1 + Deeper(p.nested, Deeper(y.nested, q.nested))
    BY <1>4, Zenon
  <1>6. /\ p.to \in Nat \ {0} /\ p.nested \in Nat /\ y.to \in Nat \ {0} /\ y.nested \in Nat
        /\ q.to \in Nat \ {0} /\ q.nested \in Nat
    BY OfIs
  <1>7. Taken("disambiguator", g.from + 1, k, <<>>, 0) \in T
    BY <1>5, NextPlace, ImplMark, Zenon DEF T
  <1>8. Taken("path", k, p.to, p.says, p.nested) \in T
    BY RuleIn DEF T
  <1>9. Taken("type", p.to, y.to, y.says, y.nested) \in T
    BY RuleIn DEF T
  <1>10. Taken("path", y.to, q.to, q.says, q.nested) \in T
    BY RuleIn DEF T
  <1>11. /\ Taken("<", p.to, p.to, <<"<">>, 0) \in T /\ Printing("<")
         /\ Taken(" as ", y.to, y.to, <<" as ">>, 0) \in T /\ Printing(" as ")
         /\ Taken(">", q.to, q.to, <<">">>, 0) \in T /\ Printing(">")
    BY <1>6, WordAt, Zenon DEF T
  <1>12. "disambiguator" # "member" /\ "path" # "member" /\ Printing("type") /\ Printing("path")
    BY DEF Printing
  <1>13. Row(T, V, <<"disambiguator", "path", "unmute", "<", "type", " as ", "path", ">">>, g.from + 1, q.to,
             <<"<">> \o (y.says \o (<<" as ">> \o (q.says \o <<">">>))),
             Deeper(0, Deeper(p.nested, Deeper(0, Deeper(y.nested, Deeper(0, Deeper(q.nested, 0)))))))
    BY <1>1, <1>6, <1>7, <1>8, <1>9, <1>10, <1>11, <1>12, TraitImplItems, ZenonT(60)
  <1>14. Deeper(0, Deeper(p.nested, Deeper(0, Deeper(y.nested, Deeper(0, Deeper(q.nested, 0)))))) =
           Deeper(p.nested, Deeper(y.nested, q.nested))
    <2>1. Deeper(q.nested, 0) = q.nested /\ Deeper(0, q.nested) = q.nested /\ Deeper(y.nested, q.nested) \in Nat
      BY <1>6, DeeperIs, Zenon
    <2>2. Deeper(0, Deeper(y.nested, q.nested)) = Deeper(y.nested, q.nested) /\ Deeper(p.nested, Deeper(y.nested, q.nested)) \in Nat
      BY <1>6, <2>1, DeeperIs, Zenon
    <2>3. Deeper(0, Deeper(p.nested, Deeper(y.nested, q.nested))) = Deeper(p.nested, Deeper(y.nested, q.nested))
      BY <2>2, DeeperIs, Zenon
    <2> QED
      BY <2>1, <2>2, <2>3, Zenon
  <1>15. /\ Deeper(y.nested, q.nested) \in Nat
         /\ 1 + Deeper(p.nested, Deeper(y.nested, q.nested)) = Deeper(p.nested, Deeper(y.nested, q.nested)) + 1
         /\ Deeper(p.nested, Deeper(y.nested, q.nested)) \in Nat
    BY <1>6, Nesting, Zenon
  <1> QED
    BY <1>5, <1>13, <1>14, <1>15, Zenon DEF PathRowIs, T, V

\* Words and nodes in turn.
LEMMA FiveListed ==
  ASSUME NEW T, NEW V, Worded(T, V), NEW x1, NEW x2, NEW x3, NEW x4, NEW x5,
         Printing(x1), Printing(x2), Printing(x3), Printing(x4), Printing(x5),
         NEW i, NEW k, NEW j, NEW s2, NEW s4, NEW n2, NEW n4,
         Taken(x1, i, i, <<x1>>, 0) \in T, Taken(x2, i, k, s2, n2) \in T, Taken(x3, k, k, <<x3>>, 0) \in T,
         Taken(x4, k, j, s4, n4) \in T, Taken(x5, j, j, <<x5>>, 0) \in T
  PROVE  Row(T, V, <<x1, x2, x3, x4, x5>>, i, j, <<x1>> \o (s2 \o (<<x3>> \o (s4 \o <<x5>>))), Deeper(n2, n4))
  <1>1. Row(T, V, <<x1, x2, x3, x4, x5>>, i, j, <<x1>> \o (s2 \o (<<x3>> \o (s4 \o <<x5>>))),
            Deeper(0, Deeper(n2, Deeper(0, Deeper(n4, 0)))))
    BY RowFive
  <1>2. n2 \in Nat /\ n4 \in Nat
    BY TakenIs
  <1>3. Deeper(0, Deeper(n2, Deeper(0, Deeper(n4, 0)))) = Deeper(n2, n4)
    BY <1>2, DeeperIs
  <1> QED
    BY <1>1, <1>3, Zenon

\* and so is the definition of a trait,
LEMMA TraitRow ==
  ASSUME NEW t, NEW G, NEW W, Grammatical(t, G, W, LongLongMax), NEW g, g.from \in Nat \ {0}, TraitDefinition(G, g)
  PROVE  PathRowIs(t, Tree(t, G, W), Words(W), <<"<", "type", " as ", "path", ">">>, g)
  <1> DEFINE T == Tree(t, G, W)
             V == Words(W)
  <1>1. Worded(T, V)
    BY TreeWorded
  <1> HIDE DEF T, V
  <1>2. PICK y \in Of(G, "type", g.from + 1) : \E q \in Of(G, "path", y.to) :
          /\ g.to = q.to
          /\ g.says = <<"<">> \o (y.says \o (<<" as ">> \o (q.says \o <<">">>)))
          /\ g.nested = 1 + Deeper(y.nested, q.nested)
    BY Zenon DEF TraitDefinition
  <1>3. PICK q \in Of(G, "path", y.to) :
          /\ g.to = q.to
          /\ g.says = <<"<">> \o (y.says \o (<<" as ">> \o (q.says \o <<">">>)))
          /\ g.nested = 1 + Deeper(y.nested, q.nested)
    BY <1>2, Zenon
  <1>4. y.to \in Nat \ {0} /\ y.nested \in Nat /\ q.to \in Nat \ {0} /\ q.nested \in Nat
    BY OfIs
  <1>5. Taken("type", g.from + 1, y.to, y.says, y.nested) \in T
    BY RuleIn DEF T
  <1>6. Taken("path", y.to, q.to, q.says, q.nested) \in T
    BY RuleIn DEF T
  <1>7. /\ Taken("<", g.from + 1, g.from + 1, <<"<">>, 0) \in T /\ Printing("<")
        /\ Taken(" as ", y.to, y.to, <<" as ">>, 0) \in T /\ Printing(" as ")
        /\ Taken(">", q.to, q.to, <<">">>, 0) \in T /\ Printing(">")
    BY <1>4, NextPlace, WordAt, Zenon DEF T
  <1>8. Printing("type") /\ Printing("path")
    BY DEF Printing
  <1>9. Row(T, V, <<"<", "type", " as ", "path", ">">>, g.from + 1, q.to,
            <<"<">> \o (y.says \o (<<" as ">> \o (q.says \o <<">">>))), Deeper(y.nested, q.nested))
    BY <1>1, <1>5, <1>6, <1>7, <1>8, FiveListed, ZenonT(30)
  <1>10. Deeper(y.nested, q.nested) \in Nat /\ 1 + Deeper(y.nested, q.nested) = Deeper(y.nested, q.nested) + 1
    BY <1>4, Nesting, Zenon
  <1> QED
    BY <1>3, <1>9, <1>10, Zenon DEF PathRowIs, T, V

\* and so is an instance of a generic:
LEMMA InstanceRow ==
  ASSUME NEW t, NEW G, NEW W, Grammatical(t, G, W, LongLongMax), NEW g, g.from \in Nat \ {0}, Instance(t, G, g)
  PROVE  PathRowIs(t, Tree(t, G, W), Words(W), <<"path", "args">>, g)
  <1> DEFINE T == Tree(t, G, W)
             V == Words(W)
  <1>1. Worded(T, V)
    BY TreeWorded
  <1>2. PICK p \in Of(G, "path", g.from + 1) :
          \/ Holds(t, p.to, "E") /\ g.to = p.to + 1 /\ g.says = p.says /\ g.nested = 1 + p.nested
          \/ \E a \in Of(G, "generic-args", p.to) :
               /\ g.to = a.to
               /\ g.says = p.says \o (<<"::<">> \o (a.says \o <<">">>))
               /\ g.nested = 1 + Deeper(p.nested, a.nested)
    BY Zenon DEF Instance
  <1>3. p.to \in Nat \ {0} /\ p.nested \in Nat /\ p.says \in Seq(V)
    BY OfIs
  <1>4. ASSUME NEW j \in Nat, NEW s \in Seq(V), NEW n \in Nat,
               \/ Holds(t, p.to, "E") /\ j = p.to + 1 /\ s = <<>> /\ n = 0
               \/ \E a \in Of(G, "generic-args", p.to) : j = a.to /\ s = <<"::<">> \o (a.says \o <<">">>) /\ n = a.nested
        PROVE  Taken("args", p.to, j, s, n) \in T
    <2> DEFINE d == Taken("args", p.to, j, s, n)
    <2>1. d.item = "args" /\ d.from = p.to /\ d.to = j /\ d.says = s /\ d.nested = n
      BY DEF Taken
    <2> HIDE DEF d
    <2>2. \/ Holds(t, d.from, "E") /\ d.to = d.from + 1 /\ d.says = <<>> /\ d.nested = 0
          \/ \E a \in Of(G, "generic-args", d.from) :
               d.to = a.to /\ d.says = <<"::<">> \o (a.says \o <<">">>) /\ d.nested = a.nested
      BY <1>4, <2>1, Zenon
    <2>3. InnerIs(t, G, d)
      BY <2>1, <2>2 DEF InnerIs
    <2>4. "args" \in Inner
      BY InnerAre
    <2> QED
      BY <1>3, <2>3, <2>4, InTree, Zenon DEF d
  <1>5. Taken("path", g.from + 1, p.to, p.says, p.nested) \in T
    BY RuleIn
  <1> HIDE DEF T, V
  <1>6. CASE Holds(t, p.to, "E") /\ g.to = p.to + 1 /\ g.says = p.says /\ g.nested = 1 + p.nested
    <2>1. p.to + 1 \in Nat /\ <<>> \in Seq(V) /\ 0 \in Nat
      BY <1>3
    <2>2. Taken("args", p.to, p.to + 1, <<>>, 0) \in T
      BY <1>4, <1>6, <2>1, Zenon
    <2>3. Row(T, V, <<"path", "args">>, g.from + 1, g.to, p.says \o <<>>, Deeper(p.nested, 0))
      BY <1>1, <1>5, <1>6, <2>2, RowPair
    <2>4. p.says \o <<>> = p.says /\ Deeper(p.nested, 0) = p.nested /\ 1 + p.nested = p.nested + 1
      <3>1. p.says \o <<>> = p.says
        BY <1>3, ConcatEmptySeq
      <3> QED
        BY <1>3, <3>1, DeeperIs, Nesting, Zenon
    <2> QED
      BY <1>3, <1>6, <2>3, <2>4, Zenon DEF PathRowIs, T, V
  <1>7. ASSUME NEW a \in Of(G, "generic-args", p.to), g.to = a.to, g.says = p.says \o (<<"::<">> \o (a.says \o <<">">>)),
               g.nested = 1 + Deeper(p.nested, a.nested)
        PROVE  PathRowIs(t, T, V, <<"path", "args">>, g)
    <2> DEFINE s == <<"::<">> \o (a.says \o <<">">>)
    <2>1. a.to \in Nat /\ a.says \in Seq(V) /\ a.nested \in Nat
      BY OfIs DEF V
    <2>2. s \in Seq(V)
      <3>1. <<"::<">> \in Seq(V) /\ <<">">> \in Seq(V)
        BY <1>3, WordAt, Zenon DEF V
      <3> QED
        BY <2>1, <3>1, ConcatProperties
    <2> HIDE DEF s
    <2>3. Taken("args", p.to, a.to, s, a.nested) \in T
      BY <1>4, <2>1, <2>2, Zenon DEF s
    <2>4. Row(T, V, <<"path", "args">>, g.from + 1, a.to, p.says \o s, Deeper(p.nested, a.nested))
      BY <1>1, <1>5, <2>3, RowPair
    <2>5. Deeper(p.nested, a.nested) \in Nat /\ 1 + Deeper(p.nested, a.nested) = Deeper(p.nested, a.nested) + 1
      BY <1>3, <2>1, Nesting, Zenon
    <2> QED
      BY <1>7, <2>4, <2>5, Zenon DEF PathRowIs, s
  <1> QED
    BY <1>2, <1>6, <1>7, Zenon DEF T, V

\* every path.
LEMMA PathRow ==
  ASSUME NEW t, NEW G, NEW W, Grammatical(t, G, W, LongLongMax), NEW i, NEW g \in Of(G, "path", i)
  PROVE  /\ i <= Len(t) /\ t[i] \in DOMAIN PathBody
         /\ PathRowIs(t, Tree(t, G, W), Words(W), PathBody[t[i]], g)
  <1>1. i <= Len(t) /\ t[i] \in PathLetters /\ PathIs(t, G, g) /\ t[i] \in DOMAIN PathBody
    <2>1. i <= Len(t) /\ t[i] \in PathLetters /\ PathIs(t, G, g)
      BY PathFirst
    <2> QED
      BY <2>1, PathBodies
  <1>2. g.from = i /\ i \in Nat \ {0}
    BY OfIs
  <1> DEFINE T == Tree(t, G, W)
             V == Words(W)
  <1>3. ASSUME NEW c, Holds(t, g.from, c)
        PROVE  t[i] = c
    BY <1>2, <1>3 DEF Holds
  <1> HIDE DEF T, V
  <1>4. ASSUME Holds(t, g.from, "C"), CrateRoot(t, g)
        PROVE  PathRowIs(t, T, V, PathBody[t[i]], g)
    BY <1>2, <1>3, <1>4, CrateRow, PathBodies, Zenon DEF T, V
  <1>5. ASSUME Holds(t, g.from, "N"), MemberPath(t, G, g)
        PROVE  PathRowIs(t, T, V, PathBody[t[i]], g)
    BY <1>2, <1>3, <1>5, MemberRow, PathBodies, Zenon DEF T, V
  <1>6. ASSUME Holds(t, g.from, "M"), InherentImpl(t, G, g)
        PROVE  PathRowIs(t, T, V, PathBody[t[i]], g)
    BY <1>2, <1>3, <1>6, ImplRow, PathBodies, Zenon DEF T, V
  <1>7. ASSUME Holds(t, g.from, "X"), TraitImpl(t, G, g)
        PROVE  PathRowIs(t, T, V, PathBody[t[i]], g)
    BY <1>2, <1>3, <1>7, TraitImplRow, PathBodies, Zenon DEF T, V
  <1>8. ASSUME Holds(t, g.from, "Y"), TraitDefinition(G, g)
        PROVE  PathRowIs(t, T, V, PathBody[t[i]], g)
    BY <1>2, <1>3, <1>8, TraitRow, PathBodies, Zenon DEF T, V
  <1>9. ASSUME Holds(t, g.from, "I"), Instance(t, G, g)
        PROVE  PathRowIs(t, T, V, PathBody[t[i]], g)
    BY <1>2, <1>3, <1>9, InstanceRow, PathBodies, Zenon DEF T, V
  <1>10. PathRowIs(t, T, V, PathBody[t[i]], g)
    BY <1>1, <1>4, <1>5, <1>6, <1>7, <1>8, <1>9, Zenon DEF PathIs, T, V
  <1> QED
    BY <1>1, <1>10, Zenon DEF T, V

\* So a path is what path() takes.
LEMMA PathsWritten ==
  ASSUME NEW t, NEW G, NEW W, Grammatical(t, G, W, LongLongMax), NEW d \in Tree(t, G, W)
  PROVE  PathWriting(t, Tree(t, G, W), Words(W), d)
  <1> SUFFICES ASSUME d.item = "path"
               PROVE  PathWriting(t, Tree(t, G, W), Words(W), d)
    BY DEF PathWriting
  <1>1. InnerIs(t, G, d)
    BY DEF Tree
  <1>2. PICK g \in Of(G, "path", d.from) : g.to = d.to /\ g.says = d.says /\ g.nested = d.nested
    BY <1>1 DEF InnerIs, ByRule
  <1>3. g.from = d.from
    BY OfIs
  <1>4. /\ d.from <= Len(t) /\ t[d.from] \in DOMAIN PathBody
        /\ PathRowIs(t, Tree(t, G, W), Words(W), PathBody[t[d.from]], g)
    BY PathRow, Zenon
  <1> QED
    BY <1>2, <1>3, <1>4, Zenon DEF PathWriting, PathRowIs

-----------------------------------------------------------------------------
(* Types.                                                                  *)

\* The items of a type behind its tag.
LEMMA TypeBodies ==
  /\ TypeBody["A"] = <<"[", "type", "; ", "constant", "]">> /\ TypeBody["S"] = <<"[", "type", "]">>
  /\ TypeBody["T"] = <<"(", "tuple">> /\ TypeBody["R"] = <<"&", "lifetime", "type">>
  /\ TypeBody["Q"] = <<"&", "lifetime", "mut ", "type">> /\ TypeBody["P"] = <<"*const ", "type">>
  /\ TypeBody["O"] = <<"*mut ", "type">> /\ TypeBody["F"] = <<"binder", "unsafe", "abi", "fn(", "params">>
  /\ TypeBody["D"] = <<"dyn ", "binder", "bounds", "nolifetime">>
  /\ {"A", "S", "T", "R", "Q", "P", "O", "F", "D"} \subseteq DOMAIN TypeBody
  /\ \A c \in PathLetters : c \notin DOMAIN TypeBody
  /\ \A c \in {"A", "S", "T", "R", "Q", "P", "O", "F", "D"} : c \notin DOMAIN BasicTypes
  <1>1. /\ TypeBody["A"] = <<"[", "type", "; ", "constant", "]">> /\ TypeBody["S"] = <<"[", "type", "]">>
        /\ TypeBody["T"] = <<"(", "tuple">> /\ TypeBody["R"] = <<"&", "lifetime", "type">>
        /\ TypeBody["Q"] = <<"&", "lifetime", "mut ", "type">> /\ TypeBody["P"] = <<"*const ", "type">>
        /\ TypeBody["O"] = <<"*mut ", "type">> /\ TypeBody["F"] = <<"binder", "unsafe", "abi", "fn(", "params">>
        /\ TypeBody["D"] = <<"dyn ", "binder", "bounds", "nolifetime">>
    BY DEF TypeBody
  <1>2. DOMAIN TypeBody = {"A", "S", "T", "R", "Q", "P", "O", "F", "D", "B"}
    BY DEF TypeBody
  <1>3. \A c \in PathLetters : c \notin DOMAIN TypeBody
    BY <1>2 DEF PathLetters
  <1>4. \A c \in {"A", "S", "T", "R", "Q", "P", "O", "F", "D"} : c \notin DOMAIN BasicTypes
    BY BasicsAre
  <1> QED
    BY <1>1, <1>2, <1>3, <1>4

\* An array is read as its items,
LEMMA ArrayRow ==
  ASSUME NEW t, NEW G, NEW W, Grammatical(t, G, W, LongLongMax), NEW g, g.from \in Nat \ {0}, ArrayType(G, g)
  PROVE  PathRowIs(t, Tree(t, G, W), Words(W), <<"[", "type", "; ", "constant", "]">>, g)
  <1> DEFINE T == Tree(t, G, W)
             V == Words(W)
  <1>1. Worded(T, V)
    BY TreeWorded
  <1> HIDE DEF T, V
  <1>2. PICK y \in Of(G, "type", g.from + 1) : \E n \in Of(G, "const", y.to) :
          /\ g.to = n.to
          /\ g.says = <<"[">> \o (y.says \o (<<"; ">> \o (n.says \o <<"]">>)))
          /\ g.nested = 1 + Deeper(y.nested, n.nested)
    BY Zenon DEF ArrayType
  <1>3. PICK n \in Of(G, "const", y.to) :
          /\ g.to = n.to
          /\ g.says = <<"[">> \o (y.says \o (<<"; ">> \o (n.says \o <<"]">>)))
          /\ g.nested = 1 + Deeper(y.nested, n.nested)
    BY <1>2, Zenon
  <1>4. y.to \in Nat \ {0} /\ y.nested \in Nat /\ n.to \in Nat \ {0} /\ n.nested \in Nat
    BY OfIs
  <1>5. Taken("type", g.from + 1, y.to, y.says, y.nested) \in T
    BY RuleIn DEF T
  <1>6. Taken("constant", y.to, n.to, n.says, n.nested) \in T
    BY RuleIn DEF T
  <1>7. /\ Taken("[", g.from + 1, g.from + 1, <<"[">>, 0) \in T /\ Printing("[")
        /\ Taken("; ", y.to, y.to, <<"; ">>, 0) \in T /\ Printing("; ")
        /\ Taken("]", n.to, n.to, <<"]">>, 0) \in T /\ Printing("]")
    BY <1>4, NextPlace, WordAt, Zenon DEF T
  <1>8. Printing("type") /\ Printing("constant")
    BY DEF Printing
  <1>9. Row(T, V, <<"[", "type", "; ", "constant", "]">>, g.from + 1, n.to,
            <<"[">> \o (y.says \o (<<"; ">> \o (n.says \o <<"]">>))), Deeper(y.nested, n.nested))
    BY <1>1, <1>5, <1>6, <1>7, <1>8, FiveListed, ZenonT(30)
  <1>10. Deeper(y.nested, n.nested) \in Nat /\ 1 + Deeper(y.nested, n.nested) = Deeper(y.nested, n.nested) + 1
    BY <1>4, Nesting, Zenon
  <1> QED
    BY <1>3, <1>9, <1>10, Zenon DEF PathRowIs, T, V

\* and so is a slice,
LEMMA SliceRow ==
  ASSUME NEW t, NEW G, NEW W, Grammatical(t, G, W, LongLongMax), NEW g, g.from \in Nat \ {0}, SliceType(G, g)
  PROVE  PathRowIs(t, Tree(t, G, W), Words(W), <<"[", "type", "]">>, g)
  <1> DEFINE T == Tree(t, G, W)
             V == Words(W)
  <1>1. Worded(T, V)
    BY TreeWorded
  <1> HIDE DEF T, V
  <1>2. PICK y \in Of(G, "type", g.from + 1) :
          g.to = y.to /\ g.says = <<"[">> \o (y.says \o <<"]">>) /\ g.nested = 1 + y.nested
    BY Zenon DEF SliceType
  <1>3. y.to \in Nat \ {0} /\ y.nested \in Nat
    BY OfIs
  <1>4. Taken("type", g.from + 1, y.to, y.says, y.nested) \in T
    BY RuleIn DEF T
  <1>5. /\ Taken("[", g.from + 1, g.from + 1, <<"[">>, 0) \in T /\ Printing("[")
        /\ Taken("]", y.to, y.to, <<"]">>, 0) \in T /\ Printing("]") /\ Printing("type")
    <2>1. Printing("type")
      BY DEF Printing
    <2> QED
      BY <1>3, <2>1, NextPlace, WordAt, Zenon DEF T
  <1>6. Row(T, V, <<"[", "type", "]">>, g.from + 1, y.to, <<"[">> \o (y.says \o <<"]">>), Deeper(0, Deeper(y.nested, 0)))
    BY <1>1, <1>4, <1>5, RowTriple
  <1>7. Deeper(0, Deeper(y.nested, 0)) = y.nested /\ 1 + y.nested = y.nested + 1
    BY <1>3, DeeperIs, Nesting, Zenon
  <1> QED
    BY <1>2, <1>3, <1>6, <1>7, Zenon DEF PathRowIs, T, V

\* A lifetime before a type.
LEMMA LifetimeIn ==
  ASSUME NEW t, NEW G, NEW W, Grammatical(t, G, W, LongLongMax), NEW i \in Nat \ {0}, NEW k, Optionally(t, i, "L", k),
         NEW y \in Of(G, "type", k)
  PROVE  /\ Taken("lifetime", i, k, IF k = i THEN <<>> ELSE <<"'_ ">>, 0) \in Tree(t, G, W) /\ k \in Nat \ {0}
         /\ (IF k = i THEN <<>> ELSE <<"'_ ">>) \in Seq(Words(W)) /\ Printing("lifetime")
  <1>1. ~Holds(t, k, "L") /\ t \in Seq(W)
    BY TypeApart, Zenon DEF Grammatical
  <1> QED
    BY <1>1, OptionItems, OptionIn, Zenon

\* and so is a shared reference,
LEMMA SharedRow ==
  ASSUME NEW t, NEW G, NEW W, Grammatical(t, G, W, LongLongMax), NEW g, g.from \in Nat \ {0}, Reference(t, G, g, <<>>)
  PROVE  PathRowIs(t, Tree(t, G, W), Words(W), <<"&", "lifetime", "type">>, g)
  <1> DEFINE T == Tree(t, G, W)
             V == Words(W)
             L(k) == IF k = g.from + 1 THEN <<>> ELSE <<"'_ ">>
  <1>1. Worded(T, V)
    BY TreeWorded
  <1>2. PICK k \in Places(t) : \E y \in Of(G, "type", k) :
          /\ Optionally(t, g.from + 1, "L", k) /\ g.to = y.to
          /\ g.says = <<"&">> \o (L(k) \o (<<>> \o y.says)) /\ g.nested = 1 + y.nested
    BY Zenon DEF Reference
  <1>3. PICK y \in Of(G, "type", k) :
          /\ Optionally(t, g.from + 1, "L", k) /\ g.to = y.to
          /\ g.says = <<"&">> \o (L(k) \o (<<>> \o y.says)) /\ g.nested = 1 + y.nested
    BY <1>2, Zenon
  <1>4. y.nested \in Nat /\ y.says \in Seq(V)
    BY OfIs
  <1>5. Taken("lifetime", g.from + 1, k, L(k), 0) \in T /\ Printing("lifetime")
    BY <1>3, NextPlace, LifetimeIn, Zenon
  <1> HIDE DEF T, V, L
  <1>6. Taken("type", k, y.to, y.says, y.nested) \in T /\ Printing("type")
    BY RuleIn DEF T, Printing
  <1>7. Taken("&", g.from + 1, g.from + 1, <<"&">>, 0) \in T /\ Printing("&")
    BY NextPlace, WordAt, Zenon DEF T
  <1>8. Row(T, V, <<"&", "lifetime", "type">>, g.from + 1, y.to, <<"&">> \o (L(k) \o y.says), Deeper(0, Deeper(0, y.nested)))
    BY <1>1, <1>5, <1>6, <1>7, RowTriple
  <1>9. Deeper(0, Deeper(0, y.nested)) = y.nested /\ 1 + y.nested = y.nested + 1
    BY <1>4, DeeperIs, Nesting, Zenon
  <1>10. <<>> \o y.says = y.says
    BY <1>4, ConcatEmptySeq
  <1> QED
    BY <1>3, <1>4, <1>8, <1>9, <1>10, Zenon DEF PathRowIs, T, V

\* and so is a mutable one,
LEMMA MutableRow ==
  ASSUME NEW t, NEW G, NEW W, Grammatical(t, G, W, LongLongMax), NEW g, g.from \in Nat \ {0}, Reference(t, G, g, <<"mut ">>)
  PROVE  PathRowIs(t, Tree(t, G, W), Words(W), <<"&", "lifetime", "mut ", "type">>, g)
  <1> DEFINE T == Tree(t, G, W)
             V == Words(W)
             L(k) == IF k = g.from + 1 THEN <<>> ELSE <<"'_ ">>
  <1>1. Worded(T, V)
    BY TreeWorded
  <1>2. PICK k \in Places(t) : \E y \in Of(G, "type", k) :
          /\ Optionally(t, g.from + 1, "L", k) /\ g.to = y.to
          /\ g.says = <<"&">> \o (L(k) \o (<<"mut ">> \o y.says)) /\ g.nested = 1 + y.nested
    BY Zenon DEF Reference
  <1>3. PICK y \in Of(G, "type", k) :
          /\ Optionally(t, g.from + 1, "L", k) /\ g.to = y.to
          /\ g.says = <<"&">> \o (L(k) \o (<<"mut ">> \o y.says)) /\ g.nested = 1 + y.nested
    BY <1>2, Zenon
  <1>4. y.nested \in Nat
    BY OfIs
  <1>5. Taken("lifetime", g.from + 1, k, L(k), 0) \in T /\ Printing("lifetime") /\ k \in Nat \ {0}
    BY <1>3, NextPlace, LifetimeIn, Zenon
  <1> HIDE DEF T, V, L
  <1>6. Taken("type", k, y.to, y.says, y.nested) \in T /\ Printing("type")
    BY RuleIn DEF T, Printing
  <1>7. /\ Taken("&", g.from + 1, g.from + 1, <<"&">>, 0) \in T /\ Printing("&")
        /\ Taken("mut ", k, k, <<"mut ">>, 0) \in T /\ Printing("mut ")
    BY <1>5, NextPlace, WordAt, Zenon DEF T
  <1>8. Row(T, V, <<"&", "lifetime", "mut ", "type">>, g.from + 1, y.to, <<"&">> \o (L(k) \o (<<"mut ">> \o y.says)),
            Deeper(0, Deeper(0, Deeper(0, y.nested))))
    BY <1>1, <1>5, <1>6, <1>7, RowFour, ZenonT(30)
  <1>9. Deeper(0, Deeper(0, Deeper(0, y.nested))) = y.nested /\ 1 + y.nested = y.nested + 1
    BY <1>4, DeeperIs, Nesting, Zenon
  <1> QED
    BY <1>3, <1>4, <1>8, <1>9, Zenon DEF PathRowIs, T, V

\* What is printed before the type a pointer points to.
Starred(x) == x \in {"*const ", "*mut "}

\* and so is a pointer,
LEMMA PointerRow ==
  ASSUME NEW t, NEW G, NEW W, Grammatical(t, G, W, LongLongMax), NEW g, g.from \in Nat \ {0},
         NEW x, Starred(x), Pointer(G, g, <<x>>)
  PROVE  PathRowIs(t, Tree(t, G, W), Words(W), <<x, "type">>, g)
  <1> DEFINE T == Tree(t, G, W)
             V == Words(W)
  <1>1. Worded(T, V)
    BY TreeWorded
  <1> HIDE DEF T, V
  <1>2. PICK y \in Of(G, "type", g.from + 1) : g.to = y.to /\ g.says = <<x>> \o y.says /\ g.nested = 1 + y.nested
    BY Zenon DEF Pointer
  <1>3. y.nested \in Nat
    BY OfIs
  <1>4. Taken("type", g.from + 1, y.to, y.says, y.nested) \in T
    BY RuleIn DEF T
  <1>5. Taken(x, g.from + 1, g.from + 1, <<x>>, 0) \in T /\ x # "member" /\ x # "unmute"
    BY NextPlace, WordAt, Zenon DEF T, Printing, Starred
  <1>6. Row(T, V, <<x, "type">>, g.from + 1, y.to, <<x>> \o y.says, Deeper(0, y.nested))
    BY <1>1, <1>4, <1>5, RowPair
  <1>7. Deeper(0, y.nested) = y.nested /\ 1 + y.nested = y.nested + 1
    BY <1>3, DeeperIs, Nesting, Zenon
  <1> QED
    BY <1>2, <1>3, <1>6, <1>7, Zenon DEF PathRowIs, T, V

\* What a tuple says behind its "(".
LEMMA TupleOf ==
  ASSUME NEW t, NEW G, NEW W, Grammatical(t, G, W, LongLongMax), NEW g, g.from \in Nat \ {0}, TupleType(t, G, g)
  PROVE  \E s, n : TupleIs(t, G, g.from + 1, g.to, s, n) /\ g.says = <<"(">> \o s /\ g.nested = 1 + n
  <1> DEFINE i == g.from + 1
  <1>1. i + 1 = g.from + 2
    OBVIOUS
  <1> HIDE DEF i
  <1>2. ASSUME Holds(t, i, "E"), g.to = g.from + 2, g.says = <<"(", ")">>, g.nested = 1
        PROVE  \E s, n : TupleIs(t, G, i, g.to, s, n) /\ g.says = <<"(">> \o s /\ g.nested = 1 + n
    <2>1. TupleIs(t, G, i, g.to, <<")">>, 0)
      BY <1>1, <1>2, Zenon DEF TupleIs
    <2>2. <<"(">> \o <<")">> = <<"(", ")">>
      BY Joined2, Zenon
    <2>3. 1 = 1 + 0
      OBVIOUS
    <2> QED
      BY <1>2, <2>1, <2>2, <2>3, Zenon
  <1>3. ASSUME NEW y \in Of(G, "type", i), NEW s, NEW n, SingleIs(t, G, y.to, g.to, s, n), g.says = <<"(">> \o (y.says \o s),
               g.nested = 1 + Deeper(y.nested, n)
        PROVE  \E u, m : TupleIs(t, G, i, g.to, u, m) /\ g.says = <<"(">> \o u /\ g.nested = 1 + m
    <2>1. TupleIs(t, G, i, g.to, y.says \o s, Deeper(y.nested, n))
      BY <1>3, Zenon DEF TupleIs
    <2> QED
      BY <1>3, <2>1, Zenon
  <1>4. ASSUME NEW y \in Of(G, "type", i)
        PROVE  y.nested \in Nat /\ Deeper(y.nested, 0) = y.nested
    <2>1. y.nested \in Nat
      BY OfIs
    <2> QED
      BY <2>1, DeeperIs, Zenon
  <1> DEFINE Goal == \E u, m : TupleIs(t, G, i, g.to, u, m) /\ g.says = <<"(">> \o u /\ g.nested = 1 + m
  <1> HIDE DEF Goal
  <1>5. ASSUME NEW y \in Of(G, "type", i), Holds(t, y.to, "E"), g.to = y.to + 1, g.says = <<"(">> \o (y.says \o <<",)">>),
               g.nested = 1 + y.nested
        PROVE  Goal
    <2>1. SingleIs(t, G, y.to, g.to, <<",)">>, 0)
      BY <1>5, Zenon DEF SingleIs
    <2> QED
      BY <1>3, <1>4, <1>5, <2>1, Zenon DEF Goal
  <1>6. ASSUME NEW y \in Of(G, "type", i), NEW r \in Of(G, "types", y.to), g.to = r.to,
               g.says = <<"(">> \o (y.says \o (<<", ">> \o (r.says \o <<")">>))),
               g.nested = 1 + Deeper(y.nested, r.nested)
        PROVE  Goal
    <2>1. SingleIs(t, G, y.to, g.to, <<", ">> \o (r.says \o <<")">>), r.nested)
      BY <1>6, Zenon DEF SingleIs
    <2> QED
      BY <1>3, <1>6, <2>1, Zenon DEF Goal
  <1>7. Goal
    BY <1>2, <1>5, <1>6, Zenon DEF TupleType, Goal, i
  <1> QED
    BY <1>7, Zenon DEF Goal, i

\* A tuple is typed.
LEMMA TupleTyped ==
  ASSUME NEW t, NEW G, NEW W, Grammatical(t, G, W, LongLongMax), NEW i \in Nat \ {0}, NEW j, NEW s, NEW n,
         TupleIs(t, G, i, j, s, n)
  PROVE  j \in Nat /\ s \in Seq(Words(W)) /\ n \in Nat /\ Taken("tuple", i, j, s, n) \in Tree(t, G, W)
  <1> DEFINE V == Words(W)
  <1>1. ASSUME Holds(t, i, "E"), j = i + 1, s = <<")">>, n = 0
        PROVE  j \in Nat /\ s \in Seq(V) /\ n \in Nat
    <2>1. <<")">> \in Seq(V)
      BY WordAt, Zenon
    <2>2. i + 1 \in Nat /\ 0 \in Nat
      OBVIOUS
    <2> QED
      BY <1>1, <2>1, <2>2, Zenon
  <1>2. ASSUME NEW y \in Of(G, "type", i), NEW s2, NEW n2,
               SingleIs(t, G, y.to, j, s2, n2), s = y.says \o s2, n = Deeper(y.nested, n2)
        PROVE  j \in Nat /\ s \in Seq(V) /\ n \in Nat
    <2>1. y.to \in Nat \ {0} /\ y.says \in Seq(V) /\ y.nested \in Nat
      BY OfIs
    <2>2. j \in Nat \ {0} /\ s2 \in Seq(V) /\ n2 \in Nat
      BY <1>2, <2>1, SingleRow, Zenon
    <2>3. y.says \o s2 \in Seq(V)
      BY <2>1, <2>2, ConcatProperties
    <2>4. Deeper(y.nested, n2) \in Nat /\ j \in Nat
      BY <2>1, <2>2, DeeperIs
    <2> QED
      BY <1>2, <2>3, <2>4, Zenon
  <1>3. j \in Nat /\ s \in Seq(V) /\ n \in Nat
    BY <1>1, <1>2, Zenon DEF TupleIs
  <1> DEFINE d == Taken("tuple", i, j, s, n)
  <1>4. d.item = "tuple" /\ d.from = i /\ d.to = j /\ d.says = s /\ d.nested = n
    BY DEF Taken
  <1> HIDE DEF d
  <1>5. TupleIs(t, G, d.from, d.to, d.says, d.nested)
    BY <1>4, Zenon
  <1>6. InnerIs(t, G, d)
    BY <1>4, <1>5 DEF InnerIs
  <1>7. "tuple" \in Inner
    BY InnerAre
  <1> QED
    BY <1>3, <1>6, <1>7, InTree, Zenon DEF d

\* A tuple is read as its items,
LEMMA TupleTypeRow ==
  ASSUME NEW t, NEW G, NEW W, Grammatical(t, G, W, LongLongMax), NEW g, g.from \in Nat \ {0}, TupleType(t, G, g)
  PROVE  PathRowIs(t, Tree(t, G, W), Words(W), <<"(", "tuple">>, g)
  <1> DEFINE T == Tree(t, G, W)
             V == Words(W)
  <1>1. Worded(T, V)
    BY TreeWorded
  <1> HIDE DEF T, V
  <1>2. PICK s, n : TupleIs(t, G, g.from + 1, g.to, s, n) /\ g.says = <<"(">> \o s /\ g.nested = 1 + n
    BY TupleOf, Zenon
  <1>3. n \in Nat /\ Taken("tuple", g.from + 1, g.to, s, n) \in T
    BY <1>2, NextPlace, TupleTyped, Zenon DEF T
  <1>4. Taken("(", g.from + 1, g.from + 1, <<"(">>, 0) \in T /\ "(" # "member" /\ "tuple" # "member" /\ "tuple" # "unmute"
    BY NextPlace, WordAt, Zenon DEF T
  <1>5. Row(T, V, <<"(", "tuple">>, g.from + 1, g.to, <<"(">> \o s, Deeper(0, n))
    BY <1>1, <1>3, <1>4, RowPair, Zenon
  <1>6. Deeper(0, n) = n /\ 1 + n = n + 1
    BY <1>3, DeeperIs, Nesting, Zenon
  <1> QED
    BY <1>2, <1>3, <1>5, <1>6, Zenon DEF PathRowIs, T, V

\* A list begins with a type.
LEMMA ListApart ==
  ASSUME NEW t, NEW G, NEW W, Grammatical(t, G, W, LongLongMax), NEW i, NEW r \in Of(G, "types", i)
  PROVE  ~Holds(t, i, "G") /\ ~Holds(t, i, "U") /\ ~Holds(t, i, "K")
  <1>1. PICK y \in Of(G, "type", i) : TRUE
    BY CommaIs, ListIs, Zenon
  <1> QED
    BY TypeApart, Zenon

\* What a function type says behind "fn(".
LEMMA ParamsTyped ==
  ASSUME NEW t, NEW G, NEW W, Grammatical(t, G, W, LongLongMax), NEW i \in Nat \ {0}, NEW j, NEW s, NEW n,
         ParamsIs(t, G, i, j, s, n)
  PROVE  /\ j \in Nat /\ s \in Seq(Words(W)) /\ n \in Nat /\ Taken("params", i, j, s, n) \in Tree(t, G, W)
         /\ ~Holds(t, i, "G") /\ ~Holds(t, i, "U") /\ ~Holds(t, i, "K")
  <1> DEFINE V == Words(W)
  <1>1. Arrow \in Seq(V)
    BY WordAt, Zenon DEF Arrow
  <1>2. ASSUME NEW y \in Of(G, "type", i + 1), Holds(t, i, "E"), j = y.to, s = Arrow \o y.says, n = y.nested
        PROVE  j \in Nat /\ s \in Seq(V) /\ n \in Nat /\ ~Holds(t, i, "G") /\ ~Holds(t, i, "U") /\ ~Holds(t, i, "K")
    <2>1. y.to \in Nat /\ y.says \in Seq(V) /\ y.nested \in Nat
      BY OfIs
    <2>2. Arrow \o y.says \in Seq(V)
      BY <1>1, <2>1, ConcatProperties
    <2>3. ~Holds(t, i, "G") /\ ~Holds(t, i, "U") /\ ~Holds(t, i, "K")
      BY <1>2, HoldsOne
    <2> QED
      BY <1>2, <2>1, <2>2, <2>3, Zenon
  <1>3. ASSUME NEW r \in Of(G, "types", i), NEW y \in Of(G, "type", r.to), j = y.to, s = r.says \o (Arrow \o y.says),
               n = Deeper(r.nested, y.nested)
        PROVE  j \in Nat /\ s \in Seq(V) /\ n \in Nat /\ ~Holds(t, i, "G") /\ ~Holds(t, i, "U") /\ ~Holds(t, i, "K")
    <2>1. y.to \in Nat /\ y.says \in Seq(V) /\ y.nested \in Nat /\ r.says \in Seq(V) /\ r.nested \in Nat
      BY OfIs
    <2>2. Arrow \o y.says \in Seq(V)
      BY <1>1, <2>1, ConcatProperties
    <2>3. r.says \o (Arrow \o y.says) \in Seq(V)
      BY <2>1, <2>2, ConcatProperties
    <2>4. Deeper(r.nested, y.nested) \in Nat
      BY <2>1, DeeperIs
    <2>5. ~Holds(t, i, "G") /\ ~Holds(t, i, "U") /\ ~Holds(t, i, "K")
      BY ListApart
    <2> QED
      BY <1>3, <2>1, <2>3, <2>4, <2>5, Zenon
  <1>4. j \in Nat /\ s \in Seq(V) /\ n \in Nat /\ ~Holds(t, i, "G") /\ ~Holds(t, i, "U") /\ ~Holds(t, i, "K")
    BY <1>2, <1>3, Zenon DEF ParamsIs, Arrow
  <1> DEFINE d == Taken("params", i, j, s, n)
  <1>5. d.item = "params" /\ d.from = i /\ d.to = j /\ d.says = s /\ d.nested = n
    BY DEF Taken
  <1> HIDE DEF d
  <1>6. ParamsIs(t, G, d.from, d.to, d.says, d.nested)
    BY <1>5, Zenon
  <1>7. InnerIs(t, G, d)
    BY <1>5, <1>6 DEF InnerIs
  <1>8. "params" \in Inner
    BY InnerAre
  <1> QED
    BY <1>4, <1>7, <1>8, InTree, Zenon DEF d

\* (The items of a function type, in two parts.)
LEMMA FunctionItems ==
  ASSUME NEW T, NEW V, Worded(T, V), NEW x1, NEW x2, NEW x3, NEW x4, NEW x5,
         Printing(x1), Printing(x2), Printing(x3), Printing(x4), Printing(x5),
         NEW i, NEW a, NEW b, NEW e, NEW j, NEW s, NEW n,
         Taken(x1, i, a, <<>>, 0) \in T, Taken(x2, a, b, <<>>, 0) \in T, Taken(x3, b, e, <<>>, 0) \in T,
         Taken(x4, e, e, <<x4>>, 0) \in T, Taken(x5, e, j, s, n) \in T
  PROVE  Row(T, V, <<x1, x2, x3, x4, x5>>, i, j, <<x4>> \o s, n)
  <1>1. Row(T, V, <<x1, x2, x3, x4, x5>>, i, j, <<>> \o (<<>> \o (<<>> \o (<<x4>> \o s))),
            Deeper(0, Deeper(0, Deeper(0, Deeper(0, n)))))
    <2> DEFINE none == <<>>
               word == <<x4>>
               zero == 0
    <2>1. /\ Taken(x1, i, a, none, zero) \in T /\ Taken(x2, a, b, none, zero) \in T /\ Taken(x3, b, e, none, zero) \in T
          /\ Taken(x4, e, e, word, zero) \in T
      OBVIOUS
    <2> HIDE DEF none, word, zero
    <2>2. Row(T, V, <<x1, x2, x3, x4, x5>>, i, j, none \o (none \o (none \o (word \o s))),
              Deeper(zero, Deeper(zero, Deeper(zero, Deeper(zero, n)))))
      BY <2>1, RowFive
    <2> QED
      BY <2>2 DEF none, word, zero
  <1>2. n \in Nat /\ s \in Seq(V) /\ <<x4>> \in Seq(V)
    BY TakenIs
  <1>3. Deeper(0, Deeper(0, Deeper(0, Deeper(0, n)))) = n
    BY <1>2, DeeperIs
  <1>4. <<>> \o (<<>> \o (<<>> \o (<<x4>> \o s))) = <<x4>> \o s
    <2> DEFINE u == <<x4>> \o s
    <2>1. u \in Seq(V)
      BY <1>2, ConcatProperties
    <2> HIDE DEF u
    <2>2. <<>> \o u = u
      BY <2>1, ConcatEmptySeq
    <2> QED
      BY <2>2, Zenon DEF u
  <1> QED
    BY <1>1, <1>3, <1>4, Zenon

\* What stands before the "fn" of a function type.
Front(t, i, a, b, e) ==
  /\ Optionally(t, i, "G", a)
  /\ \/ b = a
     \/ Holds(t, a, "U") /\ b = a + 1
  /\ \/ e = b
     \/ Abi(t, b, e)

\* What is before the parameters of a function type is in the tree.
LEMMA FrontIn ==
  ASSUME NEW t, NEW G, NEW W, Grammatical(t, G, W, LongLongMax), NEW i \in Nat \ {0}, NEW a, NEW b \in Nat \ {0}, NEW e \in Nat \ {0},
         Front(t, i, a, b, e), ~Holds(t, e, "G"), ~Holds(t, e, "U"), ~Holds(t, e, "K")
  PROVE  /\ Taken("binder", i, a, <<>>, 0) \in Tree(t, G, W) /\ Taken("unsafe", a, b, <<>>, 0) \in Tree(t, G, W)
         /\ Taken("abi", b, e, <<>>, 0) \in Tree(t, G, W)
  <1>1. t \in Seq(W)
    BY Zenon DEF Grammatical
  <1>2. IF Holds(t, b, "K") THEN Abi(t, b, e) ELSE e = b
    BY Zenon DEF Front, Abi
  <1>3. ~Holds(t, b, "G") /\ ~Holds(t, b, "U")
    <2>1. CASE Holds(t, b, "K")
      BY <2>1, HoldsOne
    <2>2. CASE ~Holds(t, b, "K")
      BY <1>2, <2>2, Zenon
    <2> QED
      BY <2>1, <2>2
  <1>4. b = (IF Holds(t, a, "U") THEN a + 1 ELSE a) /\ ~Holds(t, a, "G")
    <2>1. CASE Holds(t, a, "U")
      <3>1. ~Holds(t, a, "G")
        BY <2>1, HoldsOne
      <3> QED
        BY <1>3, <2>1, <3>1, Zenon DEF Front
    <2>2. CASE ~Holds(t, a, "U")
      BY <1>3, <2>2, Zenon DEF Front
    <2> QED
      BY <2>1, <2>2
  <1>5. Taken("binder", i, a, <<>>, 0) \in Tree(t, G, W) /\ a \in Nat \ {0}
    <2>1. Taken("binder", i, a, IF a = i THEN <<>> ELSE <<>>, 0) \in Tree(t, G, W) /\ a \in Nat \ {0}
      BY <1>1, <1>4, OptionItems, OptionIn, Zenon DEF Front
    <2>2. (IF a = i THEN <<>> ELSE <<>>) = <<>>
      OBVIOUS
    <2> QED
      BY <2>1, <2>2
  <1>6. <<>> \in Seq(Words(W)) /\ 0 \in Nat /\ b \in Nat /\ e \in Nat
    OBVIOUS
  <1>7. Taken("unsafe", a, b, <<>>, 0) \in Tree(t, G, W)
    <2> DEFINE d == Taken("unsafe", a, b, <<>>, 0)
    <2>1. d.item = "unsafe" /\ d.from = a /\ d.to = b /\ d.says = <<>> /\ d.nested = 0
      BY DEF Taken
    <2> HIDE DEF d
    <2>2. d.to = (IF Holds(t, d.from, "U") THEN d.from + 1 ELSE d.from)
      BY <1>4, <2>1, Zenon
    <2>3. InnerIs(t, G, d)
      BY <2>1, <2>2 DEF InnerIs
    <2>4. "unsafe" \in Inner
      BY InnerAre
    <2> QED
      BY <1>5, <1>6, <2>3, <2>4, InTree, Zenon DEF d
  <1>8. Taken("abi", b, e, <<>>, 0) \in Tree(t, G, W)
    <2> DEFINE d == Taken("abi", b, e, <<>>, 0)
    <2>1. d.item = "abi" /\ d.from = b /\ d.to = e /\ d.says = <<>> /\ d.nested = 0
      BY DEF Taken
    <2> HIDE DEF d
    <2>2. IF Holds(t, d.from, "K") THEN Abi(t, d.from, d.to) ELSE d.to = d.from
      BY <1>2, <2>1, Zenon
    <2>3. InnerIs(t, G, d)
      BY <2>1, <2>2 DEF InnerIs
    <2>4. "abi" \in Inner
      BY InnerAre
    <2> QED
      BY <1>6, <2>3, <2>4, InTree, Zenon DEF d
  <1> QED
    BY <1>5, <1>7, <1>8

\* A function type is what is before its parameters, and they.
LEMMA FunctionOf ==
  ASSUME NEW t, NEW G, NEW W, Grammatical(t, G, W, LongLongMax), NEW g, FunctionType(t, G, g)
  PROVE  \E a, b, e \in Places(t) : \E s, n :
           Front(t, g.from + 1, a, b, e) /\ ParamsIs(t, G, e, g.to, s, n) /\ g.says = <<"fn(">> \o s /\ g.nested = 1 + n
  <1>1. PICK a \in Places(t), b \in Places(t), e \in Places(t) :
          /\ Front(t, g.from + 1, a, b, e)
          /\ \/ \E y \in Of(G, "type", e + 1) :
                  /\ Holds(t, e, "E") /\ g.to = y.to
                  /\ g.says = <<"fn(">> \o (<<") -> ">> \o y.says) /\ g.nested = 1 + y.nested
             \/ \E r \in Of(G, "types", e) : \E y \in Of(G, "type", r.to) :
                  /\ g.to = y.to
                  /\ g.says = <<"fn(">> \o (r.says \o (<<") -> ">> \o y.says))
                  /\ g.nested = 1 + Deeper(r.nested, y.nested)
    BY Zenon DEF FunctionType, Front
  <1>2. ASSUME NEW y \in Of(G, "type", e + 1), Holds(t, e, "E"), g.to = y.to,
               g.says = <<"fn(">> \o (<<") -> ">> \o y.says), g.nested = 1 + y.nested
        PROVE  \E s, n : ParamsIs(t, G, e, g.to, s, n) /\ g.says = <<"fn(">> \o s /\ g.nested = 1 + n
    <2>1. ParamsIs(t, G, e, g.to, <<") -> ">> \o y.says, y.nested)
      BY <1>2, Zenon DEF ParamsIs
    <2> QED
      BY <1>2, <2>1, Zenon
  <1>3. ASSUME NEW r \in Of(G, "types", e), NEW y \in Of(G, "type", r.to), g.to = y.to,
               g.says = <<"fn(">> \o (r.says \o (<<") -> ">> \o y.says)), g.nested = 1 + Deeper(r.nested, y.nested)
        PROVE  \E s, n : ParamsIs(t, G, e, g.to, s, n) /\ g.says = <<"fn(">> \o s /\ g.nested = 1 + n
    <2>1. ParamsIs(t, G, e, g.to, r.says \o (<<") -> ">> \o y.says), Deeper(r.nested, y.nested))
      BY <1>3, Zenon DEF ParamsIs
    <2> QED
      BY <1>3, <2>1, Zenon
  <1>4. \E s, n : ParamsIs(t, G, e, g.to, s, n) /\ g.says = <<"fn(">> \o s /\ g.nested = 1 + n
    BY <1>1, <1>2, <1>3, Zenon
  <1> QED
    BY <1>1, <1>4, Zenon

\* So it is read as its items.
LEMMA FunctionRow ==
  ASSUME NEW t, NEW G, NEW W, Grammatical(t, G, W, LongLongMax), NEW g, g.from \in Nat \ {0}, FunctionType(t, G, g)
  PROVE  PathRowIs(t, Tree(t, G, W), Words(W), <<"binder", "unsafe", "abi", "fn(", "params">>, g)
  <1> DEFINE T == Tree(t, G, W)
             V == Words(W)
  <1>1. Worded(T, V) /\ t \in Seq(W)
    BY TreeWorded, Zenon DEF Grammatical
  <1> HIDE DEF T, V
  <1>2. PICK a \in Places(t), b \in Places(t), e \in Places(t) : \E s, n :
          Front(t, g.from + 1, a, b, e) /\ ParamsIs(t, G, e, g.to, s, n) /\ g.says = <<"fn(">> \o s /\ g.nested = 1 + n
    BY FunctionOf, Zenon
  <1>3. PICK s, n :
          Front(t, g.from + 1, a, b, e) /\ ParamsIs(t, G, e, g.to, s, n) /\ g.says = <<"fn(">> \o s /\ g.nested = 1 + n
    BY <1>2, Zenon
  <1>4. b \in Nat \ {0} /\ e \in Nat \ {0}
    BY <1>1, PlaceIs
  <1>5. /\ n \in Nat /\ Taken("params", e, g.to, s, n) \in T
        /\ ~Holds(t, e, "G") /\ ~Holds(t, e, "U") /\ ~Holds(t, e, "K")
    BY <1>3, <1>4, ParamsTyped, Zenon DEF T
  <1>6. /\ Taken("binder", g.from + 1, a, <<>>, 0) \in T /\ Taken("unsafe", a, b, <<>>, 0) \in T
        /\ Taken("abi", b, e, <<>>, 0) \in T
    BY <1>3, <1>4, <1>5, NextPlace, FrontIn, Zenon DEF T
  <1>7. Taken("fn(", e, e, <<"fn(">>, 0) \in T /\ Printing("fn(")
    BY <1>4, WordAt, Zenon DEF T
  <1>8. Printing("binder") /\ Printing("unsafe") /\ Printing("abi") /\ Printing("params")
    BY DEF Printing
  <1>9. Row(T, V, <<"binder", "unsafe", "abi", "fn(", "params">>, g.from + 1, g.to, <<"fn(">> \o s, n)
    BY <1>1, <1>5, <1>6, <1>7, <1>8, FunctionItems, ZenonT(30)
  <1>10. 1 + n = n + 1
    BY <1>5, Nesting, Zenon
  <1> QED
    BY <1>3, <1>5, <1>9, <1>10, Zenon DEF PathRowIs, T, V

\* The traits of a trait object are in the tree.
LEMMA BoundsIn ==
  ASSUME NEW t, NEW G, NEW W, Grammatical(t, G, W, LongLongMax), NEW i \in Nat \ {0}, NEW j, NEW s, NEW n,
         BoundsAre(t, G, i, j, s, n)
  PROVE  /\ Taken("bounds", i, j, s, n) \in Tree(t, G, W) /\ j \in Nat \ {0} /\ s \in Seq(Words(W)) /\ n \in Nat
         /\ ~Holds(t, i, "G")
  <1> DEFINE V == Words(W)
  <1>1. ASSUME Holds(t, i, "E"), j = i + 1, s = <<"?">>, n = 0
        PROVE  j \in Nat \ {0} /\ s \in Seq(V) /\ n \in Nat /\ ~Holds(t, i, "G")
    <2>1. <<"?">> \in Seq(V)
      BY WordAt, Zenon
    <2>2. i + 1 \in Nat \ {0} /\ 0 \in Nat
      OBVIOUS
    <2>3. ~Holds(t, i, "G")
      BY <1>1, HoldsOne
    <2> QED
      BY <1>1, <2>1, <2>2, <2>3, Zenon
  <1>2. ASSUME NEW r \in Of(G, "dyn-traits", i), r.to = j, r.says = s, r.nested = n
        PROVE  j \in Nat \ {0} /\ s \in Seq(V) /\ n \in Nat /\ ~Holds(t, i, "G")
    <2>1. r.to \in Nat \ {0} /\ r.says \in Seq(V) /\ r.nested \in Nat
      BY OfIs
    <2>2. PICK y \in Of(G, "dyn-trait", i) : TRUE
      BY PlusIs, ListIs, Zenon
    <2>3. y \in G /\ y.rule = "dyn-trait" /\ y.from = i
      BY OfIs
    <2>4. DynTrait(G, y)
      BY <2>3, Zenon DEF Grammatical
    <2>5. PICK p \in Of(G, "path", i) : TRUE
      BY <2>3, <2>4, Zenon DEF DynTrait
    <2>6. ~Holds(t, i, "G")
      BY PathApart, Zenon
    <2> QED
      BY <1>2, <2>1, <2>6, Zenon
  <1>3. j \in Nat \ {0} /\ s \in Seq(V) /\ n \in Nat /\ ~Holds(t, i, "G")
    BY <1>1, <1>2, Zenon DEF BoundsAre
  <1> DEFINE d == Taken("bounds", i, j, s, n)
  <1>4. d.item = "bounds" /\ d.from = i /\ d.to = j /\ d.says = s /\ d.nested = n
    BY DEF Taken
  <1> HIDE DEF d
  <1>5. \/ Holds(t, d.from, "E") /\ d.to = d.from + 1 /\ d.says = <<"?">> /\ d.nested = 0
        \/ ByRule(G, "dyn-traits", d)
    BY <1>4, Zenon DEF BoundsAre, ByRule
  <1>6. InnerIs(t, G, d)
    BY <1>4, <1>5 DEF InnerIs
  <1>7. "bounds" \in Inner /\ j \in Nat
    BY <1>3, InnerAre
  <1> QED
    BY <1>3, <1>6, <1>7, InTree, Zenon DEF d

\* A trait object is its binder, its traits and its lifetime.
LEMMA DynOf ==
  ASSUME NEW t, NEW G, NEW g, DynType(t, G, g)
  PROVE  \E a \in Places(t) : \E j, s, n :
           /\ Optionally(t, g.from + 1, "G", a) /\ BoundsAre(t, G, a, j, s, n) /\ Marked(t, j, "L", g.to)
           /\ g.says = <<"dyn ">> \o s /\ g.nested = 1 + n
  <1>1. PICK a \in Places(t) :
          /\ Optionally(t, g.from + 1, "G", a)
          /\ \/ Holds(t, a, "E") /\ Marked(t, a + 1, "L", g.to) /\ g.says = <<"dyn ", "?">> /\ g.nested = 1
             \/ \E r \in Of(G, "dyn-traits", a) :
                  Marked(t, r.to, "L", g.to) /\ g.says = <<"dyn ">> \o r.says /\ g.nested = 1 + r.nested
    BY Zenon DEF DynType
  <1> DEFINE Goal == \E j, s, n :
               /\ BoundsAre(t, G, a, j, s, n) /\ Marked(t, j, "L", g.to)
               /\ g.says = <<"dyn ">> \o s /\ g.nested = 1 + n
  <1>2. ASSUME Holds(t, a, "E"), Marked(t, a + 1, "L", g.to), g.says = <<"dyn ", "?">>, g.nested = 1
        PROVE  Goal
    <2>1. BoundsAre(t, G, a, a + 1, <<"?">>, 0)
      BY <1>2, Zenon DEF BoundsAre
    <2>2. <<"dyn ">> \o <<"?">> = <<"dyn ", "?">>
      BY Joined2, Zenon
    <2>3. 1 = 1 + 0
      OBVIOUS
    <2> QED
      BY <1>2, <2>1, <2>2, <2>3, Zenon
  <1>3. ASSUME NEW r \in Of(G, "dyn-traits", a), Marked(t, r.to, "L", g.to), g.says = <<"dyn ">> \o r.says,
               g.nested = 1 + r.nested
        PROVE  Goal
    <2>1. BoundsAre(t, G, a, r.to, r.says, r.nested)
      BY Zenon DEF BoundsAre
    <2> QED
      BY <1>3, <2>1, Zenon
  <1>4. Goal
    BY <1>1, <1>2, <1>3, Zenon
  <1> QED
    BY <1>1, <1>4, Zenon

\* (The items of a trait object, in two parts.)
LEMMA DynItems ==
  ASSUME NEW T, NEW V, Worded(T, V), NEW x1, NEW x2, NEW x3, NEW x4,
         Printing(x1), Printing(x2), Printing(x3), Printing(x4),
         NEW i, NEW a, NEW b, NEW j, NEW s, NEW n,
         Taken(x1, i, i, <<x1>>, 0) \in T, Taken(x2, i, a, <<>>, 0) \in T, Taken(x3, a, b, s, n) \in T,
         Taken(x4, b, j, <<>>, 0) \in T
  PROVE  Row(T, V, <<x1, x2, x3, x4>>, i, j, <<x1>> \o s, n)
  <1>1. Row(T, V, <<x1, x2, x3, x4>>, i, j, <<x1>> \o (<<>> \o (s \o <<>>)), Deeper(0, Deeper(0, Deeper(n, 0))))
    <2> DEFINE none == <<>>
               word == <<x1>>
               zero == 0
    <2>1. /\ Taken(x1, i, i, word, zero) \in T /\ Taken(x2, i, a, none, zero) \in T /\ Taken(x4, b, j, none, zero) \in T
      OBVIOUS
    <2> HIDE DEF none, word, zero
    <2>2. Row(T, V, <<x1, x2, x3, x4>>, i, j, word \o (none \o (s \o none)), Deeper(zero, Deeper(zero, Deeper(n, zero))))
      BY <2>1, RowFour
    <2> QED
      BY <2>2 DEF none, word, zero
  <1>2. n \in Nat /\ s \in Seq(V)
    BY TakenIs
  <1>3. Deeper(0, Deeper(0, Deeper(n, 0))) = n
    BY <1>2, DeeperIs
  <1>4. <<>> \o (s \o <<>>) = s
    BY <1>2, ConcatEmptySeq
  <1> QED
    BY <1>1, <1>3, <1>4, Zenon

\* So it is read as its items:
LEMMA DynRow ==
  ASSUME NEW t, NEW G, NEW W, Grammatical(t, G, W, LongLongMax), NEW g, g.from \in Nat \ {0}, DynType(t, G, g)
  PROVE  PathRowIs(t, Tree(t, G, W), Words(W), <<"dyn ", "binder", "bounds", "nolifetime">>, g)
  <1> DEFINE T == Tree(t, G, W)
             V == Words(W)
  <1>1. Worded(T, V) /\ t \in Seq(W)
    BY TreeWorded, Zenon DEF Grammatical
  <1>2. <<>> \in Seq(V) /\ 0 \in Nat
    OBVIOUS
  <1> HIDE DEF T, V
  <1>3. PICK a \in Places(t) : \E j, s, n :
          /\ Optionally(t, g.from + 1, "G", a) /\ BoundsAre(t, G, a, j, s, n) /\ Marked(t, j, "L", g.to)
          /\ g.says = <<"dyn ">> \o s /\ g.nested = 1 + n
    BY DynOf, Zenon
  <1>4. PICK j, s, n :
          /\ Optionally(t, g.from + 1, "G", a) /\ BoundsAre(t, G, a, j, s, n) /\ Marked(t, j, "L", g.to)
          /\ g.says = <<"dyn ">> \o s /\ g.nested = 1 + n
    BY <1>3, Zenon
  <1>5. a \in Nat \ {0}
    BY <1>1, PlaceIs
  <1>6. Taken("bounds", a, j, s, n) \in T /\ j \in Nat \ {0} /\ n \in Nat /\ ~Holds(t, a, "G")
    BY <1>4, <1>5, BoundsIn, Zenon DEF T
  <1>7. Taken("binder", g.from + 1, a, <<>>, 0) \in T
    <2>1. Taken("binder", g.from + 1, a, IF a = g.from + 1 THEN <<>> ELSE <<>>, 0) \in T
      BY <1>1, <1>4, <1>6, NextPlace, OptionItems, OptionIn, Zenon DEF T
    <2>2. (IF a = g.from + 1 THEN <<>> ELSE <<>>) = <<>>
      OBVIOUS
    <2> QED
      BY <2>1, <2>2
  <1>8. Taken("nolifetime", j, g.to, <<>>, 0) \in T
    <2>1. g.to \in Nat
      <3>1. Base62(t, j + 1, g.to) /\ j + 1 \in Nat \ {0}
        BY <1>4, <1>6, NextPlace, Zenon DEF Marked
      <3>2. g.to \in Nat \ {0}
        BY <1>1, <3>1, Base62In, Zenon
      <3> QED
        BY <3>2
    <2> DEFINE d == Taken("nolifetime", j, g.to, <<>>, 0)
    <2>2. d.item = "nolifetime" /\ d.from = j /\ d.to = g.to /\ d.says = <<>> /\ d.nested = 0
      BY DEF Taken
    <2> HIDE DEF d
    <2>3. OptionIs(t, d, "L", <<>>)
      BY <1>4, <2>2, Zenon DEF OptionIs
    <2>4. InnerIs(t, G, d)
      BY <2>2, <2>3 DEF InnerIs
    <2>5. "nolifetime" \in Inner
      BY InnerAre
    <2> QED
      BY <1>2, <1>6, <2>1, <2>4, <2>5, InTree, Zenon DEF d, T, V
  <1>9. Taken("dyn ", g.from + 1, g.from + 1, <<"dyn ">>, 0) \in T /\ Printing("dyn ")
    BY NextPlace, WordAt, Zenon DEF T
  <1>10. Printing("binder") /\ Printing("bounds") /\ Printing("nolifetime")
    BY DEF Printing
  <1>11. Row(T, V, <<"dyn ", "binder", "bounds", "nolifetime">>, g.from + 1, g.to, <<"dyn ">> \o s, n)
    BY <1>1, <1>6, <1>7, <1>8, <1>9, <1>10, DynItems, ZenonT(30)
  <1>12. 1 + n = n + 1
    BY <1>6, Nesting, Zenon
  <1> QED
    BY <1>4, <1>6, <1>11, <1>12, Zenon DEF PathRowIs, T, V

\* A type stands behind its letter, or where its path does.
TypeRowIs(t, T, V, g) ==
  IF t[g.from] \in DOMAIN BasicTypes THEN PathRowIs(t, T, V, <<BasicTypes[t[g.from]]>>, g)
  ELSE IF t[g.from] \in DOMAIN TypeBody THEN PathRowIs(t, T, V, TypeBody[t[g.from]], g)
  ELSE \E n \in Nat : g.nested = n + 1 /\ Row(T, V, <<"path">>, g.from, g.to, g.says, n)

\* every type.
LEMMA TypeRow ==
  ASSUME NEW t, NEW G, NEW W, Grammatical(t, G, W, LongLongMax), NEW i, NEW g \in Of(G, "type", i)
  PROVE  i <= Len(t) /\ TypeRowIs(t, Tree(t, G, W), Words(W), g)
  <1>1. i <= Len(t) /\ TypeIs(t, G, g)
    BY TypeFirst
  <1>2. g.from = i /\ i \in Nat \ {0}
    BY OfIs
  <1> DEFINE T == Tree(t, G, W)
             V == Words(W)
  <1>3. Worded(T, V)
    BY TreeWorded
  <1> HIDE DEF T, V
  <1>4. ASSUME BasicType(t, g)
        PROVE  TypeRowIs(t, T, V, g)
    <2>1. t[g.from] \in DOMAIN BasicNames /\ g.to = g.from + 1 /\ g.says = <<BasicNames[t[g.from]]>> /\ g.nested = 1
      BY <1>4, Zenon DEF BasicType
    <2> DEFINE x == BasicNames[t[g.from]]
    <2>2. x \notin Functions /\ x # "unmute" /\ x \in Lexicon
      BY <2>1, BasicsAre
    <2>3. x \in V
      BY <2>2, Zenon DEF V, Words
    <2>4. t[g.from] \in DOMAIN BasicTypes /\ BasicTypes[t[g.from]] = x
      BY <2>1, BasicsAre, Zenon
    <2> HIDE DEF x
    <2>5. Row(T, V, <<x>>, g.from + 1, g.from + 1, <<x>>, 0)
      BY <1>2, <1>3, <2>2, <2>3, NextPlace, RowWord, Zenon
    <2> QED
      BY <2>1, <2>4, <2>5, Nesting, Zenon DEF TypeRowIs, PathRowIs, x
  <1>5. ASSUME NamedType(G, g)
        PROVE  TypeRowIs(t, T, V, g)
    <2>1. PICK p \in Of(G, "path", i) : g.to = p.to /\ g.says = p.says /\ g.nested = 1 + p.nested
      BY <1>2, <1>5, Zenon DEF NamedType
    <2>2. t[i] \in PathLetters
      BY PathFirst
    <2>3. t[g.from] \notin DOMAIN BasicTypes /\ t[g.from] \notin DOMAIN TypeBody
      BY <1>2, <2>2, LettersApart, BasicsAre, TypeBodies, Zenon
    <2>4. p.nested \in Nat
      BY OfIs
    <2>5. Taken("path", i, p.to, p.says, p.nested) \in T
      BY RuleIn DEF T
    <2>6. Row(T, V, <<"path">>, i, p.to, p.says, p.nested)
      BY <1>3, <2>5, RowOne
    <2>7. 1 + p.nested = p.nested + 1
      BY <2>4, Nesting, Zenon
    <2> QED
      BY <1>2, <2>1, <2>3, <2>4, <2>6, <2>7, Zenon DEF TypeRowIs
  <1>6. ASSUME NEW c \in {"A", "S", "T", "R", "Q", "P", "O", "F", "D"}, Holds(t, g.from, c), PathRowIs(t, T, V, TypeBody[c], g)
        PROVE  TypeRowIs(t, T, V, g)
    <2>1. t[g.from] = c
      BY <1>6, Zenon DEF Holds
    <2>2. c \notin DOMAIN BasicTypes /\ c \in DOMAIN TypeBody
      BY TypeBodies
    <2> QED
      BY <1>6, <2>1, <2>2, Zenon DEF TypeRowIs
  <1>7. ASSUME Holds(t, g.from, "A"), ArrayType(G, g) PROVE TypeRowIs(t, T, V, g)
    BY <1>2, <1>6, <1>7, ArrayRow, TypeBodies, Zenon DEF T, V
  <1>8. ASSUME Holds(t, g.from, "S"), SliceType(G, g) PROVE TypeRowIs(t, T, V, g)
    BY <1>2, <1>6, <1>8, SliceRow, TypeBodies, Zenon DEF T, V
  <1>9. ASSUME Holds(t, g.from, "T"), TupleType(t, G, g) PROVE TypeRowIs(t, T, V, g)
    BY <1>2, <1>6, <1>9, TupleTypeRow, TypeBodies, Zenon DEF T, V
  <1>10. ASSUME Holds(t, g.from, "R"), Reference(t, G, g, <<>>) PROVE TypeRowIs(t, T, V, g)
    BY <1>2, <1>6, <1>10, SharedRow, TypeBodies, Zenon DEF T, V
  <1>11. ASSUME Holds(t, g.from, "Q"), Reference(t, G, g, <<"mut ">>) PROVE TypeRowIs(t, T, V, g)
    BY <1>2, <1>6, <1>11, MutableRow, TypeBodies, Zenon DEF T, V
  <1>12. ASSUME Holds(t, g.from, "P"), Pointer(G, g, <<"*const ">>) PROVE TypeRowIs(t, T, V, g)
    <2>1. Starred("*const ")
      BY Zenon DEF Starred
    <2> QED
      BY <1>2, <1>6, <1>12, <2>1, PointerRow, TypeBodies, Zenon DEF T, V
  <1>13. ASSUME Holds(t, g.from, "O"), Pointer(G, g, <<"*mut ">>) PROVE TypeRowIs(t, T, V, g)
    <2>1. Starred("*mut ")
      BY Zenon DEF Starred
    <2> QED
      BY <1>2, <1>6, <1>13, <2>1, PointerRow, TypeBodies, Zenon DEF T, V
  <1>14. ASSUME Holds(t, g.from, "F"), FunctionType(t, G, g) PROVE TypeRowIs(t, T, V, g)
    BY <1>2, <1>6, <1>14, FunctionRow, TypeBodies, Zenon DEF T, V
  <1>15. ASSUME Holds(t, g.from, "D"), DynType(t, G, g) PROVE TypeRowIs(t, T, V, g)
    BY <1>2, <1>6, <1>15, DynRow, TypeBodies, Zenon DEF T, V
  <1>16. TypeRowIs(t, T, V, g)
    BY <1>1, <1>4, <1>5, <1>7, <1>8, <1>9, <1>10, <1>11, <1>12, <1>13, <1>14, <1>15, Zenon DEF TypeIs
  <1> QED
    BY <1>1, <1>16, Zenon DEF T, V

\* So a type is what type() takes.
LEMMA TypesWritten ==
  ASSUME NEW t, NEW G, NEW W, Grammatical(t, G, W, LongLongMax), NEW d \in Tree(t, G, W)
  PROVE  TypeWriting(t, Tree(t, G, W), Words(W), d)
  <1> SUFFICES ASSUME d.item = "type"
               PROVE  TypeWriting(t, Tree(t, G, W), Words(W), d)
    BY DEF TypeWriting
  <1>1. InnerIs(t, G, d)
    BY DEF Tree
  <1>2. PICK g \in Of(G, "type", d.from) : g.to = d.to /\ g.says = d.says /\ g.nested = d.nested
    BY <1>1 DEF InnerIs, ByRule
  <1>3. g.from = d.from
    BY OfIs
  <1>4. d.from <= Len(t) /\ TypeRowIs(t, Tree(t, G, W), Words(W), g)
    BY TypeRow, Zenon
  <1>5. CASE t[d.from] \in DOMAIN BasicTypes
    BY <1>2, <1>3, <1>4, <1>5, Zenon DEF TypeWriting, TypeRowIs, PathRowIs
  <1>6. CASE t[d.from] \notin DOMAIN BasicTypes /\ t[d.from] \in DOMAIN TypeBody
    BY <1>2, <1>3, <1>4, <1>6, Zenon DEF TypeWriting, TypeRowIs, PathRowIs
  <1>7. CASE t[d.from] \notin DOMAIN BasicTypes /\ t[d.from] \notin DOMAIN TypeBody
    BY <1>2, <1>3, <1>4, <1>7, Zenon DEF TypeWriting, TypeRowIs, PathRowIs
  <1> QED
    BY <1>5, <1>6, <1>7, Zenon

-----------------------------------------------------------------------------
(* The tree is a parse.                                                    *)

\* An item that is made of others, by its kind.
LEMMA InnerNames ==
  ASSUME NEW t, NEW G, NEW d, InnerIs(t, G, d)
  PROVE  /\ d.item = "moreargs" =>
              \E s : Others(t, G, "generic-args", Comma, d.from, d.to, s, d.nested) /\ d.says = s \o <<">">>
         /\ d.item = "moretuple" =>
              \E s : Others(t, G, "types", Comma, d.from, d.to, s, d.nested) /\ d.says = s \o <<")">>
         /\ d.item = "morebounds" => Others(t, G, "dyn-traits", Plus, d.from, d.to, d.says, d.nested)
         /\ d.item = "bounds" => BoundsAre(t, G, d.from, d.to, d.says, d.nested)
  <1>1. d.item = "moreargs" =>
          \E s : Others(t, G, "generic-args", Comma, d.from, d.to, s, d.nested) /\ d.says = s \o <<">">>
    BY Zenon DEF InnerIs, Comma
  <1>2. d.item = "moretuple" =>
          \E s : Others(t, G, "types", Comma, d.from, d.to, s, d.nested) /\ d.says = s \o <<")">>
    BY Zenon DEF InnerIs, Comma
  <1>3. d.item = "morebounds" => Others(t, G, "dyn-traits", Plus, d.from, d.to, d.says, d.nested)
    BY Zenon DEF InnerIs, Plus
  <1>4. d.item = "bounds" => BoundsAre(t, G, d.from, d.to, d.says, d.nested)
    BY Zenon DEF InnerIs, BoundsAre, ByRule
  <1> QED
    BY <1>1, <1>2, <1>3, <1>4, Zenon

\* What is optional is what an eat() of it takes.
LEMMA OptionsWritten ==
  ASSUME NEW t, NEW G, NEW W, Grammatical(t, G, W, LongLongMax), NEW d \in Tree(t, G, W),
         d.item \in {"disambiguator", "lifetime", "nolifetime", "binder"}
  PROVE  EatRow(t, Tree(t, G, W), Words(W), d.item, d.from, d.to, d.says, d.nested)
  <1>1. /\ t \in Seq(W) /\ InnerIs(t, G, d) /\ d.from \in Nat \ {0} /\ d.to \in Nat /\ d.says \in Seq(Words(W))
        /\ d = Taken(d.item, d.from, d.to, d.says, d.nested)
    <2>1. t \in Seq(W)
      BY Zenon DEF Grammatical
    <2>2. d \in Nodes(Words(W)) /\ InnerIs(t, G, d)
      BY DEF Tree
    <2> QED
      BY <2>1, <2>2 DEF Nodes, Taken
  <1>2. CASE d.item = "disambiguator"
    <2>1. OptionIs(t, d, "s", <<>>)
      BY <1>1, <1>2, Zenon DEF InnerIs
    <2> QED
      BY <1>1, <1>2, <2>1, OptionEats, OptionRow, Zenon
  <1>3. CASE d.item = "lifetime"
    <2>1. OptionIs(t, d, "L", <<"'_ ">>)
      BY <1>1, <1>3, Zenon DEF InnerIs
    <2> QED
      BY <1>1, <1>3, <2>1, OptionEats, OptionRow, Zenon
  <1>4. CASE d.item = "nolifetime"
    <2>1. OptionIs(t, d, "L", <<>>)
      BY <1>1, <1>4, Zenon DEF InnerIs
    <2> QED
      BY <1>1, <1>4, <2>1, OptionEats, OptionRow, Zenon
  <1>5. CASE d.item = "binder"
    <2>1. OptionIs(t, d, "G", <<>>)
      BY <1>1, <1>5, Zenon DEF InnerIs
    <2> QED
      BY <1>1, <1>5, <2>1, OptionEats, OptionRow, Zenon
  <1> QED
    BY <1>2, <1>3, <1>4, <1>5, Zenon

\* So is the rest of a function type, and what closes a list.
LEMMA ListsWritten ==
  ASSUME NEW t, NEW G, NEW W, Grammatical(t, G, W, LongLongMax), NEW d \in Tree(t, G, W),
         d.item \in {"unsafe", "abi", "abiname", "moreargs", "moretuple", "morebounds", "bounds", "params", "moreparams", "tuple",
                     "single"}
  PROVE  EatRow(t, Tree(t, G, W), Words(W), d.item, d.from, d.to, d.says, d.nested)
  <1>1. InnerIs(t, G, d) /\ d.from \in Nat \ {0}
    BY DEF Tree, Nodes
  <1>2. CASE d.item = "unsafe"
    <2>1. d.to = (IF Holds(t, d.from, "U") THEN d.from + 1 ELSE d.from) /\ d.says = <<>> /\ d.nested = 0
      BY <1>1, <1>2, Zenon DEF InnerIs
    <2> QED
      BY <1>1, <1>2, <2>1, UnsafeRow, Zenon
  <1>3. CASE d.item = "abi"
    <2>1. (IF Holds(t, d.from, "K") THEN Abi(t, d.from, d.to) ELSE d.to = d.from) /\ d.says = <<>> /\ d.nested = 0
      BY <1>1, <1>3, Zenon DEF InnerIs
    <2> QED
      BY <1>1, <1>3, <2>1, AbiRow, Zenon
  <1>4. CASE d.item = "abiname"
    <2>1. Abi(t, d.from - 1, d.to) /\ d.says = <<>> /\ d.nested = 0
      BY <1>1, <1>4, Zenon DEF InnerIs
    <2> QED
      BY <1>1, <1>4, <2>1, AbiNameRow, Zenon
  <1>5. CASE d.item = "moreargs"
    <2>1. PICK s : Others(t, G, "generic-args", Comma, d.from, d.to, s, d.nested) /\ d.says = s \o <<">">>
      BY <1>1, <1>5, InnerNames, Zenon
    <2> QED
      BY <1>1, <1>5, <2>1, CommaIs, MoreRow, Zenon
  <1>6. CASE d.item = "moretuple"
    <2>1. PICK s : Others(t, G, "types", Comma, d.from, d.to, s, d.nested) /\ d.says = s \o <<")">>
      BY <1>1, <1>6, InnerNames, Zenon
    <2> QED
      BY <1>1, <1>6, <2>1, CommaIs, MoreRow, Zenon
  <1>7. CASE d.item = "morebounds"
    BY <1>1, <1>7, InnerNames, MoreBoundsRow, Zenon
  <1>8. CASE d.item = "bounds"
    BY <1>1, <1>8, InnerNames, BoundsRow, Zenon
  <1>9. CASE d.item = "params"
    <2>1. ParamsIs(t, G, d.from, d.to, d.says, d.nested)
      BY <1>1, <1>9, Zenon DEF InnerIs
    <2> QED
      BY <1>1, <1>9, <2>1, ParamsRow, Zenon
  <1>10. CASE d.item = "moreparams"
    <2>1. MoreParamsIs(t, G, d.from, d.to, d.says, d.nested)
      BY <1>1, <1>10, Zenon DEF InnerIs
    <2> QED
      BY <1>1, <1>10, <2>1, MoreParamsRow, Zenon
  <1>11. CASE d.item = "tuple"
    <2>1. TupleIs(t, G, d.from, d.to, d.says, d.nested)
      BY <1>1, <1>11, Zenon DEF InnerIs
    <2> QED
      BY <1>1, <1>11, <2>1, TupleRow, Zenon
  <1>12. CASE d.item = "single"
    <2>1. SingleIs(t, G, d.from, d.to, d.says, d.nested)
      BY <1>1, <1>12, Zenon DEF InnerIs
    <2> QED
      BY <1>1, <1>12, <2>1, SingleRow, Zenon
  <1> QED
    BY <1>2, <1>3, <1>4, <1>5, <1>6, <1>7, <1>8, <1>9, <1>10, <1>11, <1>12, Zenon

\* So are the members of lists, and constants.
LEMMA MembersWritten ==
  ASSUME NEW t, NEW G, NEW W, Grammatical(t, G, W, LongLongMax), NEW d \in Tree(t, G, W),
         d.item \in {"args", "arg", "nonlifetime", "assoc", "constant", "sign", "placeholder", "boolsign", "boolplace"}
  PROVE  EatRow(t, Tree(t, G, W), Words(W), d.item, d.from, d.to, d.says, d.nested)
  <1>1. InnerIs(t, G, d) /\ d.from \in Nat \ {0}
    BY DEF Tree, Nodes
  <1>2. CASE d.item = "args"
    <2>1. \/ Holds(t, d.from, "E") /\ d.to = d.from + 1 /\ d.says = <<>> /\ d.nested = 0
          \/ \E a \in Of(G, "generic-args", d.from) :
               d.to = a.to /\ d.says = <<"::<">> \o (a.says \o <<">">>) /\ d.nested = a.nested
      BY <1>1, <1>2, Zenon DEF InnerIs
    <2> QED
      BY <1>1, <1>2, <2>1, ArgsRow, Zenon
  <1>3. CASE d.item = "arg"
    <2>1. PICK g \in Of(G, "generic-arg", d.from) : g.to = d.to /\ g.says = d.says /\ g.nested = d.nested
      BY <1>1, <1>3, Zenon DEF InnerIs, ByRule
    <2>2. EatRow(t, Tree(t, G, W), Words(W), "arg", d.from, g.to, g.says, g.nested)
      BY ArgRow, Zenon
    <2> QED
      BY <1>3, <2>1, <2>2, Zenon
  <1>4. CASE d.item = "nonlifetime"
    <2>1. ByRule(G, "generic-arg", d) /\ ~Holds(t, d.from, "L")
      BY <1>1, <1>4, Zenon DEF InnerIs
    <2>2. PICK g \in Of(G, "generic-arg", d.from) : g.to = d.to /\ g.says = d.says /\ g.nested = d.nested
      BY <2>1, Zenon DEF ByRule
    <2>3. EatRow(t, Tree(t, G, W), Words(W), "nonlifetime", d.from, g.to, g.says, g.nested)
      BY <2>1, ArgRow, Zenon
    <2> QED
      BY <1>4, <2>2, <2>3, Zenon
  <1>5. CASE d.item = "assoc"
    <2>1. AssocIs(t, G, d)
      BY <1>1, <1>5, Zenon DEF InnerIs
    <2>2. EatRow(t, Tree(t, G, W), Words(W), "assoc", d.from, d.to, <<>>, d.nested)
      BY <1>1, <2>1, AssocRow, Zenon DEF AssocIs
    <2> QED
      BY <1>5, <2>1, <2>2, Zenon DEF AssocIs
  <1>6. CASE d.item = "constant"
    <2>1. PICK g \in Of(G, "const", d.from) : g.to = d.to /\ g.says = d.says /\ g.nested = d.nested
      BY <1>1, <1>6, Zenon DEF InnerIs, ByRule
    <2>2. EatRow(t, Tree(t, G, W), Words(W), "constant", d.from, g.to, g.says, g.nested)
      BY ConstantRow, Zenon
    <2> QED
      BY <1>6, <2>1, <2>2, Zenon
  <1>7. CASE d.item = "sign"
    <2>1. SignedIs(t, G, d)
      BY <1>1, <1>7, Zenon DEF InnerIs
    <2> QED
      BY <1>1, <1>7, <2>1, SignRow, Zenon
  <1>8. CASE d.item = "placeholder"
    <2>1. PICK g \in Of(G, "number", d.from) : g.to = d.to /\ g.says = d.says /\ g.nested = d.nested
      BY <1>1, <1>8, Zenon DEF InnerIs, ByRule
    <2>2. EatRow(t, Tree(t, G, W), Words(W), "placeholder", d.from, g.to, g.says, g.nested)
      BY PlaceholderRow, Zenon
    <2> QED
      BY <1>8, <2>1, <2>2, Zenon
  <1>9. CASE d.item \in {"boolsign", "boolplace"}
    <2>1. TruthIs(t, d)
      BY <1>1, <1>9, Zenon DEF InnerIs
    <2> QED
      BY <1>1, <1>9, <2>1, TruthRow, Zenon
  <1> QED
    BY <1>2, <1>3, <1>4, <1>5, <1>6, <1>7, <1>8, <1>9, Zenon

\* So is whatever is eaten.
LEMMA EatsWritten ==
  ASSUME NEW t, NEW G, NEW W, Grammatical(t, G, W, LongLongMax), NEW d \in Tree(t, G, W)
  PROVE  EatWriting(t, Tree(t, G, W), Words(W), d)
  <1> SUFFICES ASSUME d.item \in DOMAIN Eats
               PROVE  EatWriting(t, Tree(t, G, W), Words(W), d)
    BY Zenon DEF EatWriting
  <1>1. d.item \in {"disambiguator", "lifetime", "nolifetime", "binder", "unsafe", "abi", "abiname", "args", "moreargs", "arg",
                    "nonlifetime", "tuple", "single", "moretuple", "params", "moreparams", "bounds", "morebounds", "assoc",
                    "constant", "sign", "placeholder", "boolsign", "boolplace"}
    BY DEF Eats
  <1>2. EatRow(t, Tree(t, G, W), Words(W), d.item, d.from, d.to, d.says, d.nested)
    BY <1>1, OptionsWritten, ListsWritten, MembersWritten, Zenon
  <1> QED
    BY <1>2, Zenon DEF EatWriting, EatRow, Holds

\* The tree of a grammatical text is a parse of it.
LEMMA TreeParses ==
  ASSUME NEW t, NEW G, NEW W, Grammatical(t, G, W, LongLongMax)
  PROVE  ParseTree(t, Tree(t, G, W), Words(W))
  <1> DEFINE T == Tree(t, G, W)
             V == Words(W)
  <1>1. t \in Seq(V)
    <2>1. t \in Seq(W)
      BY Zenon DEF Grammatical
    <2> QED
      BY <2>1 DEF Words
  <1>2. ASSUME NEW d \in T
        PROVE  /\ d.item \in V /\ d.from \in Nat /\ 1 <= d.from /\ d.to \in Nat /\ d.says \in Seq(V) /\ d.nested \in Nat
               /\ PathWriting(t, T, V, d) /\ TypeWriting(t, T, V, d) /\ EatWriting(t, T, V, d)
               /\ NamespaceWriting(t, T, V, d) /\ Base62Writing(t, d) /\ IdentifierWriting(t, d)
               /\ TypedWriting(t, T, V, d) /\ HexWriting(t, d) /\ ItemWriting(d)
    <2>1. d.item \in V /\ d.from \in Nat /\ 1 <= d.from /\ d.to \in Nat /\ d.says \in Seq(V) /\ d.nested \in Nat
      BY DEF Tree, Nodes
    <2>2. Base62Writing(t, d) /\ IdentifierWriting(t, d) /\ HexWriting(t, d) /\ ItemWriting(d) /\ InnerIs(t, G, d)
      BY Zenon DEF Tree, LeafIs
    <2>3. PathWriting(t, T, V, d) /\ TypeWriting(t, T, V, d) /\ EatWriting(t, T, V, d) /\ NamespaceWriting(t, T, V, d)
      BY PathsWritten, TypesWritten, EatsWritten, MemberWriting, Zenon
    <2>4. TypedWriting(t, T, V, d)
      <3>1. ASSUME d.item = "typed"
            PROVE  Row(T, V, <<"type", "unmute", IF d.from <= Len(t) /\ t[d.from] = "b" THEN "boolsign" ELSE "sign">>,
                       d.from, d.to, d.says, d.nested)
        <4>1. PICK g \in Of(G, "const", d.from) : g.to = d.to /\ g.says = d.says /\ g.nested = d.nested
          BY <2>2, <3>1, Zenon DEF InnerIs, ByRule
        <4>2. Row(T, V, <<"type", "unmute", IF d.from <= Len(t) /\ t[d.from] = "b" THEN "boolsign" ELSE "sign">>,
                  d.from, g.to, g.says, g.nested)
          BY TypedRow, Zenon
        <4> QED
          BY <4>1, <4>2, Zenon
      <3> QED
        BY <3>1, Zenon DEF TypedWriting
    <2> HIDE DEF T, V
    <2> QED
      BY <2>1, <2>2, <2>3, <2>4, Zenon
  <1> HIDE DEF T, V
  <1>3. ParseTree(t, T, V)
    BY <1>1, <1>2, Zenon DEF ParseTree
  <1> QED
    BY <1>3 DEF T, V

-----------------------------------------------------------------------------
(* What a symbol says.                                                     *)

\* Behind "__" or not, and behind n times "j_", stands body.
Thunked(s, body) ==
  \E n \in Nat :
    /\ \A k \in 0..(n - 1) : Thunk(strip_symbol_prefix(s), k)
    /\ ~Thunk(strip_symbol_prefix(s), n) /\ body = From(strip_symbol_prefix(s), 2 * n + 1)

\* A v0 symbol: a path by the grammar of RFC 2603, and whatever is behind it.  (A
\* last name that is a hash is dropped, which only legacy symbols have.)
SaysV0(m, body) ==
  /\ Prefixed(body, <<"_", "R">>) /\ ~(Len(body) > 2 /\ body[3] \in DigitSet)
  /\ \E G, W : \E root \in G :
       /\ Grammatical(From(body, 3), G, W, LongLongMax) /\ root.rule = "path" /\ root.from = 1
       /\ m.path = WithoutHash(root.says) /\ m.nested = root.nested

\* The text of a legacy symbol.
LegacyBody(body, t) ==
  IF Prefixed(body, <<"_", "Z", "N">>) THEN t = From(body, 4) ELSE Prefixed(body, <<"Z", "N">>) /\ t = From(body, 3)

\* A legacy symbol, well-formed or not.
SaysLegacy(m, body) ==
  /\ ~Prefixed(body, <<"_", "R">>)
  /\ \E t, W, n, at, parts, S :
       LegacyBody(body, t) /\ LegacyWriting(t, W, n, at, parts, S) /\ LegacySays(t, n, at, parts, m)

\* A name that is no symbol, or one of a later version.
SaysItself(m, body) ==
  /\ m.path = m.symbol
  /\ IF Prefixed(body, <<"_", "R">>) THEN Len(body) > 2 /\ body[3] \in DigitSet
     ELSE ~Prefixed(body, <<"_", "Z", "N">>) /\ ~Prefixed(body, <<"Z", "N">>)

\* What a symbol says, behind any thunk prefixes.
IsMeaning(m) ==
  \E W, body :
    /\ m.symbol \in Seq(W) /\ Thunked(m.symbol, body)
    /\ SaysV0(m, body) \/ SaysLegacy(m, body) \/ SaysItself(m, body)

\* The v0 parser will have said the path of m.
SayingV0(t, p, cs, o, m) ==
  \E T, W, K, top, under, says, deep :
    /\ On(t, p, cs, o, T, W, K, top, under, says, deep)
    /\ m.path = WithoutHash(o \o says) /\ (deep <= MaxDepth <=> m.nested <= MaxDepth)

\* So will the legacy parser.
SayingLegacy(t, p, o, m) ==
  \E W, n, at, parts, S, k : LegacyOn(t, W, n, at, parts, S, p, o, k) /\ LegacySays(t, n, at, parts, m)

\* What demangle has done with a symbol, i, that says m.
Saying(t, p, cs, o, f, i, m) ==
  /\ f = "v0" => SayingV0(t, p, cs, o, m)
  /\ f = "legacy" => SayingLegacy(t, p, o, m)
  /\ f = "parsed" => m.path = WithoutHash(o) /\ m.nested <= MaxDepth
  /\ f = "rejected" => ~(m.nested <= MaxDepth) \/ m.path = m.symbol
  /\ f = "done" => o = IF m.nested <= MaxDepth THEN m.path ELSE i

\* What is stripped of a symbol that is a sequence is the thunk prefixes before the body.
LEMMA BodyIs ==
  ASSUME NEW W, NEW s \in Seq(W), NEW body, Thunked(s, body)
  PROVE  StripThunks(strip_symbol_prefix(s)) = body
  <1> DEFINE t == strip_symbol_prefix(s)
  <1>1. t \in Seq(W)
    <2>1. CASE Prefixed(s, <<"_", "_">>)
      <3>1. Len(<<"_", "_">>) = 2
        OBVIOUS
      <3>2. Len(s) >= Len(<<"_", "_">>)
        BY <2>1, Zenon DEF Prefixed
      <3>3. s # <<>>
        BY <3>1, <3>2
      <3>4. Tail(s) \in Seq(W)
        BY <3>3, HeadTailProperties
      <3> QED
        BY <2>1, <3>4, Zenon DEF strip_symbol_prefix
    <2>2. CASE ~Prefixed(s, <<"_", "_">>)
      BY <2>2, Zenon DEF strip_symbol_prefix
    <2> QED
      BY <2>1, <2>2, Zenon
  <1>2. PICK n \in Nat : (\A k \in 0..(n - 1) : Thunk(t, k)) /\ ~Thunk(t, n) /\ body = From(t, 2 * n + 1)
    BY Zenon DEF Thunked
  <1> HIDE DEF t
  <1>3. StripThunks(t) = body
    BY <1>1, <1>2, Stripped, Zenon
  <1> QED
    BY <1>3 DEF t

\* The parser of a v0 symbol begins with all of its path ahead.
LEMMA V0Begins ==
  ASSUME NEW t, NEW T, NEW W, NEW root \in T, ParseTree(t, T, W), root.item = "path", root.from = 1
  PROVE  \E K : On(t, 1, <<<<"path">>>>, <<>>, T, W, K, <<"path">>, <<>>, root.says, root.nested)
  <1>1. root.item \in W /\ root.to \in Nat /\ root.says \in Seq(W) /\ root.nested \in Nat
    BY Zenon DEF ParseTree
  <1>2. <<"path">> \in Seq(W) /\ <<>> \in Seq(W) /\ <<>> \in Seq(Seq(W)) /\ Len(<<>>) = 0 /\ 1 \in Nat /\ 0 \in Nat
    BY <1>1
  <1>3. <<"path">> # <<>> /\ Head(<<"path">>) = "path" /\ Tail(<<"path">>) = <<>>
    OBVIOUS
  <1>4. ~Mutes(<<>>) /\ ~Muting(<<>>)
    BY DEF Mutes, Muting
  <1> DEFINE K0 == {Ahead(<<>>, <<>>, root.to, <<>>, 0)}
             K == K0 \cup {Ahead(<<"path">>, <<>>, 1, root.says, root.nested)}
  <1>5. Lies(T, W, {}, <<>>, <<>>, root.to, <<>>, 0)
    <2>1. 0 <= 0
      OBVIOUS
    <2> QED
      BY <1>1, <1>2, <2>1, Zenon DEF Lies
  <1>6. Way(T, W, K0)
    <2>1. Way(T, W, {})
      BY DEF Way
    <2>2. Way(T, W, {} \cup K0)
      BY <1>5, <2>1, WayGrows
    <2>3. {} \cup K0 = K0
      OBVIOUS
    <2> QED
      BY <2>2, <2>3, Zenon
  <1>7. Left(<<"path">>, root) = <<>>
    BY <1>3, Zenon DEF Left
  <1>8. Ahead(Left(<<"path">>, root), <<>>, root.to, <<>>, 0) \in K0
    BY <1>7
  <1>9. root.says \o <<>> = root.says
    BY <1>1, ConcatEmptySeq
  <1>10. Deeper(Len(<<>>) + root.nested, 0) = root.nested /\ Len(<<>>) <= root.nested
    BY <1>1, <1>2 DEF Deeper
  <1> HIDE DEF K0
  <1>11. Lies(T, W, K0, <<"path">>, <<>>, 1, root.says, root.nested)
    <2>1. \E d \in T : \E says2, deep2 :
             /\ d.item = Head(<<"path">>) /\ d.from = 1
             /\ Ahead(Left(<<"path">>, d), <<>>, d.to, says2, deep2) \in K0
             /\ root.says = IF Mutes(Tail(<<"path">>)) \/ Muting(<<>>) THEN says2 ELSE d.says \o says2
             /\ root.nested = Deeper(Len(<<>>) + d.nested, deep2)
      BY <1>3, <1>4, <1>8, <1>9, <1>10, Zenon
    <2> QED
      BY <1>1, <1>2, <1>3, <1>10, <2>1, Zenon DEF Lies
  <1>12. Way(T, W, K)
    BY <1>6, <1>11, WayGrows
  <1>13. Ahead(<<"path">>, <<>>, 1, root.says, root.nested) \in K
    OBVIOUS
  <1> HIDE DEF K
  <1>14. <<<<"path">>>> = <<<<"path">>>> \o <<>>
    <2>1. <<<<"path">>>> \in Seq({<<"path">>})
      OBVIOUS
    <2> QED
      BY <2>1, ConcatEmptySeq
  <1> QED
    BY <1>2, <1>12, <1>13, <1>14, Zenon DEF On

\* The parser that is called begins with what the symbol says.
LEMMA RawSays ==
  ASSUME demangle_raw, NEW m, IsMeaning(m), m.symbol = input
  PROVE  Saying(text', pos', calls', out', phase', input, m)
  <1>1. PICK W0, body :
          /\ m.symbol \in Seq(W0) /\ Thunked(m.symbol, body)
          /\ SaysV0(m, body) \/ SaysLegacy(m, body) \/ SaysItself(m, body)
    BY Zenon DEF IsMeaning
  <1>2. StripThunks(strip_symbol_prefix(input)) = body
    BY <1>1, BodyIs, Zenon
  <1>3. IF Prefixed(body, <<"_", "R">>)
        THEN IF Len(body) > 2 /\ body[3] \in DigitSet THEN Throw ELSE StartV0(From(body, 3))
        ELSE IF Prefixed(body, <<"_", "Z", "N">>) THEN StartLegacy(From(body, 4))
             ELSE IF Prefixed(body, <<"Z", "N">>) THEN StartLegacy(From(body, 3))
             ELSE Reject
    BY <1>2, Zenon DEF demangle_raw
  <1>4. CASE SaysV0(m, body)
    <2>1. StartV0(From(body, 3))
      BY <1>3, <1>4, Zenon DEF SaysV0
    <2>2. PICK G, W1 : \E g \in G :
             /\ Grammatical(From(body, 3), G, W1, LongLongMax) /\ g.rule = "path" /\ g.from = 1
             /\ m.path = WithoutHash(g.says) /\ m.nested = g.nested
      BY <1>4, Zenon DEF SaysV0
    <2> DEFINE T == Tree(From(body, 3), G, W1)
               W == Words(W1)
    <2>3. PICK root \in T :
             /\ ParseTree(From(body, 3), T, W) /\ root.item = "path" /\ root.from = 1
             /\ m.path = WithoutHash(root.says) /\ m.nested = root.nested
      <3>1. PICK g \in G :
              /\ Grammatical(From(body, 3), G, W1, LongLongMax) /\ g.rule = "path" /\ g.from = 1
              /\ m.path = WithoutHash(g.says) /\ m.nested = g.nested
        BY <2>2, Zenon
      <3>2. g \in Of(G, "path", 1)
        BY <3>1, Zenon DEF Of
      <3>3. Taken("path", 1, g.to, g.says, g.nested) \in T
        BY <3>1, <3>2, RuleIn, Zenon
      <3>4. ParseTree(From(body, 3), T, W)
        BY <3>1, TreeParses, Zenon
      <3> DEFINE r == Taken("path", 1, g.to, g.says, g.nested)
      <3>5. r.item = "path" /\ r.from = 1 /\ r.says = g.says /\ r.nested = g.nested
        BY DEF Taken
      <3> HIDE DEF T, r
      <3> QED
        BY <3>1, <3>3, <3>4, <3>5, Zenon DEF r
    <2> HIDE DEF T, W
    <2>4. PICK K : On(From(body, 3), 1, <<<<"path">>>>, <<>>, T, W, K, <<"path">>, <<>>, root.says, root.nested)
      BY <2>3, V0Begins, Zenon
    <2>5. text' = From(body, 3) /\ pos' = 1 /\ calls' = <<<<"path">>>> /\ out' = <<>> /\ phase' = "v0"
      BY <2>1, Zenon DEF StartV0
    <2>6. <<>> \o root.says = root.says
      <3>1. root.says \in Seq(W)
        BY <2>3, Zenon DEF ParseTree
      <3> QED
        BY <3>1, ConcatEmptySeq
    <2>7. m.path = WithoutHash(<<>> \o root.says) /\ (root.nested <= MaxDepth <=> m.nested <= MaxDepth)
      BY <2>3, <2>6, Zenon
    <2>8. SayingV0(From(body, 3), 1, <<<<"path">>>>, <<>>, m)
      BY <2>4, <2>7, Zenon DEF SayingV0
    <2>9. SayingV0(text', pos', calls', out', m)
      BY <2>5, <2>8, Zenon
    <2> QED
      BY <2>5, <2>9 DEF Saying
  <1>5. CASE SaysLegacy(m, body)
    <2>1. PICK t, W, n, at, parts, S :
            LegacyBody(body, t) /\ LegacyWriting(t, W, n, at, parts, S) /\ LegacySays(t, n, at, parts, m)
      BY <1>5, Zenon DEF SaysLegacy
    <2>2. ~Prefixed(body, <<"_", "R">>)
      BY <1>5, Zenon DEF SaysLegacy
    <2>3. StartLegacy(t)
      BY <1>3, <2>1, <2>2, Zenon DEF LegacyBody
    <2>4. text' = t /\ pos' = 1 /\ out' = <<>> /\ phase' = "legacy"
      BY <2>3, Zenon DEF StartLegacy
    <2>5. LegacyOn(t, W, n, at, parts, S, 1, <<>>, 0)
      <3>1. n \in Nat /\ at[0] = 1
        BY <2>1, Zenon DEF LegacyWriting
      <3>2. 0 \in 0..n /\ <<>> \in Seq(S) /\ Len(<<>>) = 0 /\ \A l \in 1..0 : <<>>[l] = parts[l]
        BY <3>1
      <3> QED
        BY <2>1, <3>1, <3>2, Zenon DEF LegacyOn
    <2>6. SayingLegacy(text', pos', out', m)
      BY <2>1, <2>4, <2>5, Zenon DEF SayingLegacy
    <2> QED
      BY <2>4, <2>6 DEF Saying
  <1>6. CASE SaysItself(m, body)
    <2>1. Throw \/ Reject
      BY <1>3, <1>6, Zenon DEF SaysItself
    <2>2. phase' = "rejected"
      BY <2>1 DEF Throw, Reject
    <2>3. m.path = m.symbol
      BY <1>6, Zenon DEF SaysItself
    <2> QED
      BY <2>2, <2>3 DEF Saying
  <1> QED
    BY <1>1, <1>4, <1>5, <1>6, Zenon

\* A step of the v0 parser says on.
LEMMA V0Says ==
  ASSUME Counted, V0Step, NEW m, Saying(text, pos, calls, out, phase, input, m)
  PROVE  Saying(text', pos', calls', out', phase', input, m)
  <1>1. phase = "v0"
    BY Zenon DEF V0Step
  <1>2. PICK T, W, K, top, under, says, deep :
          /\ On(text, pos, calls, out, T, W, K, top, under, says, deep)
          /\ m.path = WithoutHash(out \o says) /\ (deep <= MaxDepth <=> m.nested <= MaxDepth)
    BY <1>1, Zenon DEF Saying, SayingV0
  <1>3. Way(T, W, K) /\ Ahead(top, under, pos, says, deep) \in K /\ calls = <<top>> \o under /\ out \in Seq(W)
    BY <1>2, Zenon DEF On
  <1>4. AheadTyped(W, top, under, pos, says, deep)
    BY <1>3, AheadIs, Zenon
  <1>5. under \in Seq(Seq(W)) /\ deep \in Nat /\ Len(under) \in Nat
    BY <1>4, Zenon DEF AheadTyped
  <1>6. Split(calls, top, under)
    BY <1>3, <1>5, CallsSplit, Zenon
  <1>7. depth = Len(under) /\ Len(under) <= MaxDepth
    <2>1. depth \in Nat /\ Len(calls) = depth + 1 /\ depth <= MaxDepth
      BY <1>1, Zenon DEF Counted
    <2>2. Len(calls) = Len(under) + 1
      BY <1>6, Zenon DEF Split
    <2> QED
      BY <1>5, <2>1, <2>2
  <1>8. Advanced(T, W, says, deep)
    <2>1. Reading(T, W, K, top, under, says, deep)
      BY <1>1, <1>2, <1>7, Zenon DEF Reading
    <2> QED
      BY <2>1, V0Goes, Zenon
  <1>9. CASE phase' = "v0" /\ text' = text /\ Onward(text, pos', calls', out', T, W, out, says, deep)
    <2>1. PICK K2, top2, under2, says2, deep2 :
            /\ On(text, pos', calls', out', T, W, K2, top2, under2, says2, deep2)
            /\ out' \o says2 = out \o says /\ (deep2 <= MaxDepth <=> deep <= MaxDepth)
      BY <1>9, Zenon DEF Onward
    <2>2. m.path = WithoutHash(out' \o says2) /\ (deep2 <= MaxDepth <=> m.nested <= MaxDepth)
      BY <1>2, <2>1, Zenon
    <2>3. SayingV0(text, pos', calls', out', m)
      BY <2>1, <2>2, Zenon DEF SayingV0
    <2>4. SayingV0(text', pos', calls', out', m)
      BY <1>9, <2>3, Zenon
    <2> QED
      BY <1>9, <2>4 DEF Saying
  <1>10. CASE phase' = "parsed" /\ out' = out /\ says = <<>> /\ deep = 0
    <2>1. out \o says = out
      BY <1>3, <1>10, ConcatEmptySeq
    <2>2. m.nested <= MaxDepth
      BY <1>2, <1>10, V0Assumption
    <2>3. m.path = WithoutHash(out')
      BY <1>2, <1>10, <2>1, Zenon
    <2> QED
      BY <1>10, <2>2, <2>3 DEF Saying
  <1>11. CASE phase' = "rejected" /\ MaxDepth < deep
    <2>1. ~(deep <= MaxDepth)
      BY <1>5, <1>11, V0Assumption
    <2> QED
      BY <1>2, <1>11, <2>1 DEF Saying
  <1> QED
    BY <1>8, <1>9, <1>10, <1>11, Zenon DEF Advanced

\* So does one of the legacy parser.
LEMMA LegacyGoes ==
  ASSUME LegacyStep, NEW m, Saying(text, pos, calls, out, phase, input, m)
  PROVE  Saying(text', pos', calls', out', phase', input, m)
  <1>1. phase = "legacy"
    BY Zenon DEF LegacyStep, Malformed, Component, AtComponent, LegacyEnds
  <1>2. PICK W, n, at, parts, S, k : LegacyOn(text, W, n, at, parts, S, pos, out, k) /\ LegacySays(text, n, at, parts, m)
    BY <1>1, Zenon DEF Saying, SayingLegacy
  <1>3. n \in Nat /\ k \in 0..n
    BY <1>2, Zenon DEF LegacyOn, LegacyWriting
  <1>4. CASE k < n
    <2>1. phase' = "legacy" /\ text' = text /\ LegacyOn(text, W, n, at, parts, S, pos', out', k + 1)
      BY <1>2, <1>4, ComponentGoes, Zenon
    <2>2. SayingLegacy(text', pos', out', m)
      BY <1>2, <2>1, Zenon DEF SayingLegacy
    <2> QED
      BY <2>1, <2>2 DEF Saying
  <1>5. CASE ~(k < n)
    <2>1. k = n
      BY <1>3, <1>5
    <2>2. \/ phase' = "parsed" /\ WithoutHash(out') = m.path /\ m.nested = 0
          \/ phase' = "rejected" /\ m.path = m.symbol
      BY <1>2, <2>1, LegacyStops, Zenon
    <2>3. m.nested = 0 => m.nested <= MaxDepth
      BY V0Assumption
    <2> QED
      BY <2>2, <2>3 DEF Saying
  <1> QED
    BY <1>4, <1>5

-----------------------------------------------------------------------------

\* Every symbol that has a meaning is on its way to it.
SymbolsRead ==
  Counted /\ (reader = "symbol" => \A m : IsMeaning(m) /\ m.symbol = input =>
                                     Saying(text, pos, calls, out, phase, input, m))

\* A step of demangle says on.
LEMMA DemangleSays ==
  ASSUME Counted, DemangleStep, NEW m, IsMeaning(m), m.symbol = input,
         Saying(text, pos, calls, out, phase, input, m)
  PROVE  Saying(text', pos', calls', out', phase', input, m)
  <1>1. CASE demangle_raw
    BY <1>1, RawSays, Zenon
  <1>2. CASE V0Step
    BY <1>2, V0Says, Zenon
  <1>3. CASE LegacyStep
    BY <1>3, LegacyGoes, Zenon
  <1>4. CASE demangle
    <2>1. phase \in {"parsed", "rejected"} /\ phase' = "done"
          /\ out' = IF phase = "parsed" THEN WithoutHash(out) ELSE input
      BY <1>4, Zenon DEF demangle
    <2>2. CASE phase = "parsed"
      <3>1. m.path = WithoutHash(out) /\ m.nested <= MaxDepth
        BY <2>2, Zenon DEF Saying
      <3> QED
        BY <2>1, <2>2, <3>1 DEF Saying
    <2>3. CASE phase = "rejected"
      <3>1. out' = input
        BY <2>1, <2>3
      <3>2. ~(m.nested <= MaxDepth) \/ m.path = m.symbol
        BY <2>3, Zenon DEF Saying
      <3> QED
        BY <2>1, <3>1, <3>2 DEF Saying
    <2> QED
      BY <2>1, <2>2, <2>3
  <1> QED
    BY <1>1, <1>2, <1>3, <1>4, Zenon DEF DemangleStep

\* What is normalized has been demangled.
LEMMA NormalizeSays ==
  ASSUME NormalizeStep, NEW m
  PROVE  Saying(text', pos', calls', out', phase', input, m)
  <1>1. phase' \in {"monopolize", "normal", "concise"}
    BY DEF NormalizeStep, normalize, monopolize, concise
  <1> QED
    BY <1>1 DEF Saying

\* Every step leaves the symbols on their way.
LEMMA StepSays ==
  ASSUME SymbolsRead, [Next]_vars
  PROVE  SymbolsRead'
  <1>0. Counted
    BY Zenon DEF SymbolsRead
  <1>1. Counted'
    <2>1. CASE DemangleStep
      BY <1>0, <2>1, SymbolPreserves
    <2>2. CASE JsonStep
      BY <2>2, JsonPreserves
    <2>3. CASE NormalizeStep
      BY <2>3, NormalizePreserves
    <2>4. CASE UNCHANGED vars
      BY <1>0, <2>4 DEF vars, v0Vars, readerVars, Counted
    <2> QED
      BY <2>1, <2>2, <2>3, <2>4 DEF Next
  <1>2. ASSUME reader' = "symbol", NEW m, IsMeaning(m), m.symbol = input'
        PROVE  Saying(text', pos', calls', out', phase', input', m)
    <2>1. CASE UNCHANGED vars
      <3>1. reader' = reader /\ input' = input /\ text' = text /\ pos' = pos /\ calls' = calls /\ out' = out /\ phase' = phase
        BY <2>1 DEF vars, v0Vars, readerVars, cursor
      <3>2. Saying(text, pos, calls, out, phase, input, m)
        BY <1>2, <3>1, Zenon DEF SymbolsRead
      <3> QED
        BY <3>1, <3>2, Zenon
    <2>2. CASE Next
      <3>1. reader = "symbol" /\ (DemangleStep \/ NormalizeStep) /\ input' = input
        BY <1>2, <2>2 DEF Next, DemangleStep, NormalizeStep
      <3>2. Saying(text, pos, calls, out, phase, input, m)
        BY <1>2, <3>1, Zenon DEF SymbolsRead
      <3>3. Saying(text', pos', calls', out', phase', input, m)
        BY <1>0, <1>2, <3>1, <3>2, DemangleSays, NormalizeSays, Zenon
      <3> QED
        BY <3>1, <3>3, Zenon
    <2> QED
      BY <2>1, <2>2
  <1>3. (reader = "symbol" => \A m : IsMeaning(m) /\ m.symbol = input =>
                                 Saying(text, pos, calls, out, phase, input, m))'
    BY <1>2, Zenon
  <1> QED
    BY <1>1, <1>3, Zenon DEF SymbolsRead

\* They get there: with every symbol that has a meaning, whichever it is.
MeaningsReadBack ==
  phase = "done" /\ reader = "symbol" =>
    \A m : IsMeaning(m) /\ m.symbol = input => out = IF m.nested <= MaxDepth THEN m.path ELSE input

\* demangle answers every v0 symbol, however long and however deep in what the
\* guard allows, with the path that the grammar of RFC 2603 has for it
\* (V0Demangler: each production takes what belongs to it, prints it in its place
\* and leaves the cursor behind it, whatever is muted or optional around it), one
\* nested deeper with the symbol itself.  Of v0 symbols with back references,
\* placeholders, names in punycode, an empty name before a digit or a constant
\* beyond a long long, and of malformed ones, it says nothing.  demangle answers
\* every legacy symbol with its decoded components, or itself where one of them is
\* malformed (demangle_legacy), and every other name with itself.
THEOREM MeaningIsRead == SafetySpec => []MeaningsReadBack
  <1>1. Init => SymbolsRead
    <2> SUFFICES ASSUME Init PROVE SymbolsRead
      OBVIOUS
    <2>1. phase = "start" \/ reader = "json"
      BY DEF Init
    <2>2. Counted
      BY DEF Init, Counted
    <2>3. ASSUME phase = "start", NEW m PROVE Saying(text, pos, calls, out, phase, input, m)
      BY <2>3 DEF Saying
    <2>4. ~(reader = "symbol") \/ phase = "start"
      BY <2>1
    <2> QED
      BY <2>2, <2>3, <2>4, Zenon DEF SymbolsRead
  <1>2. SymbolsRead /\ [Next]_vars => SymbolsRead'
    BY StepSays
  <1>3. SymbolsRead => MeaningsReadBack
    <2> SUFFICES ASSUME SymbolsRead, phase = "done", reader = "symbol", NEW m, IsMeaning(m), m.symbol = input
                 PROVE  out = IF m.nested <= MaxDepth THEN m.path ELSE input
      BY Zenon DEF MeaningsReadBack
    <2>1. Saying(text, pos, calls, out, phase, input, m)
      BY Zenon DEF SymbolsRead
    <2> QED
      BY <2>1, Zenon DEF Saying
  <1> QED
    BY <1>1, <1>2, <1>3, PTL DEF SafetySpec

\* So symbols that mean something by these grammars come back as what they say.
THEOREM SymbolIsRead ==
  (\A m \in Meanings : IsMeaning(m)) => (SafetySpec => []SymbolsReadBack)
  <1> SUFFICES ASSUME \A m \in Meanings : IsMeaning(m) PROVE SafetySpec => []SymbolsReadBack
    OBVIOUS
  <1>1. MeaningsReadBack => SymbolsReadBack
    BY Zenon DEF MeaningsReadBack, SymbolsReadBack
  <1> QED
    BY <1>1, MeaningIsRead, PTL
=============================================================================
