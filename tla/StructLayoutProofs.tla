-------------------------- MODULE StructLayoutProofs --------------------------
(***************************************************************************)
(* The layout of the C definitions, for every list of types: sizes are     *)
(* exact, members are in place, and only irregular structs are opaque.     *)
(* The argument is that cur, which the code computes from Rust's sizes, is *)
(* where the C compiler stands, as long as what is declared has the size   *)
(* it has in Rust; for embedded types that is the theorem itself, for the  *)
(* definitions written before.  The renderer, which names the types before *)
(* and makes prototypes after, lays out as Spec does, so all of it holds   *)
(* of the renderer too; and no two of its types share a C name.            *)
(*   A declaration can be read in one way only: its tokens stand between   *)
(* marks that are in none of them.  So declarations that are alike have    *)
(* the tokens of their arguments and of the result alike, and a token      *)
(* shows which aggregate an argument is, because the C names differ and    *)
(* look like nothing else: prototypes that render alike are alike.         *)
(***************************************************************************)
EXTENDS Prototypes, SequenceTheorems, FiniteSetTheorems, TLAPS

-----------------------------------------------------------------------------
(* Induction in first-order form.  A theorem that takes a predicate cannot *)
(* be cited here; a set can stand for the predicate.                       *)

\* Every set of naturals that has an element has a least one.
LEMMA LeastNumber ==
  ASSUME NEW T, T \subseteq Nat, T # {}
  PROVE  \E m \in T : \A i \in T : m <= i
  <1> DEFINE R == OpToRel(<, Nat)
  <1>1. IsWellFoundedOn(R, Nat)
    BY NatLessThanWellFounded
  <1>2. \A x, y \in Nat : <<x, y>> \in R <=> x < y
    BY DEF OpToRel
  <1> HIDE DEF R
  <1>3. PICK m \in T : \A i \in T : ~ (<<i, m>> \in R)
    BY <1>1, WFMin
  <1>4. \A i \in T : i \in Nat /\ m \in Nat /\ ~ (i < m)
    BY <1>2, <1>3
  <1> QED
    BY <1>4

\* Induction from n on.
LEMMA SetInduction ==
  ASSUME NEW n \in Nat, NEW S, n \in S, \A i \in Nat : i >= n /\ i \in S => i + 1 \in S
  PROVE  \A i \in Nat : i >= n => i \in S
  <1> SUFFICES ASSUME NEW j \in Nat, j >= n, j \notin S PROVE FALSE
    OBVIOUS
  <1> DEFINE T == {i \in Nat : i >= n /\ i \notin S}
  <1>1. PICK m \in T : \A i \in T : m <= i
    <2>1. j \in T /\ T \subseteq Nat
      OBVIOUS
    <2> HIDE DEF T
    <2> QED
      BY <2>1, LeastNumber
  <1>2. m \in Nat /\ m > n /\ m - 1 \in Nat /\ m - 1 >= n
    BY <1>1
  <1>3. m - 1 \in S
    BY <1>1, <1>2
  <1>4. (m - 1) + 1 \in S
    BY <1>2, <1>3
  <1> QED
    BY <1>1, <1>2, <1>4

\* A sequence of values, each made from the one before.
Chain(g, X, x, n, next) ==
  g \in [0..n -> X] /\ g[0] = x /\ \A i \in 1..n : g[i] = next[<<i, g[i - 1]>>]

Successors(X, n) == [(1..n) \X X -> X]

LEMMA Iterates ==
  ASSUME NEW X, NEW x \in X, NEW n \in Nat, NEW next \in Successors(X, n)
  PROVE  \E g : Chain(g, X, x, n, next)
  <1> USE DEF Successors, Chain
  <1> DEFINE Good(m) == \E g \in [0..m -> X] : g[0] = x /\ \A i \in 1..m : g[i] = next[<<i, g[i - 1]>>]
             S == {m \in Nat : m <= n => Good(m)}
  <1>1. Good(0)
    <2> DEFINE g == [i \in 0..0 |-> x]
    <2>1. g \in [0..0 -> X] /\ g[0] = x /\ \A i \in 1..0 : g[i] = next[<<i, g[i - 1]>>]
      OBVIOUS
    <2> HIDE DEF g
    <2> QED
      BY <2>1
  <1>2. ASSUME NEW m \in Nat, Good(m), m + 1 <= n PROVE Good(m + 1)
    <2>1. PICK g \in [0..m -> X] : g[0] = x /\ \A i \in 1..m : g[i] = next[<<i, g[i - 1]>>]
      BY <1>2
    <2> DEFINE h == [i \in 0..(m + 1) |-> IF i <= m THEN g[i] ELSE next[<<m + 1, g[m]>>]]
    <2>2. h \in [0..(m + 1) -> X]
      <3>1. m + 1 \in 1..n /\ g[m] \in X
        BY <1>2
      <3>2. next[<<m + 1, g[m]>>] \in X
        BY <3>1
      <3> QED
        BY <3>2
    <2>3. h[0] = x /\ \A i \in 1..(m + 1) : h[i] = next[<<i, h[i - 1]>>]
      <3>1. ASSUME NEW i \in 1..(m + 1) PROVE h[i] = next[<<i, h[i - 1]>>]
        <4>1. CASE i <= m
          <5>1. h[i] = g[i] /\ h[i - 1] = g[i - 1] /\ i \in 1..m
            BY <4>1
          <5> QED
            BY <2>1, <5>1
        <4>2. CASE i = m + 1
          <5>1. h[i] = next[<<m + 1, g[m]>>] /\ h[i - 1] = g[m]
            BY <4>2
          <5> QED
            BY <4>2, <5>1
        <4> QED
          BY <4>1, <4>2
      <3> QED
        <4>1. h[0] = g[0]
          OBVIOUS
        <4> HIDE DEF h
        <4> QED
          BY <2>1, <3>1, <4>1
    <2> HIDE DEF h
    <2> QED
      BY <2>2, <2>3
  <1> HIDE DEF Good
  <1>3. 0 \in S /\ \A m \in Nat : m >= 0 /\ m \in S => m + 1 \in S
    BY <1>1, <1>2
  <1> HIDE DEF S
  <1>4. \A m \in Nat : m >= 0 => m \in S
    BY <1>3, SetInduction
  <1>5. Good(n)
    BY <1>4 DEF S
  <1> QED
    BY <1>5 DEF Good

\* A sequence without end, each value made from the one before.
Orbit(g, X, x, next) ==
  g \in [Nat -> X] /\ g[0] = x /\ \A i \in Nat : g[i + 1] = next[g[i]]

LEMMA Orbits ==
  ASSUME NEW X, NEW x \in X, NEW next \in [X -> X]
  PROVE  \E g : Orbit(g, X, x, next)
  <1> DEFINE step(n) == [p \in (1..n) \X X |-> next[p[2]]]
             part(n) == CHOOSE c : Chain(c, X, x, n, step(n))
  <1>1. ASSUME NEW n \in Nat
        PROVE  /\ part(n) \in [0..n -> X] /\ part(n)[0] = x
               /\ \A i \in 1..n : part(n)[i] = next[part(n)[i - 1]]
    <2>1. step(n) \in Successors(X, n)
      BY DEF Successors
    <2>2. \E c : Chain(c, X, x, n, step(n))
      <3> HIDE DEF step
      <3> QED
        BY <2>1, Iterates
    <2>3. Chain(part(n), X, x, n, step(n))
      <3> HIDE DEF step
      <3> QED
        BY <2>2
    <2> DEFINE c == part(n)
    <2> HIDE DEF part, c
    <2>4. c \in [0..n -> X] /\ c[0] = x /\ \A i \in 1..n : c[i] = step(n)[<<i, c[i - 1]>>]
      BY <2>3 DEF Chain, c
    <2>5. ASSUME NEW i \in 1..n PROVE c[i] = next[c[i - 1]]
      <3>1. i - 1 \in 0..n /\ c[i - 1] \in X
        BY <2>4
      <3>2. step(n)[<<i, c[i - 1]>>] = next[c[i - 1]]
        BY <3>1
      <3> QED
        BY <2>4, <3>2
    <2> QED
      BY <2>4, <2>5 DEF c
  <1> HIDE DEF step, part
  \* A longer chain begins as a shorter one.
  <1>2. ASSUME NEW n \in Nat PROVE \A i \in 0..n : part(n + 1)[i] = part(n)[i]
    <2> DEFINE S == {i \in Nat : i <= n => part(n + 1)[i] = part(n)[i]}
    <2>1. 0 \in S
      BY <1>1
    <2>2. ASSUME NEW i \in Nat, i >= 0, i \in S PROVE i + 1 \in S
      <3>1. CASE i + 1 <= n
        <4>1. i + 1 \in 1..n /\ i + 1 \in 1..(n + 1) /\ (i + 1) - 1 = i /\ i <= n /\ n + 1 \in Nat
          BY <3>1
        <4>2. part(n + 1)[i + 1] = next[part(n + 1)[i]]
          BY <1>1, <4>1
        <4>3. part(n)[i + 1] = next[part(n)[i]]
          BY <1>1, <4>1
        <4> QED
          BY <2>2, <4>1, <4>2, <4>3
      <3> QED
        BY <3>1
    <2> HIDE DEF S
    <2>3. \A i \in Nat : i >= 0 => i \in S
      BY <2>1, <2>2, SetInduction
    <2> QED
      BY <2>3 DEF S
  <1> DEFINE g == [n \in Nat |-> part(n)[n]]
  <1>3. g \in [Nat -> X]
    <2>1. ASSUME NEW n \in Nat PROVE part(n)[n] \in X
      BY <1>1
    <2> QED
      BY <2>1
  <1>4. g[0] = x
    BY <1>1
  <1>5. ASSUME NEW i \in Nat PROVE g[i + 1] = next[g[i]]
    <2>1. i + 1 \in 1..(i + 1) /\ (i + 1) - 1 = i /\ i + 1 \in Nat /\ i \in 0..i
      OBVIOUS
    <2>2. part(i + 1)[i + 1] = next[part(i + 1)[i]]
      BY <1>1, <2>1
    <2>3. part(i + 1)[i] = part(i)[i]
      BY <1>2, <2>1
    <2> QED
      BY <2>1, <2>2, <2>3
  <1> HIDE DEF g
  <1> QED
    BY <1>3, <1>4, <1>5 DEF Orbit

-----------------------------------------------------------------------------
LEMMA EndNat == ASSUME NEW ds \in Seq(Decl) PROVE EndOf(ds) \in Nat
  <1>1. CASE ds = <<>>
    BY <1>1 DEF EndOf
  <1>2. CASE ds # <<>>
    <2>1. ds[Len(ds)] \in Decl
      BY <1>2
    <2> QED
      BY <1>2, <2>1 DEF EndOf, Decl
  <1> QED
    BY <1>1, <1>2

\* t is ds with one more declaration, which begins where ds ends.
Extends(t, ds, m, size) ==
  /\ t = Place(ds, m, size) /\ EndOf(t) = EndOf(ds) + size
  /\ Len(t) = Len(ds) + 1 /\ \A d \in 1..Len(ds) : t[d] = ds[d]
  /\ t[Len(t)] = [of |-> m, at |-> EndOf(ds), size |-> size]

LEMMA Placing ==
  ASSUME NEW ds \in Seq(Decl), NEW m \in Nat, NEW size \in Nat
  PROVE  \E t \in Seq(Decl) : Extends(t, ds, m, size)
  <1>1. PICK e \in Decl : e = [of |-> m, at |-> EndOf(ds), size |-> size]
    BY EndNat DEF Decl
  <1>2. /\ Append(ds, e) \in Seq(Decl) /\ Len(Append(ds, e)) = Len(ds) + 1
        /\ \A d \in 1..Len(ds) : Append(ds, e)[d] = ds[d]
        /\ Append(ds, e)[Len(ds) + 1] = e
    BY AppendProperties
  <1>3. PICK t \in Seq(Decl) : t = Append(ds, e) /\ Len(t) = Len(ds) + 1
          /\ (\A d \in 1..Len(ds) : t[d] = ds[d]) /\ t[Len(ds) + 1] = e
    BY <1>2, Zenon
  <1>4. t = Place(ds, m, size)
    BY <1>1, <1>3 DEF Place
  <1>5. t # <<>> /\ EndOf(t) = e.at + e.size
    BY <1>3 DEF EndOf
  <1> QED
    BY <1>1, <1>3, <1>4, <1>5 DEF Extends

LEMMA TypeTyped ==
  ASSUME TypeOK
  PROVE  /\ types \in Seq(Type) /\ Len(defs) \in Nat /\ Len(defs) <= Len(types)
         /\ \A i \in 1..Len(types) : types[i] \in Type /\ types[i].size \in Nat
  <1>1. types \in Seq(Type) /\ Len(defs) \in Nat /\ Len(defs) <= Len(types)
    BY LayoutAssumption DEF TypeOK
  <1>2. ASSUME NEW i \in 1..Len(types) PROVE types[i] \in Type
    BY <1>1
  <1>3. \A t \in Type : t.size \in Nat
    BY DEF Type
  <1> QED
    BY <1>1, <1>2, <1>3

LEMMA SizeNat ==
  ASSUME TypeOK, NEW ty \in Ty, ty.kind = "type" => ty.n \in 1..Len(defs)
  PROVE  Size(ty) \in Nat
  <1>1. ty.n \in Nat /\ ty.length \in Nat
    BY DEF Ty
  <1>2. ty.kind = "type" => types[ty.n].size \in Nat
    BY TypeTyped
  <1>3. PICK b \in Nat : b = IF ty.kind = "value" THEN ty.n
                             ELSE IF ty.kind = "type" THEN types[ty.n].size ELSE 0
    BY <1>1, <1>2
  <1>4. Size(ty) = ty.length * b
    BY <1>3 DEF Size
  <1>5. \A x, y \in Nat : x * y \in Nat
    OBVIOUS
  <1> QED
    BY <1>1, <1>4, <1>5

\* What has a size in Rust has the same in C, if the definitions so far are exact.
LEMMA SizeAgrees ==
  ASSUME TypeOK, SizesExact, NEW ty \in Ty, ty.kind = "type" => ty.n \in 1..Len(defs), Size(ty) # 0
  PROVE  CSize(ty) = Size(ty)
  <1>1. ty.n \in Nat /\ ty.length \in Nat /\ ty.kind \in {"value", "bottom", "type"}
    BY DEF Ty
  <1>2. ty.length * 0 = 0
    BY <1>1
  <1>3. CASE ty.kind = "value"
    BY <1>3 DEF Size, CSize, DeclaredSize
  <1>4. CASE ty.kind = "bottom"
    BY <1>2, <1>4 DEF Size
  <1>5. CASE ty.kind = "type"
    <2>1. types[ty.n].size \in Nat
      BY <1>5, TypeTyped
    <2>2. types[ty.n].size # 0
      BY <1>2, <1>5 DEF Size
    <2>3. EndOf(defs[ty.n].decls) = types[ty.n].size
      BY <1>5, <2>1, <2>2 DEF SizesExact
    <2> QED
      BY <1>5, <2>3 DEF Size, CSize
  <1> QED
    BY <1>1, <1>3, <1>4, <1>5

LEMMA SizeKept == ASSUME UNCHANGED types, NEW ty PROVE Size(ty)' = Size(ty)
  BY Zenon DEF Size

LEMMA RegularKept == ASSUME UNCHANGED types, NEW t PROVE Regular(t)' <=> Regular(t)
  BY SizeKept DEF Regular

-----------------------------------------------------------------------------
Put(ds, j) ==
  \E d \in 1..Len(ds) :
    ds[d] = [of |-> j, at |-> members[j].offset, size |-> Size(members[j].ty)]

\* The members laid out are embedded types that are defined, in a struct its
\* own fields; cur is where C stands.
Underway ==
  busy =>
    /\ \A j \in 1..Len(members) : members[j].ty.kind = "type" => members[j].ty.n \in 1..Len(defs)
    /\ EndOf(decls) = cur
    /\ This.shape = "struct" => members = This.variants[1]

\* The members before k are declared, and nothing reaches past the next one.
StructUnderway ==
  busy /\ This.shape = "struct" =>
    /\ ~failed => \A j \in 1..(k - 1) : Size(members[j].ty) > 0 => Put(decls, j)
    /\ Regular(This) =>
         /\ ~failed /\ cur <= This.size
         /\ \A j \in k..Len(members) : Size(members[j].ty) > 0 => cur <= members[j].offset

LayoutInv ==
  TypeOK /\ Underway /\ StructUnderway /\ SizesExact /\ MembersInPlace /\ OpaqueIsIrregular

\* The definitions there are stay as they were.
LEMMA DefsKept ==
  ASSUME UNCHANGED <<types, defs>>, SizesExact, MembersInPlace, OpaqueIsIrregular
  PROVE  SizesExact' /\ MembersInPlace' /\ OpaqueIsIrregular'
  <1>1. SizesExact'
    BY DEF SizesExact
  <1>2. MembersInPlace'
    BY SizeKept DEF MembersInPlace
  <1>3. OpaqueIsIrregular'
    BY RegularKept DEF OpaqueIsIrregular
  <1> QED
    BY <1>1, <1>2, <1>3

LEMMA LayoutInit == Init => LayoutInv
  <1> SUFFICES ASSUME Init PROVE LayoutInv
    OBVIOUS
  <1>1. /\ types \in TypeLists /\ defs = <<>> /\ busy = FALSE /\ members = <<>> /\ k = 1 /\ off = 0
        /\ cur = 0 /\ decls = <<>> /\ failed = FALSE
    BY DEF Init
  <1>2. types \in Seq(Type) /\ Len(types) \in Nat /\ Len(defs) = 0
    BY <1>1, LayoutAssumption
  <1>3. defs \in Seq(Definition) /\ members \in Seq(Field) /\ Len(members) = 0 /\ decls \in Seq(Decl)
    BY <1>1
  <1>4. /\ k \in 1..(Len(members) + 1) /\ off \in Nat /\ cur \in Nat /\ Len(defs) <= Len(types)
    BY <1>1, <1>2, <1>3
  <1>5. busy \in BOOLEAN /\ ~busy /\ failed \in BOOLEAN
    BY <1>1, Zenon
  <1>6. TypeOK
    BY <1>1, <1>3, <1>4, <1>5, Zenon DEF TypeOK
  <1> QED
    BY <1>1, <1>2, <1>6 DEF LayoutInv, Underway, StructUnderway, SizesExact, MembersInPlace,
         OpaqueIsIrregular

LEMMA ThisTyped ==
  ASSUME TypeOK, Len(defs) < Len(types)
  PROVE  /\ This \in Type /\ Len(defs) \in Nat /\ types \in Seq(Type)
         /\ This.shape = "struct" => Len(This.variants) = 1
         /\ \A v \in DOMAIN This.variants :
              /\ This.variants[v] \in Seq(Field)
              /\ \A j \in 1..Len(This.variants[v]) :
                   LET ty == This.variants[v][j].ty IN ty.kind = "type" => ty.n \in 1..Len(defs)
  <1>1. types \in Seq(Type) /\ Len(defs) \in Nat /\ Len(defs) + 1 \in 1..Len(types) /\ types \in TypeLists
    BY LayoutAssumption DEF TypeOK
  <1>2. This \in Type
    BY <1>1 DEF This
  <1>3. Earlier(types, Len(defs) + 1) /\ (This.shape = "struct" => Len(This.variants) = 1)
    BY <1>1, LayoutAssumption DEF This
  <1>4. \A v \in DOMAIN This.variants : This.variants[v] \in Seq(Field)
    BY <1>2 DEF Type
  <1>5. (Len(defs) + 1) - 1 = Len(defs)
    BY <1>1
  <1>6. ASSUME NEW v \in DOMAIN This.variants, NEW j \in 1..Len(This.variants[v]),
               This.variants[v][j].ty.kind = "type"
        PROVE  This.variants[v][j].ty.n \in 1..Len(defs)
    <2>1. j \in DOMAIN This.variants[v]
      BY <1>4, <1>6
    <2>2. This.variants[v][j].ty.n \in 1..((Len(defs) + 1) - 1)
      BY <1>3, <1>6, <2>1, Zenon DEF Earlier, This
    <2> QED
      BY <1>5, <2>2
  <1> QED
    BY <1>1, <1>2, <1>3, <1>4, <1>6

\* A definition is begun with members whose types are defined.
LEMMA LayOutKeeps ==
  ASSUME LayoutInv, Len(defs) < Len(types), NEW ms \in Seq(Field), LayOut(ms),
         \A j \in 1..Len(ms) : ms[j].ty.kind = "type" => ms[j].ty.n \in 1..Len(defs),
         This.shape = "struct" => ms = This.variants[1]
  PROVE  LayoutInv'
  <1>1. /\ UNCHANGED <<types, defs>> /\ busy' = TRUE /\ members' = ms /\ k' = 1 /\ off' = 0
        /\ cur' = 0 /\ decls' = <<>> /\ failed' = FALSE
    BY DEF LayOut
  <1>2. TypeOK'
    <2>1. members' \in Seq(Field) /\ Len(ms) \in Nat /\ decls' \in Seq(Decl)
      BY <1>1
    <2>2. k' \in 1..(Len(members') + 1) /\ off' \in Nat /\ cur' \in Nat
      BY <1>1, <2>1
    <2>3. busy' \in BOOLEAN /\ failed' \in BOOLEAN
      BY <1>1, Zenon
    <2> QED
      BY <1>1, <2>1, <2>2, <2>3, Zenon DEF LayoutInv, TypeOK
  <1>3. This' = This /\ \A j \in 1..Len(ms) : ms[j].offset \in Nat
    <2>1. This' = This
      BY <1>1, Zenon DEF This
    <2>2. \A f \in Field : f.offset \in Nat
      BY DEF Field
    <2>3. \A j \in 1..Len(ms) : ms[j] \in Field
      OBVIOUS
    <2> QED
      BY <2>1, <2>2, <2>3
  <1>4. Underway'
    BY <1>1, <1>3 DEF Underway, EndOf
  <1>5. This.size \in Nat
    BY ThisTyped DEF LayoutInv, Type
  <1>6. StructUnderway'
    BY <1>1, <1>3, <1>5 DEF StructUnderway
  <1>7. SizesExact' /\ MembersInPlace' /\ OpaqueIsIrregular'
    BY <1>1, DefsKept DEF LayoutInv
  <1> QED
    BY <1>2, <1>4, <1>6, <1>7 DEF LayoutInv

LEMMA RenderKeeps ==
  ASSUME LayoutInv, render_struct \/ render_niche \/ render_tagged PROVE LayoutInv'
  <1>1. Len(defs) < Len(types)
    BY DEF render_struct, render_niche, render_tagged
  <1>2. TypeOK
    BY DEF LayoutInv
  <1>3. CASE render_struct
    <2>1. 1 \in DOMAIN This.variants
      BY <1>1, <1>2, <1>3, ThisTyped DEF render_struct, Type
    <2> QED
      BY <1>1, <1>2, <1>3, <2>1, ThisTyped, LayOutKeeps DEF render_struct
  <1>4. CASE render_niche
    <2>1. PICK v \in DOMAIN This.variants : LayOut(This.variants[v])
      BY <1>4 DEF render_niche
    <2> QED
      BY <1>1, <1>2, <1>4, <2>1, ThisTyped, LayOutKeeps DEF render_niche, is_niche_encoded
  <1>5. CASE render_tagged
    <2>1. PICK ms : LayOut(ms) /\ ms = IF This.disc > 0 THEN <<Tag>> ELSE <<>>
      BY <1>5 DEF render_tagged
    <2>2. This.disc \in Nat
      BY <1>1, <1>2, ThisTyped DEF Type
    <2>3. Tag \in Field /\ Tag.ty.kind = "value"
      BY <2>2 DEF Tag, Field, Ty
    <2>4. ms \in Seq(Field) /\ \A j \in 1..Len(ms) : ms[j] = Tag
      BY <2>1, <2>3
    <2> QED
      BY <1>1, <1>5, <2>1, <2>3, <2>4, LayOutKeeps DEF render_tagged
  <1> QED
    BY <1>3, <1>4, <1>5

\* The member at k, and what the fields of a regular struct tell about it.
LEMMA AtMember ==
  ASSUME LayoutInv, busy, k \in 1..Len(members)
  PROVE  /\ members[k] \in Field /\ members[k].ty \in Ty /\ members[k].offset \in Nat
         /\ Size(members[k].ty) \in Nat
         /\ Size(members[k].ty) # 0 => CSize(members[k].ty) = Size(members[k].ty)
         /\ This.shape = "struct" /\ Regular(This) /\ Size(members[k].ty) # 0 =>
              /\ members[k].offset + Size(members[k].ty) <= This.size
              /\ \A j \in (k + 1)..Len(members) : Size(members[j].ty) > 0 =>
                   members[k].offset + Size(members[k].ty) <= members[j].offset
  <1>1. members \in Seq(Field) /\ Len(members) \in Nat /\ members[k] \in Field
    BY DEF LayoutInv, TypeOK
  <1>2. members[k].ty \in Ty /\ members[k].offset \in Nat
    BY <1>1 DEF Field
  <1>3. TypeOK /\ SizesExact /\ (members[k].ty.kind = "type" => members[k].ty.n \in 1..Len(defs))
    BY DEF LayoutInv, Underway
  <1>4. Size(members[k].ty) \in Nat
    BY <1>2, <1>3, SizeNat
  <1>5. Size(members[k].ty) # 0 => CSize(members[k].ty) = Size(members[k].ty)
    BY <1>2, <1>3, SizeAgrees
  <1>6. ASSUME This.shape = "struct", Regular(This), Size(members[k].ty) # 0
        PROVE  /\ members[k].offset + Size(members[k].ty) <= This.size
               /\ \A j \in (k + 1)..Len(members) : Size(members[j].ty) > 0 =>
                    members[k].offset + Size(members[k].ty) <= members[j].offset
    <2>1. members = This.variants[1] /\ DOMAIN members = 1..Len(members)
      BY <1>1, <1>6 DEF LayoutInv, Underway
    <2>2. Size(members[k].ty) > 0
      BY <1>4, <1>6
    <2>3. \A j \in (k + 1)..Len(members) : j \in DOMAIN members /\ k < j
      BY <1>1, <2>1
    <2> QED
      BY <1>6, <2>1, <2>2, <2>3 DEF Regular
  <1> QED
    BY <1>1, <1>2, <1>4, <1>5, <1>6

\* The declarations are filled up to where the member goes, and it is put there.
LEMMA Adding ==
  ASSUME decls \in Seq(Decl), cur \in Nat, EndOf(decls) = cur, k \in Nat,
         NEW offset \in Nat, NEW size \in Nat, ~Before(offset)
  PROVE  \E t \in Seq(Decl) :
           /\ t = Place(Padded(offset), k, size) /\ EndOf(t) = offset + size
           /\ Len(decls) < Len(t) /\ \A d \in 1..Len(decls) : t[d] = decls[d]
           /\ t[Len(t)] = [of |-> k, at |-> offset, size |-> size]
  <1>1. PICK p \in Seq(Decl) :
          /\ p = Padded(offset) /\ EndOf(p) = offset
          /\ Len(decls) <= Len(p) /\ \A d \in 1..Len(decls) : p[d] = decls[d]
    <2>1. CASE offset > cur
      <3>0. 0 \in Nat /\ offset - cur \in Nat
        BY <2>1
      <3>1. PICK p \in Seq(Decl) : Extends(p, decls, 0, offset - cur)
        BY <3>0, Placing, Zenon
      <3>2. EndOf(p) = offset /\ Len(decls) \in Nat
        BY <3>0, <3>1 DEF Extends
      <3>3. p = Padded(offset)
        BY <2>1, <3>1 DEF Padded, Extends
      <3> QED
        BY <3>1, <3>2, <3>3 DEF Extends
    <2>2. CASE ~(offset > cur)
      <3>1. offset = cur
        BY <2>2 DEF Before
      <3>2. decls = Padded(offset) /\ Len(decls) \in Nat
        BY <2>2 DEF Padded
      <3> QED
        BY <3>1, <3>2
    <2> QED
      BY <2>1, <2>2
  <1>2. PICK t \in Seq(Decl) : Extends(t, p, k, size)
    BY <1>1, Placing, Zenon
  <1>3. Len(decls) \in Nat /\ Len(p) \in Nat
    BY <1>1
  <1>4. Len(decls) < Len(t) /\ \A d \in 1..Len(decls) : t[d] = decls[d]
    BY <1>1, <1>2, <1>3 DEF Extends
  <1> QED
    BY <1>1, <1>2, <1>4 DEF Extends

LEMMA AddKeeps == ASSUME LayoutInv, AddMember PROVE LayoutInv'
  <1>1. /\ busy /\ k \in 1..Len(members) /\ k' = k + 1 /\ UNCHANGED <<types, defs, busy, members>>
        /\ Len(members) \in Nat /\ This' = This
    BY DEF AddMember, LayoutInv, TypeOK, This
  <1>2. PICK f \in Field :
          /\ f = members[k] /\ off' = off + Size(f.ty)
          /\ IF Size(f.ty) = 0 THEN UNCHANGED layout
             ELSE add(OffsetOf(f), Size(f.ty), CSize(f.ty))
    BY <1>1, AtMember DEF AddMember, Skipped
  <1>3. /\ f.offset \in Nat /\ Size(f.ty) \in Nat /\ (Size(f.ty) # 0 => CSize(f.ty) = Size(f.ty))
        /\ This.shape = "struct" /\ Regular(This) /\ Size(f.ty) # 0 =>
              /\ f.offset + Size(f.ty) <= This.size
              /\ \A j \in (k + 1)..Len(members) : Size(members[j].ty) > 0 =>
                   f.offset + Size(f.ty) <= members[j].offset
    BY <1>1, <1>2, AtMember
  <1>4. /\ decls \in Seq(Decl) /\ cur \in Nat /\ off \in Nat /\ EndOf(decls) = cur /\ failed \in BOOLEAN
        /\ OffsetOf(f) \in Nat /\ (This.shape = "struct" => OffsetOf(f) = f.offset)
    BY <1>1, <1>3 DEF LayoutInv, TypeOK, Underway, OffsetOf
  <1>5. \/ UNCHANGED layout /\ Size(f.ty) = 0
        \/ failed' = TRUE /\ UNCHANGED <<cur, decls>> /\ Before(OffsetOf(f)) /\ Size(f.ty) # 0
        \/ /\ UNCHANGED failed /\ cur' = OffsetOf(f) + Size(f.ty) /\ ~Before(OffsetOf(f))
           /\ decls' = Place(Padded(OffsetOf(f)), k, Size(f.ty)) /\ Size(f.ty) # 0
    BY <1>2, <1>3 DEF add
  <1>6. /\ decls' \in Seq(Decl) /\ cur' \in Nat /\ EndOf(decls)' = cur' /\ failed' \in BOOLEAN
        /\ ~failed' => ~failed /\ \A j : Put(decls, j) => Put(decls', j)
        /\ This.shape = "struct" /\ ~failed' /\ Size(f.ty) # 0 => Put(decls', k)
    <2>1. CASE UNCHANGED layout /\ Size(f.ty) = 0
      BY <1>4, <2>1 DEF layout, EndOf
    <2>2. CASE failed' = TRUE /\ UNCHANGED <<cur, decls>>
      BY <1>4, <2>2 DEF EndOf
    <2>3. CASE /\ UNCHANGED failed /\ cur' = OffsetOf(f) + Size(f.ty) /\ ~Before(OffsetOf(f))
               /\ decls' = Place(Padded(OffsetOf(f)), k, Size(f.ty))
      <3>1. PICK t \in Seq(Decl) :
              /\ t = Place(Padded(OffsetOf(f)), k, Size(f.ty)) /\ EndOf(t) = OffsetOf(f) + Size(f.ty)
              /\ Len(decls) < Len(t) /\ \A d \in 1..Len(decls) : t[d] = decls[d]
              /\ t[Len(t)] = [of |-> k, at |-> OffsetOf(f), size |-> Size(f.ty)]
        BY <1>1, <1>3, <1>4, <2>3, Adding
      <3>2. decls' = t /\ EndOf(decls)' = EndOf(t)
        BY <2>3, <3>1 DEF EndOf
      <3>3. Len(decls) \in Nat /\ Len(t) \in Nat /\ Len(t) \in 1..Len(t)
        BY <1>4, <3>1
      <3>4. \A j : Put(decls, j) => Put(t, j)
        BY <3>1, <3>3 DEF Put
      <3>5. This.shape = "struct" => Put(t, k)
        BY <1>2, <1>4, <3>1, <3>3 DEF Put
      <3>6. cur' \in Nat
        BY <1>3, <1>4, <2>3
      <3> QED
        BY <1>4, <2>3, <3>1, <3>2, <3>4, <3>5, <3>6
    <2> QED
      BY <1>5, <2>1, <2>2, <2>3
  <1>7. \A ds, j : Put(ds, j) => (Put(ds, j))'
    BY <1>1, SizeKept DEF Put
  <1>8. TypeOK'
    <2>1. k' \in 1..(Len(members) + 1) /\ off' \in Nat
      BY <1>1, <1>2, <1>3, <1>4
    <2> QED
      BY <1>1, <1>6, <2>1, Zenon DEF LayoutInv, TypeOK
  <1>9. Underway'
    BY <1>1, <1>6 DEF LayoutInv, Underway
  <1>10. StructUnderway'
    <2> SUFFICES ASSUME This.shape = "struct"
                 PROVE  /\ ~failed' => \A j \in 1..k : Size(members[j].ty) > 0 => Put(decls', j)
                        /\ Regular(This) =>
                             /\ ~failed' /\ cur' <= This.size
                             /\ \A j \in (k + 1)..Len(members) : Size(members[j].ty) > 0 =>
                                  cur' <= members[j].offset
      <3>1. (k + 1) - 1 = k
        BY <1>1
      <3>2. \A j : (Size(members[j].ty))' = Size(members[j].ty)
        BY <1>1, SizeKept
      <3>3. Regular(This)' <=> Regular(This)
        BY <1>1, RegularKept
      <3> QED
        BY <1>1, <1>7, <3>1, <3>2, <3>3 DEF StructUnderway
    <2>1. ASSUME ~failed', NEW j \in 1..k, Size(members[j].ty) > 0 PROVE Put(decls', j)
      <3>1. CASE j = k
        BY <1>2, <1>3, <1>6, <2>1, <3>1
      <3>2. CASE j # k
        <4>1. j \in 1..(k - 1)
          BY <1>1, <3>2
        <4> QED
          BY <1>1, <1>6, <2>1, <4>1 DEF LayoutInv, StructUnderway
      <3> QED
        BY <3>1, <3>2
    <2>2. ASSUME Regular(This)
          PROVE  /\ ~failed' /\ cur' <= This.size
                 /\ \A j \in (k + 1)..Len(members) : Size(members[j].ty) > 0 =>
                      cur' <= members[j].offset
      <3>1. /\ ~failed /\ cur <= This.size
            /\ \A j \in k..Len(members) : Size(members[j].ty) > 0 => cur <= members[j].offset
        BY <1>1, <2>2 DEF LayoutInv, StructUnderway
      <3>2. k \in k..Len(members) /\ \A j \in (k + 1)..Len(members) : j \in k..Len(members)
        BY <1>1
      <3>3. CASE UNCHANGED layout /\ Size(f.ty) = 0
        BY <3>1, <3>2, <3>3 DEF layout
      <3>4. CASE Size(f.ty) # 0
        <4>1. cur <= f.offset
          BY <1>2, <1>3, <3>1, <3>2, <3>4
        <4>2. UNCHANGED failed /\ cur' = f.offset + Size(f.ty)
          BY <1>3, <1>4, <1>5, <3>4, <4>1 DEF Before
        <4> QED
          BY <1>3, <2>2, <3>1, <3>4, <4>2
      <3> QED
        BY <1>5, <3>3, <3>4
    <2> QED
      BY <2>1, <2>2
  <1>11. SizesExact' /\ MembersInPlace' /\ OpaqueIsIrregular'
    BY <1>1, DefsKept DEF LayoutInv
  <1> QED
    BY <1>8, <1>9, <1>10, <1>11 DEF LayoutInv

\* The definition that is written when its members are laid out.
LEMMA Finished ==
  ASSUME LayoutInv, busy, k > Len(members)
  PROVE  \E d \in Definition :
           /\ d = IF failed \/ cur > This.size THEN opaque(This.size) ELSE finish(This.size)
           /\ This.size > 0 => EndOf(d.decls) = This.size
           /\ ~d.opaque => /\ ~failed /\ Len(decls) <= Len(d.decls) /\ d.decls \in Seq(Decl)
                           /\ \A e \in 1..Len(decls) : d.decls[e] = decls[e]
           /\ d.opaque => failed \/ cur > This.size
  <1>1. /\ decls \in Seq(Decl) /\ Len(decls) \in Nat /\ cur \in Nat /\ EndOf(decls) = cur
        /\ failed \in BOOLEAN
    BY DEF LayoutInv, TypeOK, Underway
  <1>2. This.size \in Nat
    BY ThisTyped DEF LayoutInv, TypeOK, Type
  <1>3. CASE failed \/ cur > This.size
    <2>1. PICK n \in Nat : n = IF This.size > 1 THEN This.size ELSE 1
      BY <1>2
    <2>2. <<>> \in Seq(Decl) /\ 0 \in Nat
      OBVIOUS
    <2>3. PICK t \in Seq(Decl) : Extends(t, <<>>, 0, n)
      BY <2>2, Placing, Zenon
    <2>4. opaque(This.size) = [opaque |-> TRUE, decls |-> t]
      BY <2>1, <2>3 DEF opaque, Extends
    <2>5. This.size > 0 => EndOf(t) = This.size
      BY <1>2, <2>1, <2>3 DEF Extends, EndOf
    <2>6. PICK d \in Definition : d = [opaque |-> TRUE, decls |-> t]
      BY <2>3, Zenon DEF Definition
    <2>7. d.opaque /\ d.decls = t
      BY <2>6
    <2>8. d = IF failed \/ cur > This.size THEN opaque(This.size) ELSE finish(This.size)
      BY <1>3, <2>4, <2>6, Zenon
    <2> QED
      BY <1>3, <2>5, <2>7, <2>8, Zenon
  <1>4. CASE ~failed /\ ~(cur > This.size)
    <2>1. PICK t \in Seq(Decl) :
            /\ t = IF cur < This.size THEN Place(decls, 0, This.size - cur) ELSE decls
            /\ EndOf(t) = This.size /\ Len(decls) <= Len(t) /\ \A e \in 1..Len(decls) : t[e] = decls[e]
      <3>1. CASE cur < This.size
        <4>1. This.size - cur \in Nat /\ 0 \in Nat
          BY <1>1, <1>2, <3>1
        <4>2. PICK t \in Seq(Decl) : Extends(t, decls, 0, This.size - cur)
          BY <1>1, <4>1, Placing, Zenon
        <4>3. EndOf(t) = This.size
          BY <1>1, <1>2, <4>2 DEF Extends
        <4> QED
          BY <1>1, <3>1, <4>2, <4>3 DEF Extends
      <3>2. CASE ~(cur < This.size)
        <4>1. EndOf(decls) = This.size
          BY <1>1, <1>2, <1>4, <3>2
        <4> QED
          BY <1>1, <3>2, <4>1
      <3> QED
        BY <3>1, <3>2
    <2>2. finish(This.size) = [opaque |-> FALSE, decls |-> t]
      BY <2>1 DEF finish
    <2>3. PICK d \in Definition : d = [opaque |-> FALSE, decls |-> t]
      BY <2>1, Zenon DEF Definition
    <2>4. ~d.opaque /\ d.decls = t
      BY <2>3
    <2>5. d = IF failed \/ cur > This.size THEN opaque(This.size) ELSE finish(This.size)
      BY <1>4, <2>2, <2>3, Zenon
    <2> QED
      BY <1>4, <2>1, <2>4, <2>5, Zenon
  <1> QED
    BY <1>3, <1>4

LEMMA DefineKeeps == ASSUME LayoutInv, Define PROVE LayoutInv'
  <1>1. /\ busy /\ k > Len(members) /\ busy' = FALSE
        /\ UNCHANGED <<types, members, k, off, cur, decls, failed>>
        /\ Len(defs) < Len(types) /\ Len(members) \in Nat /\ k \in 1..(Len(members) + 1)
        /\ defs \in Seq(Definition) /\ Len(defs) \in Nat /\ types \in Seq(Type)
    BY LayoutAssumption DEF Define, layout, LayoutInv, TypeOK
  <1>2. PICK d \in Definition :
          /\ defs' = Append(defs, d)
          /\ This.size > 0 => EndOf(d.decls) = This.size
          /\ ~d.opaque => /\ ~failed /\ Len(decls) <= Len(d.decls) /\ d.decls \in Seq(Decl)
                          /\ \A e \in 1..Len(decls) : d.decls[e] = decls[e]
          /\ d.opaque => failed \/ cur > This.size
    BY <1>1, Finished DEF Define
  <1>3. /\ defs' \in Seq(Definition) /\ Len(defs') = Len(defs) + 1 /\ defs'[Len(defs) + 1] = d
        /\ \A i \in 1..Len(defs) : defs'[i] = defs[i]
    BY <1>1, <1>2, AppendProperties
  <1>4. TypeOK'
    <2>1. Len(defs') <= Len(types) /\ k' \in 1..(Len(members') + 1)
      BY <1>1, <1>3
    <2>2. busy' \in BOOLEAN /\ ~busy'
      BY <1>1, Zenon
    <2> QED
      BY <1>1, <1>3, <2>1, <2>2, Zenon DEF LayoutInv, TypeOK
  <1>5. Underway' /\ StructUnderway'
    BY <1>1 DEF Underway, StructUnderway
  <1>6. \A i \in 1..Len(defs') : i \in 1..Len(defs) \/ (i = Len(defs) + 1 /\ types[i] = This)
    BY <1>1, <1>3 DEF This
  <1>7. SizesExact'
    BY <1>1, <1>2, <1>3, <1>6 DEF LayoutInv, SizesExact
  <1>8. MembersInPlace'
    <2>1. ASSUME This.shape = "struct", ~d.opaque, NEW j \in DOMAIN This.variants[1],
                 Size(This.variants[1][j].ty) > 0
          PROVE  \E e \in DOMAIN d.decls :
                   d.decls[e] = [of |-> j, at |-> This.variants[1][j].offset,
                                 size |-> Size(This.variants[1][j].ty)]
      <3>1. members = This.variants[1] /\ members \in Seq(Field)
        BY <1>1, <2>1 DEF LayoutInv, Underway, TypeOK
      <3>2. j \in 1..(k - 1) /\ decls \in Seq(Decl)
        BY <1>1, <2>1, <3>1 DEF LayoutInv, TypeOK
      <3>3. Put(decls, j)
        BY <1>1, <1>2, <2>1, <3>1, <3>2 DEF LayoutInv, StructUnderway
      <3>4. PICK e \in 1..Len(decls) :
              decls[e] = [of |-> j, at |-> members[j].offset, size |-> Size(members[j].ty)]
        BY <3>3 DEF Put
      <3>5. e \in DOMAIN d.decls /\ d.decls[e] = decls[e]
        BY <1>2, <2>1, <3>2, <3>4
      <3> QED
        BY <3>1, <3>4, <3>5
    <2>2. UNCHANGED types /\ \A ty : Size(ty)' = Size(ty)
      BY <1>1, SizeKept
    <2> SUFFICES ASSUME NEW i \in 1..Len(defs'), types[i].shape = "struct", ~defs'[i].opaque,
                        NEW j \in DOMAIN types[i].variants[1],
                        Size(types[i].variants[1][j].ty) > 0
                 PROVE  \E e \in DOMAIN defs'[i].decls :
                          defs'[i].decls[e] = [of |-> j, at |-> types[i].variants[1][j].offset,
                                               size |-> Size(types[i].variants[1][j].ty)]
      BY <2>2 DEF MembersInPlace
    <2>3. CASE i \in 1..Len(defs)
      BY <1>3, <2>3 DEF LayoutInv, MembersInPlace
    <2>4. CASE i = Len(defs) + 1 /\ types[i] = This
      <3>1. defs'[i] = d
        BY <1>3, <2>4
      <3> QED
        BY <2>1, <2>4, <3>1
    <2> QED
      BY <1>6, <2>3, <2>4
  <1>9. OpaqueIsIrregular'
    <2>1. This.shape = "struct" /\ Regular(This) => ~d.opaque
      <3>1. This.size \in Nat /\ cur \in Nat
        BY <1>1, ThisTyped DEF LayoutInv, TypeOK, Type
      <3> QED
        BY <1>1, <1>2, <3>1 DEF LayoutInv, StructUnderway
    <2> QED
      BY <1>1, <1>3, <1>6, <2>1, RegularKept DEF LayoutInv, OpaqueIsIrregular
  <1> QED
    BY <1>4, <1>5, <1>7, <1>8, <1>9 DEF LayoutInv

LEMMA LayoutStep == LayoutInv /\ [Next]_vars => LayoutInv'
  <1> SUFFICES ASSUME LayoutInv, [Next]_vars PROVE LayoutInv'
    OBVIOUS
  <1>1. CASE UNCHANGED vars
    <2>1. UNCHANGED <<types, defs, busy, members, k, off, cur, decls, failed>>
      BY <1>1 DEF vars, layout
    <2>2. SizesExact' /\ MembersInPlace' /\ OpaqueIsIrregular'
      BY <2>1, DefsKept DEF LayoutInv
    <2>3. TypeOK'
      BY <2>1, Zenon DEF LayoutInv, TypeOK
    <2>4. This' = This /\ (Regular(This)' <=> Regular(This))
      BY <2>1, RegularKept DEF This
    <2>5. Underway'
      BY <2>1, <2>4 DEF LayoutInv, Underway, EndOf
    <2>6. StructUnderway'
      BY <2>1, <2>4, SizeKept DEF LayoutInv, StructUnderway, Put
    <2> QED
      BY <2>2, <2>3, <2>5, <2>6 DEF LayoutInv
  <1> QED
    BY <1>1, RenderKeeps, AddKeeps, DefineKeeps DEF Next

THEOREM LayoutInvariant == Spec => []LayoutInv
  BY LayoutInit, LayoutStep, PTL DEF Spec
-----------------------------------------------------------------------------
\* The state of the layout keeps its type, whatever the types are.
THEOREM LayoutTyped == Spec => []TypeOK
  <1>1. LayoutInv => TypeOK
    BY DEF LayoutInv
  <1> QED
    BY <1>1, LayoutInvariant, PTL

\* sizeof of every definition is the size of its type in Rust, for all sizes,
\* offsets, variants and embedded types.
THEOREM ExactSizes == Spec => []SizesExact
  <1>1. LayoutInv => SizesExact
    BY DEF LayoutInv
  <1> QED
    BY <1>1, LayoutInvariant, PTL

\* Every member of a struct stands where it stands in Rust.
THEOREM MembersPlaced == Spec => []MembersInPlace
  <1>1. LayoutInv => MembersInPlace
    BY DEF LayoutInv
  <1> QED
    BY <1>1, LayoutInvariant, PTL

\* No regular struct is rendered opaque.
THEOREM OnlyIrregularOpaque == Spec => []OpaqueIsIrregular
  <1>1. LayoutInv => OpaqueIsIrregular
    BY DEF LayoutInv
  <1> QED
    BY <1>1, LayoutInvariant, PTL

-----------------------------------------------------------------------------
LEMMA RenderStep == [RenderNext]_renderVars => [Next]_vars
  <1> SUFFICES ASSUME [RenderNext]_renderVars PROVE [Next]_vars
    OBVIOUS
  <1>1. CASE UNCHANGED renderVars
    BY <1>1 DEF renderVars
  <1>2. ASSUME NEW i \in DOMAIN name_map, ensure_name(i) PROVE UNCHANGED vars
    BY <1>2, Zenon DEF ensure_name
  <1>3. CASE WriteHeader
    BY <1>3 DEF WriteHeader
  <1>4. CASE RenderPrototype
    BY <1>4, Zenon DEF RenderPrototype
  <1> QED
    BY <1>1, <1>2, <1>3, <1>4, Zenon DEF RenderNext

\* Naming the types and making prototypes of them disturbs no layout: a run of
\* the renderer is a run of the layout, so what is proved above of sizes,
\* members and opaque types holds of the whole of it.
THEOREM RendererLaysOut == RenderSpec => Spec
  <1>1. RenderInit => Init
    BY DEF RenderInit
  <1> QED
    BY <1>1, RenderStep, PTL DEF RenderSpec, Spec

\* sizeof is exact in the renderer too, whatever the names and prototypes are.
THEOREM RendererSizesExact == RenderSpec => []SizesExact
  BY RendererLaysOut, ExactSizes, PTL

-----------------------------------------------------------------------------
NamesInv == CNamesDistinct /\ name_map = [i \in DOMAIN name_map |-> name_map[i]]

LEMMA NamesStart == RenderInit => NamesInv
  BY Zenon DEF RenderInit, NamesInv, CNamesDistinct

LEMMA NameKeeps ==
  ASSUME NamesInv, NEW i \in DOMAIN name_map, ensure_name(i)
  PROVE  NamesInv'
  <1>1. PICK n \in 0..Len(types) :
          /\ ~Used(Candidate(sanitize(library.names[i]), n))
          /\ name_map' = [name_map EXCEPT ![i] = Candidate(sanitize(library.names[i]), n)]
    BY Zenon DEF ensure_name
  <1> DEFINE cname == Candidate(sanitize(library.names[i]), n)
  <1>2. name_map' = [name_map EXCEPT ![i] = cname] /\ \A j \in DOMAIN name_map : name_map[j] # cname
    BY <1>1, Zenon DEF Used
  <1> HIDE DEF cname
  <1>3. DOMAIN name_map' = DOMAIN name_map /\ name_map'[i] = cname
        /\ \A j \in DOMAIN name_map : j # i => name_map'[j] = name_map[j]
    BY <1>2, Zenon DEF NamesInv
  <1>4. name_map' = [j \in DOMAIN name_map' |-> name_map'[j]]
    BY <1>2
  <1>5. ASSUME NEW a \in DOMAIN name_map, NEW b \in DOMAIN name_map,
               name_map'[a] = name_map'[b], name_map'[a] # <<>>
        PROVE  a = b
    <2>1. CASE a = i
      BY <1>2, <1>3, <1>5, <2>1
    <2>2. CASE b = i
      BY <1>2, <1>3, <1>5, <2>2
    <2>3. CASE a # i /\ b # i
      BY <1>3, <1>5, <2>3 DEF NamesInv, CNamesDistinct
    <2> QED
      BY <2>1, <2>2, <2>3
  <1> QED
    BY <1>3, <1>4, <1>5, Zenon DEF NamesInv, CNamesDistinct

\* "collision-free": for any number of types with any names, however sanitizing
\* and cutting makes them alike, no two of them get one C name.
THEOREM NamesDistinct == RenderSpec => []CNamesDistinct
  <1>1. NamesInv /\ [RenderNext]_renderVars => NamesInv'
    <2> SUFFICES ASSUME NamesInv, [RenderNext]_renderVars PROVE NamesInv'
      OBVIOUS
    <2>1. ASSUME UNCHANGED name_map PROVE NamesInv'
      BY <2>1 DEF NamesInv, CNamesDistinct
    <2>2. CASE UNCHANGED renderVars
      BY <2>1, <2>2 DEF renderVars, prototypeVars
    <2>3. CASE \E i \in DOMAIN name_map : ensure_name(i)
      BY <2>3, NameKeeps, Zenon
    <2>4. CASE WriteHeader
      BY <2>1, <2>4 DEF WriteHeader, prototypeVars
    <2>5. CASE RenderPrototype
      BY <2>1, <2>5, Zenon DEF RenderPrototype
    <2> QED
      BY <2>2, <2>3, <2>4, <2>5 DEF RenderNext
  <1>2. NamesInv => CNamesDistinct
    BY DEF NamesInv
  <1> QED
    BY <1>1, <1>2, NamesStart, PTL DEF RenderSpec

-----------------------------------------------------------------------------

\* What a C name is made of, and what separates the parts of a declaration.
NameTokens == {"OXI_", "_"} \cup IdentifierSet
Marks == {" f(", ",", " a", ")"}
Inner == NameTokens \cup {"*", "__int", "unsigned", "signed", "Oxidizer_Slice", "void"}
Tokens == Inner \cup Marks
CName(s) == s \in Seq(NameTokens) /\ s # <<>> /\ s[1] = "OXI_"

LEMMA DigitsAre ==
  /\ \A n \in Nat : Digits[(n % 10) + 1] \in DigitSet
  /\ DigitSet = {"0", "1", "2", "3", "4", "5", "6", "7", "8", "9"}
  <1>1. DigitSet = {"0", "1", "2", "3", "4", "5", "6", "7", "8", "9"}
    <2>1. ASSUME NEW d \in 1..10
          PROVE  Digits[d] \in {"0", "1", "2", "3", "4", "5", "6", "7", "8", "9"}
      BY <2>1 DEF Digits
    <2>2. /\ Digits[1] = "0" /\ Digits[2] = "1" /\ Digits[3] = "2" /\ Digits[4] = "3" /\ Digits[5] = "4"
          /\ Digits[6] = "5" /\ Digits[7] = "6" /\ Digits[8] = "7" /\ Digits[9] = "8" /\ Digits[10] = "9"
      BY DEF Digits
    <2> QED
      BY <2>1, <2>2 DEF DigitSet
  <1>2. ASSUME NEW n \in Nat PROVE Digits[(n % 10) + 1] \in DigitSet
    <2>1. (n % 10) + 1 \in 1..10
      OBVIOUS
    <2> QED
      BY <2>1 DEF DigitSet
  <1> QED
    BY <1>1, <1>2

LEMMA TokenSets ==
  /\ DigitSet \subseteq NameTokens /\ "OXI_" \notin DigitSet
  /\ \A t \in NameTokens : t \notin {"*", "__int", "unsigned", "signed", "Oxidizer_Slice", "void"}
  /\ \A t \in Inner : t \notin Marks
  <1>1. NameTokens = {"OXI_", "_", "0", "1", "2", "3", "4", "5", "6", "7", "8", "9", "a", "b", "c"}
    BY DigitsAre DEF NameTokens, IdentifierSet
  <1>2. DigitSet \subseteq NameTokens
    BY DEF NameTokens, IdentifierSet
  <1>3. "OXI_" \notin DigitSet
    BY DigitsAre
  <1>4. \A t \in NameTokens : t \notin {"*", "__int", "unsigned", "signed", "Oxidizer_Slice", "void"}
    BY <1>1
  <1>5. \A t \in Inner : t \notin Marks
    BY <1>1 DEF Inner, Marks
  <1> QED
    BY <1>2, <1>3, <1>4, <1>5

LEMMA SmallRemainder == \A n \in Nat : n < 10 => n % 10 = n
  OBVIOUS

LEMMA SpellingIs ==
  \A n \in Nat : /\ Spelling[n] \in Seq(DigitSet)
                 /\ Spelling[n] = IF n < 10 THEN <<Digits[n + 1]>>
                                  ELSE Append(Spelling[n \div 10], Digits[(n % 10) + 1])
  <1> DEFINE X == Seq(Seq(DigitSet))
             nextOf(s) == IF Len(s) < 10 THEN <<Digits[Len(s) + 1]>>
                          ELSE Append(s[(Len(s) \div 10) + 1], Digits[(Len(s) % 10) + 1])
             next == [s \in X |-> Append(s, nextOf(s))]
  <1>1. ASSUME NEW s \in X PROVE nextOf(s) \in Seq(DigitSet)
    <2>0. Len(s) \in Nat
      OBVIOUS
    <2>1. CASE Len(s) < 10
      <3>1. Len(s) % 10 = Len(s)
        BY <2>0, <2>1, SmallRemainder
      <3>2. Digits[Len(s) + 1] \in DigitSet
        BY <2>0, <3>1, DigitsAre
      <3> QED
        BY <2>1, <3>2
    <2>2. CASE ~(Len(s) < 10)
      <3>1. (Len(s) \div 10) + 1 \in 1..Len(s)
        BY <2>0, <2>2
      <3>2. s[(Len(s) \div 10) + 1] \in Seq(DigitSet)
        BY <3>1
      <3>3. Digits[(Len(s) % 10) + 1] \in DigitSet
        BY <2>0, DigitsAre
      <3>4. Append(s[(Len(s) \div 10) + 1], Digits[(Len(s) % 10) + 1]) \in Seq(DigitSet)
        BY <3>2, <3>3, AppendProperties
      <3> QED
        BY <2>2, <3>4
    <2> QED
      BY <2>1, <2>2
  <1>2. next \in [X -> X] /\ <<>> \in X
    <2>1. ASSUME NEW s \in X PROVE Append(s, nextOf(s)) \in X
      <3>1. PICK e \in Seq(DigitSet) : e = nextOf(s)
        BY <1>1
      <3> QED
        BY <3>1, AppendProperties
    <2> HIDE DEF nextOf
    <2> QED
      BY <2>1
  <1> HIDE DEF next
  <1>3. PICK g : Orbit(g, X, <<>>, next)
    BY <1>2, Orbits
  <1> DEFINE f == [n \in Nat |-> g[n + 1][n + 1]]
  <1> DEFINE S == {n \in Nat : g[n] \in X /\ Len(g[n]) = n /\ \A m \in 0..(n - 1) : g[n][m + 1] = g[m + 1][m + 1]}
  <1>4. 0 \in S
    BY <1>3 DEF Orbit
  <1>5. ASSUME NEW n \in Nat, n \in S
        PROVE  n + 1 \in S /\ g[n + 1][n + 1] = nextOf(g[n])
    <2>1. g[n] \in X /\ Len(g[n]) = n
      BY <1>5
    <2>2. PICK e \in Seq(DigitSet) : e = nextOf(g[n])
      BY <2>1, <1>1
    <2> HIDE DEF nextOf
    <2>3. g[n + 1] = Append(g[n], e)
      BY <1>3, <2>1, <2>2 DEF Orbit, next
    <2>4. Append(g[n], e) \in X /\ Len(Append(g[n], e)) = n + 1 /\ Append(g[n], e)[n + 1] = e
          /\ \A i \in 1..n : Append(g[n], e)[i] = g[n][i]
      BY <2>1, AppendProperties
    <2>5. \A m \in 0..n : g[n + 1][m + 1] = g[m + 1][m + 1]
      <3>1. ASSUME NEW m \in 0..n PROVE g[n + 1][m + 1] = g[m + 1][m + 1]
        <4>1. CASE m = n
          BY <4>1
        <4>2. CASE m # n
          <5>1. m \in 0..(n - 1) /\ m + 1 \in 1..n
            BY <4>2
          <5>2. g[n][m + 1] = g[m + 1][m + 1]
            BY <1>5, <5>1
          <5> QED
            BY <2>3, <2>4, <5>1, <5>2
        <4> QED
          BY <4>1, <4>2
      <3> QED
        BY <3>1
    <2>6. n + 1 \in S
      <3>1. (n + 1) - 1 = n /\ n + 1 \in Nat
        OBVIOUS
      <3> QED
        BY <2>3, <2>4, <2>5, <3>1
    <2> QED
      BY <2>2, <2>3, <2>4, <2>6
  <1>6. \A n \in Nat : n \in S
    <2> HIDE DEF S
    <2>1. \A v \in Nat : v >= 0 /\ v \in S => v + 1 \in S
      BY <1>5
    <2> QED
      BY <1>4, <2>1, SetInduction
  <1>7. ASSUME NEW n \in Nat
        PROVE  /\ f[n] \in Seq(DigitSet)
               /\ f[n] = IF n < 10 THEN <<Digits[n + 1]>>
                         ELSE Append(f[n \div 10], Digits[(n % 10) + 1])
    <2>1. g[n] \in X /\ Len(g[n]) = n /\ g[n + 1][n + 1] = nextOf(g[n])
          /\ \A m \in 0..(n - 1) : g[n][m + 1] = g[m + 1][m + 1]
      BY <1>5, <1>6
    <2>2. f[n] = nextOf(g[n])
      BY <2>1
    <2>3. ~(n < 10) => n \div 10 \in 0..(n - 1)
      OBVIOUS
    <2>4. ~(n < 10) => g[n][(n \div 10) + 1] = f[n \div 10]
      BY <2>1, <2>3
    <2> HIDE DEF f
    <2> QED
      BY <1>1, <2>1, <2>2, <2>4
  <1> HIDE DEF f
  <1>8. f = [n \in Nat |-> IF n < 10 THEN <<Digits[n + 1]>> ELSE Append(f[n \div 10], Digits[(n % 10) + 1])]
    <2>1. \A n \in Nat : f[n] = IF n < 10 THEN <<Digits[n + 1]>> ELSE Append(f[n \div 10], Digits[(n % 10) + 1])
      BY <1>7
    <2>2. f = [n \in Nat |-> f[n]]
      BY DEF f
    <2> QED
      BY <2>1, <2>2
  <1>9. Spelling = [n \in Nat |-> IF n < 10 THEN <<Digits[n + 1]>>
                                  ELSE Append(Spelling[n \div 10], Digits[(n % 10) + 1])]
    BY <1>8, Zenon DEF Spelling
  <1> DEFINE T == {n \in Nat : \A m \in 0..n : Spelling[m] \in Seq(DigitSet)}
  <1>10. ASSUME NEW n \in Nat, \A m \in 0..(n - 1) : Spelling[m] \in Seq(DigitSet)
         PROVE  Spelling[n] \in Seq(DigitSet)
    <2>1. Spelling[n] = IF n < 10 THEN <<Digits[n + 1]>>
                        ELSE Append(Spelling[n \div 10], Digits[(n % 10) + 1])
      BY <1>9
    <2>2. Digits[(n % 10) + 1] \in DigitSet
      BY DigitsAre
    <2>3. CASE n < 10
      <3>1. n % 10 = n
        BY <2>3, SmallRemainder
      <3> QED
        BY <2>1, <2>2, <2>3, <3>1
    <2>4. CASE ~(n < 10)
      <3>1. n \div 10 \in 0..(n - 1)
        BY <2>4
      <3>2. Append(Spelling[n \div 10], Digits[(n % 10) + 1]) \in Seq(DigitSet)
        BY <1>10, <2>2, <3>1, AppendProperties
      <3> QED
        BY <2>1, <2>4, <3>2
    <2> QED
      BY <2>3, <2>4
  <1>11. \A n \in Nat : n \in T
    <2>1. 0 \in T
      BY <1>10
    <2>2. \A v \in Nat : v >= 0 /\ v \in T => v + 1 \in T
      <3>1. ASSUME NEW v \in Nat, v \in T PROVE v + 1 \in T
        <4>1. \A m \in 0..((v + 1) - 1) : Spelling[m] \in Seq(DigitSet)
          BY <3>1
        <4>2. Spelling[v + 1] \in Seq(DigitSet)
          BY <1>10, <4>1
        <4> QED
          BY <4>1, <4>2
      <3> QED
        BY <3>1
    <2> HIDE DEF T
    <2> QED
      BY <2>1, <2>2, SetInduction
  <1>12. \A n \in Nat : Spelling[n] \in Seq(DigitSet)
    BY <1>11
  <1>13. \A n \in Nat : Spelling[n] = IF n < 10 THEN <<Digits[n + 1]>>
                                     ELSE Append(Spelling[n \div 10], Digits[(n % 10) + 1])
    BY <1>9
  <1> QED
    BY <1>12, <1>13, Zenon

LEMMA Appended ==
  ASSUME NEW S, NEW s \in Seq(S), NEW e \in S
  PROVE  /\ Append(s, e) \in Seq(S) /\ Len(Append(s, e)) = Len(s) + 1
         /\ Append(s, e)[Len(s) + 1] = e /\ \A i \in 1..Len(s) : Append(s, e)[i] = s[i]
  BY AppendProperties

LEMMA NameGrows ==
  ASSUME NEW s, CName(s), NEW e \in NameTokens
  PROVE  CName(Append(s, e))
  <1>1. s \in Seq(NameTokens) /\ Len(s) \in Nat /\ Len(s) > 0
    BY DEF CName
  <1> QED
    BY <1>1, AppendProperties DEF CName

\* sanitize, one character at a time.
SanitizeNext(r, c, s) ==
  IF r[c] \in IdentifierSet THEN Append(s, r[c])
  ELSE IF c > 1 /\ ~(r[c - 1] \in IdentifierSet) THEN s
  ELSE Append(s, "_")

SanitizeStep(r, f) ==
  f = [c \in 0..Len(r) |-> IF c = 0 THEN <<"OXI_">> ELSE SanitizeNext(r, c, f[c - 1])]

LEMMA Sanitized ==
  ASSUME NEW r, Len(r) \in Nat
  PROVE  CName(sanitize(r))
  <1> DEFINE X == {s \in Seq(NameTokens) : CName(s)}
             next == [p \in (1..Len(r)) \X X |-> SanitizeNext(r, p[1], p[2])]
             out == CHOOSE f : SanitizeStep(r, f)
  <1>1. <<"OXI_">> \in X
    <2>1. <<"OXI_">> \in Seq(NameTokens)
      BY DEF NameTokens
    <2> QED
      BY <2>1 DEF CName
  <1>2. ASSUME NEW c \in 1..Len(r), NEW s \in X PROVE SanitizeNext(r, c, s) \in X
    <2>1. \A e \in NameTokens : Append(s, e) \in X
      BY NameGrows DEF CName
    <2>2. IdentifierSet \subseteq NameTokens /\ "_" \in NameTokens
      BY DEF NameTokens
    <2> QED
      BY <2>1, <2>2 DEF SanitizeNext
  <1>3. next \in Successors(X, Len(r))
    <2> HIDE DEF X
    <2> QED
      BY <1>2 DEF Successors
  <1> HIDE DEF next
  <1>4. PICK g : Chain(g, X, <<"OXI_">>, Len(r), next)
    BY <1>1, <1>3, Iterates
  <1>5. g \in [0..Len(r) -> X] /\ g[0] = <<"OXI_">>
        /\ \A c \in 1..Len(r) : g[c] = SanitizeNext(r, c, g[c - 1])
    <2>1. ASSUME NEW c \in 1..Len(r) PROVE g[c] = SanitizeNext(r, c, g[c - 1])
      <3>1. g[c - 1] \in X /\ g[c] = next[<<c, g[c - 1]>>]
        <4>1. c - 1 \in 0..Len(r)
          OBVIOUS
        <4> HIDE DEF X
        <4> QED
          BY <1>4, <4>1 DEF Chain
      <3> HIDE DEF X
      <3> QED
        BY <3>1 DEF next
    <2> QED
      BY <1>4, <2>1 DEF Chain
  <1>6. SanitizeStep(r, g)
    <2>1. \A c \in 0..Len(r) : c = 0 \/ c \in 1..Len(r)
      OBVIOUS
    <2>2. g = [c \in 0..Len(r) |-> g[c]]
      BY <1>5
    <2>3. \A c \in 0..Len(r) : g[c] = IF c = 0 THEN <<"OXI_">> ELSE SanitizeNext(r, c, g[c - 1])
      BY <1>5, <2>1
    <2> HIDE DEF X
    <2> QED
      BY <2>2, <2>3 DEF SanitizeStep
  <1>7. SanitizeStep(r, out)
    <2> HIDE DEF SanitizeStep, X
    <2> QED
      BY <1>6
  <1>8. \A c \in 0..Len(r) : out[c] \in X
    <2> DEFINE S == {c \in Nat : c <= Len(r) => out[c] \in X}
    <2> HIDE DEF out
    <2>0. out[0] = <<"OXI_">> /\ \A c \in 1..Len(r) : out[c] = SanitizeNext(r, c, out[c - 1])
      <3> HIDE DEF X
      <3> QED
        BY <1>7 DEF SanitizeStep
    <2>1. 0 \in S
      BY <1>1, <2>0
    <2>2. ASSUME NEW c \in Nat, c \in S PROVE c + 1 \in S
      <3>1. CASE c + 1 <= Len(r)
        <4>1. c + 1 \in 1..Len(r) /\ (c + 1) - 1 = c /\ out[c] \in X
          BY <2>2, <3>1
        <4> HIDE DEF X
        <4> QED
          BY <1>2, <2>0, <4>1
      <3> QED
        BY <3>1
    <2> HIDE DEF S
    <2>3. \A c \in Nat : c >= 0 => c \in S
      BY <2>1, <2>2, SetInduction
    <2> QED
      BY <2>3 DEF S
  <1>9. sanitize(r) = IF Len(out[Len(r)]) > NameLimit + 1 THEN SubSeq(out[Len(r)], 1, NameLimit + 1)
                      ELSE out[Len(r)]
    BY Zenon DEF sanitize, SanitizeStep, SanitizeNext
  <1>10. PICK s \in X : s = out[Len(r)]
    <2> HIDE DEF X, out
    <2> QED
      BY <1>8
  <1>11. CName(SubSeq(s, 1, NameLimit + 1)) \/ Len(s) <= NameLimit + 1
    <2>0. s \in Seq(NameTokens) /\ Len(s) \in Nat /\ NameLimit + 1 \in Nat /\ NameLimit + 1 > 0 /\ s[1] = "OXI_"
      BY PrototypesAssumption DEF CName
    <2>1. CASE NameLimit + 1 <= Len(s)
      <3>1. \A i \in 1..(NameLimit + 1) : s[i] \in NameTokens
        BY <2>0, <2>1
      <3>2. /\ SubSeq(s, 1, NameLimit + 1) \in Seq(NameTokens)
            /\ Len(SubSeq(s, 1, NameLimit + 1)) = NameLimit + 1
            /\ SubSeq(s, 1, NameLimit + 1)[1] = s[1]
        BY <2>0, <3>1, SubSeqProperties
      <3> QED
        BY <2>0, <3>2 DEF CName
    <2> QED
      BY <2>0, <2>1
  <1> HIDE DEF X, out
  <1> QED
    <2>1. s \in Seq(NameTokens) /\ Len(s) \in Nat /\ CName(s)
      BY DEF X
    <2> QED
      BY <1>9, <1>10, <1>11, <2>1, PrototypesAssumption

LEMMA CandidateNamed ==
  ASSUME NEW s, CName(s), NEW n \in Nat
  PROVE  CName(Candidate(s, n))
  <1>1. s \in Seq(NameTokens) /\ Len(s) \in Nat /\ Len(s) > 0 /\ s[1] = "OXI_"
    BY DEF CName
  <1>2. PICK u \in Seq(NameTokens) : u = Spelling[n]
    <2>1. Spelling[n] \in Seq(DigitSet) /\ DigitSet \subseteq NameTokens
      BY SpellingIs, TokenSets
    <2> QED
      BY <2>1, SeqMonotonic
  <1>3. PICK e \in NameTokens : e = "_"
    BY DEF NameTokens
  <1>4. PICK t \in Seq(NameTokens) : t = s \o <<e>> /\ Len(t) = Len(s) + 1 /\ t[1] = s[1]
    <2>1. Append(s, e) = s \o <<e>>
      BY <1>1, AppendIsConcat
    <2>2. Append(s, e) \in Seq(NameTokens) /\ Len(Append(s, e)) = Len(s) + 1 /\ Append(s, e)[1] = s[1]
      BY <1>1, AppendProperties
    <2> QED
      BY <2>1, <2>2
  <1>5. t \o u \in Seq(NameTokens) /\ Len(t \o u) = Len(t) + Len(u) /\ (t \o u)[1] = t[1]
    <2>1. Len(t) \in Nat /\ Len(u) \in Nat /\ 1 \in 1..(Len(t) + Len(u)) /\ 1 <= Len(t)
      BY <1>1, <1>4
    <2> QED
      BY <2>1, ConcatProperties
  <1>6. CName(t \o u)
    <2>1. Len(t \o u) > 0
      BY <1>1, <1>4, <1>5
    <2> QED
      BY <1>1, <1>4, <1>5, <2>1 DEF CName
  <1> QED
    BY <1>2, <1>3, <1>4, <1>6 DEF Candidate

-----------------------------------------------------------------------------
\* What type_token computes, with the C names as a parameter.
BaseIn(nm, a) ==
  CASE a.kind = "signed" -> int_token(a.n, "signed")
    [] a.kind = "int" -> int_token(a.n, "unsigned")
    [] a.kind = "type" -> nm[a.n]
    [] a.kind = "slice" -> <<"Oxidizer_Slice">>
    [] OTHER -> <<"void", "*">>

Wrap(a, w, t) ==
  IF a.wraps[w] = "pointer" /\ \E c \in 1..Len(t) : t[c] = "*" THEN <<"void", "*">> ELSE Append(t, "*")

\* The tokens of a from its base outwards, as type_token computes them.
TokenStep(nm, a, f) ==
  f = [w \in 1..(Len(a.wraps) + 1) |-> IF w > Len(a.wraps) THEN BaseIn(nm, a) ELSE Wrap(a, w, f[w + 1])]

TokenIn(nm, a) == (CHOOSE f : TokenStep(nm, a, f))[1]

\* What a token is made of: void stands for nothing without a star.
Token == {t \in Seq(Inner) : t # <<>> /\ (t[1] = "void" => Len(t) >= 2)}

LEMMA Starring ==
  ASSUME NEW t \in Token
  PROVE  /\ Append(t, "*") \in Token /\ Append(t, "*")[1] = t[1] /\ Len(Append(t, "*")) = Len(t) + 1
         /\ Append(t, "*")[Len(t) + 1] = "*" /\ Append(t, "*")[Len(t)] = t[Len(t)]
  <1>1. t \in Seq(Inner) /\ Len(t) \in Nat /\ Len(t) >= 1 /\ "*" \in Inner
    BY DEF Token, Inner
  <1>2. PICK e \in Inner : e = "*"
    BY <1>1
  <1>3. /\ Append(t, e) \in Seq(Inner) /\ Len(Append(t, e)) = Len(t) + 1 /\ Append(t, e)[Len(t) + 1] = e
        /\ \A i \in 1..Len(t) : Append(t, e)[i] = t[i]
    BY <1>1, Appended
  <1>4. Append(t, e) # <<>> /\ (Append(t, e)[1] = "void" => Len(Append(t, e)) >= 2)
    BY <1>1, <1>3
  <1>5. 1 \in 1..Len(t) /\ Len(t) \in 1..Len(t)
    BY <1>1
  <1> QED
    BY <1>2, <1>3, <1>4, <1>5 DEF Token

LEMMA VoidPointer == <<"void", "*">> \in Token /\ <<"void", "*">>[1] = "void" /\ "void" # "OXI_"
  <1>1. "void" \in Inner /\ "*" \in Inner
    BY DEF Inner
  <1>2. <<"void", "*">> \in Seq(Inner) /\ Len(<<"void", "*">>) = 2
    BY <1>1
  <1> QED
    BY <1>2 DEF Token

LEMMA NameIsToken == ASSUME NEW s, CName(s) PROVE s \in Token
  <1>1. s \in Seq(NameTokens) /\ s # <<>> /\ s[1] = "OXI_"
    BY DEF CName
  <1>2. s \in Seq(Inner)
    <2>1. NameTokens \subseteq Inner
      BY DEF Inner
    <2> QED
      BY <1>1, <2>1, SeqMonotonic
  <1> QED
    BY <1>1, <1>2 DEF Token

LEMMA IntToken ==
  ASSUME NEW size \in Nat, NEW sign \in {"signed", "unsigned"}
  PROVE  int_token(size, sign) \in Token /\ int_token(size, sign)[1] = sign
  <1> DEFINE bits == IF size \in {1, 2, 4, 8, 16} THEN 8 * size ELSE 8
  <1>1. bits \in Nat
    OBVIOUS
  <1>2. PICK u \in Seq(Inner) : u = Spelling[bits]
    <2>1. Spelling[bits] \in Seq(DigitSet) /\ DigitSet \subseteq Inner
      BY <1>1, SpellingIs, TokenSets DEF Inner
    <2> QED
      BY <2>1, SeqMonotonic
  <1>3. sign \in Inner /\ "__int" \in Inner
    BY DEF Inner
  <1>4. PICK t \in Seq(Inner) : t = <<sign, "__int">> /\ Len(t) = 2 /\ t[1] = sign
    <2>1. ASSUME NEW x \in Inner, NEW y \in Inner
          PROVE  <<x, y>> \in Seq(Inner) /\ Len(<<x, y>>) = 2 /\ <<x, y>>[1] = x
      OBVIOUS
    <2> QED
      BY <1>3, <2>1
  <1>5. t \o u \in Seq(Inner) /\ Len(t \o u) = Len(t) + Len(u) /\ (t \o u)[1] = t[1]
    <2>1. Len(t) \in Nat /\ Len(u) \in Nat /\ 1 \in 1..(Len(t) + Len(u)) /\ 1 <= Len(t)
      BY <1>4
    <2> QED
      BY <2>1, ConcatProperties
  <1>6. t \o u # <<>> /\ t[1] # "void"
    BY <1>4, <1>5
  <1>7. int_token(size, sign) = t \o u
    BY <1>2, <1>4 DEF int_token
  <1> QED
    BY <1>4, <1>5, <1>6, <1>7 DEF Token

LEMMA BaseIs ==
  ASSUME NEW nm, NEW a \in Argument, a.kind = "type" => CName(nm[a.n])
  PROVE  /\ BaseIn(nm, a) \in Token
         /\ a.kind = "type" => BaseIn(nm, a) = nm[a.n]
         /\ a.kind # "type" => BaseIn(nm, a)[1] # "OXI_"
  <1>1. a.n \in Nat /\ a.kind \in {"int", "signed", "type", "bottom", "slice", "unknown"}
    BY DEF Argument
  <1>2. CASE a.kind = "signed"
    <2>1. BaseIn(nm, a) = int_token(a.n, "signed")
      BY <1>2 DEF BaseIn
    <2> QED
      BY <1>1, <1>2, <2>1, IntToken
  <1>3. CASE a.kind = "int"
    <2>1. BaseIn(nm, a) = int_token(a.n, "unsigned")
      BY <1>3 DEF BaseIn
    <2> QED
      BY <1>1, <1>3, <2>1, IntToken
  <1>4. CASE a.kind = "type"
    <2>1. BaseIn(nm, a) = nm[a.n]
      BY <1>4 DEF BaseIn
    <2> QED
      BY <1>4, <2>1, NameIsToken
  <1>5. CASE a.kind = "slice"
    <2>1. BaseIn(nm, a) = <<"Oxidizer_Slice">>
      BY <1>5 DEF BaseIn
    <2>2. <<"Oxidizer_Slice">> \in Token /\ <<"Oxidizer_Slice">>[1] # "OXI_"
      <3>1. "Oxidizer_Slice" \in Inner
        BY DEF Inner
      <3>2. <<"Oxidizer_Slice">> \in Seq(Inner) /\ Len(<<"Oxidizer_Slice">>) = 1
        BY <3>1
      <3> QED
        BY <3>2 DEF Token
    <2> QED
      BY <1>5, <2>1, <2>2
  <1>6. CASE a.kind \in {"bottom", "unknown"}
    <2>1. BaseIn(nm, a) = <<"void", "*">>
      BY <1>6 DEF BaseIn
    <2> QED
      BY <1>6, <2>1, VoidPointer
  <1> QED
    BY <1>1, <1>2, <1>3, <1>4, <1>5, <1>6

\* What is left to see of an argument once it is behind the wraps from w on.
Looks(nm, a, w, t) ==
  /\ t \in Token
  /\ a.kind # "type" => t[1] # "OXI_"
  /\ a.kind = "type" /\ w = Len(a.wraps) + 1 => t = nm[a.n]
  /\ a.kind = "type" /\ w = Len(a.wraps) => t = Append(nm[a.n], "*")
  /\ a.kind = "type" /\ w < Len(a.wraps) =>
       t[1] # "OXI_" \/ (Len(t) >= 2 /\ t[Len(t)] = "*" /\ t[Len(t) - 1] = "*")

LEMMA WrapLooks ==
  ASSUME NEW nm, NEW a \in Argument, a.kind = "type" => CName(nm[a.n]),
         NEW w \in 1..Len(a.wraps), NEW t, Looks(nm, a, w + 1, t)
  PROVE  Looks(nm, a, w, Wrap(a, w, t))
  <1>0. Len(a.wraps) \in Nat /\ t \in Token /\ t \in Seq(Inner) /\ Len(t) \in Nat /\ Len(t) >= 1
    BY DEF Argument, Looks, Token
  <1>1. CASE a.wraps[w] = "pointer" /\ \E c \in 1..Len(t) : t[c] = "*"
    <2>1. Wrap(a, w, t) = <<"void", "*">>
      BY <1>1 DEF Wrap
    <2>2. ~(a.kind = "type" /\ w = Len(a.wraps))
      <3>1. SUFFICES ASSUME a.kind = "type", w = Len(a.wraps) PROVE FALSE
        OBVIOUS
      <3>2. t = nm[a.n] /\ t \in Seq(NameTokens)
        BY <3>1 DEF Looks, CName
      <3>3. PICK c \in 1..Len(t) : t[c] = "*"
        BY <1>1
      <3>4. t[c] \in NameTokens
        BY <3>2
      <3> QED
        BY <3>3, <3>4, TokenSets
    <2> QED
      BY <1>0, <2>1, <2>2, VoidPointer DEF Looks
  <1>2. CASE ~(a.wraps[w] = "pointer" /\ \E c \in 1..Len(t) : t[c] = "*")
    <2>1. Wrap(a, w, t) = Append(t, "*")
      BY <1>2 DEF Wrap
    <2>2. PICK u \in Token : u = Append(t, "*") /\ u[1] = t[1] /\ Len(u) = Len(t) + 1
                             /\ u[Len(t) + 1] = "*" /\ u[Len(t)] = t[Len(t)]
      BY <1>0, Starring
    <2>3. ASSUME a.kind = "type", w < Len(a.wraps)
          PROVE  u[1] # "OXI_" \/ (Len(u) >= 2 /\ u[Len(u)] = "*" /\ u[Len(u) - 1] = "*")
      <3>1. CASE w + 1 = Len(a.wraps)
        <4>1. t = Append(nm[a.n], "*") /\ nm[a.n] \in Token
          BY <2>3, <3>1, NameIsToken DEF Looks
        <4>2. t[Len(t)] = "*"
          BY <4>1, Starring
        <4> QED
          BY <1>0, <2>2, <4>2
      <3>2. CASE w + 1 < Len(a.wraps)
        <4>1. t[1] # "OXI_" \/ t[Len(t)] = "*"
          BY <2>3, <3>2 DEF Looks
        <4> QED
          BY <1>0, <2>2, <4>1
      <3> QED
        BY <1>0, <2>3, <3>1, <3>2
    <2>4. a.kind # "type" => u[1] # "OXI_"
      BY <2>2 DEF Looks
    <2>5. a.kind = "type" /\ w = Len(a.wraps) => u = Append(nm[a.n], "*")
      BY <2>2 DEF Looks
    <2> QED
      BY <1>0, <2>1, <2>2, <2>3, <2>4, <2>5 DEF Looks
  <1> QED
    BY <1>1, <1>2

LEMMA TokenLooks ==
  ASSUME NEW nm, NEW a \in Argument, a.kind = "type" => CName(nm[a.n])
  PROVE  Looks(nm, a, 1, TokenIn(nm, a))
  <1> DEFINE L == Len(a.wraps)
             next == [p \in (1..L) \X Token |-> Wrap(a, L + 1 - p[1], p[2])]
             token == CHOOSE f : TokenStep(nm, a, f)
  <1>0. L \in Nat /\ BaseIn(nm, a) \in Token
    BY BaseIs DEF Argument
  <1> HIDE DEF L
  <1>1. next \in Successors(Token, L)
    <2>1. ASSUME NEW v \in 1..L, NEW t \in Token PROVE Wrap(a, L + 1 - v, t) \in Token
      BY Starring, VoidPointer DEF Wrap
    <2> QED
      BY <2>1 DEF Successors
  <1>2. PICK g : Chain(g, Token, BaseIn(nm, a), L, next)
    <2> HIDE DEF next
    <2> QED
      BY <1>0, <1>1, Iterates
  <1>3. \E f : TokenStep(nm, a, f)
    <2> DEFINE f == [w \in 1..(L + 1) |-> g[L + 1 - w]]
    <2>1. ASSUME NEW w \in 1..(L + 1)
          PROVE  f[w] = IF w > L THEN BaseIn(nm, a) ELSE Wrap(a, w, f[w + 1])
      <3>1. CASE w > L
        <4>1. L + 1 - w = 0
          BY <1>0, <3>1
        <4> QED
          BY <1>2, <3>1, <4>1 DEF Chain
      <3>2. CASE ~(w > L)
        <4> DEFINE m == L + 1 - w
        <4>1. m \in 1..L /\ m - 1 = L + 1 - (w + 1) /\ w + 1 \in 1..(L + 1) /\ m - 1 \in 0..L /\ L + 1 - m = w
          BY <1>0, <3>2
        <4>2. f[w] = g[m] /\ f[w + 1] = g[m - 1]
          BY <4>1
        <4> HIDE DEF f, m
        <4>3. g[m - 1] \in Token /\ g[m] = next[<<m, g[m - 1]>>]
          BY <1>2, <4>1 DEF Chain
        <4>4. next[<<m, g[m - 1]>>] = Wrap(a, L + 1 - m, g[m - 1])
          BY <4>1, <4>3
        <4> QED
          BY <3>2, <4>1, <4>2, <4>3, <4>4
      <3> QED
        BY <3>1, <3>2
    <2>2. f = [w \in 1..(L + 1) |-> f[w]]
      OBVIOUS
    <2> HIDE DEF f
    <2>3. f = [w \in 1..(L + 1) |-> IF w > L THEN BaseIn(nm, a) ELSE Wrap(a, w, f[w + 1])]
      BY <2>1, <2>2, Zenon
    <2> QED
      BY <2>3 DEF TokenStep, L
  <1>4. TokenStep(nm, a, token)
    <2> HIDE DEF TokenStep
    <2> QED
      BY <1>3
  <1> HIDE DEF token, next
  <1>5. \A w \in 1..(L + 1) : token[w] = IF w > L THEN BaseIn(nm, a) ELSE Wrap(a, w, token[w + 1])
    BY <1>4 DEF TokenStep, L
  <1> DEFINE S == {v \in Nat : v <= L => Looks(nm, a, L + 1 - v, token[L + 1 - v])}
  <1>6. 0 \in S
    <2>1. L + 1 - 0 = L + 1 /\ L + 1 \in 1..(L + 1) /\ L + 1 > L
      BY <1>0
    <2>2. token[L + 1] = BaseIn(nm, a)
      BY <1>5, <2>1
    <2>3. Looks(nm, a, L + 1, BaseIn(nm, a))
      BY <1>0, BaseIs DEF Looks, L
    <2> QED
      BY <2>1, <2>2, <2>3
  <1>7. ASSUME NEW v \in Nat, v \in S PROVE v + 1 \in S
    <2>1. CASE v + 1 <= L
      <3> DEFINE w == L + 1 - (v + 1)
      <3>1. w \in 1..L /\ w \in 1..(L + 1) /\ ~(w > L) /\ w + 1 = L + 1 - v /\ v <= L
        BY <1>0, <2>1
      <3> HIDE DEF w
      <3>2. token[w] = Wrap(a, w, token[w + 1])
        BY <1>5, <3>1
      <3>3. Looks(nm, a, w + 1, token[w + 1])
        BY <1>7, <3>1
      <3>4. Looks(nm, a, w, token[w])
        BY <3>1, <3>2, <3>3, WrapLooks DEF L
      <3> QED
        BY <3>4 DEF w
    <2> QED
      BY <2>1
  <1>8. \A v \in Nat : v >= 0 => v \in S
    <2> HIDE DEF S
    <2> QED
      BY <1>6, <1>7, SetInduction
  <1>9. L \in S /\ L + 1 - L = 1
    BY <1>0, <1>8
  <1> QED
    BY <1>0, <1>9 DEF TokenIn, token

\* What a token says of an argument: the aggregate, by itself or by reference.
Seen(a) == IF a.kind = "type" /\ Len(a.wraps) <= 1 THEN <<a.n, a.wraps # <<>> >> ELSE <<>>

\* The tokens of a named type begin with its C name, and one star at most follows.
LEMMA NamedShape ==
  ASSUME NEW nm, NEW a \in Argument, a.kind = "type", CName(nm[a.n]), Len(a.wraps) <= 1
  PROVE  LET t == TokenIn(nm, a)
         IN  /\ t[1] = "OXI_"
             /\ IF a.wraps = <<>> THEN t = nm[a.n] /\ t[Len(t)] # "*"
                ELSE t = Append(nm[a.n], "*") /\ t[Len(t)] = "*" /\ t[Len(t) - 1] # "*"
  <1> DEFINE t == TokenIn(nm, a)
  <1>1. Looks(nm, a, 1, t) /\ a.wraps \in Seq({"pointer", "array"})
    BY TokenLooks DEF Argument
  <1> HIDE DEF t
  <1>2. PICK s \in Token : s = nm[a.n] /\ s \in Seq(NameTokens) /\ s[1] = "OXI_" /\ Len(s) \in Nat /\ Len(s) >= 1
    BY NameIsToken DEF CName
  <1>3. \A i \in 1..Len(s) : s[i] # "*"
    <2>1. \A i \in 1..Len(s) : s[i] \in NameTokens
      BY <1>2
    <2> QED
      BY <2>1, TokenSets
  <1>4. CASE a.wraps = <<>>
    <2>1. t = s
      BY <1>1, <1>2, <1>4 DEF Looks
    <2>2. Len(s) \in 1..Len(s)
      BY <1>2
    <2> QED
      BY <1>2, <1>3, <1>4, <2>1, <2>2 DEF t
  <1>5. CASE a.wraps # <<>>
    <2>1. Len(a.wraps) = 1
      <3>1. PICK n \in Nat : n = Len(a.wraps)
        BY <1>1
      <3>2. n # 0 /\ n <= 1
        BY <1>1, <1>5, <3>1, EmptySeq
      <3>3. n = 1
        BY <3>2
      <3> QED
        BY <3>1, <3>3, Zenon
    <2>2. t = Append(s, "*")
      BY <1>1, <1>2, <2>1 DEF Looks
    <2>3. t[1] = s[1] /\ Len(t) = Len(s) + 1 /\ t[Len(s) + 1] = "*" /\ t[Len(s)] = s[Len(s)]
      BY <1>2, <2>2, Starring
    <2>4. Len(t) - 1 = Len(s) /\ Len(s) \in 1..Len(s)
      BY <1>2, <2>3
    <2> QED
      BY <1>2, <1>3, <1>5, <2>2, <2>3, <2>4 DEF t
  <1> QED
    BY <1>4, <1>5

LEMMA OtherShape ==
  ASSUME NEW nm, NEW a \in Argument, a.kind = "type" => CName(nm[a.n]),
         ~(a.kind = "type" /\ Len(a.wraps) <= 1)
  PROVE  LET t == TokenIn(nm, a) IN t[1] # "OXI_" \/ (t[Len(t)] = "*" /\ t[Len(t) - 1] = "*")
  <1>1. Looks(nm, a, 1, TokenIn(nm, a)) /\ Len(a.wraps) \in Nat
    BY TokenLooks DEF Argument
  <1>2. a.kind # "type" \/ 1 < Len(a.wraps)
    BY <1>1
  <1> QED
    BY <1>1, <1>2 DEF Looks

\* Arguments that have one token are seen alike.
LEMMA SameSeen ==
  ASSUME NEW nm, NEW a \in Argument, NEW b \in Argument,
         a.kind = "type" => CName(nm[a.n]), b.kind = "type" => CName(nm[b.n]),
         a.kind = "type" /\ b.kind = "type" /\ nm[a.n] = nm[b.n] => a.n = b.n,
         TokenIn(nm, a) = TokenIn(nm, b)
  PROVE  Seen(a) = Seen(b)
  <1> DEFINE A == a.kind = "type" /\ Len(a.wraps) <= 1
             B == b.kind = "type" /\ Len(b.wraps) <= 1
  <1>1. CASE A /\ B
    <2>1. (a.wraps = <<>>) <=> (b.wraps = <<>>)
      BY <1>1, NamedShape
    <2>2. nm[a.n] = nm[b.n]
      <3>1. CASE a.wraps = <<>>
        BY <1>1, <2>1, <3>1, NamedShape
      <3>2. CASE a.wraps # <<>>
        <4>1. Append(nm[a.n], "*") = Append(nm[b.n], "*")
          BY <1>1, <2>1, <3>2, NamedShape
        <4>2. nm[a.n] \in Seq(Inner) /\ nm[b.n] \in Seq(Inner) /\ "*" \in Inner
          BY <1>1, NameIsToken DEF Token, Inner
        <4> DEFINE u == nm[a.n]
                   v == nm[b.n]
        <4>3. u \in Seq(Inner) /\ v \in Seq(Inner) /\ Append(u, "*") = Append(v, "*")
          BY <4>1, <4>2
        <4> HIDE DEF u, v
        <4>4. u = v
          BY <4>2, <4>3, AppendInjective
        <4> QED
          BY <4>4 DEF u, v
      <3> QED
        BY <3>1, <3>2
    <2> QED
      BY <1>1, <2>1, <2>2 DEF Seen
  <1>2. CASE ~A /\ ~B
    BY <1>2 DEF Seen
  <1>3. ~(A /\ ~B)
    BY NamedShape, OtherShape
  <1>4. ~(B /\ ~A)
    BY NamedShape, OtherShape
  <1> QED
    BY <1>1, <1>2, <1>3, <1>4

-----------------------------------------------------------------------------
\* What render_prototype computes, with the C names as a parameter.
Param(j, s, t) == s \o (IF j = 1 THEN <<>> ELSE <<",">>) \o t \o <<" a">> \o Spelling[j - 1]

ParamStep(nm, args, f) ==
  f = [j \in 0..Len(args) |-> IF j = 0 THEN <<>> ELSE Param(j, f[j - 1], TokenIn(nm, args[j]))]

ParamsIn(nm, args) == CHOOSE f : ParamStep(nm, args, f)

ResultIn(nm, p) ==
  IF p.is_retbuf \/ p.ret.kind = "unknown" THEN <<"void">> ELSE TokenIn(nm, p.ret)

ArgsIn(nm, args) == IF args = <<>> THEN <<"void">> ELSE ParamsIn(nm, args)[Len(args)]

DeclIn(nm, p) == ResultIn(nm, p) \o <<" f(">> \o ArgsIn(nm, p.args) \o <<")">>

LEMMA DeclNamed == ASSUME NEW p PROVE render_prototype(p) = DeclIn(name_map, p)
  BY Zenon DEF render_prototype, DeclIn, ResultIn, ArgsIn, ParamsIn, ParamStep, Param,
               type_token, BaseToken, TokenIn, TokenStep, BaseIn, Wrap

\* A comma stands before every parameter but the first.
Sep(j) == IF j = 1 THEN 0 ELSE 1

\* t stands in x behind the first p tokens.
Part(x, p, t) == p + Len(t) <= Len(x) /\ \A i \in 1..Len(t) : x[p + i] = t[i]

LEMMA Joined ==
  ASSUME NEW S, NEW s \in Seq(S), NEW t \in Seq(S)
  PROVE  /\ s \o t \in Seq(S) /\ Len(s \o t) = Len(s) + Len(t)
         /\ Part(s \o t, 0, s) /\ Part(s \o t, Len(s), t)
  <1>1. Len(s) \in Nat /\ Len(t) \in Nat
    OBVIOUS
  <1>2. s \o t \in Seq(S) /\ Len(s \o t) = Len(s) + Len(t)
        /\ \A i \in 1..(Len(s) + Len(t)) : (s \o t)[i] = IF i <= Len(s) THEN s[i] ELSE t[i - Len(s)]
    BY ConcatProperties
  <1>3. ASSUME NEW i \in 1..Len(t) PROVE (s \o t)[Len(s) + i] = t[i]
    <2>1. Len(s) + i \in 1..(Len(s) + Len(t)) /\ ~(Len(s) + i <= Len(s)) /\ (Len(s) + i) - Len(s) = i
      BY <1>1
    <2> QED
      BY <1>2, <2>1
  <1>4. ASSUME NEW i \in 1..Len(s) PROVE (s \o t)[0 + i] = s[i]
    <2>1. i \in 1..(Len(s) + Len(t)) /\ i <= Len(s) /\ 0 + i = i
      BY <1>1
    <2> QED
      BY <1>2, <2>1
  <1>5. 0 + Len(s) <= Len(s) + Len(t)
    BY <1>1
  <1> QED
    BY <1>1, <1>2, <1>3, <1>4, <1>5 DEF Part

LEMMA PartStays ==
  ASSUME NEW S, NEW x \in Seq(S), NEW z \in Seq(S), NEW t \in Seq(S), NEW p \in Nat, Part(x, p, t)
  PROVE  Part(x \o z, p, t)
  <1>1. PICK nx \in Nat, nz \in Nat, nt \in Nat : nx = Len(x) /\ nz = Len(z) /\ nt = Len(t)
    OBVIOUS
  <1>2. Len(x \o z) = nx + nz /\ \A i \in 1..nx : (x \o z)[0 + i] = x[i]
    BY <1>1, Joined DEF Part
  <1>3. p + nt <= nx /\ \A i \in 1..nt : x[p + i] = t[i]
    BY <1>1 DEF Part
  <1>4. ASSUME NEW i \in 1..nt PROVE (x \o z)[p + i] = t[i]
    <2>1. p + i \in 1..nx /\ 0 + (p + i) = p + i
      BY <1>3
    <2> QED
      BY <1>2, <1>3, <2>1
  <1>5. p + nt <= nx + nz
    BY <1>3
  <1> QED
    BY <1>1, <1>2, <1>4, <1>5 DEF Part

LEMMA Single == ASSUME NEW S, NEW e \in S PROVE <<e>> \in Seq(S) /\ Len(<<e>>) = 1 /\ <<e>>[1] = e
  OBVIOUS

\* Where the parts of a parameter stand.
LEMMA ParamIs ==
  ASSUME NEW j \in Nat \ {0}, NEW s \in Seq(Tokens), NEW t \in Token
  PROVE  LET x == Param(j, s, t)
             b == Len(s) + Sep(j)
         IN  /\ x \in Seq(Tokens) /\ Len(x) = b + Len(t) + 1 + Len(Spelling[j - 1])
             /\ Part(x, 0, s) /\ (j # 1 => Part(x, Len(s), <<",">>))
             /\ Part(x, b, t) /\ Part(x, b + Len(t), <<" a">>)
  <1> DEFINE c == IF j = 1 THEN <<>> ELSE <<",">>
             a == <<" a">>
             u == Spelling[j - 1]
  <1>1. c \in Seq(Tokens) /\ Len(c) = Sep(j) /\ (j # 1 => c = <<",">>)
    <2>1. "," \in Tokens
      BY DEF Tokens, Marks
    <2>2. <<",">> \in Seq(Tokens) /\ Len(<<",">>) = 1
      BY <2>1, Single
    <2>3. <<>> \in Seq(Tokens) /\ Len(<<>>) = 0
      BY EmptySeq
    <2>4. CASE j = 1
      BY <2>3, <2>4 DEF Sep
    <2>5. CASE j # 1
      BY <2>2, <2>5 DEF Sep
    <2> QED
      BY <2>4, <2>5
  <1>2. a \in Seq(Tokens) /\ Len(a) = 1
    <2>1. " a" \in Tokens
      BY DEF Tokens, Marks
    <2> QED
      BY <2>1, Single
  <1>3. u \in Seq(Tokens)
    <2>1. Spelling[j - 1] \in Seq(DigitSet)
      <3>1. j - 1 \in Nat
        OBVIOUS
      <3> QED
        BY <3>1, SpellingIs
    <2>2. DigitSet \subseteq Tokens
      BY TokenSets DEF Tokens, Inner
    <2> QED
      BY <2>1, <2>2, SeqMonotonic
  <1>4. t \in Seq(Tokens)
    <2>1. t \in Seq(Inner) /\ Inner \subseteq Tokens
      BY DEF Token, Tokens
    <2> QED
      BY <2>1, SeqMonotonic
  <1> DEFINE x1 == s \o c
             x2 == x1 \o t
             x3 == x2 \o a
             x == x3 \o u
  <1>5. x = Param(j, s, t)
    BY DEF Param
  <1> HIDE DEF c, a, u
  <1>6. Len(s) \in Nat /\ Len(s) + Sep(j) \in Nat /\ Len(s) + Sep(j) + Len(t) \in Nat /\ 0 \in Nat
    <2>1. Len(s) \in Nat /\ Len(t) \in Nat /\ Sep(j) \in Nat
      BY <1>4, LenProperties DEF Sep
    <2> QED
      BY <2>1
  <1>7. x1 \in Seq(Tokens) /\ Len(x1) = Len(s) + Sep(j) /\ Part(x1, 0, s) /\ Part(x1, Len(s), c)
    BY <1>1, Joined, Zenon
  <1> HIDE DEF x1
  <1>8. x2 \in Seq(Tokens) /\ Len(x2) = Len(s) + Sep(j) + Len(t)
        /\ Part(x2, Len(s) + Sep(j), t)
    BY <1>4, <1>7, Joined, Zenon
  <1>9. Part(x2, 0, s) /\ Part(x2, Len(s), c)
    BY <1>1, <1>4, <1>6, <1>7, PartStays, Zenon
  <1> HIDE DEF x2
  <1>10. x3 \in Seq(Tokens) /\ Len(x3) = Len(s) + Sep(j) + Len(t) + 1
         /\ Part(x3, Len(s) + Sep(j) + Len(t), a)
    BY <1>2, <1>8, Joined, Zenon
  <1>11. Part(x3, 0, s) /\ Part(x3, Len(s), c) /\ Part(x3, Len(s) + Sep(j), t)
    BY <1>1, <1>2, <1>4, <1>6, <1>8, <1>9, PartStays, Zenon
  <1> HIDE DEF x3
  <1>12. x \in Seq(Tokens) /\ Len(x) = Len(s) + Sep(j) + Len(t) + 1 + Len(u)
    BY <1>3, <1>10, Joined, Zenon
  <1>13. Part(x, 0, s) /\ Part(x, Len(s), c) /\ Part(x, Len(s) + Sep(j), t)
         /\ Part(x, Len(s) + Sep(j) + Len(t), a)
    BY <1>1, <1>2, <1>3, <1>4, <1>6, <1>10, <1>11, PartStays, Zenon
  <1> QED
    BY <1>1, <1>5, <1>12, <1>13, Zenon DEF a, u

LEMMA PartOne == ASSUME NEW x, NEW p \in Nat, NEW e, Part(x, p, <<e>>) PROVE x[p + 1] = e
  <1>1. Len(<<e>>) = 1 /\ <<e>>[1] = e
    OBVIOUS
  <1>2. 1 \in 1..1
    OBVIOUS
  <1> QED
    BY <1>1, <1>2, Zenon DEF Part

LEMMA NoMarkIn == ASSUME NEW t \in Seq(Inner), NEW i \in 1..Len(t) PROVE t[i] \notin Marks
  <1>1. t[i] \in Inner
    OBVIOUS
  <1> QED
    BY <1>1, TokenSets

\* Up to the first mark there is one way to read a token.
LEMMA NotShorter ==
  ASSUME NEW x, NEW p \in Nat, NEW s \in Seq(Inner), NEW t \in Seq(Inner), NEW m \in Marks,
         Part(x, p, t), Part(x, p + Len(s), <<m>>)
  PROVE  Len(t) <= Len(s)
  <1>0. PICK ns \in Nat, nt \in Nat : ns = Len(s) /\ nt = Len(t)
    BY LenProperties
  <1> SUFFICES ASSUME ~(nt <= ns) PROVE FALSE
    BY <1>0, Zenon
  <1>1. ns + 1 \in 1..nt /\ p + ns \in Nat /\ p + (ns + 1) = (p + ns) + 1
    OBVIOUS
  <1>2. x[p + (ns + 1)] = t[ns + 1]
    BY <1>0, <1>1, Zenon DEF Part
  <1>3. x[(p + ns) + 1] = m
    BY <1>0, <1>1, PartOne, Zenon
  <1> QED
    BY <1>0, <1>1, <1>2, <1>3, NoMarkIn, Zenon

LEMMA SameToken ==
  ASSUME NEW x, NEW p \in Nat, NEW s \in Seq(Inner), NEW t \in Seq(Inner), NEW m \in Marks,
         Part(x, p, s), Part(x, p + Len(s), <<m>>), Part(x, p, t), Part(x, p + Len(t), <<m>>)
  PROVE  s = t
  <1>0. PICK ns \in Nat, nt \in Nat : ns = Len(s) /\ nt = Len(t)
    BY LenProperties
  <1>1. nt <= ns /\ ns <= nt
    BY <1>0, NotShorter, Zenon
  <1>2. ns = nt
    BY <1>1
  <1>3. \A i \in 1..ns : s[i] = t[i]
    BY <1>0, <1>2, Zenon DEF Part
  <1> QED
    BY <1>0, <1>2, <1>3, SeqEqual, Zenon

-----------------------------------------------------------------------------
\* x holds parameters of the tokens T[1], ..., T[n], which end at b[1], ..., b[n].
ReadAt(x, T, b, j) ==
  /\ b[j - 1] \in Nat /\ T[j] \in Token
  /\ b[j] = b[j - 1] + Sep(j) + Len(T[j]) + 1 + Len(Spelling[j - 1])
  /\ j # 1 => Part(x, b[j - 1], <<",">>)
  /\ Part(x, b[j - 1] + Sep(j), T[j])
  /\ Part(x, b[j - 1] + Sep(j) + Len(T[j]), <<" a">>)

Reads(x, T, n, b) ==
  /\ b[0] = 0 /\ b[n] \in Nat /\ \A j \in 1..n : ReadAt(x, T, b, j)
  /\ IF n = 0 THEN Part(x, 0, <<"void">>) /\ Part(x, 1, <<")">>) ELSE Part(x, b[n], <<")">>)

\* Two readings of a parameter that begin in one place agree on it.
LEMMA ReadSame ==
  ASSUME NEW x, NEW j \in Nat \ {0}, NEW S, NEW T, NEW a, NEW b,
         ReadAt(x, S, a, j), ReadAt(x, T, b, j), a[j - 1] = b[j - 1]
  PROVE  S[j] = T[j] /\ a[j] = b[j]
  <1> DEFINE p == a[j - 1] + Sep(j)
  <1>1. p \in Nat
    <2>1. a[j - 1] \in Nat /\ Sep(j) \in {0, 1}
      BY Zenon DEF ReadAt, Sep
    <2> QED
      BY <2>1
  <1>2. S[j] \in Seq(Inner) /\ T[j] \in Seq(Inner) /\ " a" \in Marks
    BY DEF ReadAt, Token, Marks
  <1>3. Part(x, p, S[j]) /\ Part(x, p + Len(S[j]), <<" a">>) /\ Part(x, p, T[j]) /\ Part(x, p + Len(T[j]), <<" a">>)
    BY Zenon DEF ReadAt
  <1> HIDE DEF p
  <1>4. S[j] = T[j]
    BY <1>1, <1>2, <1>3, SameToken, Zenon
  <1>5. a[j] = b[j]
    BY <1>4, Zenon DEF ReadAt
  <1> QED
    BY <1>4, <1>5

LEMMA ReadTogether ==
  ASSUME NEW x, NEW m \in Nat, NEW n \in Nat, NEW S, NEW T, NEW a, NEW b,
         Reads(x, S, m, a), Reads(x, T, n, b)
  PROVE  \A j \in Nat : j <= m /\ j <= n => a[j] = b[j] /\ (j # 0 => S[j] = T[j])
  <1> DEFINE G == {j \in Nat : j <= m /\ j <= n => a[j] = b[j] /\ (j # 0 => S[j] = T[j])}
  <1>1. 0 \in G
    BY DEF Reads
  <1>2. ASSUME NEW j \in Nat, j \in G PROVE j + 1 \in G
    <2>1. CASE j + 1 <= m /\ j + 1 <= n
      <3>1. j + 1 \in 1..m /\ j + 1 \in 1..n /\ j + 1 \in Nat \ {0} /\ (j + 1) - 1 = j /\ j <= m /\ j <= n
        BY <2>1
      <3>2. ReadAt(x, S, a, j + 1) /\ ReadAt(x, T, b, j + 1)
        BY <3>1, Zenon DEF Reads
      <3>3. a[(j + 1) - 1] = b[(j + 1) - 1]
        BY <1>2, <3>1
      <3>4. S[j + 1] = T[j + 1] /\ a[j + 1] = b[j + 1]
        BY <3>1, <3>2, <3>3, ReadSame
      <3> QED
        BY <3>4
    <2> QED
      BY <2>1
  <1> HIDE DEF G
  <1>3. \A j \in Nat : j >= 0 => j \in G
    BY <1>1, <1>2, SetInduction
  <1> QED
    BY <1>3 DEF G

\* No reading of x ends before another one.
LEMMA NotFewer ==
  ASSUME NEW x, NEW m \in Nat, NEW n \in Nat, NEW S, NEW T, NEW a, NEW b,
         Reads(x, S, m, a), Reads(x, T, n, b)
  PROVE  ~(m < n)
  <1> SUFFICES ASSUME m < n PROVE FALSE
    OBVIOUS
  <1>1. CASE m = 0
    <2>1. 1 \in 1..n /\ 1 - 1 = 0 /\ 0 \in Nat /\ 1 \in Nat /\ 1 + 1 = 2 /\ 0 + 1 = 1 /\ 0 + 0 + 1 = 1 /\ 0 + 0 + 2 = 2
      BY <1>1
    <2>2. x[1] = "void" /\ x[2] = ")"
      BY <1>1, <2>1, PartOne, Zenon DEF Reads
    <2>3. ReadAt(x, T, b, 1) /\ b[0] = 0 /\ Sep(1) = 0
      BY <2>1, Zenon DEF Reads, Sep
    <2>4. T[1] \in Token /\ Part(x, 0 + 0, T[1])
      BY <2>1, <2>3, Zenon DEF ReadAt
    <2>5. PICK t \in Token : t = T[1]
      BY <2>4
    <2>6. t \in Seq(Inner) /\ \E v \in Nat : v = Len(t) /\ v >= 1 /\ (t[1] = "void" => v >= 2)
      BY DEF Token
    <2>12. PICK v \in Nat : v = Len(t) /\ v >= 1 /\ (t[1] = "void" => v >= 2)
      BY <2>6
    <2>7. \A i \in 1..v : x[0 + 0 + i] = t[i]
      BY <2>4, <2>5, <2>12, Zenon DEF Part
    <2>8. t[1] = "void"
      BY <2>2, <2>12, <2>7
    <2>9. 2 \in 1..v
      BY <2>12, <2>8
    <2>10. t[2] = ")"
      BY <2>1, <2>2, <2>7, <2>9, Zenon
    <2>11. ")" \in Marks
      BY DEF Marks
    <2> QED
      BY <2>6, <2>12, <2>9, <2>10, <2>11, NoMarkIn, Zenon
  <1>2. CASE m # 0
    <2>1. m + 1 \in 1..n /\ (m + 1) - 1 = m /\ m <= m /\ m <= n /\ m + 1 # 1
      BY <1>2
    <2>2. a[m] = b[m] /\ a[m] \in Nat
      <3>1. \A j \in Nat : j <= m /\ j <= n => a[j] = b[j]
        BY ReadTogether
      <3>2. a[m] \in Nat
        BY DEF Reads
      <3> QED
        BY <2>1, <3>1, <3>2, Zenon
    <2>3. Part(x, a[m], <<")">>) /\ Part(x, b[m], <<",">>)
      BY <1>2, <2>1, Zenon DEF Reads, ReadAt
    <2>4. x[a[m] + 1] = ")" /\ x[a[m] + 1] = ","
      BY <2>2, <2>3, PartOne, Zenon
    <2> QED
      BY <2>4
  <1> QED
    BY <1>1, <1>2

\* There is one way to read parameters.
LEMMA ReadOnce ==
  ASSUME NEW x, NEW m \in Nat, NEW n \in Nat, NEW S, NEW T, NEW a, NEW b,
         Reads(x, S, m, a), Reads(x, T, n, b)
  PROVE  m = n /\ \A j \in 1..m : S[j] = T[j]
  <1>1. ~(m < n) /\ ~(n < m)
    BY NotFewer, Zenon
  <1>2. m = n
    BY <1>1
  <1>3. ASSUME NEW j \in 1..m PROVE S[j] = T[j]
    <2>1. j \in Nat /\ j <= m /\ j <= n /\ j # 0
      BY <1>2
    <2>2. \A i \in Nat : i <= m /\ i <= n => (i # 0 => S[i] = T[i])
      BY ReadTogether
    <2> QED
      BY <2>1, <2>2, Zenon
  <1> QED
    BY <1>2, <1>3

\* The type of a has a C name.
Named(nm, a) == a \in Argument /\ (a.kind = "type" => CName(nm[a.n]))

LEMMA PartWithin ==
  ASSUME NEW x, NEW y, NEW t, NEW p \in Nat, Len(x) \in Nat, Len(t) \in Nat, Len(y) \in Nat,
         Part(x, p, t), Part(y, 0, x)
  PROVE  Part(y, p, t)
  <1>1. PICK nx \in Nat, ny \in Nat, nt \in Nat : nx = Len(x) /\ ny = Len(y) /\ nt = Len(t)
    OBVIOUS
  <1>2. 0 + nx <= ny /\ \A i \in 1..nx : y[0 + i] = x[i]
    BY <1>1, Zenon DEF Part
  <1>3. p + nt <= nx /\ \A i \in 1..nt : x[p + i] = t[i]
    BY <1>1, Zenon DEF Part
  <1>4. ASSUME NEW i \in 1..nt PROVE y[p + i] = t[i]
    <2>1. p + i \in 1..nx /\ 0 + (p + i) = p + i
      BY <1>3
    <2> QED
      BY <1>2, <1>3, <2>1, Zenon
  <1>5. p + nt <= ny
    BY <1>2, <1>3
  <1> QED
    BY <1>1, <1>4, <1>5, Zenon DEF Part

\* The parameters that render_prototype writes can be read.
LEMMA ParamsAre ==
  ASSUME NEW nm, NEW args \in Seq(Argument), \A j \in 1..Len(args) : Named(nm, args[j])
  PROVE  LET f == ParamsIn(nm, args)
         IN  /\ \A j \in 0..Len(args) : f[j] \in Seq(Tokens)
             /\ f[0] = <<>>
             /\ \A j \in 1..Len(args) : /\ TokenIn(nm, args[j]) \in Token
                                        /\ f[j] = Param(j, f[j - 1], TokenIn(nm, args[j]))
  <1> DEFINE n == Len(args)
             X == Seq(Tokens)
             T(j) == TokenIn(nm, args[j])
             next == [p \in (1..n) \X X |-> Param(p[1], p[2], T(p[1]))]
             f == ParamsIn(nm, args)
  <1>0. n \in Nat
    OBVIOUS
  <1> HIDE DEF n
  <1>1. ASSUME NEW j \in 1..n PROVE T(j) \in Token
    <2>1. Named(nm, args[j])
      BY DEF n
    <2> QED
      BY <2>1, TokenLooks, Zenon DEF Looks, Named
  <1> HIDE DEF T
  <1>2. ASSUME NEW j \in 1..n, NEW s \in X PROVE Param(j, s, T(j)) \in X
    <2>1. j \in Nat \ {0}
      OBVIOUS
    <2> QED
      BY <1>1, <2>1, ParamIs, Zenon
  <1>3. next \in Successors(X, n)
    BY <1>2 DEF Successors
  <1> HIDE DEF next
  <1>4. PICK g : Chain(g, X, <<>>, n, next)
    <2>1. <<>> \in X
      BY EmptySeq
    <2> QED
      BY <1>0, <1>3, <2>1, Iterates
  <1>5. ASSUME NEW j \in 1..n PROVE g[j] = Param(j, g[j - 1], T(j))
    <2>1. g[j - 1] \in X /\ g[j] = next[<<j, g[j - 1]>>]
      <3>1. j - 1 \in 0..n
        BY <1>0
      <3> QED
        BY <1>4, <3>1 DEF Chain
    <2>2. next[<<j, g[j - 1]>>] = Param(j, g[j - 1], T(j))
      BY <2>1 DEF next
    <2> QED
      BY <2>1, <2>2
  <1>6. ParamStep(nm, args, g)
    <2>1. \A j \in 0..n : j = 0 \/ j \in 1..n
      BY <1>0
    <2>2. g[0] = <<>> /\ g = [j \in 0..n |-> g[j]]
      BY <1>4 DEF Chain
    <2>3. \A j \in 0..n : g[j] = IF j = 0 THEN <<>> ELSE Param(j, g[j - 1], T(j))
      BY <1>5, <2>1, <2>2
    <2> QED
      BY <2>2, <2>3, Zenon DEF ParamStep, T, n
  <1>7. ParamStep(nm, args, f)
    <2>1. \E h : ParamStep(nm, args, h)
      BY <1>6
    <2> QED
      BY <2>1, Zenon DEF ParamsIn
  <1> HIDE DEF f
  <1>8. \A j \in 0..n : f[j] = IF j = 0 THEN <<>> ELSE Param(j, f[j - 1], T(j))
    BY <1>7, Zenon DEF ParamStep, T, n
  <1>9. f[0] = <<>>
    BY <1>0, <1>8
  <1>10. ASSUME NEW j \in 1..n PROVE f[j] = Param(j, f[j - 1], T(j))
    <2>1. j \in 0..n /\ j # 0
      BY <1>0
    <2> QED
      BY <1>8, <2>1, Zenon
  <1> DEFINE G == {j \in Nat : j <= n => f[j] \in X}
  <1>11. 0 \in G
    BY <1>9, EmptySeq
  <1>12. ASSUME NEW j \in Nat, j \in G PROVE j + 1 \in G
    <2>1. CASE j + 1 <= n
      <3>1. j + 1 \in 1..n /\ j <= n /\ (j + 1) - 1 = j
        BY <1>0, <2>1
      <3>2. f[j] \in X
        BY <1>12, <3>1
      <3>3. f[j + 1] = Param(j + 1, f[j], T(j + 1))
        BY <1>10, <3>1
      <3> QED
        BY <1>2, <3>1, <3>2, <3>3
    <2> QED
      BY <2>1
  <1> HIDE DEF G
  <1>13. \A j \in Nat : j >= 0 => j \in G
    BY <1>11, <1>12, SetInduction
  <1>14. \A j \in 0..n : f[j] \in X
    BY <1>0, <1>13 DEF G
  <1> QED
    BY <1>1, <1>9, <1>10, <1>14, Zenon DEF f, n, T

LEMMA ArgsRead ==
  ASSUME NEW nm, NEW args \in Seq(Argument), \A j \in 1..Len(args) : Named(nm, args[j])
  PROVE  LET A == ArgsIn(nm, args)
         IN  /\ A \in Seq(Tokens)
             /\ \E T, b : /\ Reads(A \o <<")">>, T, Len(args), b)
                          /\ \A j \in 1..Len(args) : T[j] = TokenIn(nm, args[j])
  <1> DEFINE n == Len(args)
             f == ParamsIn(nm, args)
             T == [j \in 1..n |-> TokenIn(nm, args[j])]
             b == [j \in 0..n |-> Len(f[j])]
             A == ArgsIn(nm, args)
             y == A \o <<")">>
  <1>0. n \in Nat
    OBVIOUS
  <1>1. /\ \A j \in 0..n : f[j] \in Seq(Tokens)
        /\ f[0] = <<>>
        /\ \A j \in 1..n : TokenIn(nm, args[j]) \in Token /\ f[j] = Param(j, f[j - 1], TokenIn(nm, args[j]))
    BY ParamsAre, Zenon
  <1> HIDE DEF f
  <1>2. A = IF n = 0 THEN <<"void">> ELSE f[n]
    <2>1. args = <<>> <=> n = 0
      BY EmptySeq
    <2> QED
      BY <2>1 DEF ArgsIn, f
  <1> HIDE DEF n, A
  <1>3. \A j \in 1..n : T[j] = TokenIn(nm, args[j])
    OBVIOUS
  <1>4. \A j \in 0..n : b[j] = Len(f[j]) /\ b[j] \in Nat
    BY <1>1, LenProperties
  <1>5. <<")">> \in Seq(Tokens) /\ Len(<<")">>) = 1 /\ <<"void">> \in Seq(Tokens) /\ Len(<<"void">>) = 1
    <2>1. ")" \in Tokens /\ "void" \in Tokens
      BY DEF Tokens, Marks, Inner
    <2> QED
      BY <2>1, Single
  <1>6. A \in Seq(Tokens)
    <2>1. n # 0 => n \in 0..n
      BY <1>0
    <2> QED
      BY <1>1, <1>2, <1>5, <2>1, Zenon
  <1>7. y \in Seq(Tokens) /\ Part(y, 0, A) /\ Part(y, Len(A), <<")">>) /\ Len(y) \in Nat
    BY <1>5, <1>6, Joined, LenProperties, Zenon
  <1> HIDE DEF y, T, b
  <1>8. ASSUME NEW j \in 1..n PROVE ReadAt(f[j], T, b, j)
    <2>1. j \in Nat \ {0} /\ j - 1 \in 0..n /\ j \in 0..n
      BY <1>0
    <2>2. f[j - 1] \in Seq(Tokens) /\ T[j] \in Token /\ f[j] = Param(j, f[j - 1], T[j])
          /\ b[j - 1] = Len(f[j - 1]) /\ b[j] = Len(f[j]) /\ b[j - 1] \in Nat
      BY <1>1, <1>3, <1>4, <2>1
    <2>3. /\ Len(f[j]) = Len(f[j - 1]) + Sep(j) + Len(T[j]) + 1 + Len(Spelling[j - 1])
          /\ (j # 1 => Part(f[j], Len(f[j - 1]), <<",">>))
          /\ Part(f[j], Len(f[j - 1]) + Sep(j), T[j])
          /\ Part(f[j], Len(f[j - 1]) + Sep(j) + Len(T[j]), <<" a">>)
      BY <2>1, <2>2, ParamIs, Zenon
    <2> QED
      BY <2>2, <2>3, Zenon DEF ReadAt
  <1>9. ASSUME NEW j \in 1..n, NEW x, NEW z \in Seq(Tokens), x \in Seq(Tokens), Part(z, 0, x), ReadAt(x, T, b, j)
        PROVE  ReadAt(z, T, b, j)
    <2>1. Len(x) \in Nat /\ Len(z) \in Nat
      BY <1>9, LenProperties
    <2>2. b[j - 1] \in Nat /\ T[j] \in Token
      BY <1>9, Zenon DEF ReadAt
    <2>3. Len(T[j]) \in Nat /\ Sep(j) \in Nat /\ Len(<<",">>) \in Nat /\ Len(<<" a">>) \in Nat
      <3>1. T[j] \in Seq(Inner)
        BY <2>2 DEF Token
      <3>2. Len(T[j]) \in Nat
        BY <3>1
      <3> QED
        BY <3>2 DEF Sep
    <2>4. b[j - 1] + Sep(j) \in Nat /\ b[j - 1] + Sep(j) + Len(T[j]) \in Nat
      BY <2>2, <2>3
    <2> QED
      BY <1>9, <2>1, <2>2, <2>3, <2>4, PartWithin, Zenon DEF ReadAt
  <1>10. ASSUME NEW j \in 1..n, NEW v \in Nat, v >= j, v < n, ReadAt(f[v], T, b, j)
         PROVE  ReadAt(f[v + 1], T, b, j)
    <2>1. v \in 0..n /\ v + 1 \in 1..n /\ v + 1 \in 0..n /\ v + 1 \in Nat \ {0} /\ (v + 1) - 1 = v
      BY <1>0, <1>10
    <2>2. f[v] \in Seq(Tokens) /\ f[v + 1] \in Seq(Tokens) /\ T[v + 1] \in Token
          /\ f[v + 1] = Param(v + 1, f[v], T[v + 1])
      BY <1>1, <1>3, <2>1
    <2>3. Part(f[v + 1], 0, f[v])
      BY <2>1, <2>2, ParamIs, Zenon
    <2> QED
      BY <1>9, <1>10, <2>2, <2>3, Zenon
  <1>11. ASSUME NEW j \in 1..n PROVE ReadAt(f[n], T, b, j)
    <2> DEFINE G == {v \in Nat : v <= n => ReadAt(f[v], T, b, j)}
    <2>0. j \in Nat /\ n >= j
      BY <1>0
    <2>1. j \in G
      BY <1>8, <2>0
    <2>2. ASSUME NEW v \in Nat, v >= j, v \in G PROVE v + 1 \in G
      <3>1. CASE v + 1 <= n
        <4>1. v < n /\ v <= n
          BY <1>0, <3>1
        <4>2. ReadAt(f[v], T, b, j)
          BY <2>2, <4>1
        <4> QED
          BY <1>10, <2>2, <4>1, <4>2
      <3> QED
        BY <3>1
    <2> HIDE DEF G
    <2>3. \A v \in Nat : v >= j => v \in G
      BY <2>0, <2>1, <2>2, SetInduction
    <2> QED
      BY <1>0, <2>0, <2>3 DEF G
  <1>12. \A j \in 1..n : ReadAt(y, T, b, j)
    <2> SUFFICES ASSUME NEW j \in 1..n PROVE ReadAt(y, T, b, j)
      OBVIOUS
    <2>1. n # 0
      BY <1>0
    <2> QED
      BY <1>2, <1>6, <1>7, <1>9, <1>11, <2>1, Zenon
  <1>13. b[0] = 0 /\ b[n] \in Nat /\ 0 \in 0..n /\ n \in 0..n
    <2>1. 0 \in 0..n /\ n \in 0..n
      BY <1>0
    <2> QED
      BY <1>1, <1>4, <2>1, EmptySeq
  <1>14. IF n = 0 THEN Part(y, 0, <<"void">>) /\ Part(y, 1, <<")">>) ELSE Part(y, b[n], <<")">>)
    BY <1>2, <1>4, <1>5, <1>7, <1>13, Zenon
  <1>15. Reads(y, T, n, b)
    BY <1>12, <1>13, <1>14, Zenon DEF Reads
  <1> QED
    BY <1>3, <1>6, <1>15, Zenon DEF n, A, y

NamedProto(nm, p) ==
  /\ p.args \in Seq(Argument) /\ \A j \in 1..Len(p.args) : Named(nm, p.args[j])
  /\ Named(nm, p.ret)

LEMMA ResultTokens ==
  ASSUME NEW nm, NEW p, Named(nm, p.ret)
  PROVE  ResultIn(nm, p) \in Seq(Inner)
  <1>1. TokenIn(nm, p.ret) \in Seq(Inner)
    BY TokenLooks DEF Named, Looks, Token
  <1>2. <<"void">> \in Seq(Inner)
    <2>1. "void" \in Inner
      BY DEF Inner
    <2> QED
      BY <2>1, Single
  <1> QED
    BY <1>1, <1>2, Zenon DEF ResultIn

LEMMA DeclParts ==
  ASSUME NEW nm, NEW p, NamedProto(nm, p)
  PROVE  LET d == DeclIn(nm, p)
             R == ResultIn(nm, p)
             A == ArgsIn(nm, p.args)
         IN  /\ d \in Seq(Tokens) /\ R \in Seq(Inner) /\ R \in Seq(Tokens) /\ A \o <<")">> \in Seq(Tokens)
             /\ d = (R \o <<" f(">>) \o (A \o <<")">>) /\ R \o <<" f(">> \in Seq(Tokens)
             /\ Part(d, 0, R) /\ Part(d, 0 + Len(R), <<" f(">>)
  <1> DEFINE d == DeclIn(nm, p)
             R == ResultIn(nm, p)
             A == ArgsIn(nm, p.args)
             open == <<" f(">>
             close == <<")">>
  <1>1. R \in Seq(Inner) /\ R \in Seq(Tokens)
    <2>1. R \in Seq(Inner) /\ Inner \subseteq Tokens
      BY ResultTokens DEF NamedProto, Tokens
    <2> QED
      BY <2>1, SeqMonotonic
  <1>2. A \in Seq(Tokens)
    BY ArgsRead, Zenon DEF NamedProto
  <1>3. open \in Seq(Tokens) /\ close \in Seq(Tokens)
    <2>1. " f(" \in Tokens /\ ")" \in Tokens
      BY DEF Tokens, Marks
    <2> QED
      BY <2>1, Single
  <1>4. d = R \o open \o A \o close
    BY DEF DeclIn
  <1> HIDE DEF d, R, A, open, close
  <1>5. R \o open \in Seq(Tokens) /\ Part(R \o open, 0, R) /\ Part(R \o open, Len(R), open)
    BY <1>1, <1>3, Joined, Zenon
  <1>6. A \o close \in Seq(Tokens)
    BY <1>2, <1>3, Joined, Zenon
  <1>7. d = (R \o open) \o (A \o close)
    <2>1. PICK s \in Seq(Tokens) : s = R \o open
      BY <1>5
    <2>2. (s \o A) \o close = s \o (A \o close)
      BY <1>2, <1>3, ConcatAssociative
    <2> QED
      BY <1>4, <2>1, <2>2, Zenon
  <1>8. Len(R) \in Nat /\ 0 \in Nat
    BY <1>1, LenProperties
  <1>9. d \in Seq(Tokens) /\ Part(d, 0, R) /\ Part(d, Len(R), open)
    BY <1>1, <1>3, <1>5, <1>6, <1>7, <1>8, Joined, PartStays, Zenon
  <1>10. 0 + Len(R) = Len(R)
    BY <1>8
  <1> QED
    BY <1>1, <1>5, <1>6, <1>7, <1>9, <1>10, Zenon DEF d, R, A, open, close

\* A declaration shows the tokens of its prototype.
LEMMA DeclSame ==
  ASSUME NEW nm, NEW p, NEW q, NamedProto(nm, p), NamedProto(nm, q), DeclIn(nm, p) = DeclIn(nm, q)
  PROVE  /\ ResultIn(nm, p) = ResultIn(nm, q) /\ Len(p.args) = Len(q.args)
         /\ \A j \in 1..Len(p.args) : TokenIn(nm, p.args[j]) = TokenIn(nm, q.args[j])
  <1> DEFINE d == DeclIn(nm, p)
             Rp == ResultIn(nm, p)
             Rq == ResultIn(nm, q)
             yp == ArgsIn(nm, p.args) \o <<")">>
             yq == ArgsIn(nm, q.args) \o <<")">>
  <1>1. Rp \in Seq(Inner) /\ Rp \o <<" f(">> \in Seq(Tokens) /\ yp \in Seq(Tokens)
        /\ d = (Rp \o <<" f(">>) \o yp /\ Part(d, 0, Rp) /\ Part(d, 0 + Len(Rp), <<" f(">>)
    BY DeclParts, Zenon
  <1>2. Rq \in Seq(Inner) /\ Rq \o <<" f(">> \in Seq(Tokens) /\ yq \in Seq(Tokens)
        /\ d = (Rq \o <<" f(">>) \o yq /\ Part(d, 0, Rq) /\ Part(d, 0 + Len(Rq), <<" f(">>)
    BY DeclParts, Zenon
  <1>3. \E T, b : Reads(yp, T, Len(p.args), b) /\ \A j \in 1..Len(p.args) : T[j] = TokenIn(nm, p.args[j])
    BY ArgsRead, Zenon DEF NamedProto
  <1>4. \E T, b : Reads(yq, T, Len(q.args), b) /\ \A j \in 1..Len(q.args) : T[j] = TokenIn(nm, q.args[j])
    BY ArgsRead, Zenon DEF NamedProto
  <1> HIDE DEF d, Rp, Rq, yp, yq
  <1>5. Rp = Rq
    <2>1. 0 \in Nat /\ " f(" \in Marks
      BY DEF Marks
    <2> QED
      BY <1>1, <1>2, <2>1, SameToken, Zenon
  <1>6. yp = yq
    <2>1. PICK s \in Seq(Tokens) : s = Rp \o <<" f(">>
      BY <1>1
    <2>2. s \o yp = s \o yq
      BY <1>1, <1>2, <1>5, <2>1, Zenon
    <2> QED
      BY <1>1, <1>2, <2>2, ConcatSimplifications, Zenon
  <1>7. Len(p.args) \in Nat /\ Len(q.args) \in Nat
    BY LenProperties DEF NamedProto
  <1>8. PICK S, a : Reads(yp, S, Len(p.args), a) /\ \A j \in 1..Len(p.args) : S[j] = TokenIn(nm, p.args[j])
    BY <1>3
  <1>9. PICK T, b : Reads(yp, T, Len(q.args), b) /\ \A j \in 1..Len(q.args) : T[j] = TokenIn(nm, q.args[j])
    BY <1>4, <1>6
  <1>10. Len(p.args) = Len(q.args) /\ \A j \in 1..Len(p.args) : S[j] = T[j]
    <2>1. PICK m \in Nat, n \in Nat : m = Len(p.args) /\ n = Len(q.args)
      BY <1>7
    <2>2. Reads(yp, S, m, a) /\ Reads(yp, T, n, b)
      BY <1>8, <1>9, <2>1
    <2>3. m = n /\ \A j \in 1..m : S[j] = T[j]
      BY <2>2, ReadOnce
    <2> QED
      BY <2>1, <2>3
  <1> QED
    BY <1>5, <1>8, <1>9, <1>10, Zenon DEF Rp, Rq

-----------------------------------------------------------------------------
FitArg(a) == IF Big(a) THEN Pointer(a) ELSE a

LEMMA FitShows ==
  ASSUME NEW a \in Argument
  PROVE  /\ FitArg(a) \in Argument /\ FitArg(a).kind = a.kind /\ FitArg(a).n = a.n
         /\ Seen(FitArg(a)) = Shown(a)
  <1>1. CASE Big(a)
    <2>1. a.wraps = <<>> /\ a.kind = "type"
      BY <1>1 DEF Big
    <2>2. <<"pointer">> \o <<>> = <<"pointer">> /\ <<"pointer">> \in Seq({"pointer", "array"})
          /\ Len(<<"pointer">>) = 1 /\ <<"pointer">> # <<>>
      <3>1. <<"pointer">> \in Seq({"pointer", "array"}) /\ Len(<<"pointer">>) = 1
        BY Single
      <3> QED
        BY <3>1, ConcatEmptySeq
    <2>3. PICK b : b = Pointer(a)
      OBVIOUS
    <2>4. b = [a EXCEPT !.wraps = <<"pointer">>]
      BY <2>1, <2>2, <2>3 DEF Pointer
    <2>5. b \in Argument /\ b.kind = "type" /\ b.n = a.n /\ b.wraps = <<"pointer">>
      BY <2>1, <2>2, <2>4 DEF Argument
    <2>6. Seen(b) = <<a.n, TRUE>>
      <3>1. Len(b.wraps) <= 1 /\ (b.wraps # <<>>) = TRUE
        BY <2>2, <2>5
      <3> QED
        BY <2>5, <3>1, Zenon DEF Seen
    <2>7. Shown(a) = <<a.n, TRUE>>
      <3>1. Len(a.wraps) <= 1 /\ (a.wraps # <<>> \/ Big(a)) = TRUE
        BY <1>1, <2>1, EmptySeq
      <3> QED
        BY <2>1, <3>1, Zenon DEF Shown
    <2>8. FitArg(a) = b
      BY <1>1, <2>3 DEF FitArg
    <2> QED
      BY <2>1, <2>5, <2>6, <2>7, <2>8, Zenon
  <1>2. CASE ~Big(a)
    <2>1. FitArg(a) = a
      BY <1>2 DEF FitArg
    <2>2. (a.wraps # <<>> \/ Big(a)) = (a.wraps # <<>>)
      BY <1>2
    <2>3. Shown(a) = Seen(a)
      BY <2>2, Zenon DEF Shown, Seen
    <2> QED
      BY <2>1, <2>3, Zenon
  <1> QED
    BY <1>1, <1>2

\* What fit_abi makes of a prototype, and what can be seen of it.
LEMMA FitArgs ==
  ASSUME NEW p \in Signature
  PROVE  LET f == fit_abi(p)
         IN  /\ f.args \in Seq(Argument) /\ f.ret = p.ret /\ f.is_retbuf = Big(p.ret)
             /\ Len(Parameters(p)) = Len(f.args)
             /\ \A j \in 1..Len(f.args) : /\ Parameters(p)[j] = Seen(f.args[j])
                                          /\ \/ \E i \in 1..Len(p.args) : f.args[j] = FitArg(p.args[i])
                                             \/ f.args[j] = FitArg(p.ret)
             /\ Parameters(p) = [j \in 1..Len(f.args) |-> Seen(f.args[j])]
  <1> DEFINE n == Len(p.args)
             args == [j \in 1..n |-> FitArg(p.args[j])]
             shown == [j \in 1..n |-> Shown(p.args[j])]
             f == fit_abi(p)
  <1>1. p.args \in Seq(Argument) /\ p.ret \in Argument /\ n \in Nat
    BY DEF Signature
  <1>2. ASSUME NEW j \in 1..n
        PROVE  p.args[j] \in Argument /\ FitArg(p.args[j]) \in Argument /\ Seen(FitArg(p.args[j])) = Shown(p.args[j])
    BY <1>1, FitShows
  <1> DEFINE V == {Seen(a) : a \in Argument}
  <1>3. args \in Seq(Argument) /\ Len(args) = n /\ \A j \in 1..n : args[j] = FitArg(p.args[j])
    BY <1>1, <1>2
  <1>4. shown \in Seq(V) /\ Len(shown) = n /\ \A j \in 1..n : shown[j] = Seen(args[j])
    <2>1. \A j \in 1..n : Shown(p.args[j]) \in V /\ Shown(p.args[j]) = Seen(args[j])
      BY <1>2, <1>3
    <2> HIDE DEF V, args
    <2>2. shown = [j \in 1..n |-> Shown(p.args[j])]
      OBVIOUS
    <2> QED
      BY <1>1, <2>1
  <1>5. f = [args |-> IF Big(p.ret) THEN <<Pointer(p.ret)>> \o args ELSE args, ret |-> p.ret,
             is_retbuf |-> Big(p.ret)]
    BY DEF fit_abi, FitArg
  <1>6. Parameters(p) = (IF Big(p.ret) THEN <<Shown(p.ret)>> ELSE <<>>) \o shown
    BY DEF Parameters
  <1>7. FitArg(p.ret) \in Argument /\ Seen(FitArg(p.ret)) = Shown(p.ret) /\ Shown(p.ret) \in V
    BY <1>1, FitShows
  <1> HIDE DEF args, shown, V, n
  <1>8. CASE Big(p.ret)
    <2>1. PICK r \in Argument, v \in V : r = Pointer(p.ret) /\ r = FitArg(p.ret) /\ v = Shown(p.ret) /\ v = Seen(r)
      BY <1>7, <1>8 DEF FitArg
    <2>2. f.args = <<r>> \o args /\ Parameters(p) = <<v>> \o shown
      BY <1>5, <1>6, <1>8, <2>1
    <2>3. <<r>> \in Seq(Argument) /\ Len(<<r>>) = 1 /\ <<r>>[1] = r
      BY Single
    <2>4. <<v>> \in Seq(V) /\ Len(<<v>>) = 1 /\ <<v>>[1] = v
      BY Single
    <2>5. /\ <<r>> \o args \in Seq(Argument) /\ Len(<<r>> \o args) = 1 + n
          /\ \A j \in 1..(1 + n) : (<<r>> \o args)[j] = IF j <= 1 THEN <<r>>[j] ELSE args[j - 1]
      BY <1>3, <2>3, ConcatProperties, Zenon
    <2>6. /\ <<v>> \o shown \in Seq(V) /\ Len(<<v>> \o shown) = 1 + n
          /\ \A j \in 1..(1 + n) : (<<v>> \o shown)[j] = IF j <= 1 THEN <<v>>[j] ELSE shown[j - 1]
      BY <1>4, <2>4, ConcatProperties, Zenon
    <2>7. ASSUME NEW j \in 1..(1 + n)
          PROVE  /\ Parameters(p)[j] = Seen(f.args[j])
                 /\ \/ \E i \in 1..n : f.args[j] = FitArg(p.args[i])
                    \/ f.args[j] = FitArg(p.ret)
      <3>1. CASE j = 1
        <4>1. f.args[j] = r /\ Parameters(p)[j] = v
          BY <2>2, <2>3, <2>4, <2>5, <2>6, <3>1
        <4> QED
          BY <2>1, <4>1
      <3>2. CASE j # 1
        <4>1. j - 1 \in 1..n /\ ~(j <= 1)
          BY <1>1, <3>2
        <4>2. f.args[j] = args[j - 1] /\ Parameters(p)[j] = shown[j - 1]
          BY <2>2, <2>5, <2>6, <4>1, Zenon
        <4> QED
          BY <1>3, <1>4, <4>1, <4>2, Zenon
      <3> QED
        BY <3>1, <3>2
    <2>8. Len(f.args) = 1 + n /\ Len(Parameters(p)) = 1 + n /\ f.args \in Seq(Argument) /\ Parameters(p) \in Seq(V)
      BY <2>2, <2>5, <2>6, Zenon
    <2>9. Parameters(p) = [j \in 1..(1 + n) |-> Seen(f.args[j])]
      <3>1. Parameters(p) \in [1..(1 + n) -> V]
        BY <2>8, LenProperties, Zenon
      <3>2. Parameters(p) = [j \in 1..(1 + n) |-> Parameters(p)[j]]
        BY <3>1
      <3> QED
        BY <2>7, <3>2, Zenon
    <2>10. f.ret = p.ret /\ f.is_retbuf = Big(p.ret)
      BY <1>5
    <2> QED
      BY <2>7, <2>8, <2>9, <2>10, Zenon DEF n
  <1>9. CASE ~Big(p.ret)
    <2>1. f.args = args
      BY <1>5, <1>9
    <2>2. Parameters(p) = shown
      BY <1>4, <1>6, <1>9, ConcatEmptySeq
    <2>3. shown = [j \in 1..n |-> Seen(args[j])]
      <3>1. shown = [j \in 1..n |-> shown[j]]
        BY <1>4
      <3> QED
        BY <1>4, <3>1, Zenon
    <2>10. f.ret = p.ret /\ f.is_retbuf = Big(p.ret)
      BY <1>5
    <2> QED
      BY <1>3, <1>4, <2>1, <2>2, <2>3, <2>10, Zenon DEF n
  <1> QED
    BY <1>8, <1>9

\* The state of the renderer as far as prototypes depend on it.
NamesTyped ==
  /\ types \in TypeLists /\ library \in Libraries(types)
  /\ DOMAIN name_map = 1..Len(types) /\ \A i \in DOMAIN name_map : name_map[i] = <<>> \/ CName(name_map[i])

LEMMA SourceTyped ==
  ASSUME NamesTyped, AllNamed, NEW j \in 1..Len(library.prototypes)
  PROVE  LET p == library.prototypes[j]
         IN  /\ p \in Signature /\ \A a \in 1..Len(p.args) : Named(name_map, p.args[a])
             /\ Named(name_map, p.ret)
  <1> DEFINE p == library.prototypes[j]
  <1>1. p \in Signature /\ Refers(p.ret, Len(types)) /\ \A a \in 1..Len(p.args) : Refers(p.args[a], Len(types))
    <2>1. library.prototypes \in Seq(Signature)
      BY PrototypesAssumption, Zenon DEF NamesTyped
    <2>2. Refers(p.ret, Len(types)) /\ \A a \in 1..Len(p.args) : Refers(p.args[a], Len(types))
      BY PrototypesAssumption, Zenon DEF NamesTyped
    <2>3. p \in Signature
      BY <2>1
    <2> QED
      BY <2>2, <2>3
  <1> HIDE DEF p
  <1>2. p.args \in Seq(Argument) /\ p.ret \in Argument
    BY <1>1 DEF Signature
  <1>3. \A i \in 1..Len(types) : CName(name_map[i])
    BY DEF NamesTyped, AllNamed
  <1>4. \A a \in 1..Len(p.args) : p.args[a] \in Argument
    BY <1>2
  <1> QED
    BY <1>1, <1>2, <1>3, <1>4, Zenon DEF Named, Refers, p

\* After the header every type of a prototype has a name.
LEMMA FitNamed ==
  ASSUME NamesTyped, AllNamed, NEW j \in 1..Len(library.prototypes)
  PROVE  NamedProto(name_map, fit_abi(library.prototypes[j]))
  <1> DEFINE p == library.prototypes[j]
             f == fit_abi(p)
  <1>1. p \in Signature /\ (\A a \in 1..Len(p.args) : Named(name_map, p.args[a])) /\ Named(name_map, p.ret)
    BY SourceTyped
  <1>2. \A a : Named(name_map, a) => Named(name_map, FitArg(a))
    BY FitShows, Zenon DEF Named
  <1> HIDE DEF p
  <1>3. /\ f.args \in Seq(Argument) /\ f.ret = p.ret
        /\ \A i \in 1..Len(f.args) : \/ \E v \in 1..Len(p.args) : f.args[i] = FitArg(p.args[v])
                                     \/ f.args[i] = FitArg(p.ret)
    BY <1>1, FitArgs, Zenon
  <1> HIDE DEF f
  <1>4. NamedProto(name_map, f)
    BY <1>1, <1>2, <1>3, Zenon DEF NamedProto
  <1> QED
    BY <1>4 DEF f, p

LEMMA NoVoid == ASSUME NEW nm, NEW a, Named(nm, a) PROVE TokenIn(nm, a) # <<"void">>
  <1>1. TokenIn(nm, a) \in Token
    BY TokenLooks, Zenon DEF Named, Looks
  <1>2. <<"void">> \notin Token
    <2>1. Len(<<"void">>) = 1 /\ <<"void">>[1] = "void"
      OBVIOUS
    <2> QED
      BY <2>1 DEF Token
  <1> QED
    BY <1>1, <1>2

\* What renders alike is alike.
LEMMA SourceAlike ==
  ASSUME NamesTyped, AllNamed, CNamesDistinct,
         NEW i \in 1..Len(library.prototypes), NEW j \in 1..Len(library.prototypes),
         LET cdecl(h) == render_prototype(fit_abi(library.prototypes[h])) IN cdecl(i) = cdecl(j)
  PROVE  LET p == library.prototypes[i]
             q == library.prototypes[j]
         IN  Parameters(p) = Parameters(q) /\ Result(p) = Result(q)
  <1> DEFINE p == library.prototypes[i]
             q == library.prototypes[j]
             f == fit_abi(p)
             g == fit_abi(q)
  <1>1. p \in Signature /\ q \in Signature /\ Named(name_map, p.ret) /\ Named(name_map, q.ret)
    BY SourceTyped, Zenon
  <1>2. NamedProto(name_map, f) /\ NamedProto(name_map, g)
    BY FitNamed, Zenon
  <1>3. DeclIn(name_map, f) = DeclIn(name_map, g)
    BY DeclNamed, Zenon
  <1> HIDE DEF p, q
  <1>4. /\ f.ret = p.ret /\ f.is_retbuf = Big(p.ret)
        /\ Parameters(p) = [a \in 1..Len(f.args) |-> Seen(f.args[a])]
    BY <1>1, FitArgs, Zenon
  <1>5. /\ g.ret = q.ret /\ g.is_retbuf = Big(q.ret)
        /\ Parameters(q) = [a \in 1..Len(g.args) |-> Seen(g.args[a])]
    BY <1>1, FitArgs, Zenon
  <1> HIDE DEF f, g
  <1>6. /\ ResultIn(name_map, f) = ResultIn(name_map, g) /\ Len(f.args) = Len(g.args)
        /\ \A a \in 1..Len(f.args) : TokenIn(name_map, f.args[a]) = TokenIn(name_map, g.args[a])
    <2>1. ASSUME NEW nm, NEW r, NEW s, NamedProto(nm, r), NamedProto(nm, s), DeclIn(nm, r) = DeclIn(nm, s)
          PROVE  /\ ResultIn(nm, r) = ResultIn(nm, s) /\ Len(r.args) = Len(s.args)
                 /\ \A a \in 1..Len(r.args) : TokenIn(nm, r.args[a]) = TokenIn(nm, s.args[a])
      BY <2>1, DeclSame
    <2> QED
      BY <1>2, <1>3, <2>1
  <1>7. ASSUME NEW a, NEW b, Named(name_map, a), Named(name_map, b), Refers(a, Len(types)), Refers(b, Len(types)),
               TokenIn(name_map, a) = TokenIn(name_map, b)
        PROVE  Seen(a) = Seen(b)
    <2>1. ASSUME a.kind = "type", b.kind = "type", name_map[a.n] = name_map[b.n] PROVE a.n = b.n
      <3>1. a.n \in DOMAIN name_map /\ b.n \in DOMAIN name_map
        BY <1>7, <2>1, Zenon DEF Refers, NamesTyped
      <3>2. name_map[a.n] # <<>>
        BY <3>1, Zenon DEF AllNamed
      <3> QED
        BY <2>1, <3>1, <3>2, Zenon DEF CNamesDistinct
    <2> QED
      BY <1>7, <2>1, SameSeen, Zenon DEF Named
  <1>8. /\ \A a \in 1..Len(f.args) : Refers(f.args[a], Len(types))
        /\ \A a \in 1..Len(g.args) : Refers(g.args[a], Len(types))
        /\ Refers(p.ret, Len(types)) /\ Refers(q.ret, Len(types))
    <2>1. ASSUME NEW h \in 1..Len(library.prototypes)
          PROVE  LET s == library.prototypes[h]
                     t == fit_abi(s)
                 IN  Refers(s.ret, Len(types)) /\ \A a \in 1..Len(t.args) : Refers(t.args[a], Len(types))
      <3> DEFINE s == library.prototypes[h]
                 t == fit_abi(s)
      <3>1. s \in Signature
        BY SourceTyped, Zenon
      <3>2. Refers(s.ret, Len(types)) /\ \A a \in 1..Len(s.args) : Refers(s.args[a], Len(types))
        BY PrototypesAssumption, Zenon DEF NamesTyped
      <3> HIDE DEF s
      <3>3. s.ret \in Argument /\ s.args \in Seq(Argument)
        BY <3>1 DEF Signature
      <3>4. \A a \in 1..Len(s.args) : s.args[a] \in Argument
        BY <3>3
      <3>5. \A a \in Argument : Refers(a, Len(types)) => Refers(FitArg(a), Len(types))
        BY FitShows, Zenon DEF Refers
      <3>6. \A a \in 1..Len(t.args) : \/ \E v \in 1..Len(s.args) : t.args[a] = FitArg(s.args[v])
                                      \/ t.args[a] = FitArg(s.ret)
        BY <3>1, FitArgs, Zenon
      <3> HIDE DEF t
      <3>7. \A a \in 1..Len(t.args) : Refers(t.args[a], Len(types))
        BY <3>2, <3>3, <3>4, <3>5, <3>6, Zenon
      <3> QED
        BY <3>2, <3>7, Zenon DEF s, t
    <2> QED
      BY <2>1, Zenon DEF p, q, f, g
  <1>9. Parameters(p) = Parameters(q)
    <2>1. ASSUME NEW a \in 1..Len(f.args) PROVE Seen(f.args[a]) = Seen(g.args[a])
      <3>1. a \in 1..Len(g.args)
        BY <1>6, Zenon
      <3>2. Named(name_map, f.args[a]) /\ Named(name_map, g.args[a])
        BY <1>2, <3>1, Zenon DEF NamedProto
      <3> QED
        BY <1>6, <1>7, <1>8, <3>1, <3>2, Zenon
    <2> QED
      BY <1>4, <1>5, <1>6, <2>1, Zenon
  <1>10. Result(p) = Result(q)
    <2>1. ASSUME NEW r, r \in Signature, Big(r.ret) \/ r.ret.kind = "unknown" PROVE Result(r) = <<>>
      BY <2>1, Zenon DEF Result, Shown
    <2>2. ASSUME NEW r, r \in Signature, ~Big(r.ret) PROVE Result(r) = Seen(r.ret)
      <3>1. r.ret \in Argument
        BY <2>2 DEF Signature
      <3> QED
        BY <2>2, <3>1, FitShows, Zenon DEF Result, FitArg
    <2> DEFINE V(r) == Big(r.ret) \/ r.ret.kind = "unknown"
    <2>3. ResultIn(name_map, f) = IF V(p) THEN <<"void">> ELSE TokenIn(name_map, p.ret)
      BY <1>4, Zenon DEF ResultIn
    <2>4. ResultIn(name_map, g) = IF V(q) THEN <<"void">> ELSE TokenIn(name_map, q.ret)
      BY <1>5, Zenon DEF ResultIn
    <2>5. V(p) <=> V(q)
      BY <1>1, <1>6, <2>3, <2>4, NoVoid
    <2>6. CASE V(p)
      BY <1>1, <2>1, <2>5, <2>6, Zenon
    <2>7. CASE ~V(p)
      <3>1. TokenIn(name_map, p.ret) = TokenIn(name_map, q.ret)
        BY <1>6, <2>3, <2>4, <2>5, <2>7, Zenon
      <3>2. Seen(p.ret) = Seen(q.ret)
        BY <1>1, <1>7, <1>8, <3>1, Zenon
      <3> QED
        BY <1>1, <2>2, <2>5, <2>7, <3>2, Zenon
    <2> QED
      BY <2>6, <2>7
  <1> QED
    BY <1>9, <1>10 DEF p, q

\* ds lists, once each, what c and a give for R.
Entry(c, a, j) == [cdecl |-> c[j], argcount |-> a[j]]
Listing(ds, R, c, a) ==
  /\ ds \in Seq({Entry(c, a, j) : j \in R})
  /\ \A j \in R : \E d \in 1..Len(ds) : ds[d] = Entry(c, a, j)
  /\ \A d, e \in 1..Len(ds) : ds[d].cdecl = ds[e].cdecl => d = e

\* What is listed already, and only that, is left out.
LEMMA ListingGrows ==
  ASSUME NEW ds, NEW R, NEW c, NEW a, NEW j, Listing(ds, R, c, a),
         \A h \in R : c[h] = c[j] => a[h] = a[j]
  PROVE  Listing(IF \E d \in 1..Len(ds) : ds[d].cdecl = c[j] THEN ds ELSE Append(ds, Entry(c, a, j)),
                 R \cup {j}, c, a)
  <1> DEFINE S == {Entry(c, a, h) : h \in R}
             T == {Entry(c, a, h) : h \in R \cup {j}}
             e == Entry(c, a, j)
  <1>1. S \subseteq T /\ e \in T
    OBVIOUS
  <1>2. ds \in Seq(S)
    BY Zenon DEF Listing
  <1>3. ds \in Seq(T)
    <2> HIDE DEF S, T
    <2> QED
      BY <1>1, <1>2, SeqMonotonic
  <1>4. CASE \E d \in 1..Len(ds) : ds[d].cdecl = c[j]
    <2>1. PICK d \in 1..Len(ds) : ds[d].cdecl = c[j]
      BY <1>4
    <2>2. ds[d] \in S
      <3> HIDE DEF S
      <3> QED
        BY <1>2
    <2>3. PICK h \in R : ds[d] = Entry(c, a, h)
      BY <2>2
    <2>4. ds[d] = e
      BY <2>1, <2>3 DEF Entry
    <2> HIDE DEF S, T
    <2>5. Listing(ds, R \cup {j}, c, a)
      BY <1>3, <2>4, Zenon DEF Listing, T, e
    <2> QED
      BY <1>4, <2>5, Zenon
  <1>5. CASE ~\E d \in 1..Len(ds) : ds[d].cdecl = c[j]
    <2>1. PICK n \in Nat : n = Len(ds)
      BY <1>2
    <2>2. PICK t \in Seq(T) : t = Append(ds, e) /\ Len(t) = n + 1 /\ t[n + 1] = e
                              /\ \A d \in 1..n : t[d] = ds[d]
      <3> HIDE DEF S, T, e
      <3>1. /\ Append(ds, e) \in Seq(T) /\ Len(Append(ds, e)) = Len(ds) + 1
            /\ Append(ds, e)[Len(ds) + 1] = e /\ \A d \in 1..Len(ds) : Append(ds, e)[d] = ds[d]
        BY <1>1, <1>3, Appended
      <3> QED
        BY <2>1, <3>1, Zenon
    <2>3. e.cdecl = c[j]
      BY DEF Entry
    <2>4. \A h \in R \cup {j} : \E d \in 1..Len(t) : t[d] = Entry(c, a, h)
      <3>1. ASSUME NEW h \in R PROVE \E d \in 1..Len(t) : t[d] = Entry(c, a, h)
        <4>1. PICK d \in 1..n : ds[d] = Entry(c, a, h)
          BY <2>1, Zenon DEF Listing
        <4>2. d \in 1..Len(t) /\ t[d] = Entry(c, a, h)
          BY <2>2, <4>1
        <4> QED
          BY <4>2
      <3>2. n + 1 \in 1..Len(t) /\ t[n + 1] = Entry(c, a, j)
        BY <2>1, <2>2
      <3> QED
        BY <3>1, <3>2
    <2>5. ASSUME NEW d \in 1..Len(t), NEW g \in 1..Len(t), t[d].cdecl = t[g].cdecl PROVE d = g
      <3>1. \A m \in 1..Len(t) : m \in 1..n \/ m = n + 1
        BY <2>1, <2>2
      <3>2. \A m \in 1..n : t[m].cdecl # c[j] /\ t[m] = ds[m]
        BY <1>5, <2>1, <2>2, Zenon
      <3>3. t[n + 1].cdecl = c[j]
        BY <2>2, <2>3, Zenon
      <3>4. \A m, o \in 1..n : ds[m].cdecl = ds[o].cdecl => m = o
        BY <2>1, Zenon DEF Listing
      <3> HIDE DEF e
      <3>5. CASE d \in 1..n /\ g \in 1..n
        <4>1. t[d] = ds[d] /\ t[g] = ds[g]
          BY <3>2, <3>5, Zenon
        <4> QED
          BY <2>5, <3>4, <3>5, <4>1, Zenon
      <3>6. CASE d = n + 1 /\ g \in 1..n
        BY <2>5, <3>2, <3>3, <3>6, Zenon
      <3>7. CASE g = n + 1 /\ d \in 1..n
        BY <2>5, <3>2, <3>3, <3>7, Zenon
      <3> QED
        BY <3>1, <3>5, <3>6, <3>7, Zenon
    <2> HIDE DEF S, T
    <2>6. Listing(t, R \cup {j}, c, a)
      BY <2>2, <2>4, <2>5, Zenon DEF Listing, T
    <2> QED
      BY <1>5, <2>2, <2>6, Zenon
  <1> QED
    BY <1>4, <1>5, Zenon

\* What is declared, and with how many arguments, of the j-th prototype.
cdecl(j) == render_prototype(fit_abi(library.prototypes[j]))
Declarations == [j \in 1..Len(library.prototypes) |-> cdecl(j)]
ArgCounts == [j \in 1..Len(library.prototypes) |-> Len(Parameters(library.prototypes[j]))]
ReadUpTo(r) == {j \in 1..r : parse_prototype(library.prototypes[j])}

\* The invariant: what is distinct lists the declarations read so far, and names
\* are given before the first of them.
MergeInv ==
  /\ NamesTyped /\ NamesInv
  /\ rendered \in 0..Len(library.prototypes) /\ (rendered # 0 => AllNamed)
  /\ Listing(distinct, ReadUpTo(rendered), Declarations, ArgCounts)

LEMMA LibraryTyped ==
  ASSUME NamesTyped
  PROVE  /\ Len(library.prototypes) \in Nat /\ Len(types) \in Nat
         /\ \A i \in DOMAIN name_map : Len(library.names[i]) \in Nat
  <1>1. library.prototypes \in Seq(Signature)
    BY PrototypesAssumption, Zenon DEF NamesTyped
  <1>2. DOMAIN library.names = 1..Len(types) /\ \A i \in DOMAIN library.names : library.names[i] \in Seq(STRING)
    BY PrototypesAssumption, Zenon DEF NamesTyped
  <1>3. Len(library.prototypes) \in Nat
    BY <1>1
  <1>4. types \in Seq(Type)
    BY LayoutAssumption, Zenon DEF NamesTyped
  <1>5. Len(types) \in Nat
    BY <1>4
  <1>6. ASSUME NEW i \in DOMAIN name_map PROVE Len(library.names[i]) \in Nat
    <2>1. library.names[i] \in Seq(STRING)
      BY <1>2, Zenon DEF NamesTyped
    <2> QED
      BY <2>1
  <1> QED
    BY <1>3, <1>5, <1>6

LEMMA ListingEmpty == ASSUME NEW c, NEW a PROVE Listing(<<>>, {}, c, a)
  BY DEF Listing

LEMMA EmptyListing == ASSUME NEW ds, NEW c, NEW a, Listing(ds, {}, c, a) PROVE ds = <<>>
  <1>1. {Entry(c, a, j) : j \in {}} = {}
    OBVIOUS
  <1>2. ds \in Seq({})
    BY <1>1, Zenon DEF Listing
  <1> QED
    BY <1>2

LEMMA NothingRead ==
  ASSUME rendered = 0
  PROVE  ReadUpTo(rendered) = {}
  BY DEF ReadUpTo

LEMMA MergeStart == RenderInit => MergeInv
  <1> SUFFICES ASSUME RenderInit PROVE MergeInv
    OBVIOUS
  <1>1. NamesTyped
    BY DEF RenderInit, Init, NamesTyped
  <1>2. rendered \in 0..Len(library.prototypes) /\ rendered = 0
    BY <1>1, LibraryTyped DEF RenderInit
  <1>3. Listing(distinct, ReadUpTo(rendered), Declarations, ArgCounts)
    <2>1. distinct = <<>>
      BY DEF RenderInit
    <2>2. ReadUpTo(rendered) = {}
      BY <1>2, NothingRead
    <2> QED
      BY <2>1, <2>2, ListingEmpty, Zenon
  <1> QED
    BY <1>1, <1>2, <1>3, NamesStart, Zenon DEF MergeInv

\* fit_abi, with the types as a parameter.
BigIn(ts, a) == a.wraps = <<>> /\ a.kind = "type" /\ ts[a.n].size > Word * 2
FitIn(ts, p) ==
  LET args == [j \in 1..Len(p.args) |-> IF BigIn(ts, p.args[j]) THEN Pointer(p.args[j]) ELSE p.args[j]]
  IN  [args |-> IF BigIn(ts, p.ret) THEN <<Pointer(p.ret)>> \o args ELSE args,
       ret |-> p.ret, is_retbuf |-> BigIn(ts, p.ret)]

LEMMA DeclarationsAre ==
  Declarations = [j \in 1..Len(library.prototypes) |-> DeclIn(name_map, FitIn(types, library.prototypes[j]))]
  <1>1. ASSUME NEW p PROVE fit_abi(p) = FitIn(types, p)
    BY Zenon DEF fit_abi, FitIn, Big, BigIn
  <1> QED
    BY <1>1, DeclNamed, Zenon DEF Declarations, cdecl

\* A step that leaves types, names and prototypes leaves the declarations.
LEMMA DeclarationsStay ==
  ASSUME UNCHANGED <<types, library, name_map>>
  PROVE  /\ Declarations' = Declarations /\ ArgCounts' = ArgCounts
         /\ (NamesTyped => NamesTyped') /\ (NamesInv => NamesInv') /\ (AllNamed => AllNamed')
  <1>1. types' = types /\ library' = library /\ name_map' = name_map
    OBVIOUS
  <1>2. Declarations' = [j \in 1..Len(library'.prototypes) |-> DeclIn(name_map', FitIn(types', library'.prototypes[j]))]
    <2>1. (Declarations = [j \in 1..Len(library.prototypes) |-> DeclIn(name_map, FitIn(types, library.prototypes[j]))])'
      BY DeclarationsAre, PTL
    <2> QED
      BY <2>1
  <1>3. Declarations' = Declarations
    BY <1>1, <1>2, DeclarationsAre, Zenon
  <1>4. ArgCounts' = ArgCounts
    <2>1. ASSUME NEW a PROVE Big(a)' = Big(a)
      BY <1>1, Zenon DEF Big
    <2>2. ASSUME NEW a PROVE Shown(a)' = Shown(a)
      BY <2>1, Zenon DEF Shown
    <2>3. ASSUME NEW p PROVE Parameters(p)' = Parameters(p)
      BY <2>1, <2>2, Zenon DEF Parameters
    <2> QED
      BY <1>1, <2>3, Zenon DEF ArgCounts
  <1>5. /\ (NamesTyped => NamesTyped') /\ (NamesInv => NamesInv') /\ (AllNamed => AllNamed')
    BY <1>1, Zenon DEF NamesTyped, NamesInv, CNamesDistinct, AllNamed
  <1> QED
    BY <1>3, <1>4, <1>5, Zenon

LEMMA MergeStays ==
  ASSUME MergeInv, UNCHANGED <<types, prototypeVars>>
  PROVE  MergeInv'
  <1>1. types' = types /\ library' = library /\ name_map' = name_map /\ rendered' = rendered /\ distinct' = distinct
    BY DEF prototypeVars
  <1>2. /\ Declarations' = Declarations /\ ArgCounts' = ArgCounts
        /\ (NamesTyped => NamesTyped') /\ (NamesInv => NamesInv') /\ (AllNamed => AllNamed')
    BY <1>1, DeclarationsStay, Zenon
  <1>3. ReadUpTo(rendered)' = ReadUpTo(rendered)
    BY <1>1, Zenon DEF ReadUpTo
  <1> QED
    BY <1>1, <1>2, <1>3, Zenon DEF MergeInv

LEMMA NameMerges ==
  ASSUME MergeInv, NEW i \in DOMAIN name_map, ensure_name(i)
  PROVE  MergeInv'
  <1>1. PICK n \in 0..Len(types) : name_map' = [name_map EXCEPT ![i] = Candidate(sanitize(library.names[i]), n)]
    BY Zenon DEF ensure_name
  <1>2. CName(Candidate(sanitize(library.names[i]), n))
    <2>1. CName(sanitize(library.names[i]))
      BY LibraryTyped, Sanitized, Zenon DEF MergeInv
    <2>2. n \in Nat
      BY LibraryTyped DEF MergeInv
    <2> QED
      BY <2>1, <2>2, CandidateNamed, Zenon
  <1>3. types' = types /\ library' = library /\ rendered' = rendered /\ distinct' = distinct
    BY DEF ensure_name, vars
  <1>4. NamesTyped'
    <2>1. DOMAIN name_map = 1..Len(types) /\ \A j \in DOMAIN name_map : name_map[j] = <<>> \/ CName(name_map[j])
      BY Zenon DEF MergeInv, NamesTyped
    <2>2. DOMAIN name_map' = DOMAIN name_map
          /\ \A j \in DOMAIN name_map : name_map'[j] = name_map[j] \/ CName(name_map'[j])
      BY <1>1, <1>2, Zenon
    <2>3. DOMAIN name_map' = 1..Len(types') /\ \A j \in DOMAIN name_map' : name_map'[j] = <<>> \/ CName(name_map'[j])
      BY <1>3, <2>1, <2>2, Zenon
    <2> QED
      BY <1>3, <2>3, Zenon DEF MergeInv, NamesTyped
  <1>5. NamesInv'
    BY NameKeeps, Zenon DEF MergeInv
  <1>6. rendered = 0
    <2>1. ~AllNamed
      BY Zenon DEF AllNamed, ensure_name
    <2> QED
      BY <2>1, Zenon DEF MergeInv
  <1>7. Listing(distinct, ReadUpTo(rendered), Declarations, ArgCounts)'
    <2>1. distinct = <<>>
      BY <1>6, NothingRead, EmptyListing, Zenon DEF MergeInv
    <2>2. ReadUpTo(rendered)' = {}
      BY <1>3, <1>6, <2>1 DEF ReadUpTo
    <2> QED
      BY <1>3, <2>1, <2>2, ListingEmpty, Zenon
  <1>8. rendered' \in 0..Len(library.prototypes)' /\ rendered' = 0
    BY <1>3, <1>6, Zenon DEF MergeInv
  <1> QED
    BY <1>4, <1>5, <1>7, <1>8, Zenon DEF MergeInv

LEMMA PrototypeMerges ==
  ASSUME MergeInv, RenderPrototype
  PROVE  MergeInv'
  <1>1. PICK j \in (rendered + 1)..Len(library.prototypes) :
          /\ parse_prototype(library.prototypes[j])
          /\ \A h \in (rendered + 1)..(j - 1) : ~parse_prototype(library.prototypes[h])
          /\ distinct' = IF \E d \in 1..Len(distinct) : distinct[d].cdecl = cdecl(j) THEN distinct
                         ELSE Append(distinct, [cdecl |-> cdecl(j), argcount |-> Len(fit_abi(library.prototypes[j]).args)])
          /\ rendered' = j
    BY Zenon DEF RenderPrototype, cdecl
  <1>2. PICK n \in Nat, r \in Nat : n = Len(library.prototypes) /\ r = rendered
    BY LibraryTyped DEF MergeInv
  <1>3. types' = types /\ library' = library /\ name_map' = name_map
    BY DEF RenderPrototype, vars
  <1>4. AllNamed /\ NamesTyped /\ NamesInv
    BY Zenon DEF RenderPrototype, MergeInv
  <1>5. /\ Declarations' = Declarations /\ ArgCounts' = ArgCounts /\ NamesTyped' /\ NamesInv' /\ AllNamed'
    BY <1>3, <1>4, DeclarationsStay, Zenon
  <1>6. j \in 1..n /\ r + 1 <= j
    BY <1>1, <1>2
  <1>7. ReadUpTo(j) = ReadUpTo(r) \cup {j}
    BY <1>1, <1>2, <1>6 DEF ReadUpTo
  <1>8. Len(fit_abi(library.prototypes[j]).args) = ArgCounts[j]
    <2>1. library.prototypes[j] \in Signature
      BY <1>2, <1>4, <1>6, SourceTyped, Zenon
    <2>2. Len(Parameters(library.prototypes[j])) = Len(fit_abi(library.prototypes[j]).args)
      BY <2>1, FitArgs, Zenon
    <2> QED
      BY <1>2, <1>6, <2>2, Zenon DEF ArgCounts
  <1>9. cdecl(j) = Declarations[j]
    BY <1>2, <1>6, Zenon DEF Declarations
  <1>10. \A h \in ReadUpTo(r) : Declarations[h] = Declarations[j] => ArgCounts[h] = ArgCounts[j]
    <2>1. ASSUME NEW h \in ReadUpTo(r), Declarations[h] = Declarations[j] PROVE ArgCounts[h] = ArgCounts[j]
      <3>1. h \in 1..r
        BY Zenon DEF ReadUpTo
      <3>2. h \in 1..n
        BY <1>6, <3>1
      <3>3. cdecl(h) = cdecl(j)
        BY <1>2, <1>6, <2>1, <3>2, Zenon DEF Declarations
      <3>4. Parameters(library.prototypes[h]) = Parameters(library.prototypes[j])
        BY <1>2, <1>4, <1>6, <3>2, <3>3, SourceAlike, Zenon DEF cdecl, NamesInv
      <3> QED
        BY <1>2, <1>6, <3>2, <3>4, Zenon DEF ArgCounts
    <2> QED
      BY <2>1, Zenon
  <1>11. distinct' = IF \E d \in 1..Len(distinct) : distinct[d].cdecl = Declarations[j] THEN distinct
                     ELSE Append(distinct, Entry(Declarations, ArgCounts, j))
    BY <1>1, <1>8, <1>9, Zenon DEF Entry
  <1>12. Listing(distinct', ReadUpTo(j), Declarations, ArgCounts)
    <2>1. Listing(distinct, ReadUpTo(r), Declarations, ArgCounts)
      BY <1>2, Zenon DEF MergeInv
    <2>2. Listing(IF \E d \in 1..Len(distinct) : distinct[d].cdecl = Declarations[j] THEN distinct
                  ELSE Append(distinct, Entry(Declarations, ArgCounts, j)),
                  ReadUpTo(r) \cup {j}, Declarations, ArgCounts)
      BY <1>10, <2>1, ListingGrows, Zenon
    <2> QED
      BY <1>7, <1>11, <2>2, Zenon
  <1>13. ReadUpTo(rendered)' = ReadUpTo(j)
    BY <1>1, <1>3, Zenon DEF ReadUpTo
  <1>14. rendered' \in 0..Len(library.prototypes)'
    BY <1>1, <1>2, <1>3, <1>6
  <1> QED
    BY <1>5, <1>12, <1>13, <1>14, Zenon DEF MergeInv

LEMMA InvMerges == MergeInv => MergedAreAlike
  <1> SUFFICES ASSUME MergeInv PROVE MergedAreAlike
    OBVIOUS
  <1> DEFINE R == {j \in 1..rendered : parse_prototype(library.prototypes[j])}
             source(j) == library.prototypes[j]
  <1>1. PICK n \in Nat, r \in Nat : n = Len(library.prototypes) /\ r = rendered /\ r <= n
    BY LibraryTyped DEF MergeInv
  <1>2. \A j \in R : j \in 1..n /\ r # 0
    BY <1>1
  <1>3. R = ReadUpTo(rendered)
    BY DEF ReadUpTo
  <1> HIDE DEF R
  <1>4. ASSUME NEW i \in R, NEW j \in R, cdecl(i) = cdecl(j)
        PROVE  Parameters(source(i)) = Parameters(source(j)) /\ Result(source(i)) = Result(source(j))
    BY <1>1, <1>2, <1>4, SourceAlike, Zenon DEF MergeInv, NamesInv, cdecl
  <1>5. ASSUME NEW j \in R
        PROVE  \E d \in 1..Len(distinct) :
                 /\ distinct[d] = [cdecl |-> cdecl(j), argcount |-> Len(Parameters(source(j)))]
                 /\ \A e \in 1..Len(distinct) : distinct[e].cdecl = cdecl(j) => e = d
    <2>1. Declarations[j] = cdecl(j) /\ ArgCounts[j] = Len(Parameters(source(j)))
      BY <1>1, <1>2, Zenon DEF Declarations, ArgCounts
    <2>2. PICK d \in 1..Len(distinct) : distinct[d] = Entry(Declarations, ArgCounts, j)
      BY <1>3, Zenon DEF MergeInv, Listing
    <2>3. distinct[d] = [cdecl |-> cdecl(j), argcount |-> Len(Parameters(source(j)))]
      BY <2>1, <2>2, Zenon DEF Entry
    <2>4. distinct[d].cdecl = cdecl(j)
      BY <2>3
    <2>5. \A e \in 1..Len(distinct) : distinct[e].cdecl = cdecl(j) => e = d
      BY <2>4, Zenon DEF MergeInv, Listing
    <2> QED
      BY <2>3, <2>5, Zenon
  <1> QED
    BY <1>4, <1>5, Zenon DEF MergedAreAlike, R, cdecl

\* "several rendering identically": for any types, names and prototypes, what
\* apply_type_db merges into one declaration takes the same number of arguments,
\* in each place the same aggregate if any, and that number is remembered; and
\* what is distinct is listed once.
THEOREM MergedAlike == RenderSpec => []MergedAreAlike
  <1>1. MergeInv /\ [RenderNext]_renderVars => MergeInv'
    <2> SUFFICES ASSUME MergeInv, [RenderNext]_renderVars PROVE MergeInv'
      OBVIOUS
    <2>1. CASE UNCHANGED renderVars
      BY <2>1, MergeStays DEF renderVars, vars
    <2>2. ASSUME NEW i \in DOMAIN name_map, ensure_name(i) PROVE MergeInv'
      BY <2>2, NameMerges, Zenon
    <2>3. CASE WriteHeader
      <3>1. types' = types
        BY <2>3, Zenon DEF WriteHeader, Next, render_struct, render_niche, render_tagged, LayOut, AddMember, Define
      <3> QED
        BY <2>3, <3>1, MergeStays DEF WriteHeader
    <2>4. CASE RenderPrototype
      BY <2>4, PrototypeMerges, Zenon
    <2> QED
      BY <2>1, <2>2, <2>3, <2>4, Zenon DEF RenderNext
  <1> QED
    BY <1>1, MergeStart, InvMerges, PTL DEF RenderSpec
=============================================================================
