-------------------------- MODULE TypeGraphProofs --------------------------
(***************************************************************************)
(* The type graph and its header, for every file.                          *)
(* Loading (TypeDBLoad): what a type holds by value was finished before it,*)
(* the recursion never enters a name twice, a memoised type is never       *)
(* replaced, and a type that is not recursive is what the file says.       *)
(* Declaring (HeaderOrder), for every choice of renderings too: the search *)
(* never meets a cycle, and every type is defined once, after what it      *)
(* embeds.  Both rest on ValuesBeforeHolders: ranks decrease along the     *)
(* visits that are going on.                                               *)
(***************************************************************************)
EXTENDS HeaderOrder, SequenceTheorems, FiniteSetTheorems, TLAPS

-----------------------------------------------------------------------------
(* Induction in first-order form.  A theorem that takes a predicate cannot *)
(* be cited here; a set can stand for the predicate.                       *)

\* Every set of naturals that has an element has a least one.
LEMMA LeastNumber ==
  ASSUME NEW T, T \subseteq Nat, T # {}
  PROVE  \E m \in T : \A k \in T : m <= k
  <1> DEFINE R == OpToRel(<, Nat)
  <1>1. IsWellFoundedOn(R, Nat)
    BY NatLessThanWellFounded
  <1>2. \A x, y \in Nat : <<x, y>> \in R <=> x < y
    BY DEF OpToRel
  <1> HIDE DEF R
  <1>3. PICK m \in T : \A k \in T : ~ (<<k, m>> \in R)
    BY <1>1, WFMin
  <1>4. \A k \in T : k \in Nat /\ m \in Nat /\ ~ (k < m)
    BY <1>2, <1>3
  <1> QED
    BY <1>4

\* Induction from n on.
LEMMA SetInduction ==
  ASSUME NEW n \in Nat, NEW S, n \in S, \A k \in Nat : k >= n /\ k \in S => k + 1 \in S
  PROVE  \A k \in Nat : k >= n => k \in S
  <1> SUFFICES ASSUME NEW j \in Nat, j >= n, j \notin S PROVE FALSE
    OBVIOUS
  <1> DEFINE T == {k \in Nat : k >= n /\ k \notin S}
  <1>1. PICK m \in T : \A k \in T : m <= k
    <2>1. j \in T /\ T \subseteq Nat
      OBVIOUS
    <2> HIDE DEF T
    <2> QED
      BY <2>1, LeastNumber
  <1>2. m \in Nat /\ m > n /\ m - 1 \in Nat /\ m - 1 >= n
    BY <1>1
  <1>3. m - 1 \in S
    BY <1>1, <1>2
  <1>4. (m - 1) + 1 \in S
    BY <1>2, <1>3
  <1> QED
    BY <1>1, <1>2, <1>4

\* A sequence of values, each made from the one before.
Chain(g, X, x, n, next) ==
  g \in [0..n -> X] /\ g[0] = x /\ \A k \in 1..n : g[k] = next[<<k, g[k - 1]>>]

Successors(X, n) == [(1..n) \X X -> X]

LEMMA Iterates ==
  ASSUME NEW X, NEW x \in X, NEW n \in Nat, NEW next \in Successors(X, n)
  PROVE  \E g : Chain(g, X, x, n, next)
  <1> USE DEF Successors, Chain
  <1> DEFINE Good(m) == \E g \in [0..m -> X] : g[0] = x /\ \A k \in 1..m : g[k] = next[<<k, g[k - 1]>>]
             S == {m \in Nat : m <= n => Good(m)}
  <1>1. Good(0)
    <2> DEFINE g == [k \in 0..0 |-> x]
    <2>1. g \in [0..0 -> X] /\ g[0] = x /\ \A k \in 1..0 : g[k] = next[<<k, g[k - 1]>>]
      OBVIOUS
    <2> HIDE DEF g
    <2> QED
      BY <2>1
  <1>2. ASSUME NEW m \in Nat, Good(m), m + 1 <= n PROVE Good(m + 1)
    <2>1. PICK g \in [0..m -> X] : g[0] = x /\ \A k \in 1..m : g[k] = next[<<k, g[k - 1]>>]
      BY <1>2
    <2> DEFINE h == [k \in 0..(m + 1) |-> IF k <= m THEN g[k] ELSE next[<<m + 1, g[m]>>]]
    <2>2. h \in [0..(m + 1) -> X]
      <3>1. m + 1 \in 1..n /\ g[m] \in X
        BY <1>2
      <3>2. next[<<m + 1, g[m]>>] \in X
        BY <3>1
      <3> QED
        BY <3>2
    <2>3. h[0] = x /\ \A k \in 1..(m + 1) : h[k] = next[<<k, h[k - 1]>>]
      <3>1. ASSUME NEW k \in 1..(m + 1) PROVE h[k] = next[<<k, h[k - 1]>>]
        <4>1. CASE k <= m
          <5>1. h[k] = g[k] /\ h[k - 1] = g[k - 1] /\ k \in 1..m
            BY <4>1
          <5> QED
            BY <2>1, <5>1
        <4>2. CASE k = m + 1
          <5>1. h[k] = next[<<m + 1, g[m]>>] /\ h[k - 1] = g[m]
            BY <4>2
          <5> QED
            BY <4>2, <5>1
        <4> QED
          BY <4>1, <4>2
      <3> QED
        <4>1. h[0] = g[0]
          OBVIOUS
        <4> HIDE DEF h
        <4> QED
          BY <2>1, <3>1, <4>1
    <2> HIDE DEF h
    <2> QED
      BY <2>2, <2>3
  <1> HIDE DEF Good
  <1>3. 0 \in S /\ \A m \in Nat : m >= 0 /\ m \in S => m + 1 \in S
    BY <1>1, <1>2
  <1> HIDE DEF S
  <1>4. \A m \in Nat : m >= 0 => m \in S
    BY <1>3, SetInduction
  <1>5. Good(n)
    BY <1>4 DEF S
  <1> QED
    BY <1>5 DEF Good

\* A sequence without end, each value made from the one before.
Orbit(g, X, x, next) ==
  g \in [Nat -> X] /\ g[0] = x /\ \A k \in Nat : g[k + 1] = next[g[k]]

LEMMA Orbits ==
  ASSUME NEW X, NEW x \in X, NEW next \in [X -> X]
  PROVE  \E g : Orbit(g, X, x, next)
  <1> DEFINE step(n) == [p \in (1..n) \X X |-> next[p[2]]]
             part(n) == CHOOSE c : Chain(c, X, x, n, step(n))
  <1>1. ASSUME NEW n \in Nat
        PROVE  /\ part(n) \in [0..n -> X] /\ part(n)[0] = x
               /\ \A k \in 1..n : part(n)[k] = next[part(n)[k - 1]]
    <2>1. step(n) \in Successors(X, n)
      BY DEF Successors
    <2>2. \E c : Chain(c, X, x, n, step(n))
      <3> HIDE DEF step
      <3> QED
        BY <2>1, Iterates
    <2>3. Chain(part(n), X, x, n, step(n))
      <3> HIDE DEF step
      <3> QED
        BY <2>2
    <2> DEFINE c == part(n)
    <2> HIDE DEF part, c
    <2>4. c \in [0..n -> X] /\ c[0] = x /\ \A k \in 1..n : c[k] = step(n)[<<k, c[k - 1]>>]
      BY <2>3 DEF Chain, c
    <2>5. ASSUME NEW k \in 1..n PROVE c[k] = next[c[k - 1]]
      <3>1. k - 1 \in 0..n /\ c[k - 1] \in X
        BY <2>4
      <3>2. step(n)[<<k, c[k - 1]>>] = next[c[k - 1]]
        BY <3>1
      <3> QED
        BY <2>4, <3>2
    <2> QED
      BY <2>4, <2>5 DEF c
  <1> HIDE DEF step, part
  \* A longer chain begins as a shorter one.
  <1>2. ASSUME NEW n \in Nat PROVE \A k \in 0..n : part(n + 1)[k] = part(n)[k]
    <2> DEFINE S == {k \in Nat : k <= n => part(n + 1)[k] = part(n)[k]}
    <2>1. 0 \in S
      BY <1>1
    <2>2. ASSUME NEW k \in Nat, k >= 0, k \in S PROVE k + 1 \in S
      <3>1. CASE k + 1 <= n
        <4>1. k + 1 \in 1..n /\ k + 1 \in 1..(n + 1) /\ (k + 1) - 1 = k /\ k <= n /\ n + 1 \in Nat
          BY <3>1
        <4>2. part(n + 1)[k + 1] = next[part(n + 1)[k]]
          BY <1>1, <4>1
        <4>3. part(n)[k + 1] = next[part(n)[k]]
          BY <1>1, <4>1
        <4> QED
          BY <2>2, <4>1, <4>2, <4>3
      <3> QED
        BY <3>1
    <2> HIDE DEF S
    <2>3. \A k \in Nat : k >= 0 => k \in S
      BY <2>1, <2>2, SetInduction
    <2> QED
      BY <2>3 DEF S
  <1> DEFINE g == [n \in Nat |-> part(n)[n]]
  <1>3. g \in [Nat -> X]
    <2>1. ASSUME NEW n \in Nat PROVE part(n)[n] \in X
      BY <1>1
    <2> QED
      BY <2>1
  <1>4. g[0] = x
    BY <1>1
  <1>5. ASSUME NEW k \in Nat PROVE g[k + 1] = next[g[k]]
    <2>1. k + 1 \in 1..(k + 1) /\ (k + 1) - 1 = k /\ k + 1 \in Nat /\ k \in 0..k
      OBVIOUS
    <2>2. part(k + 1)[k + 1] = next[part(k + 1)[k]]
      BY <1>1, <2>1
    <2>3. part(k + 1)[k] = part(k)[k]
      BY <1>2, <2>1
    <2> QED
      BY <2>1, <2>2, <2>3
  <1> HIDE DEF g
  <1> QED
    BY <1>3, <1>4, <1>5 DEF Orbit

\* Growing subsets of a finite set stop growing by the time they could have
\* filled it.
LEMMA Saturation ==
  ASSUME NEW S, IsFiniteSet(S), NEW x, NEW next, NEW g, Orbit(g, SUBSET S, x, next),
         \A k \in Nat : g[k] \subseteq g[k + 1]
  PROVE  LET N == Cardinality(S) IN N \in Nat /\ g[N + 1] = g[N]
  <1> DEFINE N == Cardinality(S)
  <1>0. N \in Nat
    BY FS_CardinalityType
  <1>1. g \in [Nat -> SUBSET S] /\ \A k \in Nat : g[k + 1] = next[g[k]]
    BY DEF Orbit
  <1>2. ASSUME NEW k \in Nat PROVE IsFiniteSet(g[k]) /\ Cardinality(g[k]) \in Nat /\ Cardinality(g[k]) <= N
    <2>1. g[k] \subseteq S
      BY <1>1
    <2> QED
      BY <2>1, FS_Subset, FS_CardinalityType
  <1> HIDE DEF N
  <1>3. CASE \E m \in 0..N : g[m + 1] = g[m]
    <2>1. PICK m \in 0..N : g[m + 1] = g[m]
      BY <1>3
    <2> DEFINE T == {k \in Nat : g[k] = g[m]}
    <2>2. m \in Nat /\ m \in T
      BY <1>0
    <2>3. ASSUME NEW k \in Nat, k >= m, k \in T PROVE k + 1 \in T
      <3>1. g[k + 1] = next[g[k]] /\ g[k] = g[m] /\ g[m + 1] = next[g[m]]
        BY <1>1, <2>2, <2>3
      <3> QED
        BY <2>1, <3>1
    <2> HIDE DEF T
    <2>4. \A k \in Nat : k >= m => k \in T
      BY <2>2, <2>3, SetInduction
    <2>5. N \in T /\ N + 1 \in T
      BY <1>0, <2>4
    <2> QED
      BY <1>0, <2>5 DEF T, N
  <1>4. CASE \A m \in 0..N : g[m + 1] # g[m]
    <2> DEFINE T == {k \in Nat : k <= N + 1 => k <= Cardinality(g[k])}
    <2>1. 0 \in T
      BY <1>2
    <2>2. ASSUME NEW k \in Nat, k >= 0, k \in T PROVE k + 1 \in T
      <3>1. ASSUME k + 1 <= N + 1 PROVE k + 1 <= Cardinality(g[k + 1])
        <4>1. k \in 0..N /\ k <= Cardinality(g[k]) /\ k + 1 \in Nat
          BY <1>0, <2>2, <3>1
        <4>2. g[k] \subseteq g[k + 1] /\ g[k] # g[k + 1]
          BY <1>4, <4>1
        <4>3. Cardinality(g[k]) < Cardinality(g[k + 1])
          <5>1. PICK e \in g[k + 1] : e \notin g[k]
            BY <4>2
          <5>2. IsFiniteSet(g[k] \cup {e}) /\ Cardinality(g[k] \cup {e}) = Cardinality(g[k]) + 1
            BY <1>2, <5>1, FS_AddElement
          <5>3. g[k] \cup {e} \subseteq g[k + 1] /\ IsFiniteSet(g[k + 1])
            BY <1>2, <4>1, <4>2, <5>1
          <5>4. Cardinality(g[k] \cup {e}) <= Cardinality(g[k + 1])
            BY <5>3, FS_Subset
          <5> QED
            BY <1>2, <4>1, <5>2, <5>4
        <4> QED
          BY <1>2, <4>1, <4>3
      <3> QED
        BY <3>1
    <2> HIDE DEF T
    <2>3. \A k \in Nat : k >= 0 => k \in T
      BY <2>1, <2>2, SetInduction
    <2>4. N + 1 \in Nat /\ N + 1 \in T
      BY <1>0, <2>3
    <2>5. N + 1 <= Cardinality(g[N + 1]) /\ Cardinality(g[N + 1]) <= N /\ Cardinality(g[N + 1]) \in Nat
      BY <1>0, <1>2, <2>4 DEF T
    <2> QED
      BY <1>0, <2>5
  <1> QED
    BY <1>3, <1>4

-----------------------------------------------------------------------------
(* Sums over finite sets.                                                  *)

-----------------------------------------------------------------------------
USE TypeDBAssumption

NameOf(frame) == structs[frame.rec].name

\* Names in progress are not memoised yet; memoised ones are counted.
OpenUnfinished == \A x \in pending : rank[x] = 0
RanksCounted == \A x \in Names : rank[x] <= count

\* What is held by value by a record in progress, and what is on its way to
\* one, is memoised already.
DoneFinished ==
  \A j \in 1..Len(stack) : \A k \in 1..Len(stack[j].done) :
    stack[j].done[k].via = "value" /\ stack[j].done[k].ty \in Names =>
      rank[stack[j].done[k].ty] \in 1..count
RetFinished == ret \in Names => rank[ret] \in 1..count

\* A record that waits for a result has the member it waits for.
Waiting ==
  /\ ret # "none" => stack # <<>>
  /\ \A j \in 1..Len(stack) :
       j < Len(stack) \/ ret # "none" => stack[j].at <= Len(structs[stack[j].rec].members)

LoadInv ==
  /\ TypeOK /\ LastOfEachName(struct_db) /\ PendingIsStack
  /\ OpenUnfinished /\ RanksCounted /\ DoneFinished /\ RetFinished
  /\ Waiting /\ ByValueFinishedBefore

LEMMA LoadInit == Init => LoadInv
  <1> SUFFICES ASSUME Init PROVE LoadInv
    OBVIOUS
  <1>1. structs \in Seq(Record) /\ Len(structs) \in Nat
    BY DEF Init
  <1>2. <<>> \in Seq(Frame) /\ <<>> \in Seq(Field)
    OBVIOUS
  <1>3. TypeOK
    BY <1>1, <1>2 DEF Init, TypeOK
  <1>4. PendingIsStack
    BY DEF Init, PendingIsStack
  <1> QED
    BY <1>3, <1>4 DEF Init, LoadInv, OpenUnfinished, RanksCounted, DoneFinished, RetFinished,
         Waiting, ByValueFinishedBefore

-----------------------------------------------------------------------------
(* Looking a name up.                                                      *)

\* Descending goes into a record of that name.
LEMMA DescendInto ==
  ASSUME LoadInv, NEW x \in Names, NEW d \in 0..Len(structs),
         d # 0 => structs[d].name = x, Answer(x, d) = "descend"
  PROVE  /\ rank[x] = 0 /\ x \notin pending
         /\ Into(x, d) \in 1..Len(structs) /\ structs[Into(x, d)].name = x
  <1>0. x # "descend"
    OBVIOUS
  <1>1. rank[x] = 0 /\ x \notin pending /\ Into(x, d) # 0
    BY <1>0 DEF Answer
  <1>2. CASE IsForward(d)
    BY <1>1, <1>2 DEF Into, Resolved, LoadInv, LastOfEachName, TypeOK
  <1>3. CASE ~IsForward(d)
    <2>1. Into(x, d) = d /\ d # 0
      BY <1>3 DEF Into, IsForward
    <2> QED
      BY <1>1, <2>1
  <1> QED
    BY <1>1, <1>2, <1>3

\* What parse_struct answers at once is nullptr, Bottom or a memoised type.
LEMMA AnswerFinished ==
  ASSUME LoadInv, NEW x \in Names, NEW d, Answer(x, d) # "descend"
  PROVE  /\ Answer(x, d) \in Names \cup {"bottom", "null"}
         /\ Answer(x, d) \in Names => rank[Answer(x, d)] \in 1..count
  <1>1. rank[x] \in Nat /\ rank[x] <= count /\ count \in Nat
    BY DEF LoadInv, TypeOK, RanksCounted
  <1> QED
    BY <1>1 DEF Answer

-----------------------------------------------------------------------------
(* The three things a step does to the stack.                              *)

\* What pushing a record does to the stack.
LEMMA PushStack ==
  ASSUME LoadInv, NEW x \in Names, NEW d \in 0..Len(structs),
         d # 0 => structs[d].name = x, Answer(x, d) = "descend", Push(x, d), UNCHANGED file
  PROVE  /\ rank[x] = 0 /\ x \notin pending
         /\ Into(x, d) \in 1..Len(structs) /\ structs[Into(x, d)].name = x
         /\ UNCHANGED <<structs, struct_db, rank, count, fields, ret>>
         /\ pending' = pending \cup {x} /\ resolving' \in SUBSET Names
         /\ stack' \in Seq(Frame) /\ Len(stack') = Len(stack) + 1
         /\ \A j \in 1..Len(stack) : stack'[j] = stack[j]
         /\ stack'[Len(stack) + 1] =
              [rec |-> Into(x, d), at |-> 1, done |-> <<>>, fwd |-> IsForward(d)]
  <1> DEFINE f == [rec |-> Into(x, d), at |-> 1, done |-> <<>>, fwd |-> IsForward(d)]
             n == Len(stack)
  <1>1. /\ rank[x] = 0 /\ x \notin pending
        /\ Into(x, d) \in 1..Len(structs) /\ structs[Into(x, d)].name = x
    BY DescendInto
  <1>2. /\ structs' = structs /\ struct_db' = struct_db
        /\ UNCHANGED <<rank, count, fields, ret>>
        /\ pending' = pending \cup {x} /\ resolving' \in SUBSET Names
        /\ stack' = Append(stack, f)
    BY DEF file, Push, LoadInv, TypeOK
  <1>3. stack \in Seq(Frame) /\ n \in Nat /\ structs \in Seq(Record)
    BY DEF LoadInv, TypeOK
  <1>4. f \in Frame
    <2>1. IsForward(d) \in BOOLEAN
      <3>1. d # 0 => structs[d] \in Record
        BY <1>3
      <3> QED
        BY <3>1 DEF IsForward, Record
    <2> QED
      BY <1>1, <2>1 DEF Frame
  <1>5. /\ stack' \in Seq(Frame) /\ Len(stack') = n + 1 /\ stack'[n + 1] = f
        /\ \A j \in 1..n : stack'[j] = stack[j]
    BY <1>2, <1>3, <1>4
  <1> HIDE DEF f
  <1> QED
    BY <1>1, <1>2, <1>5 DEF f

LEMMA PushKeeps ==
  ASSUME LoadInv, NEW x \in Names, NEW d \in 0..Len(structs),
         d # 0 => structs[d].name = x, Answer(x, d) = "descend",
         ret = "none", stack # <<>> => Top.at <= Len(TopMembers),
         Push(x, d), UNCHANGED file, top' \in 1..(Len(structs) + 1)
  PROVE  LoadInv'
  <1> DEFINE f == [rec |-> Into(x, d), at |-> 1, done |-> <<>>, fwd |-> IsForward(d)]
             n == Len(stack)
  <1>1. /\ rank[x] = 0 /\ x \notin pending
        /\ Into(x, d) \in 1..Len(structs) /\ structs[Into(x, d)].name = x
        /\ structs' = structs /\ struct_db' = struct_db
        /\ UNCHANGED <<rank, count, fields, ret>>
        /\ pending' = pending \cup {x} /\ resolving' \in SUBSET Names
        /\ stack' \in Seq(Frame) /\ Len(stack') = n + 1 /\ stack'[n + 1] = f
        /\ \A j \in 1..n : stack'[j] = stack[j]
    BY PushStack
  <1>3. n \in Nat /\ structs \in Seq(Record)
    BY DEF LoadInv, TypeOK
  <1> HIDE DEF f
  <1>6. f.rec = Into(x, d) /\ f.at = 1 /\ f.done = <<>>
    BY DEF f
  <1>7. Len(structs[Into(x, d)].members) \in Nat
    BY <1>1, <1>3 DEF Record
  <1>8. TypeOK'
    <2>1. ASSUME NEW j \in 1..Len(stack')
          PROVE  /\ stack'[j].rec \in 1..Len(structs)
                 /\ stack'[j].at \in 1..(Len(structs[stack'[j].rec].members) + 1)
      <3>1. CASE j = n + 1
        BY <1>1, <1>6, <1>7, <3>1
      <3>2. CASE j \in 1..n
        BY <1>1, <3>2 DEF LoadInv, TypeOK
      <3> QED
        BY <1>3, <1>1, <3>1, <3>2
    <2> QED
      BY <1>1, <2>1 DEF LoadInv, TypeOK
  <1>9. PendingIsStack'
    <2>1. /\ \A y \in Names : y \in pending <=> \E j \in 1..n : structs[stack[j].rec].name = y
          /\ \A j, k \in 1..n : structs[stack[j].rec].name = structs[stack[k].rec].name => j = k
      BY DEF LoadInv, PendingIsStack
    <2>2. /\ \A j \in 1..n : structs'[stack'[j].rec].name = structs[stack[j].rec].name
          /\ structs'[stack'[n + 1].rec].name = x
      BY <1>1, <1>6
    <2>3. \A j \in 1..n : structs[stack[j].rec].name # x
      BY <1>1, <2>1
    <2>4. \A y \in Names :
            y \in pending' <=> \E j \in 1..(n + 1) : structs'[stack'[j].rec].name = y
      <3> TAKE y \in Names
      <3>1. ASSUME y \in pending' PROVE \E j \in 1..(n + 1) : structs'[stack'[j].rec].name = y
        <4>1. CASE y = x
          <5>1. n + 1 \in 1..(n + 1)
            BY <1>3
          <5>2. structs'[stack'[n + 1].rec].name = y
            BY <2>2, <4>1
          <5> QED
            BY <5>1, <5>2, Zenon
        <4>2. CASE y # x
          <5>1. PICK j \in 1..n : structs[stack[j].rec].name = y
            BY <1>1, <2>1, <3>1, <4>2
          <5>2. structs'[stack'[j].rec].name = y /\ j \in 1..(n + 1)
            BY <1>3, <2>2, <5>1
          <5> QED
            BY <5>2, Zenon
        <4> QED
          BY <4>1, <4>2
      <3>2. ASSUME NEW j \in 1..(n + 1), structs'[stack'[j].rec].name = y PROVE y \in pending'
        <4>1. CASE j = n + 1
          BY <1>1, <2>2, <3>2, <4>1
        <4>2. CASE j \in 1..n
          BY <1>1, <2>1, <2>2, <3>2, <4>2
        <4> QED
          BY <1>3, <4>1, <4>2
      <3> QED
        BY <3>1, <3>2
    <2>5. \A j, k \in 1..(n + 1) :
            structs'[stack'[j].rec].name = structs'[stack'[k].rec].name => j = k
      <3> TAKE j, k \in 1..(n + 1)
      <3>1. (j = n + 1 \/ j \in 1..n) /\ (k = n + 1 \/ k \in 1..n)
        BY <1>3
      <3> QED
        BY <2>1, <2>2, <2>3, <3>1
    <2> QED
      BY <1>1, <2>4, <2>5 DEF PendingIsStack
  <1>10. DoneFinished'
    <2>1. ASSUME NEW j \in 1..Len(stack'), NEW k \in 1..Len(stack'[j].done)
          PROVE  stack'[j].done[k].via = "value" /\ stack'[j].done[k].ty \in Names =>
                   rank[stack'[j].done[k].ty] \in 1..count
      <3>1. CASE j = n + 1
        BY <1>1, <1>6, <3>1
      <3>2. CASE j \in 1..n
        BY <1>1, <3>2 DEF LoadInv, DoneFinished
      <3> QED
        BY <1>3, <1>1, <3>1, <3>2
    <2> QED
      BY <1>1, <2>1 DEF DoneFinished
  <1>11. LastOfEachName(struct_db)'
    BY <1>1 DEF LoadInv, LastOfEachName
  <1>12. Waiting'
    <2>1. ASSUME NEW j \in 1..(n + 1), j < n + 1
          PROVE  stack'[j].at <= Len(structs[stack'[j].rec].members)
      <3>1. j \in 1..n /\ stack # <<>>
        BY <1>3, <2>1
      <3>2. CASE j = n
        BY <1>1, <3>1, <3>2 DEF Top, TopMembers, Depth
      <3>3. CASE j # n
        <4>1. j < n
          BY <1>3, <3>1, <3>3
        <4> QED
          BY <1>1, <3>1, <4>1 DEF LoadInv, Waiting
      <3> QED
        BY <3>2, <3>3
    <2> QED
      BY <1>1, <2>1 DEF Waiting
  <1> QED
    BY <1>1, <1>8, <1>9, <1>10, <1>11, <1>12
       DEF LoadInv, OpenUnfinished, RanksCounted, RetFinished, ByValueFinishedBefore
\* The field that an accepted member becomes.
Taken(t) == [via |-> TopMembers[Top.at].via, ty |-> t, label |-> TopMembers[Top.at].label]

\* What accepting a member does to the stack.
LEMMA AcceptStack ==
  ASSUME LoadInv, stack # <<>>, Top.at <= Len(TopMembers), NEW t \in Parsed,
         Accept(t), UNCHANGED <<file, top>>
  PROVE  LET n == Len(stack)
         IN  /\ UNCHANGED <<structs, struct_db, top, pending, resolving, rank, count, fields>>
             /\ ret' = "none"
             /\ stack' \in Seq(Frame) /\ Len(stack') = n
             /\ \A j \in 1..n : j # n => stack'[j] = stack[j]
             /\ \A j \in 1..n : stack'[j].rec = stack[j].rec /\ stack'[j].fwd = stack[j].fwd
             /\ stack'[n].at = stack[n].at + 1
             /\ stack'[n].done = Append(stack[n].done, Taken(t))
             /\ Taken(t) \in Field /\ stack[n].done \in Seq(Field)
             /\ n \in 1..n /\ n \in Nat
             /\ stack[n].rec \in 1..Len(structs)
             /\ stack[n].at \in 1..Len(structs[stack[n].rec].members)
             /\ Len(structs[stack[n].rec].members) \in Nat
  <1> DEFINE n == Len(stack)
             e == [via |-> TopMembers[Top.at].via, ty |-> t, label |-> TopMembers[Top.at].label]
             g == [stack[n] EXCEPT !.at = @ + 1, !.done = Append(@, e)]
  <1>1. /\ UNCHANGED <<structs, struct_db, top, pending, resolving, rank, count, fields>>
        /\ ret' = "none" /\ stack' = [stack EXCEPT ![n] = g]
    BY DEF Accept, file, Depth, Top
  <1>2. stack \in Seq(Frame) /\ n \in 1..n /\ n \in Nat /\ structs \in Seq(Record)
    <2>1. stack \in Seq(Frame) /\ structs \in Seq(Record)
      BY DEF LoadInv, TypeOK
    <2> QED
      BY <2>1
  <1>3. /\ stack[n] \in Frame /\ stack[n].rec \in 1..Len(structs)
        /\ stack[n].at \in 1..(Len(structs[stack[n].rec].members) + 1)
        /\ stack[n].at <= Len(structs[stack[n].rec].members)
        /\ Len(structs[stack[n].rec].members) \in Nat
    <2>1. /\ stack[n].rec \in 1..Len(structs)
          /\ stack[n].at \in 1..(Len(structs[stack[n].rec].members) + 1)
      BY <1>2 DEF LoadInv, TypeOK
    <2>2. structs[stack[n].rec] \in Record
      BY <1>2, <2>1
    <2>3. structs[stack[n].rec].members \in Seq(Member)
      BY <2>2 DEF Record
    <2> QED
      BY <1>2, <2>1, <2>3 DEF Top, TopMembers, Depth
  <1>4. e \in Field
    <2>1. structs[stack[n].rec] \in Record
      BY <1>2, <1>3
    <2>2. structs[stack[n].rec].members[stack[n].at] \in Member
      BY <2>1, <1>3 DEF Record
    <2> QED
      BY <2>2 DEF Field, Member, TopMembers, Top, Depth
  <1> HIDE DEF e
  <1>6. /\ g \in Frame /\ g.rec = stack[n].rec /\ g.fwd = stack[n].fwd /\ g.at = stack[n].at + 1
        /\ g.done = Append(stack[n].done, e) /\ stack[n].done \in Seq(Field)
    <2>1. stack[n].done \in Seq(Field) /\ stack[n].at \in Nat
      BY <1>3 DEF Frame
    <2>2. PICK more \in Seq(Field) : more = Append(stack[n].done, e)
      BY <1>4, <2>1, AppendProperties, Zenon
    <2>3. PICK frame \in Frame : frame = stack[n]
      BY <1>3
    <2>4. g = [frame EXCEPT !.at = frame.at + 1, !.done = more]
      BY <2>2, <2>3
    <2> HIDE DEF g
    <2>5. g = [rec |-> frame.rec, at |-> frame.at + 1, done |-> more, fwd |-> frame.fwd]
      BY <2>4 DEF Frame
    <2>6. /\ frame.rec \in Nat /\ frame.at + 1 \in Nat /\ frame.fwd \in BOOLEAN
      BY DEF Frame
    <2>7. g \in Frame
      BY <2>5, <2>6, Zenon DEF Frame
    <2>8. g.rec = frame.rec /\ g.fwd = frame.fwd /\ g.at = frame.at + 1 /\ g.done = more
      BY <2>5
    <2> QED
      BY <2>1, <2>2, <2>3, <2>7, <2>8
  <1> HIDE DEF g
  <1>7. /\ stack' \in Seq(Frame) /\ Len(stack') = n /\ stack'[n] = g
        /\ \A j \in 1..n : j # n => stack'[j] = stack[j]
        /\ \A j \in 1..n : stack'[j].rec = stack[j].rec /\ stack'[j].fwd = stack[j].fwd
    BY <1>1, <1>2, <1>6
  <1>8. e = Taken(t)
    BY DEF e, Taken
  <1>9. stack[n].at \in 1..Len(structs[stack[n].rec].members)
    BY <1>3
  <1> QED
    BY <1>1, <1>2, <1>3, <1>4, <1>6, <1>7, <1>8, <1>9

\* The step of parse_struct from one member to the next.
LEMMA AcceptKeeps ==
  ASSUME LoadInv, stack # <<>>, Top.at <= Len(TopMembers),
         NEW t \in Parsed, t \in Names => rank[t] \in 1..count,
         Accept(t), UNCHANGED <<file, top>>
  PROVE  LoadInv'
  <1> DEFINE n == Len(stack)
             e == Taken(t)
  <1>1. /\ UNCHANGED <<structs, struct_db, top, pending, resolving, rank, count, fields>>
        /\ ret' = "none"
        /\ stack' \in Seq(Frame) /\ Len(stack') = n
        /\ \A j \in 1..n : j # n => stack'[j] = stack[j]
        /\ \A j \in 1..n : stack'[j].rec = stack[j].rec
        /\ stack'[n].rec = stack[n].rec /\ stack'[n].at = stack[n].at + 1
        /\ stack'[n].done = Append(stack[n].done, e)
        /\ e \in Field /\ stack[n].done \in Seq(Field)
        /\ n \in 1..n /\ n \in Nat
        /\ stack[n].rec \in 1..Len(structs)
        /\ stack[n].at \in 1..Len(structs[stack[n].rec].members)
        /\ Len(structs[stack[n].rec].members) \in Nat
    BY AcceptStack
  <1>5. e.ty = t
    BY DEF Taken
  <1> HIDE DEF e
  <1>8. TypeOK'
    <2>1. ASSUME NEW j \in 1..Len(stack')
          PROVE  /\ stack'[j].rec \in 1..Len(structs)
                 /\ stack'[j].at \in 1..(Len(structs[stack'[j].rec].members) + 1)
      <3>1. CASE j = n
        <4>1. stack'[j].rec = stack[n].rec /\ stack'[j].at = stack[n].at + 1
          BY <1>1, <3>1
        <4>2. PICK m \in Nat : m = Len(structs[stack[n].rec].members)
          BY <1>1
        <4>3. stack[n].at + 1 \in 1..(m + 1)
          BY <1>1, <4>2
        <4> QED
          BY <1>1, <4>1, <4>2, <4>3
      <3>2. CASE j # n
        BY <1>1, <3>2 DEF LoadInv, TypeOK
      <3> QED
        BY <3>1, <3>2
    <2> QED
      BY <1>1, <2>1 DEF LoadInv, TypeOK
  <1>9. PendingIsStack'
    <2>1. \A j \in 1..n : structs'[stack'[j].rec].name = structs[stack[j].rec].name
      BY <1>1
    <2>2. /\ \A y \in Names : y \in pending <=> \E j \in 1..n : structs[stack[j].rec].name = y
          /\ \A j, k \in 1..n : structs[stack[j].rec].name = structs[stack[k].rec].name => j = k
      BY DEF LoadInv, PendingIsStack
    <2>3. \A y \in Names :
            y \in pending' <=> \E j \in 1..n : structs'[stack'[j].rec].name = y
      <3>1. pending' = pending
        BY <1>1
      <3> QED
        BY <2>1, <2>2, <3>1
    <2>4. \A j, k \in 1..n :
            structs'[stack'[j].rec].name = structs'[stack'[k].rec].name => j = k
      BY <2>1, <2>2
    <2> QED
      BY <1>1, <2>3, <2>4 DEF PendingIsStack
  <1>10. DoneFinished'
    <2>1. ASSUME NEW j \in 1..n, NEW k \in 1..Len(stack'[j].done),
                 stack'[j].done[k].via = "value", stack'[j].done[k].ty \in Names
          PROVE  rank[stack'[j].done[k].ty] \in 1..count
      <3>1. CASE j # n
        BY <1>1, <2>1, <3>1 DEF LoadInv, DoneFinished
      <3>2. CASE j = n
        <4>1. /\ stack'[j].done = Append(stack[n].done, e)
              /\ k \in 1..Len(stack[n].done) \/ k = Len(stack[n].done) + 1
          BY <1>1, <3>2
        <4>2. CASE k \in 1..Len(stack[n].done)
          <5>1. stack'[j].done[k] = stack[n].done[k]
            BY <1>1, <4>1, <4>2
          <5> QED
            BY <1>1, <2>1, <4>2, <5>1 DEF LoadInv, DoneFinished
        <4>3. CASE k = Len(stack[n].done) + 1
          <5>1. stack'[j].done[k] = e
            BY <1>1, <4>1, <4>3
          <5> QED
            BY <1>5, <2>1, <5>1
        <4> QED
          BY <4>1, <4>2, <4>3
      <3> QED
        BY <3>1, <3>2
    <2> QED
      BY <1>1, <2>1 DEF DoneFinished
  <1>11. LastOfEachName(struct_db)'
    BY <1>1 DEF LoadInv, LastOfEachName
  <1>12. "none" \notin Names
    OBVIOUS
  <1>13. Waiting'
    <2>1. ASSUME NEW j \in 1..n, j < n
          PROVE  stack'[j].at <= Len(structs[stack'[j].rec].members)
      <3>1. stack'[j] = stack[j]
        BY <1>1, <2>1
      <3> QED
        BY <2>1, <3>1 DEF LoadInv, Waiting
    <2> QED
      BY <1>1, <2>1 DEF Waiting
  <1> QED
    BY <1>1, <1>8, <1>9, <1>10, <1>11, <1>12, <1>13
       DEF LoadInv, OpenUnfinished, RanksCounted, RetFinished, ByValueFinishedBefore

-----------------------------------------------------------------------------
(* Leaving a record.                                                       *)

\* What leaving a record does to the stack and to pending_.
LEMMA PopStack ==
  ASSUME LoadInv, stack # <<>>, NEW r, Pop(r), UNCHANGED file
  PROVE  /\ stack' \in Seq(Frame) /\ Len(stack') = Len(stack) - 1
         /\ \A j \in 1..(Len(stack) - 1) : stack'[j] = stack[j]
         /\ TopName \in Names /\ TopName \in pending
         /\ pending' = pending \ {TopName} /\ resolving' \in SUBSET Names
         /\ PendingIsStack' /\ Waiting'
  <1> DEFINE n == Len(stack)
  <1>1. stack \in Seq(Frame) /\ n \in 1..n /\ n \in Nat /\ structs \in Seq(Record)
    <2>1. stack \in Seq(Frame) /\ structs \in Seq(Record)
      BY DEF LoadInv, TypeOK
    <2> QED
      BY <2>1
  <1>2. stack' = SubSeq(stack, 1, n - 1) /\ pending' = pending \ {TopName} /\ structs' = structs
    BY DEF Pop, Depth, file
  <1>3. /\ stack' \in Seq(Frame) /\ Len(stack') = n - 1
        /\ \A j \in 1..(n - 1) : stack'[j] = stack[j]
    <2>1. 1 \in Int /\ n - 1 \in Int /\ \A j \in 1..(n - 1) : stack[j] \in Frame
      BY <1>1
    <2>2. /\ SubSeq(stack, 1, n - 1) \in Seq(Frame)
          /\ Len(SubSeq(stack, 1, n - 1)) = IF 1 <= n - 1 THEN (n - 1) - 1 + 1 ELSE 0
          /\ \A j \in 1..((n - 1) - 1 + 1) : SubSeq(stack, 1, n - 1)[j] = stack[1 + j - 1]
      BY <2>1, SubSeqProperties
    <2>3. PICK rest :
            /\ rest = SubSeq(stack, 1, n - 1) /\ rest \in Seq(Frame)
            /\ Len(rest) = IF 1 <= n - 1 THEN (n - 1) - 1 + 1 ELSE 0
            /\ \A j \in 1..((n - 1) - 1 + 1) : rest[j] = stack[1 + j - 1]
      BY <2>2, Zenon
    <2>4. Len(rest) = n - 1 /\ \A j \in 1..(n - 1) : rest[j] = stack[j]
      <3>1. /\ Len(rest) = IF 1 <= n - 1 THEN (n - 1) - 1 + 1 ELSE 0
            /\ \A j \in 1..((n - 1) - 1 + 1) : rest[j] = stack[1 + j - 1]
        BY <2>3, Zenon
      <3>2. n \in Nat /\ n >= 1
        BY <1>1
      <3> HIDE DEF n
      <3>3. Len(rest) = n - 1
        BY <3>1, <3>2
      <3>4. ASSUME NEW j \in 1..(n - 1) PROVE rest[j] = stack[j]
        <4>1. j \in 1..((n - 1) - 1 + 1) /\ 1 + j - 1 = j
          BY <3>2
        <4>2. rest[j] = stack[1 + j - 1]
          BY <3>1, <4>1, Zenon
        <4> QED
          BY <4>1, <4>2
      <3> QED
        BY <3>3, <3>4
    <2>5. stack' = rest
      BY <1>2, <2>3, Zenon
    <2> QED
      BY <2>3, <2>4, <2>5
  <1>4. TopName = structs[stack[n].rec].name /\ TopName \in Names
    <2>1. stack[n].rec \in 1..Len(structs)
      BY <1>1 DEF LoadInv, TypeOK
    <2>2. structs[stack[n].rec] \in Record
      BY <1>1, <2>1
    <2> QED
      BY <2>2 DEF TopName, Top, Depth, Record
  <1>5. TopName \in pending
    BY <1>1, <1>4 DEF LoadInv, PendingIsStack
  <1>6. resolving' \in SUBSET Names
    BY DEF Pop, LoadInv, TypeOK
  <1>7. /\ \A y \in Names : y \in pending <=> \E j \in 1..n : structs[stack[j].rec].name = y
        /\ \A j, k \in 1..n : structs[stack[j].rec].name = structs[stack[k].rec].name => j = k
    BY DEF LoadInv, PendingIsStack
  <1>8. ASSUME NEW y \in Names
        PROVE  y \in pending' <=> \E j \in 1..(n - 1) : structs[stack[j].rec].name = y
    <2>1. ASSUME y \in pending' PROVE \E j \in 1..(n - 1) : structs[stack[j].rec].name = y
      <3>1. PICK j \in 1..n : structs[stack[j].rec].name = y
        BY <1>2, <1>7, <2>1
      <3>2. j # n
        BY <1>2, <1>4, <2>1, <3>1
      <3> QED
        BY <1>1, <3>1, <3>2
    <2>2. ASSUME NEW j \in 1..(n - 1), structs[stack[j].rec].name = y PROVE y \in pending'
      <3>1. j \in 1..n /\ j # n
        BY <1>1
      <3> QED
        BY <1>1, <1>2, <1>4, <1>7, <2>2, <3>1
    <2> QED
      BY <2>1, <2>2
  <1>9. 1..(n - 1) \subseteq 1..n
    BY <1>1
  <1>10. PendingIsStack'
    <2>1. \A j \in 1..(n - 1) : structs'[stack'[j].rec].name = structs[stack[j].rec].name
      BY <1>2, <1>3
    <2>2. \A y \in Names :
            y \in pending' <=> \E j \in 1..(n - 1) : structs'[stack'[j].rec].name = y
      BY <1>8, <2>1
    <2>3. \A j, k \in 1..(n - 1) :
            structs'[stack'[j].rec].name = structs'[stack'[k].rec].name => j = k
      BY <1>7, <1>9, <2>1
    <2> QED
      BY <1>3, <2>2, <2>3 DEF PendingIsStack
  <1>11. Waiting'
    <2>1. ASSUME NEW j \in 1..(n - 1)
          PROVE  stack'[j].at <= Len(structs[stack'[j].rec].members)
      <3>1. j \in 1..n /\ j < n
        BY <1>1
      <3> QED
        BY <1>3, <3>1 DEF LoadInv, Waiting
    <2>2. ret' # "none" => n # 1
      BY DEF Pop, Depth
    <2>3. n # 1 => stack' # <<>>
      BY <1>1, <1>3
    <2> QED
      BY <1>2, <1>3, <2>1, <2>2, <2>3 DEF Waiting
  <1> QED
    BY <1>2, <1>3, <1>4, <1>5, <1>6, <1>10, <1>11
\* A record that cannot be parsed leaves no type behind.
LEMMA FailKeeps ==
  ASSUME LoadInv, stack # <<>>, Pop("null"), UNCHANGED <<rank, count, fields>>,
         UNCHANGED <<file, top>>
  PROVE  LoadInv'
  <1>0. stack \in Seq(Frame) /\ Len(stack) \in Nat
    BY DEF LoadInv, TypeOK
  <1>1. /\ stack' \in Seq(Frame) /\ Len(stack') = Len(stack) - 1
        /\ \A j \in 1..(Len(stack) - 1) : stack'[j] = stack[j]
        /\ pending' = pending \ {TopName} /\ resolving' \in SUBSET Names
        /\ PendingIsStack' /\ Waiting'
    BY PopStack
  <1>2. /\ UNCHANGED <<structs, struct_db, top, rank, count, fields>>
        /\ ret' \in {"none", "null"} /\ ret' \notin Names
    BY DEF file, Pop
  <1>3. 1..(Len(stack) - 1) \subseteq 1..Len(stack)
    BY <1>0
  <1>4. TypeOK'
    <2>1. ASSUME NEW j \in 1..Len(stack')
          PROVE  /\ stack'[j].rec \in 1..Len(structs)
                 /\ stack'[j].at \in 1..(Len(structs[stack'[j].rec].members) + 1)
      BY <1>1, <1>3 DEF LoadInv, TypeOK
    <2> QED
      BY <1>1, <1>2, <2>1 DEF LoadInv, TypeOK
  <1>5. DoneFinished'
    BY <1>1, <1>2, <1>3 DEF LoadInv, DoneFinished
  <1> QED
    BY <1>1, <1>2, <1>4, <1>5
       DEF LoadInv, LastOfEachName, OpenUnfinished, RanksCounted, RetFinished,
           ByValueFinishedBefore

-----------------------------------------------------------------------------
(* apply_patches.                                                          *)

\* What a slice or a Placeholder is made of has been there before.
LEMMA PlaceholderWithin ==
  ASSUME NEW fs \in Seq(Field)
  PROVE  /\ Placeholder(fs) \in Seq(Field)
         /\ \A k \in 1..Len(Placeholder(fs)) : \E j \in 1..Len(fs) : Placeholder(fs)[k] = fs[j]
  <1> DEFINE Blocks == {b \in (1..Len(fs)) \X (1..Len(fs)) :
                          /\ b[1] <= b[2]
                          /\ \A k \in 1..Len(fs) : fs[k].label = "Placeholder" <=> k \in b[1]..b[2]}
             block == CHOOSE b \in Blocks : TRUE
  <1>1. Len(fs) \in Nat
    OBVIOUS
  <1>2. CASE Blocks = {}
    BY <1>2 DEF Placeholder
  <1>3. CASE Blocks # {}
    <2>1. block \in Blocks
      BY <1>3
    <2>2. block[1] \in 1..Len(fs) /\ block[2] \in 1..Len(fs) /\ block[1] <= block[2]
      BY <2>1
    <2>3. Placeholder(fs) = SubSeq(fs, block[1], block[2])
      BY <1>3 DEF Placeholder
    <2> HIDE DEF block, Blocks
    <2> DEFINE i == block[1]
               j == block[2]
    <2>4. i \in 1..Len(fs) /\ j \in 1..Len(fs) /\ i <= j /\ Placeholder(fs) = SubSeq(fs, i, j)
      BY <2>2, <2>3
    <2> HIDE DEF i, j
    <2>5. /\ SubSeq(fs, i, j) \in Seq(Field) /\ Len(SubSeq(fs, i, j)) = j - i + 1
          /\ \A k \in 1..(j - i + 1) : SubSeq(fs, i, j)[k] = fs[i + k - 1]
      BY <1>1, <2>4, SubSeqProperties
    <2>6. \A k \in 1..(j - i + 1) : i + k - 1 \in 1..Len(fs)
      BY <1>1, <2>4
    <2> QED
      BY <2>4, <2>5, <2>6
  <1> QED
    BY <1>2, <1>3

LEMMA SliceWithin ==
  ASSUME NEW fs \in Seq(Field), to_slice(fs) # fs
  PROVE  /\ to_slice(fs) \in Seq(Field) /\ Len(to_slice(fs)) = 1
         /\ to_slice(fs)[1].via = "slice"
  <1> DEFINE Data == {d \in LastOf(fs, "data_ptr") :
                        /\ fs[d].via = "pointer"
                        /\ \E l \in LastOf(fs, "length") : fs[l].via = "value" /\ fs[l].ty = "word"}
             d == CHOOSE d \in Data : TRUE
             s == [via |-> "slice", ty |-> fs[d].ty, label |-> "other"]
  <1>1. Data # {} /\ to_slice(fs) = <<s>>
    BY DEF to_slice
  <1>2. d \in Data
    BY <1>1
  <1>3. d \in 1..Len(fs)
    BY <1>2 DEF LastOf
  <1> HIDE DEF d, Data
  <1>4. fs[d] \in Field
    BY <1>3
  <1>5. s \in Field
    BY <1>4 DEF Field, Labels
  <1>6. s.via = "slice"
    OBVIOUS
  <1> HIDE DEF s
  <1> QED
    BY <1>1, <1>5, <1>6

\* The fields of a patched type are its own or those of a finished enum, and
\* then finished before it.
LEMMA PatchesFinished ==
  ASSUME LoadInv, NEW x \in Names, NEW fs \in Seq(Field),
         \A k \in 1..Len(fs) :
           fs[k].via = "value" /\ fs[k].ty \in Names => rank[fs[k].ty] \in 1..count
  PROVE  /\ apply_patches(x, fs) \in Seq(Field)
         /\ \A k \in 1..Len(apply_patches(x, fs)) :
              apply_patches(x, fs)[k].via = "value" /\ apply_patches(x, fs)[k].ty \in Names =>
                rank[apply_patches(x, fs)[k].ty] \in 1..count
  <1> DEFINE s == to_slice(fs)
  <1>1. /\ s \in Seq(Field)
        /\ \A k \in 1..Len(s) : s[k].via = "value" /\ s[k].ty \in Names => rank[s[k].ty] \in 1..count
    <2>1. CASE s = fs
      BY <2>1
    <2>2. CASE s # fs
      BY <2>2, SliceWithin
    <2> QED
      BY <2>1, <2>2
  <1> HIDE DEF s
  <1>2. CASE apply_patches(x, fs) \in {fs, s}
    BY <1>1, <1>2
  <1>3. CASE apply_patches(x, fs) \notin {fs, s}
    <2>1. /\ Named(s) = {"ty"} /\ s[1].via = "value" /\ s[1].ty \in Enums
          /\ apply_patches(x, fs) = Placeholder(fields[s[1].ty])
      BY <1>3 DEF apply_patches, unwrap_argument, s
    <2>2. 1 \in 1..Len(s)
      BY <1>1, <2>1 DEF Named
    <2> DEFINE y == s[1].ty
               held == fields[y]
    <2>3. y \in Names /\ rank[y] \in 1..count
      BY <1>1, <2>1, <2>2
    <2>4. held \in Seq(Field) /\ count \in Nat /\ rank \in [Names -> Nat]
      BY <2>3 DEF LoadInv, TypeOK
    <2>5. ASSUME NEW j \in 1..Len(held), held[j].via = "value", held[j].ty \in Names
          PROVE  rank[held[j].ty] \in 1..count
      <3>1. rank[held[j].ty] \in 1..(rank[y] - 1)
        BY <2>3, <2>5 DEF LoadInv, ByValueFinishedBefore
      <3> QED
        BY <2>3, <2>4, <2>5, <3>1
    <2>6. apply_patches(x, fs) = Placeholder(held)
      BY <2>1
    <2> HIDE DEF held, y
    <2> DEFINE p == Placeholder(held)
    <2>7. p \in Seq(Field) /\ \A k \in 1..Len(p) : \E j \in 1..Len(held) : p[k] = held[j]
      BY <2>4, PlaceholderWithin
    <2> HIDE DEF p
    <2>8. ASSUME NEW k \in 1..Len(p), p[k].via = "value", p[k].ty \in Names
          PROVE  rank[p[k].ty] \in 1..count
      <3>1. PICK j \in 1..Len(held) : p[k] = held[j]
        BY <2>7
      <3> QED
        BY <2>5, <2>8, <3>1
    <2>9. apply_patches(x, fs) = p
      BY <2>6 DEF p
    <2> QED
      BY <2>7, <2>8, <2>9
  <1> QED
    BY <1>2, <1>3

-----------------------------------------------------------------------------
\* A finished record is memoised after everything it holds by value.
LEMMA FinishKeeps ==
  ASSUME LoadInv, FinishRecord
  PROVE  LoadInv'
  <1> DEFINE x == TopName
             n == Len(stack)
  <1>0. /\ stack \in Seq(Frame) /\ n \in Nat /\ n \in 1..n /\ count \in Nat
        /\ rank \in [Names -> Nat] /\ fields \in [Names -> Seq(Field)]
    <2>1. /\ stack \in Seq(Frame) /\ stack # <<>> /\ count \in Nat
          /\ rank \in [Names -> Nat] /\ fields \in [Names -> Seq(Field)]
      BY DEF LoadInv, TypeOK, FinishRecord
    <2> QED
      BY <2>1
  <1>1. /\ stack' \in Seq(Frame) /\ Len(stack') = n - 1
        /\ \A j \in 1..(n - 1) : stack'[j] = stack[j]
        /\ x \in Names /\ x \in pending
        /\ pending' = pending \ {x} /\ resolving' \in SUBSET Names
        /\ PendingIsStack' /\ Waiting'
    BY PopStack DEF FinishRecord
  <1>2. /\ UNCHANGED <<structs, struct_db, top>>
        /\ ret' \in {"none", x} /\ count' = count + 1
        /\ rank' = [rank EXCEPT ![x] = count + 1]
        /\ fields' = [fields EXCEPT ![x] = apply_patches(x, stack[n].done)]
    BY DEF file, Pop, FinishRecord, Top, Depth
  <1>3. rank[x] = 0
    BY <1>1 DEF LoadInv, OpenUnfinished
  <1>4. 1..(n - 1) \subseteq 1..n
    BY <1>0
  <1> HIDE DEF x
  <1>5. stack[n].done \in Seq(Field)
    <2>1. stack[n] \in Frame
      BY <1>0
    <2> QED
      BY <2>1 DEF Frame
  <1> DEFINE patched == apply_patches(x, stack[n].done)
  <1>16. /\ patched \in Seq(Field)
         /\ \A k \in 1..Len(patched) :
              patched[k].via = "value" /\ patched[k].ty \in Names => rank[patched[k].ty] \in 1..count
    <2>1. \A k \in 1..Len(stack[n].done) :
            stack[n].done[k].via = "value" /\ stack[n].done[k].ty \in Names =>
              rank[stack[n].done[k].ty] \in 1..count
      BY <1>0 DEF LoadInv, DoneFinished
    <2> QED
      BY <1>1, <1>5, <2>1, PatchesFinished
  <1> HIDE DEF patched
  <1>6. /\ rank' \in [Names -> Nat] /\ rank'[x] = count + 1
        /\ \A y \in Names : y # x => rank'[y] = rank[y]
    BY <1>0, <1>1, <1>2
  <1>7. /\ fields' \in [Names -> Seq(Field)] /\ fields'[x] = patched
        /\ \A y \in Names : y # x => fields'[y] = fields[y]
    BY <1>0, <1>1, <1>2, <1>16 DEF patched
  <1>8. TypeOK'
    <2>1. ASSUME NEW j \in 1..Len(stack')
          PROVE  /\ stack'[j].rec \in 1..Len(structs)
                 /\ stack'[j].at \in 1..(Len(structs[stack'[j].rec].members) + 1)
      BY <1>1, <1>4 DEF LoadInv, TypeOK
    <2>2. count' \in Nat /\ ret' \in Names \cup {"none", "null"}
      BY <1>0, <1>1, <1>2
    <2> QED
      BY <1>1, <1>2, <1>6, <1>7, <2>1, <2>2 DEF LoadInv, TypeOK
  <1>9. LastOfEachName(struct_db)'
    BY <1>2 DEF LoadInv, LastOfEachName
  <1>10. OpenUnfinished'
    BY <1>1, <1>6 DEF LoadInv, OpenUnfinished, TypeOK
  <1>11. RanksCounted'
    <2>1. \A y \in Names : rank[y] <= count /\ rank[y] \in Nat
      BY <1>0 DEF LoadInv, RanksCounted
    <2>2. ASSUME NEW y \in Names PROVE rank'[y] <= count + 1
      <3>1. CASE y = x
        BY <1>0, <1>6, <3>1
      <3>2. CASE y # x
        <4>1. rank'[y] = rank[y]
          BY <1>6, <3>2
        <4> QED
          BY <1>0, <2>1, <4>1
      <3> QED
        BY <3>1, <3>2
    <2> QED
      BY <1>2, <2>2 DEF RanksCounted
  \* What was finished stays where it was.
  <1>12. ASSUME NEW y \in Names, NEW c \in Nat, rank[y] \in 1..c
         PROVE  rank'[y] = rank[y]
    BY <1>3, <1>6, <1>12
  <1>13. DoneFinished'
    <2>1. ASSUME NEW j \in 1..(n - 1), NEW k \in 1..Len(stack[j].done),
                 stack[j].done[k].via = "value", stack[j].done[k].ty \in Names
          PROVE  rank'[stack[j].done[k].ty] \in 1..(count + 1)
      <3>1. rank[stack[j].done[k].ty] \in 1..count
        BY <1>4, <2>1 DEF LoadInv, DoneFinished
      <3>2. rank'[stack[j].done[k].ty] = rank[stack[j].done[k].ty]
        BY <1>0, <1>12, <2>1, <3>1
      <3> QED
        BY <1>0, <3>1, <3>2
    <2> QED
      BY <1>1, <1>2, <2>1 DEF DoneFinished
  <1>14. RetFinished'
    <2>1. "none" \notin Names
      OBVIOUS
    <2> QED
      BY <1>0, <1>2, <1>6, <2>1 DEF RetFinished
  <1>15. ByValueFinishedBefore'
    <2>1. ASSUME NEW y \in Names, NEW k \in 1..Len(fields'[y]),
                 fields'[y][k].via = "value", fields'[y][k].ty \in Names
          PROVE  rank'[fields'[y][k].ty] \in 1..(rank'[y] - 1)
      <3>1. CASE y = x
        <4>1. rank[fields'[y][k].ty] \in 1..count
          BY <1>7, <1>16, <2>1, <3>1
        <4>2. rank'[fields'[y][k].ty] = rank[fields'[y][k].ty]
          BY <1>0, <1>12, <2>1, <4>1
        <4> QED
          BY <1>0, <1>6, <3>1, <4>1, <4>2
      <3>2. CASE y # x
        <4>1. fields'[y] = fields[y] /\ rank'[y] = rank[y] /\ rank[y] \in Nat
          BY <1>0, <1>6, <1>7, <3>2
        <4>2. rank[fields'[y][k].ty] \in 1..(rank[y] - 1)
          BY <2>1, <4>1 DEF LoadInv, ByValueFinishedBefore
        <4>3. rank'[fields'[y][k].ty] = rank[fields'[y][k].ty]
          <5>1. rank[y] - 1 \in Nat
            BY <4>1, <4>2
          <5> QED
            BY <1>12, <2>1, <4>2, <5>1
        <4> QED
          BY <4>1, <4>2, <4>3
      <3> QED
        BY <3>1, <3>2
    <2> QED
      BY <2>1 DEF ByValueFinishedBefore
  <1> QED
    BY <1>1, <1>8, <1>9, <1>10, <1>11, <1>13, <1>14, <1>15 DEF LoadInv
\* What a record does with the answer for its current member.
LEMMA GiveKeeps ==
  ASSUME LoadInv, stack # <<>>, Top.at <= Len(TopMembers),
         NEW r \in Parsed \cup {"null"}, r \in Names => rank[r] \in 1..count,
         Give(r), UNCHANGED <<file, top>>
  PROVE  LoadInv'
  <1>1. CASE r # "null"
    BY <1>1, AcceptKeeps DEF Give
  <1>2. CASE r = "null" /\ TopMembers[Top.at].via = "pointer"
    <2>1. Accept("bottom") /\ "bottom" \in Parsed /\ "bottom" \notin Names
      BY <1>2 DEF Give, Parsed
    <2> QED
      BY <2>1, AcceptKeeps
  <1>3. CASE r = "null" /\ TopMembers[Top.at].via # "pointer"
    <2>1. Pop("null") /\ UNCHANGED <<rank, count, fields>>
      BY <1>3 DEF Give
    <2> QED
      BY <2>1, FailKeeps
  <1> QED
    BY <1>1, <1>2, <1>3

-----------------------------------------------------------------------------
(* The steps of load.                                                      *)

LEMMA LoadNextKeeps == ASSUME LoadInv, LoadNext PROVE LoadInv'
  <1>1. /\ stack = <<>> /\ top \in 1..Len(structs) /\ top' = top + 1 /\ UNCHANGED file
        /\ Len(structs) \in Nat /\ structs \in Seq(Record)
    BY DEF LoadInv, TypeOK, LoadNext
  <1>2. top' \in 1..(Len(structs) + 1) /\ top \in 0..Len(structs)
    BY <1>1
  <1>3. structs[top].name \in Names
    <2>1. structs[top] \in Record
      BY <1>1
    <2> QED
      BY <2>1 DEF Record
  <1>4. ret = "none"
    BY <1>1 DEF LoadInv, Waiting
  <1>5. CASE Answer(structs[top].name, top) = "descend"
    <2>1. Push(structs[top].name, top)
      BY <1>5 DEF LoadNext
    <2> QED
      BY <1>1, <1>2, <1>3, <1>4, <1>5, <2>1, PushKeeps
  <1>6. CASE Answer(structs[top].name, top) # "descend"
    <2>1. UNCHANGED <<stack, pending, resolving, rank, count, fields, ret, structs, struct_db>>
      BY <1>6 DEF LoadNext, file
    <2> QED
      BY <1>2, <2>1
         DEF LoadInv, TypeOK, LastOfEachName, PendingIsStack, OpenUnfinished, RanksCounted,
             DoneFinished, RetFinished, Waiting, ByValueFinishedBefore
  <1> QED
    BY <1>5, <1>6

LEMMA ParseMemberKeeps == ASSUME LoadInv, ParseMember PROVE LoadInv'
  <1> DEFINE x == TopMembers[Top.at].of
  <1>1. /\ stack # <<>> /\ ret = "none" /\ Top.at <= Len(TopMembers)
        /\ UNCHANGED <<file, top>> /\ Len(structs) \in Nat
        /\ top \in 1..(Len(structs) + 1)
    BY DEF LoadInv, TypeOK, ParseMember
  <1>2. x \in Names \cup Primitives \cup {"bad"}
    <2>1. /\ stack \in Seq(Frame) /\ Depth \in 1..Len(stack) /\ structs \in Seq(Record)
          /\ Top.rec \in 1..Len(structs) /\ Top.at \in 1..(Len(TopMembers) + 1)
      <3>1. stack \in Seq(Frame) /\ structs \in Seq(Record)
        BY DEF LoadInv, TypeOK
      <3>2. Depth \in 1..Len(stack)
        BY <1>1, <3>1 DEF Depth
      <3> QED
        BY <3>1, <3>2 DEF LoadInv, TypeOK, Top, TopMembers
    <2>2. TopMembers \in Seq(Member)
      <3>1. structs[Top.rec] \in Record
        BY <2>1
      <3> QED
        BY <3>1 DEF Record, TopMembers
    <2>3. Len(TopMembers) \in Nat
      BY <2>2
    <2>4. Top.at \in 1..Len(TopMembers)
      BY <1>1, <2>1, <2>3
    <2>5. TopMembers[Top.at] \in Member
      BY <2>2, <2>4
    <2> QED
      BY <2>5 DEF Member
  <1>3. /\ Primitives \cup {"bottom"} \subseteq Parsed /\ Names \subseteq Parsed
        /\ (Primitives \cup {"bad", "bottom", "null"}) \cap Names = {} /\ "bad" \notin Primitives
    BY DEF Parsed, Primitives
  <1>4. CASE x \in Primitives
    <2>1. Give(x)
      BY <1>4 DEF ParseMember
    <2>2. x \in Parsed \cup {"null"} /\ x \notin Names
      BY <1>3, <1>4
    <2> QED
      BY <1>1, <2>1, <2>2, GiveKeeps
  <1>5. CASE x = "bad"
    <2>1. Give("null")
      BY <1>3, <1>5 DEF ParseMember
    <2> QED
      BY <1>1, <1>3, <2>1, GiveKeeps
  <1>6. CASE x \in Names /\ Answer(x, 0) = "descend"
    <2>1. Push(x, 0)
      BY <1>3, <1>6 DEF ParseMember
    <2>2. 0 \in 0..Len(structs) /\ top' \in 1..(Len(structs) + 1) /\ UNCHANGED file
      BY <1>1
    <2> QED
      BY <1>1, <1>6, <2>1, <2>2, PushKeeps
  <1>7. CASE x \in Names /\ Answer(x, 0) # "descend"
    <2>1. Give(Answer(x, 0))
      BY <1>3, <1>7 DEF ParseMember
    <2>2. /\ Answer(x, 0) \in Names \cup {"bottom", "null"}
          /\ Answer(x, 0) \in Names => rank[Answer(x, 0)] \in 1..count
      BY <1>7, AnswerFinished
    <2> QED
      BY <1>1, <1>3, <2>1, <2>2, GiveKeeps
  <1> QED
    BY <1>2, <1>4, <1>5, <1>6, <1>7

LEMMA TakeResultKeeps == ASSUME LoadInv, TakeResult PROVE LoadInv'
  <1>1. /\ stack # <<>> /\ ret # "none" /\ Give(ret) /\ UNCHANGED <<file, top>>
        /\ stack \in Seq(Frame)
    BY DEF TakeResult, LoadInv, TypeOK
  <1>2. Depth \in 1..Len(stack)
    BY <1>1 DEF Depth
  <1>3. Top.at <= Len(TopMembers)
    BY <1>1, <1>2 DEF LoadInv, Waiting, Top, TopMembers
  <1>4. ret \in Parsed \cup {"null"} /\ (ret \in Names => rank[ret] \in 1..count)
    BY <1>1 DEF LoadInv, TypeOK, Parsed, RetFinished
  <1> QED
    BY <1>1, <1>3, <1>4, GiveKeeps

LEMMA LoadStep == ASSUME LoadInv, [Next]_vars PROVE LoadInv'
  <1>1. CASE UNCHANGED vars
    BY <1>1
       DEF vars, file, LoadInv, TypeOK, LastOfEachName, PendingIsStack, OpenUnfinished,
           RanksCounted, DoneFinished, RetFinished, Waiting, ByValueFinishedBefore
  <1> QED
    BY <1>1, LoadNextKeeps, ParseMemberKeeps, TakeResultKeeps, FinishKeeps DEF Next

-----------------------------------------------------------------------------
(* The results.                                                            *)

\* The state of a load in progress is of the declared shape, in every file.
THEOREM LoadTyped == Spec => []TypeOK
  <1>1. LoadInv => TypeOK
    BY DEF LoadInv
  <1> QED
    BY <1>1, LoadInit, LoadStep, PTL DEF Spec

\* pending_ holds the names being parsed and none is parsed inside itself:
\* the recursion of parse_struct is at most as deep as there are names.
THEOREM RecursionGuarded == Spec => []PendingIsStack
  <1>1. LoadInv => PendingIsStack
    BY DEF LoadInv
  <1> QED
    BY <1>1, LoadInit, LoadStep, PTL DEF Spec

\* By value, the graph of types has no cycle, whatever the records say: each
\* type was finished after all that it holds.
THEOREM ValuesBeforeHolders == Spec => []ByValueFinishedBefore
  <1>1. LoadInv => ByValueFinishedBefore
    BY DEF LoadInv
  <1> QED
    BY <1>1, LoadInit, LoadStep, PTL DEF Spec

\* types never replaces a finished type: only the record on top is finished,
\* and a record in progress has not been before.
THEOREM NeverReplaced == Spec => MemoIsFinal
  <1>1. ASSUME LoadInv, [Next]_vars, NEW x \in Names, rank[x] # 0
        PROVE  rank'[x] = rank[x] /\ fields'[x] = fields[x]
    <2>1. CASE FinishRecord
      <3>1. TopName \in pending
        BY <1>1, <2>1, PopStack DEF FinishRecord
      <3>2. TopName # x
        BY <1>1, <3>1 DEF LoadInv, OpenUnfinished
      <3>3. /\ rank' = [rank EXCEPT ![TopName] = count + 1]
            /\ fields' = [fields EXCEPT ![TopName] = apply_patches(TopName, Top.done)]
            /\ rank \in [Names -> Nat] /\ fields \in [Names -> Seq(Field)]
        BY <1>1, <2>1 DEF FinishRecord, LoadInv, TypeOK
      <3> QED
        BY <3>2, <3>3
    <2>2. CASE ~FinishRecord
      <3>1. UNCHANGED <<rank, count, fields>>
        BY <1>1, <2>2
           DEF Next, vars, LoadNext, ParseMember, TakeResult, Give, Accept, Push
      <3> QED
        BY <3>1
    <2> QED
      BY <2>1, <2>2
  <1>2. LoadInv /\ [Next]_vars =>
          [\A x \in Names : rank[x] # 0 => rank'[x] = rank[x] /\ fields'[x] = fields[x]]_vars
    BY <1>1
  <1> QED
    BY <1>2, LoadInit, LoadStep, PTL DEF Spec, MemoIsFinal

-----------------------------------------------------------------------------
(* Types that are not recursive are what the file says: what can be reached  *)
(* and what is known are the least solutions of their equations.           *)

LEMMA Refers ==
  ASSUME TypeOK, NEW x \in Names, NEW vias
  PROVE  RefersTo(x, vias) \subseteq Names
  BY DEF RefersTo

\* One more step from the names in ys.
Further(vias) == [ys \in SUBSET Names |-> ys \cup UNION {RefersTo(y, vias) : y \in ys}]

LEMMA ReachOrbit ==
  ASSUME TypeOK, NEW x \in Names, NEW vias
  PROVE  \E g : Orbit(g, SUBSET Names, RefersTo(x, vias), Further(vias))
                /\ Reach(x, vias) = g[Cardinality(Names)]
  <1> DEFINE next == Further(vias)
             start == RefersTo(x, vias)
             Rounds(g) == g = [k \in Nat |->
                               IF k = 0 THEN start
                               ELSE g[k - 1] \cup UNION {RefersTo(y, vias) : y \in g[k - 1]}]
             in == CHOOSE g : Rounds(g)
  <1>1. next \in [SUBSET Names -> SUBSET Names] /\ start \in SUBSET Names
    <2>1. \A y \in Names : RefersTo(y, vias) \in SUBSET Names
      BY Refers
    <2> QED
      BY <2>1 DEF Further
  <1>2. \A ys \in SUBSET Names : next[ys] = ys \cup UNION {RefersTo(y, vias) : y \in ys}
    BY DEF Further
  <1>3. Reach(x, vias) = in[Cardinality(Names)]
    BY DEF Reach
  <1> HIDE DEF next, start
  <1>4. PICK g : Orbit(g, SUBSET Names, start, next)
    BY <1>1, Orbits
  <1>5. g \in [Nat -> SUBSET Names] /\ g[0] = start /\ \A k \in Nat : g[k + 1] = next[g[k]]
    BY <1>4 DEF Orbit
  <1>6. Rounds(g)
    <2>1. ASSUME NEW k \in Nat
          PROVE  g[k] = IF k = 0 THEN start
                        ELSE g[k - 1] \cup UNION {RefersTo(y, vias) : y \in g[k - 1]}
      <3>1. CASE k = 0
        BY <1>5, <3>1
      <3>2. CASE k # 0
        <4>1. k - 1 \in Nat /\ (k - 1) + 1 = k
          BY <3>2
        <4>2. g[k] = next[g[k - 1]] /\ g[k - 1] \in SUBSET Names
          BY <1>5, <4>1
        <4> QED
          BY <1>2, <3>2, <4>2
      <3> QED
        BY <3>1, <3>2
    <2> QED
      BY <1>5, <2>1
  <1>7. Rounds(in)
    <2> HIDE DEF Rounds
    <2> QED
      BY <1>6
  <1> HIDE DEF in
  <1>8. in[0] = start /\ \A k \in Nat : in[k + 1] = in[k] \cup UNION {RefersTo(y, vias) : y \in in[k]}
    <2>1. \A k \in Nat : in[k] = IF k = 0 THEN start
                                 ELSE in[k - 1] \cup UNION {RefersTo(y, vias) : y \in in[k - 1]}
      BY <1>7
    <2>2. ASSUME NEW k \in Nat PROVE in[k + 1] = in[k] \cup UNION {RefersTo(y, vias) : y \in in[k]}
      <3>1. k + 1 \in Nat /\ k + 1 # 0 /\ (k + 1) - 1 = k
        OBVIOUS
      <3> QED
        BY <2>1, <3>1
    <2> QED
      BY <2>1, <2>2
  <1>9. \A k \in Nat : in[k] = g[k]
    <2> DEFINE S == {k \in Nat : in[k] = g[k]}
    <2>1. 0 \in S
      BY <1>5, <1>8
    <2>2. ASSUME NEW k \in Nat, k >= 0, k \in S PROVE k + 1 \in S
      <3>1. g[k + 1] = next[g[k]] /\ g[k] \in SUBSET Names /\ in[k] = g[k]
        BY <1>5, <2>2
      <3>2. next[g[k]] = g[k] \cup UNION {RefersTo(y, vias) : y \in g[k]}
        BY <1>2, <3>1
      <3>3. in[k + 1] = g[k] \cup UNION {RefersTo(y, vias) : y \in g[k]}
        BY <1>8, <3>1, Zenon
      <3>4. k + 1 \in Nat /\ in[k + 1] = g[k + 1]
        BY <3>1, <3>2, <3>3
      <3> QED
        BY <3>4
    <2> HIDE DEF S
    <2>3. \A k \in Nat : k >= 0 => k \in S
      BY <2>1, <2>2, SetInduction
    <2> QED
      BY <2>3 DEF S
  <1>10. Cardinality(Names) \in Nat
    BY FS_CardinalityType
  <1> QED
    BY <1>3, <1>4, <1>9, <1>10 DEF next, start

\* What can be reached: what x refers to, and what that refers to.
LEMMA ReachClosed ==
  ASSUME TypeOK, NEW x \in Names, NEW vias
  PROVE  /\ Reach(x, vias) \subseteq Names
         /\ RefersTo(x, vias) \subseteq Reach(x, vias)
         /\ \A y \in Reach(x, vias) : RefersTo(y, vias) \subseteq Reach(x, vias)
  <1> DEFINE next == Further(vias)
             start == RefersTo(x, vias)
             N == Cardinality(Names)
  <1>1. PICK g : Orbit(g, SUBSET Names, start, next) /\ Reach(x, vias) = g[N]
    BY ReachOrbit
  <1>2. \A ys \in SUBSET Names : next[ys] = ys \cup UNION {RefersTo(y, vias) : y \in ys}
    BY DEF Further
  <1> HIDE DEF next, start
  <1>3. g \in [Nat -> SUBSET Names] /\ g[0] = start /\ \A k \in Nat : g[k + 1] = next[g[k]]
    BY <1>1 DEF Orbit
  <1>4. \A k \in Nat : g[k] \subseteq g[k + 1]
    BY <1>2, <1>3
  <1>5. N \in Nat /\ g[N + 1] = g[N]
    BY <1>1, <1>4, Saturation, TypeDBAssumption
  <1> HIDE DEF N
  <1>6. start \subseteq g[N]
    <2> DEFINE S == {k \in Nat : start \subseteq g[k]}
    <2>1. 0 \in S /\ \A k \in Nat : k >= 0 /\ k \in S => k + 1 \in S
      BY <1>3, <1>4
    <2> HIDE DEF S
    <2>2. \A k \in Nat : k >= 0 => k \in S
      BY <2>1, SetInduction
    <2> QED
      BY <1>5, <2>2 DEF S
  <1>7. g[N] = g[N] \cup UNION {RefersTo(y, vias) : y \in g[N]}
    BY <1>2, <1>3, <1>5
  <1> QED
    BY <1>1, <1>3, <1>5, <1>6, <1>7 DEF start

\* It is the least such set.
LEMMA ReachLeast ==
  ASSUME TypeOK, NEW x \in Names, NEW vias, NEW ys \in SUBSET Names,
         RefersTo(x, vias) \subseteq ys, \A y \in ys : RefersTo(y, vias) \subseteq ys
  PROVE  Reach(x, vias) \subseteq ys
  <1> DEFINE next == Further(vias)
             start == RefersTo(x, vias)
  <1>1. PICK g : Orbit(g, SUBSET Names, start, next) /\ Reach(x, vias) = g[Cardinality(Names)]
    BY ReachOrbit
  <1>2. \A zs \in SUBSET Names : next[zs] = zs \cup UNION {RefersTo(y, vias) : y \in zs}
    BY DEF Further
  <1>3. start \subseteq ys
    OBVIOUS
  <1> HIDE DEF next, start
  <1>4. g \in [Nat -> SUBSET Names] /\ g[0] = start /\ \A k \in Nat : g[k + 1] = next[g[k]]
    BY <1>1 DEF Orbit
  <1> DEFINE S == {k \in Nat : g[k] \subseteq ys}
  <1>5. 0 \in S
    BY <1>3, <1>4
  <1>6. ASSUME NEW k \in Nat, k >= 0, k \in S PROVE k + 1 \in S
    <2>1. g[k + 1] = g[k] \cup UNION {RefersTo(y, vias) : y \in g[k]}
      BY <1>2, <1>4
    <2> QED
      BY <1>6, <2>1
  <1> HIDE DEF S
  <1>7. \A k \in Nat : k >= 0 => k \in S
    BY <1>5, <1>6, SetInduction
  <1>8. Cardinality(Names) \in Nat
    BY FS_CardinalityType
  <1> QED
    BY <1>1, <1>7, <1>8 DEF S

\* The members of the record that stands for x.
Members(x) == structs[struct_db[x]].members

LEMMA MembersTyped ==
  ASSUME TypeOK, NEW x \in Names, struct_db[x] # 0
  PROVE  /\ struct_db[x] \in 1..Len(structs) /\ structs[struct_db[x]] \in Record
         /\ Members(x) \in Seq(Member)
  <1>1. structs \in Seq(Record) /\ struct_db[x] \in 1..Len(structs)
    BY DEF TypeOK
  <1>2. structs[struct_db[x]] \in Record
    BY <1>1
  <1> QED
    BY <1>1, <1>2 DEF Record, Members

\* The names a step of Known comes to know.
Learn == [ks \in SUBSET Names |-> {y \in Names : MadeOf(y, ks)}]

LEMMA KnownOrbit ==
  ASSUME TypeOK
  PROVE  \E g : Orbit(g, SUBSET Names, {}, Learn)
                /\ \A x \in Names : Known(x) <=> x \in g[Cardinality(Names)]
  <1> DEFINE next == Learn
             Rounds(g) == g = [k \in Nat |-> IF k = 0 THEN {} ELSE {y \in Names : MadeOf(y, g[k - 1])}]
             in == CHOOSE g : Rounds(g)
  <1>1. next \in [SUBSET Names -> SUBSET Names] /\ {} \in SUBSET Names
    BY DEF Learn
  <1>2. \A ks \in SUBSET Names : next[ks] = {y \in Names : MadeOf(y, ks)}
    BY DEF Learn
  <1>3. \A x \in Names : Known(x) <=> x \in in[Cardinality(Names)]
    BY DEF Known
  <1> HIDE DEF next
  <1>4. PICK g : Orbit(g, SUBSET Names, {}, next)
    BY <1>1, Orbits
  <1>5. g \in [Nat -> SUBSET Names] /\ g[0] = {} /\ \A k \in Nat : g[k + 1] = next[g[k]]
    BY <1>4 DEF Orbit
  <1>6. Rounds(g)
    <2>1. ASSUME NEW k \in Nat
          PROVE  g[k] = IF k = 0 THEN {} ELSE {y \in Names : MadeOf(y, g[k - 1])}
      <3>1. CASE k = 0
        BY <1>5, <3>1
      <3>2. CASE k # 0
        <4>1. k - 1 \in Nat /\ (k - 1) + 1 = k
          BY <3>2
        <4>2. g[k] = next[g[k - 1]] /\ g[k - 1] \in SUBSET Names
          BY <1>5, <4>1
        <4> QED
          BY <1>2, <3>2, <4>2
      <3> QED
        BY <3>1, <3>2
    <2> QED
      BY <1>5, <2>1
  <1>7. Rounds(in)
    <2> HIDE DEF Rounds
    <2> QED
      BY <1>6
  <1> HIDE DEF in
  <1>8. in[0] = {} /\ \A k \in Nat : in[k + 1] = {y \in Names : MadeOf(y, in[k])}
    <2>1. \A k \in Nat : in[k] = IF k = 0 THEN {} ELSE {y \in Names : MadeOf(y, in[k - 1])}
      BY <1>7
    <2>2. ASSUME NEW k \in Nat PROVE in[k + 1] = {y \in Names : MadeOf(y, in[k])}
      <3>1. k + 1 \in Nat /\ k + 1 # 0 /\ (k + 1) - 1 = k
        OBVIOUS
      <3> QED
        BY <2>1, <3>1
    <2> QED
      BY <2>1, <2>2
  <1>9. \A k \in Nat : in[k] = g[k]
    <2> DEFINE S == {k \in Nat : in[k] = g[k]}
    <2>1. 0 \in S
      BY <1>5, <1>8
    <2>2. ASSUME NEW k \in Nat, k >= 0, k \in S PROVE k + 1 \in S
      <3>1. g[k + 1] = next[g[k]] /\ g[k] \in SUBSET Names /\ in[k] = g[k]
        BY <1>5, <2>2
      <3>2. next[g[k]] = {y \in Names : MadeOf(y, g[k])}
        BY <1>2, <3>1
      <3>3. in[k + 1] = {y \in Names : MadeOf(y, g[k])}
        BY <1>8, <3>1, Zenon
      <3>4. k + 1 \in Nat /\ in[k + 1] = g[k + 1]
        BY <3>1, <3>2, <3>3
      <3> QED
        BY <3>4
    <2> HIDE DEF S
    <2>3. \A k \in Nat : k >= 0 => k \in S
      BY <2>1, <2>2, SetInduction
    <2> QED
      BY <2>3 DEF S
  <1>10. Cardinality(Names) \in Nat
    BY FS_CardinalityType
  <1> QED
    BY <1>3, <1>4, <1>9, <1>10 DEF next

\* A name is known if its record is made of what is known.
LEMMA KnownUnfolds ==
  ASSUME TypeOK
  PROVE  \A x \in Names : Known(x) <=> MadeOf(x, {y \in Names : Known(y)})
  <1> DEFINE N == Cardinality(Names)
             next == Learn
  <1>1. PICK g : Orbit(g, SUBSET Names, {}, next) /\ \A x \in Names : Known(x) <=> x \in g[N]
    BY KnownOrbit
  <1>2. \A ks \in SUBSET Names : next[ks] = {y \in Names : MadeOf(y, ks)}
    BY DEF Learn
  <1> HIDE DEF next
  <1>3. g \in [Nat -> SUBSET Names] /\ g[0] = {} /\ \A k \in Nat : g[k + 1] = next[g[k]]
    BY <1>1 DEF Orbit
  <1>4. \A k \in Nat : g[k] \subseteq g[k + 1]
    <2> DEFINE S == {k \in Nat : g[k] \subseteq g[k + 1]}
    <2>1. 0 \in S
      BY <1>3
    <2>2. ASSUME NEW k \in Nat, k >= 0, k \in S PROVE k + 1 \in S
      <3>1. /\ k + 1 \in Nat /\ g[k] \in SUBSET Names /\ g[k + 1] \in SUBSET Names
            /\ g[k] \subseteq g[k + 1]
        BY <1>3, <2>2
      <3>2. \A y \in Names : MadeOf(y, g[k]) => MadeOf(y, g[k + 1])
        BY <3>1 DEF MadeOf
      <3>3. g[k + 1] = {y \in Names : MadeOf(y, g[k])} /\ g[(k + 1) + 1] = {y \in Names : MadeOf(y, g[k + 1])}
        BY <1>2, <1>3, <3>1
      <3> QED
        BY <3>1, <3>2, <3>3
    <2> HIDE DEF S
    <2>3. \A k \in Nat : k >= 0 => k \in S
      BY <2>1, <2>2, SetInduction
    <2> QED
      BY <2>3 DEF S
  <1>5. N \in Nat /\ g[N + 1] = g[N]
    BY <1>1, <1>4, Saturation, TypeDBAssumption
  <1> HIDE DEF N
  <1>6. g[N] = {y \in Names : MadeOf(y, g[N])}
    BY <1>2, <1>3, <1>5
  <1>7. g[N] = {y \in Names : Known(y)}
    BY <1>1, <1>3, <1>5
  <1> QED
    BY <1>6, <1>7

\* Held in whatever way.
Both == {"value", "pointer"}

\* What a member of a record names is referred to.
LEMMA MemberRefers ==
  ASSUME TypeOK, NEW x \in Names, struct_db[x] # 0, NEW k \in 1..Len(Members(x)),
         Members(x)[k].of \in Names
  PROVE  Members(x)[k].of \in Reach(x, Both)
  <1>1. Members(x)[k] \in Member
    BY MembersTyped
  <1>2. Members(x)[k].via \in Both
    BY <1>1 DEF Member, Both
  <1>3. Members(x)[k].of \in RefersTo(x, Both)
    BY <1>2 DEF RefersTo, Members
  <1> QED
    BY <1>3, ReachClosed

\* What a plain name refers to is plain, and does not lead back to it.
LEMMA PlainBelow ==
  ASSUME TypeOK, NEW x \in Names, Plain(x), NEW y \in Reach(x, Both)
  PROVE  /\ y \in Names /\ Plain(y) /\ x \notin Reach(x, Both)
         /\ Reach(y, Both) \subseteq Reach(x, Both)
  <1>1. Reach(x, Both) \subseteq Names /\ \A z \in Reach(x, Both) : RefersTo(z, Both) \subseteq Reach(x, Both)
    BY ReachClosed
  <1>2. y \in Names
    BY <1>1
  <1>3. Reach(y, Both) \subseteq Reach(x, Both)
    BY <1>1, <1>2, ReachLeast
  <1> QED
    BY <1>2, <1>3 DEF Plain, Recursive, Both

\* A plain name has one record, the one it is looked up at.
LEMMA PlainRecord ==
  ASSUME TypeOK, LastOfEachName(struct_db), NEW x \in Names, Plain(x), NEW d \in 1..Len(structs), structs[d].name = x
  PROVE  d = struct_db[x]
  <1>1. struct_db[x] # 0
    BY DEF LastOfEachName
  <1>2. struct_db[x] \in 1..Len(structs) /\ structs[struct_db[x]].name = x
    BY <1>1 DEF LastOfEachName, TypeOK
  <1>3. DefinedOnce(x)
    BY DEF Plain
  <1> QED
    BY <1>2, <1>3 DEF DefinedOnce
-----------------------------------------------------------------------------
(* What is true of plain types while they are loaded.                      *)

\* The name of the j-th record being parsed, and what its next member names.
Open(j) == structs[stack[j].rec].name
Asked(j) == structs[stack[j].rec].members[stack[j].at].of

\* Records being parsed have fields; they have as many types as members passed.
OpenWhole ==
  \A j \in 1..Len(stack) :
    ~structs[stack[j].rec].opaque /\ Len(stack[j].done) = stack[j].at - 1

ResolvingOpen == \A x \in resolving : \E j \in 1..Len(stack) : stack[j].fwd /\ Open(j) = x

\* Each record is there for the member the one around it is at.
OpenAsked == \A j \in 1..Len(stack) : j < Len(stack) => Open(j + 1) = Asked(j)

OpenReached ==
  \A i, j \in 1..Len(stack) : i < j /\ Plain(Open(i)) => Open(j) \in Reach(Open(i), Both)

\* A result is the type asked for; a plain one is there if it is known.
ResultRight ==
  ret # "none" =>
    LET y == Asked(Len(stack))
    IN  y \in Names /\ ret \in {y, "null"} /\ (Plain(y) => (ret = y <=> Known(y)))

\* So far the plain records say what the file says, and hold what is known.
PlainSoFar ==
  \A j \in 1..Len(stack) : Plain(Open(j)) =>
    \A k \in 1..Len(stack[j].done) :
      LET m == Members(Open(j))[k]
      IN  /\ stack[j].done[k] = Said(Open(j))[k]
          /\ m.via = "value" => m.of \in {y \in Names : Known(y)} \cup Primitives

\* What becomes of a plain type.
Exact(x) ==
  IF x \in Enums THEN Said(x)
  ELSE unwrap_argument(x, to_slice(Said(x)), [y \in Enums |-> IF Known(y) THEN Said(y) ELSE <<>>])

PlainMemo == \A x \in Names : Plain(x) /\ rank[x] # 0 => Known(x) /\ fields[x] = Exact(x)

\* What the loop of load has passed is memoised or being parsed.
KnownTried ==
  \A d \in 1..(top - 1) :
    LET x == structs[d].name IN Plain(x) /\ Known(x) => rank[x] # 0 \/ x \in pending

PlainInv ==
  /\ OpenWhole /\ ResolvingOpen /\ OpenAsked /\ OpenReached /\ ResultRight
  /\ PlainSoFar /\ PlainMemo /\ KnownTried

\* Plain, Known and what the file says depend on the file alone.
PlainStatic ==
  \A x \in Names :
    /\ Plain(x)' <=> Plain(x)
    /\ Known(x)' <=> Known(x)
    /\ Members(x)' = Members(x)
    /\ Said(x)' = Said(x)
    /\ Exact(x)' = Exact(x)
    /\ Reach(x, Both)' = Reach(x, Both)

\* Reach and Known as least sets of names, which says all about them.
ReachIsLeast ==
  \A x \in Names :
    /\ Reach(x, Both) \subseteq Names
    /\ RefersTo(x, Both) \subseteq Reach(x, Both)
    /\ \A y \in Reach(x, Both) : RefersTo(y, Both) \subseteq Reach(x, Both)
    /\ \A ys \in SUBSET Names :
         RefersTo(x, Both) \subseteq ys /\ (\A y \in ys : RefersTo(y, Both) \subseteq ys) =>
           Reach(x, Both) \subseteq ys

KnownIsLeast ==
  /\ \A x \in Names : MadeOf(x, {y \in Names : Known(y)}) => Known(x)
  /\ \A ks \in SUBSET Names :
       (\A x \in Names : MadeOf(x, ks) => x \in ks) => \A x \in Names : Known(x) => x \in ks

LEMMA LeastReach == TypeOK => ReachIsLeast
  BY ReachClosed, ReachLeast DEF ReachIsLeast

LEMMA LeastKnown == TypeOK => KnownIsLeast
  <1> SUFFICES ASSUME TypeOK, NEW ks \in SUBSET Names, \A x \in Names : MadeOf(x, ks) => x \in ks,
                      NEW x \in Names, Known(x)
               PROVE  x \in ks
    BY KnownUnfolds DEF KnownIsLeast
  <1> DEFINE next == Learn
             N == Cardinality(Names)
  <1>1. PICK g : Orbit(g, SUBSET Names, {}, next) /\ \A y \in Names : Known(y) <=> y \in g[N]
    BY KnownOrbit
  <1>2. \A zs \in SUBSET Names : next[zs] = {y \in Names : MadeOf(y, zs)}
    BY DEF Learn
  <1> HIDE DEF next
  <1>3. g \in [Nat -> SUBSET Names] /\ g[0] = {} /\ \A k \in Nat : g[k + 1] = next[g[k]]
    BY <1>1 DEF Orbit
  <1> DEFINE S == {k \in Nat : g[k] \subseteq ks}
  <1>4. 0 \in S
    BY <1>3
  <1>5. ASSUME NEW k \in Nat, k >= 0, k \in S PROVE k + 1 \in S
    <2>1. g[k] \in SUBSET Names /\ g[k] \subseteq ks /\ g[k + 1] = {y \in Names : MadeOf(y, g[k])}
      BY <1>2, <1>3, <1>5
    <2>2. \A y \in Names : MadeOf(y, g[k]) => MadeOf(y, ks)
      BY <2>1 DEF MadeOf
    <2> QED
      BY <2>1, <2>2
  <1> HIDE DEF S
  <1>6. \A k \in Nat : k >= 0 => k \in S
    BY <1>4, <1>5, SetInduction
  <1>7. N \in Nat
    BY FS_CardinalityType
  <1> QED
    BY <1>1, <1>6, <1>7 DEF S

LEMMA FileStays == ASSUME TypeOK, TypeOK', UNCHANGED file PROVE PlainStatic
  <1>1. structs' = structs /\ struct_db' = struct_db
    BY DEF file
  <1>2. \A x \in Names : Members(x)' = Members(x)
    BY <1>1 DEF Members
  <1>3. \A x, vias : RefersTo(x, vias)' = RefersTo(x, vias)
    BY <1>1 DEF RefersTo
  <1>4. \A x \in Names : Reach(x, Both)' = Reach(x, Both)
    <2>1. (TypeOK => ReachIsLeast)'
      BY LeastReach, PTL
    <2>2. ReachIsLeast /\ ReachIsLeast'
      BY <2>1, LeastReach
    <2> SUFFICES ASSUME NEW x \in Names PROVE Reach(x, Both)' = Reach(x, Both)
      OBVIOUS
    <2>3. Reach(x, Both)' \subseteq Reach(x, Both)
      BY <1>3, <2>2 DEF ReachIsLeast
    <2>4. Reach(x, Both) \subseteq Reach(x, Both)'
      BY <1>3, <2>2 DEF ReachIsLeast
    <2> QED
      BY <2>3, <2>4
  <1>5. \A x, ks : MadeOf(x, ks)' <=> MadeOf(x, ks)
    BY <1>1 DEF MadeOf
  <1>6. \A x \in Names : Known(x)' <=> Known(x)
    <2>1. (TypeOK => KnownIsLeast)' /\ (TypeOK => \A x \in Names : Known(x) <=> MadeOf(x, {y \in Names : Known(y)}))'
      BY LeastKnown, KnownUnfolds, PTL
    <2> QED
      BY <1>5, <2>1, LeastKnown, KnownUnfolds DEF KnownIsLeast
  <1>7. \A x \in Names : Said(x)' = Said(x)
    BY <1>1, <1>6 DEF Said
  <1>8. \A x \in Names : Exact(x)' = Exact(x)
    BY <1>1, <1>6, <1>7 DEF Exact
  <1>9. \A x \in Names : Plain(x)' <=> Plain(x)
    <2>1. \A x \in Names : Reach(x, Both) \subseteq Names
      BY LeastReach DEF ReachIsLeast
    <2>2. \A x \in Names : (Recursive(x)' <=> Recursive(x)) /\ (DefinedOnce(x)' <=> DefinedOnce(x))
      BY <1>1, <1>4 DEF Recursive, DefinedOnce, Both
    <2> QED
      BY <1>4, <2>1, <2>2 DEF Plain, Both
  <1> QED
    BY <1>2, <1>4, <1>6, <1>7, <1>8, <1>9 DEF PlainStatic

-----------------------------------------------------------------------------
(* A plain record and what it asks for.                                    *)

LEMMA OpenTyped ==
  ASSUME LoadInv, PlainInv, NEW j \in 1..Len(stack)
  PROVE  /\ Open(j) \in Names /\ Open(j) \in pending
         /\ stack[j] \in Frame /\ stack[j].rec \in 1..Len(structs)
         /\ structs[stack[j].rec] \in Record
         /\ stack[j].at \in 1..(Len(structs[stack[j].rec].members) + 1)
         /\ Plain(Open(j)) =>
              /\ stack[j].rec = struct_db[Open(j)] /\ struct_db[Open(j)] # 0
              /\ structs[stack[j].rec].members = Members(Open(j))
  <1>1. structs \in Seq(Record) /\ stack[j].rec \in 1..Len(structs)
        /\ stack \in Seq(Frame) /\ stack[j].at \in 1..(Len(structs[stack[j].rec].members) + 1)
    BY DEF LoadInv, TypeOK
  <1>2. stack[j] \in Frame /\ structs[stack[j].rec] \in Record
    BY <1>1
  <1>3. Open(j) \in Names
    BY <1>2 DEF Open, Record
  <1>4. Open(j) \in pending
    BY <1>3 DEF Open, LoadInv, PendingIsStack
  <1>5. ASSUME Plain(Open(j)) PROVE stack[j].rec = struct_db[Open(j)] /\ struct_db[Open(j)] # 0
    <2>1. stack[j].rec = struct_db[Open(j)]
      BY <1>1, <1>3, <1>5, PlainRecord DEF Open, LoadInv
    <2> QED
      BY <1>1, <2>1
  <1> QED
    BY <1>1, <1>2, <1>3, <1>4, <1>5 DEF Members

\* What a plain record reaches is not being parsed.
LEMMA NoneOpenBelow ==
  ASSUME LoadInv, PlainInv, stack # <<>>, Plain(Open(Len(stack))),
         NEW y \in Reach(Open(Len(stack)), Both)
  PROVE  y \notin pending
  <1> DEFINE n == Len(stack)
  <1>0. n \in 1..n /\ TypeOK
    <2>1. stack \in Seq(Frame) /\ TypeOK
      BY DEF LoadInv, TypeOK
    <2> QED
      BY <2>1
  <1>1. Open(n) \in Names
    BY <1>0, OpenTyped
  <1>2. y \in Names /\ Plain(y) /\ Reach(y, Both) \subseteq Reach(Open(n), Both) /\ Open(n) \notin Reach(Open(n), Both)
    BY <1>0, <1>1, PlainBelow
  <1>3. SUFFICES ASSUME y \in pending PROVE FALSE
    OBVIOUS
  <1>4. PICK i \in 1..n : Open(i) = y
    BY <1>2, <1>3 DEF LoadInv, PendingIsStack, Open
  <1>5. CASE i = n
    BY <1>2, <1>4, <1>5
  <1>6. CASE i # n
    <2>1. Open(n) \in Reach(y, Both)
      BY <1>0, <1>2, <1>4, <1>6 DEF PlainInv, OpenReached
    <2> QED
      BY <1>2, <2>1
  <1> QED
    BY <1>5, <1>6

\* What parse_struct answers for a plain name that is not being parsed.
LEMMA PlainAnswer ==
  ASSUME LoadInv, PlainInv, NEW x \in Names, Plain(x), x \notin pending,
         NEW d \in 0..Len(structs), d # 0 => structs[d].name = x
  PROVE  /\ Answer(x, d) \in {x, "null", "descend"}
         /\ Answer(x, d) = x => Known(x)
         /\ Answer(x, d) = "null" => ~Known(x)
  <1>0. x \notin {"null", "descend", "bottom"} /\ TypeOK /\ LastOfEachName(struct_db)
    BY DEF LoadInv
  <1>1. CASE rank[x] # 0
    BY <1>0, <1>1 DEF Answer, PlainInv, PlainMemo
  <1>2. CASE rank[x] = 0 /\ Into(x, d) # 0
    BY <1>0, <1>2 DEF Answer
  <1>3. CASE rank[x] = 0 /\ Into(x, d) = 0
    <2>1. x \notin resolving
      BY DEF PlainInv, ResolvingOpen, LoadInv, PendingIsStack, Open
    <2>2. struct_db[x] = 0 \/ structs[struct_db[x]].opaque
      <3>1. CASE d = 0
        BY <1>3, <2>1, <3>1 DEF Into, IsForward, Resolved
      <3>2. CASE d # 0
        <4>1. d \in 1..Len(structs)
          BY <3>2
        <4>2. d = struct_db[x]
          BY <1>0, <3>2, <4>1, PlainRecord
        <4> QED
          BY <1>3, <3>2, <4>2 DEF Into, IsForward
      <3> QED
        BY <3>1, <3>2
    <2>3. ~MadeOf(x, {y \in Names : Known(y)})
      BY <2>2 DEF MadeOf
    <2>4. ~Known(x)
      BY <1>0, <2>3, KnownUnfolds
    <2> QED
      BY <1>0, <1>3, <2>4 DEF Answer
  <1> QED
    BY <1>1, <1>2, <1>3

\* What the record on top asks for can be reached from all plain ones.
LEMMA AskedReached ==
  ASSUME LoadInv, PlainInv, stack # <<>>, Top.at <= Len(TopMembers),
         NEW i \in 1..Len(stack), Plain(Open(i)), Asked(Len(stack)) \in Names
  PROVE  Asked(Len(stack)) \in Reach(Open(i), Both)
  <1> DEFINE n == Len(stack)
             y == Asked(n)
  <1>0. n \in 1..n /\ n \in Nat /\ TypeOK
    <2>1. stack \in Seq(Frame) /\ TypeOK
      BY DEF LoadInv, TypeOK
    <2> QED
      BY <2>1
  <1>1. ASSUME Plain(Open(n)) PROVE y \in Reach(Open(n), Both)
    <2>1. /\ Open(n) \in Names /\ struct_db[Open(n)] # 0 /\ structs[stack[n].rec].members = Members(Open(n))
          /\ stack[n].at \in 1..(Len(structs[stack[n].rec].members) + 1)
      BY <1>0, <1>1, OpenTyped
    <2>2. Len(Members(Open(n))) \in Nat
      BY <1>0, <2>1, MembersTyped
    <2>3. stack[n].at \in 1..Len(Members(Open(n)))
      BY <2>1, <2>2 DEF Top, TopMembers, Depth
    <2>4. y = Members(Open(n))[stack[n].at].of
      BY <2>1 DEF Asked
    <2> QED
      BY <1>0, <2>1, <2>3, <2>4, MemberRefers
  <1>2. CASE i = n
    BY <1>1, <1>2
  <1>3. CASE i # n
    <2>1. i < n /\ Open(i) \in Names
      BY <1>0, <1>3, OpenTyped
    <2>2. Open(n) \in Reach(Open(i), Both)
      BY <1>0, <2>1 DEF PlainInv, OpenReached
    <2>3. Plain(Open(n)) /\ Reach(Open(n), Both) \subseteq Reach(Open(i), Both)
      BY <1>0, <2>1, <2>2, PlainBelow
    <2> QED
      BY <1>1, <2>3
  <1> QED
    BY <1>2, <1>3

-----------------------------------------------------------------------------
(* The steps again.                                                        *)

LEMMA PushPlain ==
  ASSUME LoadInv, PlainInv, TypeOK', NEW x \in Names, NEW d \in 0..Len(structs),
         d # 0 => structs[d].name = x, Answer(x, d) = "descend",
         ret = "none", stack # <<>> => Top.at <= Len(TopMembers) /\ Asked(Len(stack)) = x,
         Push(x, d), UNCHANGED file,
         top' = top \/ (top' = top + 1 /\ structs[top].name = x)
  PROVE  PlainInv'
  <1>0. PICK n \in Nat : n = Len(stack)
    BY DEF LoadInv, TypeOK
  <1> DEFINE f == [rec |-> Into(x, d), at |-> 1, done |-> <<>>, fwd |-> IsForward(d)]
  <1>1. /\ Into(x, d) \in 1..Len(structs) /\ structs[Into(x, d)].name = x
        /\ UNCHANGED <<structs, struct_db, rank, count, fields, ret>>
        /\ pending' = pending \cup {x}
        /\ Len(stack') = n + 1 /\ stack'[n + 1] = f
        /\ \A j \in 1..n : stack'[j] = stack[j]
    BY <1>0, PushStack
  <1>2. n \in Nat /\ TypeOK /\ (n > 0 <=> stack # <<>>) /\ top \in Nat
    <2>1. stack \in Seq(Frame) /\ TypeOK /\ structs \in Seq(Record) /\ top \in 1..(Len(structs) + 1)
      BY DEF LoadInv, TypeOK
    <2> QED
      BY <1>0, <2>1
  <1>3. PlainStatic
    BY <1>2, FileStays
  <1>4. /\ f.rec = Into(x, d) /\ f.at = 1 /\ f.done = <<>> /\ f.fwd = IsForward(d)
        /\ Len(f.done) = 0
    OBVIOUS
  <1> HIDE DEF f
  <1>5. \A j \in 1..n : Open(j)' = Open(j) /\ Asked(j)' = Asked(j) /\ Open(j) \in Names
    BY <1>0, <1>1, OpenTyped DEF Open, Asked
  <1>6. Open(n + 1)' = x
    BY <1>1, <1>4 DEF Open
  <1>7. \A j \in 1..(n + 1) : j \in 1..n \/ j = n + 1
    BY <1>2
  <1>8. OpenWhole'
    <2>1. ~structs[Into(x, d)].opaque
      <3>1. CASE IsForward(d)
        <4>1. Into(x, d) = Resolved(x, d) /\ Into(x, d) # 0
          BY <1>1, <3>1 DEF Into
        <4> QED
          BY <4>1 DEF Resolved
      <3>2. CASE ~IsForward(d)
        BY <3>2 DEF Into, IsForward
      <3> QED
        BY <3>1, <3>2
    <2> QED
      BY <1>1, <1>4, <1>0, <1>7, <2>1 DEF PlainInv, OpenWhole
  <1>9. ResolvingOpen'
    <2>1. ASSUME NEW y \in resolving' PROVE \E j \in 1..(n + 1) : stack'[j].fwd /\ Open(j)' = y
      <3>1. CASE y \in resolving
        <4>1. PICK j \in 1..n : stack[j].fwd /\ Open(j) = y
          BY <1>0, <3>1 DEF PlainInv, ResolvingOpen
        <4>2. j \in 1..(n + 1) /\ stack'[j].fwd /\ Open(j)' = y
          BY <1>1, <1>2, <1>5, <4>1
        <4> QED
          BY <4>2
      <3>2. CASE y \notin resolving
        <4>1. y = x /\ IsForward(d)
          BY <3>2 DEF Push
        <4>2. n + 1 \in 1..(n + 1)
          BY <1>2
        <4> QED
          BY <1>1, <1>4, <1>6, <4>1, <4>2
      <3> QED
        BY <3>1, <3>2
    <2> QED
      BY <1>1, <2>1 DEF ResolvingOpen
  <1>10. OpenAsked'
    <2>1. ASSUME NEW j \in 1..n PROVE Open(j + 1)' = Asked(j)'
      <3>1. CASE j = n
        BY <1>0, <1>2, <1>5, <1>6, <3>1
      <3>2. CASE j # n
        <4>1. j < n /\ j + 1 \in 1..n
          BY <1>2, <3>2
        <4> QED
          BY <1>0, <1>5, <4>1 DEF PlainInv, OpenAsked
      <3> QED
        BY <3>1, <3>2
    <2> QED
      BY <1>1, <1>2, <2>1 DEF OpenAsked
  <1>11. OpenReached'
    <2>1. ASSUME NEW i \in 1..n, NEW j \in 1..(n + 1), i < j, Plain(Open(i))
          PROVE  Open(j)' \in Reach(Open(i), Both)
      <3>1. CASE j \in 1..n
        BY <1>0, <1>5, <2>1, <3>1 DEF PlainInv, OpenReached
      <3>2. CASE j = n + 1
        BY <1>0, <1>2, <1>6, <2>1, <3>2, AskedReached
      <3> QED
        BY <1>7, <3>1, <3>2
    <2>2. ASSUME NEW i \in 1..(n + 1), NEW j \in 1..(n + 1), i < j, Plain(Open(i))'
          PROVE  Open(j)' \in Reach(Open(i), Both)'
      <3>1. i \in 1..n
        BY <1>2, <2>2
      <3>2. Open(i)' = Open(i) /\ Open(i) \in Names
        BY <1>5, <3>1
      <3>3. (Plain(Open(i))' <=> Plain(Open(i))) /\ Reach(Open(i), Both)' = Reach(Open(i), Both)
        BY <1>3, <3>2 DEF PlainStatic
      <3> QED
        BY <2>1, <2>2, <3>1, <3>3
    <2> QED
      BY <1>1, <2>2 DEF OpenReached
  <1>12. ResultRight'
    BY <1>1 DEF ResultRight
  <1>13. PlainSoFar'
    <2>1. ASSUME NEW j \in 1..(n + 1), Plain(Open(j))', NEW k \in 1..Len(stack'[j].done)
          PROVE  /\ j \in 1..n /\ Plain(Open(j)) /\ Open(j)' = Open(j) /\ Open(j) \in Names
                 /\ stack'[j] = stack[j]
      <3>1. j # n + 1
        BY <1>1, <1>4, <2>1
      <3>2. j \in 1..n
        BY <1>7, <3>1
      <3> QED
        BY <1>1, <1>3, <1>5, <2>1, <3>2 DEF PlainStatic
    <2> QED
      BY <1>0, <1>1, <1>3, <2>1 DEF PlainInv, PlainSoFar, PlainStatic
  <1>14. PlainMemo'
    BY <1>1, <1>3 DEF PlainInv, PlainMemo, PlainStatic
  <1>15. KnownTried'
    <2>1. ASSUME NEW e \in 1..(top' - 1), Plain(structs[e].name)', Known(structs[e].name)'
          PROVE  rank[structs[e].name] # 0 \/ structs[e].name \in pending'
      <3>1. CASE e = top /\ structs[top].name = x
        BY <1>1, <3>1
      <3>2. CASE e \in 1..(top - 1)
        <4>1. e \in 1..Len(structs) /\ structs \in Seq(Record)
          BY <1>2, <3>2 DEF TypeOK
        <4>2. structs[e].name \in Names
          <5>1. structs[e] \in Record
            BY <4>1
          <5> QED
            BY <5>1 DEF Record
        <4>3. Plain(structs[e].name) /\ Known(structs[e].name)
          BY <1>1, <1>3, <2>1, <4>2 DEF PlainStatic
        <4> QED
          BY <1>1, <3>2, <4>3 DEF PlainInv, KnownTried
      <3> QED
        BY <1>2, <3>1, <3>2
    <2> QED
      BY <1>1, <2>1 DEF KnownTried
  <1> QED
    BY <1>8, <1>9, <1>10, <1>11, <1>12, <1>13, <1>14, <1>15 DEF PlainInv

\* The names of records do not change.
LEMMA TriedKept ==
  ASSUME TypeOK, PlainInv, PlainStatic, UNCHANGED <<structs, top>>,
         \A x \in Names : (rank[x] # 0 => rank'[x] # 0),
         \A x \in pending : x \in pending' \/ rank'[x] # 0 \/ ~(Plain(x) /\ Known(x))
  PROVE  KnownTried'
  <1>1. ASSUME NEW e \in 1..(top - 1), Plain(structs[e].name)', Known(structs[e].name)'
        PROVE  rank'[structs[e].name] # 0 \/ structs[e].name \in pending'
    <2>1. e \in 1..Len(structs) /\ structs \in Seq(Record)
      <3>1. structs \in Seq(Record) /\ top \in 1..(Len(structs) + 1)
        BY DEF TypeOK
      <3> QED
        BY <3>1
    <2>2. structs[e] \in Record
      BY <2>1
    <2>3. structs[e].name \in Names
      BY <2>2 DEF Record
    <2>4. Plain(structs[e].name) /\ Known(structs[e].name)
      BY <1>1, <2>3 DEF PlainStatic
    <2> QED
      BY <2>3, <2>4 DEF PlainInv, KnownTried
  <1> QED
    BY <1>1 DEF KnownTried

LEMMA AcceptPlain ==
  ASSUME LoadInv, PlainInv, TypeOK', stack # <<>>, Top.at <= Len(TopMembers), NEW t \in Parsed,
         Accept(t), UNCHANGED <<file, top>>,
         Plain(TopName) =>
           /\ Taken(t) = Said(TopName)[Top.at]
           /\ TopMembers[Top.at].via = "value" =>
                TopMembers[Top.at].of \in {y \in Names : Known(y)} \cup Primitives
  PROVE  PlainInv'
  <1>0. PICK n \in Nat : n = Len(stack)
    BY DEF LoadInv, TypeOK
  <1>1. /\ UNCHANGED <<structs, struct_db, top, pending, resolving, rank, count, fields>>
        /\ ret' = "none" /\ Len(stack') = n
        /\ \A j \in 1..n : j # n => stack'[j] = stack[j]
        /\ \A j \in 1..n : stack'[j].rec = stack[j].rec /\ stack'[j].fwd = stack[j].fwd
        /\ stack'[n].at = stack[n].at + 1
        /\ stack'[n].done = Append(stack[n].done, Taken(t))
        /\ Taken(t) \in Field /\ stack[n].done \in Seq(Field)
        /\ n \in 1..n
        /\ stack[n].at \in 1..Len(structs[stack[n].rec].members)
        /\ Len(structs[stack[n].rec].members) \in Nat
    BY <1>0, AcceptStack
  <1>2. PlainStatic /\ TypeOK
    BY FileStays DEF LoadInv
  <1>3. \A j \in 1..n : Open(j)' = Open(j) /\ Open(j) \in Names /\ (j # n => Asked(j)' = Asked(j))
    BY <1>0, <1>1, OpenTyped DEF Open, Asked
  <1>4. \A j \in 1..n : (Plain(Open(j))' <=> Plain(Open(j)))
                        /\ Members(Open(j))' = Members(Open(j)) /\ Said(Open(j))' = Said(Open(j))
    BY <1>2, <1>3 DEF PlainStatic
  <1>5. OpenWhole'
    <2>1. ASSUME NEW j \in 1..n
          PROVE  ~structs[stack'[j].rec].opaque /\ Len(stack'[j].done) = stack'[j].at - 1
      <3>1. ~structs[stack'[j].rec].opaque /\ Len(stack[j].done) = stack[j].at - 1
        BY <1>0, <1>1 DEF PlainInv, OpenWhole
      <3>2. CASE j = n
        <4>1. Len(Append(stack[n].done, Taken(t))) = Len(stack[n].done) + 1 /\ stack[n].at \in Nat
          BY <1>1
        <4>2. Len(stack'[j].done) = stack'[j].at - 1
          <5>1. stack'[j].done = Append(stack[n].done, Taken(t)) /\ stack'[j].at = stack[n].at + 1
            BY <1>1, <3>2
          <5>2. Len(Append(stack[n].done, Taken(t))) = (stack[n].at - 1) + 1
            BY <3>1, <3>2, <4>1
          <5> QED
            BY <4>1, <5>1, <5>2
        <4>3. stack'[j].rec = stack[j].rec
          BY <1>1
        <4> QED
          BY <3>1, <4>2, <4>3
      <3> QED
        BY <1>1, <3>1, <3>2
    <2> QED
      BY <1>1, <2>1 DEF OpenWhole
  <1>6. ResolvingOpen'
    BY <1>0, <1>1, <1>3 DEF PlainInv, ResolvingOpen
  <1>7. OpenAsked'
    <2>1. ASSUME NEW j \in 1..n, j < n PROVE Open(j + 1)' = Asked(j)'
      <3>1. j + 1 \in 1..n /\ j # n
        BY <2>1
      <3> QED
        BY <1>0, <1>3, <2>1, <3>1 DEF PlainInv, OpenAsked
    <2> QED
      BY <1>1, <2>1 DEF OpenAsked
  <1>8. OpenReached'
    <2>1. ASSUME NEW i \in 1..n, NEW j \in 1..n, i < j, Plain(Open(i))'
          PROVE  Open(j)' \in Reach(Open(i), Both)'
      <3>1. Open(i)' = Open(i) /\ Open(j)' = Open(j) /\ Open(i) \in Names /\ Plain(Open(i))
        BY <1>3, <1>4, <2>1
      <3>2. Reach(Open(i), Both)' = Reach(Open(i), Both)
        BY <1>2, <3>1 DEF PlainStatic
      <3> QED
        BY <1>0, <2>1, <3>1, <3>2 DEF PlainInv, OpenReached
    <2> QED
      BY <1>1, <2>1 DEF OpenReached
  <1>9. ResultRight'
    BY <1>1 DEF ResultRight
  <1>10. PlainSoFar'
    <2>1. ASSUME NEW j \in 1..n, Plain(Open(j)), NEW k \in 1..Len(stack'[j].done)
          PROVE  /\ stack'[j].done[k] = Said(Open(j))[k]
                 /\ Members(Open(j))[k].via = "value" =>
                      Members(Open(j))[k].of \in {y \in Names : Known(y)} \cup Primitives
      <3>0. \A l \in 1..Len(stack[j].done) :
              /\ stack[j].done[l] = Said(Open(j))[l]
              /\ Members(Open(j))[l].via = "value" =>
                   Members(Open(j))[l].of \in {y \in Names : Known(y)} \cup Primitives
        BY <1>0, <2>1 DEF PlainInv, PlainSoFar
      <3>1. CASE j # n
        <4>1. stack'[j].done = stack[j].done
          BY <1>1, <3>1
        <4> QED
          BY <3>0, <4>1
      <3>2. CASE j = n
        <4>1. k \in 1..Len(stack[n].done) \/ k = Len(stack[n].done) + 1
          BY <1>1, <3>2
        <4>2. CASE k \in 1..Len(stack[n].done)
          <5>1. stack'[j].done[k] = stack[n].done[k]
            BY <1>1, <3>2, <4>2
          <5> QED
            BY <3>0, <3>2, <4>2, <5>1
        <4>3. CASE k = Len(stack[n].done) + 1
          <5>1. stack'[j].done[k] = Taken(t)
            BY <1>1, <3>2, <4>3
          <5>2. k = stack[n].at
            <6>1. Len(stack[n].done) = stack[n].at - 1 /\ stack[n].at \in Nat
              BY <1>0, <1>1 DEF PlainInv, OpenWhole
            <6> QED
              BY <4>3, <6>1
          <5>3. TopName = Open(n) /\ Top.at = k /\ TopMembers = structs[stack[n].rec].members
            BY <1>0, <5>2 DEF TopName, Top, TopMembers, Depth, Open
          <5>4. TopMembers = Members(Open(n))
            BY <1>0, <1>1, <2>1, <3>2, <5>3, OpenTyped
          <5> QED
            BY <2>1, <3>2, <5>1, <5>3, <5>4
        <4> QED
          BY <4>1, <4>2, <4>3
      <3> QED
        BY <3>1, <3>2
    <2>2. ASSUME NEW j \in 1..n, Plain(Open(j))', NEW k \in 1..Len(stack'[j].done)
          PROVE  /\ stack'[j].done[k] = Said(Open(j))'[k]
                 /\ Members(Open(j))'[k].via = "value" =>
                      Members(Open(j))'[k].of \in {y \in Names : Known(y)'} \cup Primitives
      BY <1>2, <1>4, <2>1, <2>2 DEF PlainStatic
    <2> QED
      BY <1>1, <2>2 DEF PlainSoFar
  <1>11. PlainMemo'
    BY <1>1, <1>2 DEF PlainInv, PlainMemo, PlainStatic
  <1>12. KnownTried'
    BY <1>1, <1>2, TriedKept
  <1> QED
    BY <1>5, <1>6, <1>7, <1>8, <1>9, <1>10, <1>11, <1>12 DEF PlainInv

\* What leaving a record does, apart from what becomes of it.
LEMMA PopPlain ==
  ASSUME LoadInv, PlainInv, TypeOK', stack # <<>>, NEW r \in {TopName, "null"}, Pop(r), UNCHANGED file,
         Plain(TopName) => (r = TopName <=> Known(TopName)),
         PlainMemo', KnownTried'
  PROVE  PlainInv'
  <1>0. PICK n \in Nat : n = Len(stack)
    BY DEF LoadInv, TypeOK
  <1>1. /\ Len(stack') = n - 1 /\ \A j \in 1..(n - 1) : stack'[j] = stack[j]
        /\ structs' = structs /\ n \in 1..n /\ n - 1 \in Nat
    <2>1. stack \in Seq(Frame)
      BY DEF LoadInv, TypeOK
    <2> QED
      BY <1>0, <2>1, PopStack DEF file
  <1>2. PlainStatic /\ TypeOK
    BY FileStays DEF LoadInv
  <1>3. \A j \in 1..(n - 1) : Open(j)' = Open(j) /\ Open(j) \in Names /\ Asked(j)' = Asked(j)
    <2>1. 1..(n - 1) \subseteq 1..n
      BY <1>1
    <2> QED
      BY <1>0, <1>1, <2>1, OpenTyped DEF Open, Asked
  <1>4. \A j \in 1..(n - 1) :
          /\ Plain(Open(j))' <=> Plain(Open(j))
          /\ Members(Open(j))' = Members(Open(j)) /\ Said(Open(j))' = Said(Open(j))
          /\ Reach(Open(j), Both)' = Reach(Open(j), Both)
    BY <1>2, <1>3 DEF PlainStatic
  <1>5. PICK x \in Names : x = TopName /\ x = Open(n)
    BY <1>0, <1>1, OpenTyped DEF TopName, Top, Depth, Open
  <1>6. 1..(n - 1) \subseteq 1..Len(stack) /\ \A j \in 1..n : j \in 1..(n - 1) \/ j = n
    BY <1>0, <1>1
  <1>7. OpenWhole'
    BY <1>1, <1>6 DEF PlainInv, OpenWhole
  <1>8. ResolvingOpen'
    <2>1. ASSUME NEW y \in resolving' PROVE \E j \in 1..(n - 1) : stack'[j].fwd /\ Open(j)' = y
      <3>1. y \in resolving /\ (Top.fwd => y # TopName)
        BY <2>1 DEF Pop
      <3>2. PICK j \in 1..n : stack[j].fwd /\ Open(j) = y
        BY <1>0, <3>1 DEF PlainInv, ResolvingOpen
      <3>3. j # n
        BY <1>0, <1>5, <3>1, <3>2 DEF Top, Depth
      <3>4. j \in 1..(n - 1)
        BY <1>6, <3>3
      <3> QED
        BY <1>1, <1>3, <3>2, <3>4
    <2> QED
      BY <1>1, <2>1 DEF ResolvingOpen
  <1>9. OpenAsked'
    <2>1. ASSUME NEW j \in 1..(n - 1), j < n - 1 PROVE Open(j + 1)' = Asked(j)'
      <3>1. j + 1 \in 1..(n - 1) /\ j < n
        BY <1>1, <2>1
      <3> QED
        BY <1>0, <1>3, <1>6, <3>1 DEF PlainInv, OpenAsked
    <2> QED
      BY <1>1, <2>1 DEF OpenAsked
  <1>10. OpenReached'
    <2>1. ASSUME NEW i \in 1..(n - 1), NEW j \in 1..(n - 1), i < j, Plain(Open(i))'
          PROVE  Open(j)' \in Reach(Open(i), Both)'
      <3>1. Open(j) \in Reach(Open(i), Both)
        BY <1>4, <1>6, <2>1 DEF PlainInv, OpenReached
      <3> QED
        BY <1>3, <1>4, <3>1
    <2> QED
      BY <1>1, <2>1 DEF OpenReached
  <1>11. ResultRight'
    <2>1. ASSUME ret' # "none"
          PROVE  ret' = r /\ Asked(n - 1)' = x
      <3>1. n # 1 /\ ret' = r
        BY <1>0, <2>1 DEF Pop, Depth
      <3>2. n - 1 \in 1..(n - 1) /\ n - 1 < n /\ (n - 1) + 1 = n
        BY <1>1, <3>1
      <3>3. n - 1 \in 1..Len(stack) /\ n - 1 < Len(stack)
        BY <1>0, <1>6, <3>2
      <3>4. Open((n - 1) + 1) = Asked(n - 1)
        BY <3>3 DEF PlainInv, OpenAsked
      <3>5. Asked(n - 1)' = Asked(n - 1)
        BY <1>3, <3>2
      <3> QED
        BY <1>5, <3>1, <3>2, <3>4, <3>5
    <2>2. Plain(x)' => (r = x <=> Known(x)')
      BY <1>2, <1>5 DEF PlainStatic
    <2> QED
      BY <1>1, <1>5, <2>1, <2>2 DEF ResultRight
  <1>12. PlainSoFar'
    <2>1. ASSUME NEW j \in 1..(n - 1), Plain(Open(j))', NEW k \in 1..Len(stack'[j].done)
          PROVE  /\ stack'[j].done[k] = Said(Open(j))'[k]
                 /\ Members(Open(j))'[k].via = "value" =>
                      Members(Open(j))'[k].of \in {y \in Names : Known(y)'} \cup Primitives
      <3>1. stack'[j].done = stack[j].done /\ j \in 1..Len(stack) /\ Plain(Open(j))
        BY <1>1, <1>4, <1>6, <2>1
      <3>2. /\ stack[j].done[k] = Said(Open(j))[k]
            /\ Members(Open(j))[k].via = "value" =>
                 Members(Open(j))[k].of \in {y \in Names : Known(y)} \cup Primitives
        BY <2>1, <3>1 DEF PlainInv, PlainSoFar
      <3> QED
        BY <1>2, <1>4, <3>1, <3>2 DEF PlainStatic
    <2> QED
      BY <1>1, <2>1 DEF PlainSoFar
  <1> QED
    BY <1>7, <1>8, <1>9, <1>10, <1>11, <1>12 DEF PlainInv

\* The record on top, if it is plain, is the one of its name.
LEMMA TopPlain ==
  ASSUME LoadInv, PlainInv, stack # <<>>
  PROVE  /\ TopName \in Names /\ TopName \in pending /\ TopName = Open(Len(stack))
         /\ Len(stack) \in 1..Len(stack) /\ Top = stack[Len(stack)]
         /\ Len(TopMembers) \in Nat /\ Top.at \in 1..(Len(TopMembers) + 1)
         /\ Top.at <= Len(TopMembers) => Top.at \in 1..Len(TopMembers)
         /\ Plain(TopName) => TopMembers = Members(TopName) /\ struct_db[TopName] # 0
  <1>1. Len(stack) \in 1..Len(stack) /\ Top = stack[Len(stack)]
    <2>1. stack \in Seq(Frame)
      BY DEF LoadInv, TypeOK
    <2> QED
      BY <2>1 DEF Top, Depth
  <1>2. TopName = Open(Len(stack)) /\ TopMembers = structs[stack[Len(stack)].rec].members
    BY <1>1 DEF TopName, TopMembers, Open
  <1>3. /\ structs[stack[Len(stack)].rec] \in Record
        /\ Top.at \in 1..(Len(TopMembers) + 1)
        /\ Open(Len(stack)) \in Names /\ Open(Len(stack)) \in pending
        /\ Plain(TopName) => TopMembers = Members(TopName) /\ struct_db[TopName] # 0
    BY <1>1, <1>2, OpenTyped
  <1>4. Len(TopMembers) \in Nat
    BY <1>2, <1>3 DEF Record
  <1> QED
    BY <1>1, <1>2, <1>3, <1>4

LEMMA GivePlain ==
  ASSUME LoadInv, PlainInv, TypeOK', stack # <<>>, Top.at <= Len(TopMembers),
         NEW r \in Parsed \cup {"null"}, Give(r), UNCHANGED <<file, top>>,
         Plain(TopName) =>
           \/ r = TopMembers[Top.at].of /\ r \in {y \in Names : Known(y)} \cup Primitives
           \/ r = "null" /\ (TopMembers[Top.at].of = "bad"
                             \/ (TopMembers[Top.at].of \in Names /\ ~Known(TopMembers[Top.at].of)))
  PROVE  PlainInv'
  <1> DEFINE m == TopMembers[Top.at]
  <1>0. /\ "null" \notin Names \cup Primitives /\ "bad" \notin Names \cup Primitives
        /\ Names \cap Primitives = {} /\ "bottom" \in Parsed /\ TypeOK
    BY DEF Primitives, Parsed, LoadInv
  <1>1. TopName \in Names /\ (Plain(TopName) => TopMembers = Members(TopName) /\ struct_db[TopName] # 0)
        /\ Top.at \in 1..Len(TopMembers)
    BY TopPlain
  <1>2. ASSUME Plain(TopName)
        PROVE  /\ Said(TopName)[Top.at] =
                    [via |-> m.via, label |-> m.label,
                     ty |-> IF m.of = "bad" \/ (m.of \in Names /\ ~Known(m.of)) THEN "bottom" ELSE m.of]
               /\ m.via \in Both
    <2>1. m \in Member
      BY <1>0, <1>1, <1>2, MembersTyped
    <2> QED
      BY <1>1, <1>2, <2>1 DEF Said, Member, Both, Members
  <1>3. CASE r # "null"
    <2>1. Accept(r) /\ r \in Parsed
      BY <1>3 DEF Give
    <2>2. ASSUME Plain(TopName)
          PROVE  Taken(r) = Said(TopName)[Top.at] /\ m.of \in {y \in Names : Known(y)} \cup Primitives
      <3>1. r = m.of /\ r \in {y \in Names : Known(y)} \cup Primitives
        BY <1>3, <2>2
      <3>2. ~(m.of = "bad" \/ (m.of \in Names /\ ~Known(m.of)))
        BY <1>0, <3>1
      <3> QED
        BY <1>2, <2>2, <3>1, <3>2 DEF Taken
    <2> QED
      BY <2>1, <2>2, AcceptPlain
  <1>4. CASE r = "null" /\ m.via = "pointer"
    <2>1. Accept("bottom")
      BY <1>4 DEF Give
    <2>2. Plain(TopName) => Taken("bottom") = Said(TopName)[Top.at]
      BY <1>0, <1>2, <1>4 DEF Taken
    <2> QED
      BY <1>0, <1>4, <2>1, <2>2, AcceptPlain
  <1>5. CASE r = "null" /\ m.via # "pointer"
    <2>1. Pop("null") /\ UNCHANGED <<rank, count, fields, structs, top>> /\ UNCHANGED file
      BY <1>5 DEF Give, file
    <2>2. ASSUME Plain(TopName) PROVE ~Known(TopName)
      <3>1. m.via = "value" /\ m.of \notin {y \in Names : Known(y)} \cup Primitives
        BY <1>0, <1>2, <1>5, <2>2 DEF Both
      <3>2. ~MadeOf(TopName, {y \in Names : Known(y)})
        BY <1>1, <2>2, <3>1 DEF MadeOf, Members
      <3> QED
        BY <1>0, <1>1, <3>2, KnownUnfolds
    <2>3. PlainStatic
      BY <1>0, <2>1, FileStays
    <2>4. PlainMemo'
      BY <2>1, <2>3 DEF PlainInv, PlainMemo, PlainStatic
    <2>5. pending' = pending \ {TopName}
      BY <2>1 DEF Pop
    <2>6. KnownTried'
      BY <1>0, <2>1, <2>2, <2>3, <2>5, TriedKept
    <2>7. PICK x \in Names : x = TopName
      BY <1>1
    <2> QED
      BY <1>0, <2>1, <2>2, <2>4, <2>6, <2>7, PopPlain
  <1> QED
    BY <1>3, <1>4, <1>5

\* The patches find what they would find in the file.
LEMMA PatchedExact ==
  ASSUME LoadInv, PlainInv, NEW x \in Names, Plain(x), struct_db[x] # 0, Said(x) \in Seq(Field),
         \A k \in 1..Len(Said(x)) :
           Said(x)[k].via = "value" /\ Said(x)[k].ty \in Names => rank[Said(x)[k].ty] # 0
  PROVE  apply_patches(x, Said(x)) = Exact(x)
  <1> DEFINE s == to_slice(Said(x))
             table == [y \in Enums |-> IF Known(y) THEN Said(y) ELSE <<>>]
  <1>0. TypeOK
    BY DEF LoadInv
  <1>1. ASSUME x \notin Enums, x = Argument, Named(s) = {"ty"}, s[1].via = "value", s[1].ty \in Enums
        PROVE  table[s[1].ty] = fields[s[1].ty]
    <2>1. s = Said(x)
      BY <1>1, SliceWithin
    <2> DEFINE e == s[1].ty
    <2>2. 1 \in 1..Len(Said(x)) /\ e \in Names
      BY <1>1, <2>1 DEF Named
    <2>3. rank[e] # 0
      BY <1>1, <2>1, <2>2
    <2>4. e # "bottom" /\ Members(x) \in Seq(Member) /\ DOMAIN Said(x) = 1..Len(Members(x))
      BY <1>0, <2>2, MembersTyped DEF Said, Members
    <2>5. 1 \in 1..Len(Members(x))
      BY <2>2, <2>4
    <2>6. e = Members(x)[1].of
      <3>1. Said(x)[1].ty = IF Members(x)[1].of = "bad" \/ (Members(x)[1].of \in Names /\ ~Known(Members(x)[1].of))
                            THEN "bottom" ELSE Members(x)[1].of
        BY <2>5 DEF Said, Members
      <3>2. e = Said(x)[1].ty
        BY <2>1
      <3> HIDE DEF e
      <3> QED
        BY <2>4, <3>1, <3>2
    <2>7. e \in Reach(x, Both)
      BY <1>0, <2>2, <2>5, <2>6, MemberRefers
    <2>8. Plain(e)
      BY <1>0, <2>7, PlainBelow
    <2>9. Known(e) /\ fields[e] = Exact(e)
      BY <2>2, <2>3, <2>8 DEF PlainInv, PlainMemo
    <2> QED
      BY <1>1, <2>9 DEF Exact
  <1> HIDE DEF s, table
  <1>2. CASE x \in Enums
    BY <1>2 DEF Exact, apply_patches
  <1>3. CASE x \notin Enums
    <2>1. Exact(x) = unwrap_argument(x, s, table) /\ apply_patches(x, Said(x)) = unwrap_argument(x, s, fields)
      BY <1>3 DEF Exact, apply_patches, s, table
    <2>2. unwrap_argument(x, s, table) = unwrap_argument(x, s, fields)
      BY <1>1, <1>3 DEF unwrap_argument
    <2> QED
      BY <2>1, <2>2
  <1> QED
    BY <1>2, <1>3

LEMMA FinishPlain == ASSUME LoadInv, PlainInv, TypeOK', FinishRecord PROVE PlainInv'
  <1>0. PICK n \in Nat : n = Len(stack)
    BY DEF LoadInv, TypeOK
  <1>1. PICK x \in Names : x = TopName
    BY TopPlain DEF FinishRecord
  <1>2. /\ stack # <<>> /\ Pop(x) /\ UNCHANGED <<structs, struct_db, top>> /\ UNCHANGED file
        /\ count' = count + 1 /\ rank' = [rank EXCEPT ![x] = count + 1]
        /\ fields' = [fields EXCEPT ![x] = apply_patches(x, Top.done)]
        /\ Top.at > Len(TopMembers)
    BY <1>1 DEF FinishRecord, file
  <1>3. PlainStatic /\ TypeOK
    BY <1>2, FileStays DEF LoadInv
  <1>4. /\ count \in Nat /\ rank \in [Names -> Nat] /\ fields \in [Names -> Seq(Field)]
    BY <1>3 DEF TypeOK
  <1>5. ASSUME Plain(x) PROVE Known(x) /\ apply_patches(x, Top.done) = Exact(x)
    <2>1. /\ x = Open(n) /\ n \in 1..n /\ Top = stack[n]
          /\ TopMembers = Members(x) /\ struct_db[x] # 0
          /\ Len(TopMembers) \in Nat /\ Top.at = Len(TopMembers) + 1
      <3>1. /\ x = Open(n) /\ n \in 1..n /\ Top = stack[n]
            /\ TopMembers = Members(x) /\ struct_db[x] # 0
            /\ Len(TopMembers) \in Nat /\ Top.at \in 1..(Len(TopMembers) + 1)
        BY <1>0, <1>1, <1>2, <1>5, TopPlain
      <3> QED
        BY <1>2, <3>1
    <2>2. /\ Top.done \in Seq(Field) /\ Len(Top.done) = Len(Members(x)) /\ ~structs[struct_db[x]].opaque
      <3>1. stack[n] \in Frame /\ stack[n].rec = struct_db[x]
        BY <1>0, <1>5, <2>1, OpenTyped
      <3>2. Len(stack[n].done) = stack[n].at - 1 /\ ~structs[stack[n].rec].opaque
        BY <1>0, <2>1 DEF PlainInv, OpenWhole
      <3>3. stack[n].done \in Seq(Field)
        BY <3>1 DEF Frame
      <3> QED
        BY <2>1, <3>1, <3>2, <3>3
    <2>3. \A k \in 1..Len(Members(x)) :
            /\ Top.done[k] = Said(x)[k]
            /\ Members(x)[k].via = "value" => Members(x)[k].of \in {y \in Names : Known(y)} \cup Primitives
      BY <1>0, <1>5, <2>1, <2>2 DEF PlainInv, PlainSoFar
    <2>4. Known(x)
      <3>1. MadeOf(x, {y \in Names : Known(y)})
        BY <2>1, <2>2, <2>3 DEF MadeOf, Members
      <3> QED
        BY <1>3, <3>1, KnownUnfolds
    <2>5. Top.done = Said(x)
      <3>1. DOMAIN Top.done = 1..Len(Members(x)) /\ Top.done = [k \in DOMAIN Top.done |-> Top.done[k]]
        BY <2>2
      <3> QED
        BY <2>3, <3>1 DEF Said, Members
    <2>6. \A k \in 1..Len(Said(x)) :
            Said(x)[k].via = "value" /\ Said(x)[k].ty \in Names => rank[Said(x)[k].ty] # 0
      <3>1. \A k \in 1..Len(stack[n].done) :
              stack[n].done[k].via = "value" /\ stack[n].done[k].ty \in Names =>
                rank[stack[n].done[k].ty] \in 1..count
        BY <1>0, <2>1 DEF LoadInv, DoneFinished
      <3> QED
        BY <1>4, <2>1, <2>5, <3>1
    <2> QED
      BY <1>5, <2>1, <2>2, <2>4, <2>5, <2>6, PatchedExact
  <1>6. /\ rank'[x] # 0 /\ \A y \in Names : y # x => rank'[y] = rank[y] /\ fields'[y] = fields[y]
        /\ fields'[x] = apply_patches(x, Top.done)
    BY <1>2, <1>4
  <1>7. PlainMemo'
    <2>1. ASSUME NEW y \in Names, Plain(y), rank'[y] # 0 PROVE Known(y) /\ fields'[y] = Exact(y)
      <3>1. CASE y = x
        BY <1>5, <1>6, <2>1, <3>1
      <3>2. CASE y # x
        BY <1>6, <2>1, <3>2 DEF PlainInv, PlainMemo
      <3> QED
        BY <3>1, <3>2
    <2> QED
      BY <1>3, <2>1 DEF PlainMemo, PlainStatic
  <1>8. KnownTried'
    <2>1. pending' = pending \ {x}
      BY <1>1, <1>2 DEF Pop
    <2>2. \A y \in Names : rank[y] # 0 => rank'[y] # 0
      BY <1>6
    <2>3. \A y \in pending : y \in pending' \/ rank'[y] # 0
      BY <1>6, <2>1
    <2> QED
      BY <1>2, <1>3, <2>2, <2>3, TriedKept
  <1>9. Plain(TopName) => (x = TopName <=> Known(TopName))
    BY <1>1, <1>5
  <1> QED
    BY <1>1, <1>2, <1>3, <1>7, <1>8, <1>9, PopPlain

LEMMA LoadNextPlain == ASSUME LoadInv, PlainInv, TypeOK', LoadNext PROVE PlainInv'
  <1>1. /\ stack = <<>> /\ top \in 1..Len(structs) /\ top' = top + 1 /\ UNCHANGED file
        /\ structs \in Seq(Record) /\ TypeOK /\ ret = "none" /\ pending = {}
    <2>1. stack = <<>> /\ top \in 1..Len(structs) /\ top' = top + 1 /\ UNCHANGED file
      BY DEF LoadInv, TypeOK, LoadNext
    <2>2. structs \in Seq(Record) /\ TypeOK /\ pending \subseteq Names
      BY DEF LoadInv, TypeOK
    <2>3. ret = "none"
      BY <2>1 DEF LoadInv, Waiting
    <2>4. pending = {}
      <3>1. 1..Len(stack) = {}
        BY <2>1
      <3> QED
        BY <2>2, <3>1 DEF LoadInv, PendingIsStack
    <2> QED
      BY <2>1, <2>2, <2>3, <2>4
  <1>2. PICK x \in Names : x = structs[top].name
    <2>1. structs[top] \in Record
      BY <1>1
    <2> QED
      BY <2>1 DEF Record
  <1>3. PICK d \in 1..Len(structs) : d = top
    BY <1>1
  <1>4. CASE Answer(x, top) = "descend"
    <2>1. Push(x, d)
      BY <1>2, <1>3, <1>4 DEF LoadNext
    <2> QED
      BY <1>1, <1>2, <1>3, <1>4, <2>1, PushPlain
  <1>5. CASE Answer(x, top) # "descend"
    <2>1. UNCHANGED <<stack, pending, resolving, rank, count, fields, ret, structs, struct_db>>
      BY <1>2, <1>5 DEF LoadNext, file
    <2>2. PlainStatic
      BY <1>1, FileStays
    <2>3. ASSUME Plain(x), Known(x) PROVE rank[x] # 0
      <3>1. Answer(x, d) = x
        BY <1>1, <1>2, <1>3, <1>5, <2>3, PlainAnswer
      <3> QED
        BY <3>1 DEF Answer
    <2>4. KnownTried'
      <3>1. ASSUME NEW e \in 1..top, Plain(structs[e].name)', Known(structs[e].name)'
            PROVE  rank[structs[e].name] # 0 \/ structs[e].name \in pending
        <4>1. e \in 1..Len(structs)
          BY <1>1
        <4>2. structs[e] \in Record
          BY <1>1, <4>1
        <4>3. structs[e].name \in Names
          BY <4>2 DEF Record
        <4>4. Plain(structs[e].name) /\ Known(structs[e].name)
          BY <2>1, <2>2, <3>1, <4>3 DEF PlainStatic
        <4>5. CASE e = top
          BY <1>2, <2>3, <4>4, <4>5
        <4>6. CASE e # top
          <5>1. e \in 1..(top - 1)
            BY <1>1, <4>6
          <5> QED
            BY <4>4, <5>1 DEF PlainInv, KnownTried
        <4> QED
          BY <4>5, <4>6
      <3>2. top' - 1 = top
        BY <1>1
      <3> QED
        BY <2>1, <3>1, <3>2 DEF KnownTried
    <2>5. OpenWhole' /\ ResolvingOpen' /\ OpenAsked' /\ OpenReached' /\ ResultRight' /\ PlainSoFar'
      <3>1. Len(stack) = 0
        BY <1>1
      <3> QED
        BY <1>1, <2>1, <3>1 DEF PlainInv, OpenWhole, ResolvingOpen, OpenAsked, OpenReached, ResultRight, PlainSoFar
    <2>6. PlainMemo'
      BY <2>1, <2>2 DEF PlainInv, PlainMemo, PlainStatic
    <2> QED
      BY <2>4, <2>5, <2>6 DEF PlainInv
  <1> QED
    BY <1>4, <1>5

LEMMA ParseMemberPlain == ASSUME LoadInv, PlainInv, TypeOK', ParseMember PROVE PlainInv'
  <1>1. /\ stack # <<>> /\ ret = "none" /\ Top.at <= Len(TopMembers)
        /\ UNCHANGED <<file, top>> /\ TypeOK /\ structs \in Seq(Record)
    BY DEF LoadInv, TypeOK, ParseMember
  <1>2. /\ Len(stack) \in 1..Len(stack) /\ Top.at \in 1..Len(TopMembers)
        /\ TopName = Open(Len(stack)) /\ TopName \in Names
        /\ structs[stack[Len(stack)].rec] \in Record /\ Top = stack[Len(stack)]
    BY <1>1, TopPlain, OpenTyped
  <1>3. PICK x \in Names \cup Primitives \cup {"bad"} : x = TopMembers[Top.at].of /\ x = Asked(Len(stack))
    <2>1. TopMembers \in Seq(Member)
      BY <1>2 DEF Record, TopMembers
    <2>2. TopMembers[Top.at] \in Member
      BY <1>2, <2>1
    <2> QED
      BY <1>2, <2>2 DEF Member, Asked, TopMembers
  <1>4. /\ Primitives \cup {"bottom"} \subseteq Parsed /\ Names \subseteq Parsed
        /\ (Primitives \cup {"bad", "bottom", "null"}) \cap Names = {} /\ "bad" \notin Primitives
    BY DEF Parsed, Primitives
  <1>5. CASE x \in Primitives
    <2>1. Give(x) /\ x \in Parsed \cup {"null"}
      BY <1>3, <1>4, <1>5 DEF ParseMember
    <2> QED
      BY <1>1, <1>3, <1>5, <2>1, GivePlain
  <1>6. CASE x = "bad"
    <2>1. Give("null") /\ "null" \in Parsed \cup {"null"}
      BY <1>3, <1>4, <1>6 DEF ParseMember
    <2> QED
      BY <1>1, <1>3, <1>6, <2>1, GivePlain
  <1>7. CASE x \in Names /\ Answer(x, 0) = "descend"
    <2>1. Push(x, 0) /\ 0 \in 0..Len(structs) /\ UNCHANGED file
      BY <1>1, <1>3, <1>4, <1>7 DEF ParseMember
    <2> QED
      BY <1>1, <1>3, <1>7, <2>1, PushPlain
  <1>8. CASE x \in Names /\ Answer(x, 0) # "descend"
    <2>1. PICK r \in Names \cup {"bottom", "null"} : r = Answer(x, 0)
      BY <1>8, AnswerFinished
    <2>2. Give(r) /\ r \in Parsed \cup {"null"}
      BY <1>3, <1>4, <1>8, <2>1 DEF ParseMember
    <2>3. ASSUME Plain(TopName) PROVE (r = x /\ Known(x)) \/ (r = "null" /\ ~Known(x))
      <3>1. x \in Reach(TopName, Both)
        BY <1>1, <1>2, <1>3, <1>8, <2>3, AskedReached
      <3>2. Plain(x) /\ x \notin pending
        BY <1>1, <1>2, <2>3, <3>1, PlainBelow, NoneOpenBelow
      <3>3. 0 \in 0..Len(structs)
        BY <1>1
      <3> QED
        BY <1>8, <2>1, <3>2, <3>3, PlainAnswer
    <2> QED
      BY <1>1, <1>3, <1>8, <2>2, <2>3, GivePlain
  <1> QED
    BY <1>3, <1>5, <1>6, <1>7, <1>8

LEMMA TakeResultPlain == ASSUME LoadInv, PlainInv, TypeOK', TakeResult PROVE PlainInv'
  <1>1. /\ stack # <<>> /\ ret # "none" /\ Give(ret) /\ UNCHANGED <<file, top>>
        /\ TypeOK /\ ret \in Names \cup {"none", "null"}
    BY DEF TakeResult, LoadInv, TypeOK
  <1>2. /\ Len(stack) \in 1..Len(stack) /\ TopName = Open(Len(stack)) /\ TopName \in Names
        /\ Top = stack[Len(stack)]
    BY <1>1, TopPlain
  <1>3. Top.at <= Len(TopMembers)
    BY <1>1, <1>2 DEF LoadInv, Waiting, TopMembers
  <1>4. PICK x \in Names : x = Asked(Len(stack)) /\ ret \in {x, "null"} /\ (Plain(x) => (ret = x <=> Known(x)))
    BY <1>1 DEF PlainInv, ResultRight
  <1>5. PICK r \in Parsed \cup {"null"} : r = ret
    BY <1>1 DEF Parsed
  <1>6. x = TopMembers[Top.at].of
    BY <1>2, <1>4 DEF Asked, TopMembers
  <1>7. ASSUME Plain(TopName) PROVE (r = x /\ Known(x)) \/ (r = "null" /\ ~Known(x))
    <2>1. x \in Reach(TopName, Both)
      BY <1>1, <1>2, <1>3, <1>4, <1>7, AskedReached
    <2>2. Plain(x)
      BY <1>1, <1>2, <1>7, <2>1, PlainBelow
    <2> QED
      BY <1>4, <1>5, <2>2
  <1> QED
    BY <1>1, <1>3, <1>4, <1>5, <1>6, <1>7, GivePlain

LEMMA PlainStart == ASSUME Init PROVE PlainInv
  <1>1. Len(stack) = 0 /\ Len(<<>>) = 0
    BY DEF Init
  <1> QED
    BY <1>1 DEF Init, PlainInv, OpenWhole, ResolvingOpen, OpenAsked, OpenReached, ResultRight,
         PlainSoFar, PlainMemo, KnownTried

LEMMA PlainStutter == ASSUME LoadInv, PlainInv, TypeOK', UNCHANGED vars PROVE PlainInv'
  <1>1. UNCHANGED <<structs, struct_db, top, stack, pending, resolving, rank, count, fields, ret>>
    BY DEF vars, file
  <1>2. PlainStatic /\ TypeOK
    BY <1>1, FileStays DEF LoadInv, file
  <1>3. PICK n \in Nat : n = Len(stack)
    BY <1>2 DEF TypeOK
  <1>4. \A j \in 1..n : Open(j)' = Open(j) /\ Open(j) \in Names /\ Asked(j)' = Asked(j)
    BY <1>1, <1>3, OpenTyped DEF Open, Asked
  <1>5. OpenWhole'
    BY <1>1 DEF PlainInv, OpenWhole
  <1>6. ResolvingOpen'
    BY <1>1, <1>3, <1>4 DEF PlainInv, ResolvingOpen
  <1>7. OpenAsked'
    <2>1. ASSUME NEW j \in 1..n, j < n PROVE Open(j + 1)' = Asked(j)'
      <3>1. j + 1 \in 1..n
        BY <2>1
      <3> QED
        BY <1>3, <1>4, <2>1, <3>1 DEF PlainInv, OpenAsked
    <2> QED
      BY <1>1, <1>3, <2>1 DEF OpenAsked
  <1>8. OpenReached'
    BY <1>1, <1>2, <1>3, <1>4 DEF PlainInv, OpenReached, PlainStatic
  <1>9. ResultRight'
    BY <1>1, <1>2 DEF PlainInv, ResultRight, PlainStatic, Asked
  <1>10. PlainSoFar'
    BY <1>1, <1>2, <1>3, <1>4 DEF PlainInv, PlainSoFar, PlainStatic
  <1>11. PlainMemo'
    BY <1>1, <1>2 DEF PlainInv, PlainMemo, PlainStatic
  <1>12. KnownTried'
    BY <1>1, <1>2, TriedKept
  <1> QED
    BY <1>5, <1>6, <1>7, <1>8, <1>9, <1>10, <1>11, <1>12 DEF PlainInv

LEMMA PlainStep == ASSUME LoadInv, PlainInv, TypeOK', [Next]_vars PROVE PlainInv'
  BY LoadNextPlain, ParseMemberPlain, TakeResultPlain, FinishPlain, PlainStutter DEF Next

\* A plain type is memoised exactly if all it holds by value is known, and is
\* then what the file says of it, for any file and any order of its records.
THEOREM PlainExact == Spec => []PlainTypesExact
  <1>1. LoadInv /\ PlainInv /\ [Next]_vars => (LoadInv /\ PlainInv)'
    <2> SUFFICES ASSUME LoadInv, PlainInv, [Next]_vars PROVE LoadInv' /\ PlainInv'
      OBVIOUS
    <2>1. LoadInv'
      BY LoadStep
    <2>2. TypeOK'
      BY <2>1 DEF LoadInv
    <2> QED
      BY <2>1, <2>2, PlainStep
  <1>2. Init => LoadInv /\ PlainInv
    BY LoadInit, PlainStart
  <1>3. LoadInv /\ PlainInv => PlainTypesExact
    <2> SUFFICES ASSUME LoadInv, PlainInv, Loaded, NEW x \in Names, Plain(x)
                 PROVE  /\ rank[x] # 0 <=> Known(x)
                        /\ rank[x] # 0 => fields[x] = Exact(x)
      BY DEF PlainTypesExact, Exact
    <2>1. TypeOK /\ pending = {}
      BY DEF LoadInv, PendingIsStack, Loaded, TypeOK
    <2>2. ASSUME Known(x) PROVE rank[x] # 0
      <3>1. struct_db[x] # 0
        BY <2>1, <2>2, KnownUnfolds DEF MadeOf
      <3>2. struct_db[x] \in 1..(top - 1) /\ structs[struct_db[x]].name = x
        BY <2>1, <3>1 DEF TypeOK, LoadInv, LastOfEachName, Loaded
      <3> QED
        BY <2>1, <2>2, <3>2 DEF PlainInv, KnownTried
    <2> QED
      BY <2>2 DEF PlainInv, PlainMemo
  <1> QED
    BY <1>1, <1>2, <1>3, PTL DEF Spec

-----------------------------------------------------------------------------
(* The order of the declarations.                                          *)

\* While types are loaded nothing is rendered, and then the graph stays.
Phases == IF root = 0 THEN calls = <<>> /\ ordered = <<>> ELSE Loaded

\* The visits going on: types not defined yet, each held by value, over some
\* steps, by those around it.
VisitsDescend ==
  /\ \A j \in 1..Len(calls) :
       /\ calls[j].name \in Types \ visited
       /\ calls[j].deps \subseteq deps_of(calls[j].name)
  /\ \A j, k \in 1..Len(calls) : j < k => rank[calls[k].name] < rank[calls[j].name]

\* A dependency that is not left to visit is defined or being visited.
DepsHandled ==
  \A j \in 1..Len(calls) :
    deps_of(calls[j].name) \ calls[j].deps
      \subseteq visited \cup (IF j < Len(calls) THEN {calls[j + 1].name} ELSE {})

OrderedSoFar ==
  /\ \A j, k \in 1..Len(ordered) : ordered[j] = ordered[k] => j = k
  /\ \A k \in 1..Len(ordered) : \A d \in deps_of(ordered[k]) : \E j \in 1..(k - 1) : ordered[j] = d
  /\ visited \subseteq Types

RootsVisited ==
  \A k \in 1..Len(Order) : k < root /\ Order[k] \in Types => Order[k] \in visited \cup on_stack

HeaderInv ==
  HeaderTypeOK /\ Phases /\ VisitsDescend /\ DepsHandled /\ OrderedSoFar /\ RootsVisited

-----------------------------------------------------------------------------
\* A sequence without its last element.
LEMMA DropLast ==
  ASSUME NEW S, NEW s \in Seq(S), s # <<>>
  PROVE  \E t \in Seq(S) :
           /\ t = SubSeq(s, 1, Len(s) - 1) /\ Len(t) = Len(s) - 1
           /\ \A j \in 1..(Len(s) - 1) : t[j] = s[j]
  <1>1. PICK n \in Nat : n = Len(s) /\ n >= 1
    OBVIOUS
  <1>2. 1 \in Int /\ n - 1 \in Int /\ \A j \in 1..(n - 1) : s[j] \in S
    BY <1>1, ElementOfSeq
  <1>3. /\ SubSeq(s, 1, n - 1) \in Seq(S)
        /\ Len(SubSeq(s, 1, n - 1)) = IF 1 <= n - 1 THEN (n - 1) - 1 + 1 ELSE 0
        /\ \A j \in 1..((n - 1) - 1 + 1) : SubSeq(s, 1, n - 1)[j] = s[1 + j - 1]
    BY <1>2, SubSeqProperties
  <1>4. PICK t \in Seq(S) :
          /\ t = SubSeq(s, 1, n - 1) /\ Len(t) = IF 1 <= n - 1 THEN (n - 1) - 1 + 1 ELSE 0
          /\ \A j \in 1..((n - 1) - 1 + 1) : t[j] = s[1 + j - 1]
    BY <1>3, Zenon
  <1>5. Len(t) = n - 1 /\ \A j \in 1..(n - 1) : t[j] = s[j]
    BY <1>1, <1>4
  <1> QED
    BY <1>1, <1>4, <1>5
-----------------------------------------------------------------------------
\* What x holds by value was finished before it.
LEMMA DepRank ==
  ASSUME TypeOK, ByValueFinishedBefore, NEW x \in Names, NEW d \in deps_of(x)
  PROVE  d \in Types /\ d \in Names /\ rank[d] < rank[x] /\ rank[d] \in Nat /\ rank[x] \in Nat
  <1>1. PICK k \in 1..Len(fields[x]) : fields[x][k].via = "value" /\ d = fields[x][k].ty /\ d \in Types
    BY DEF deps_of, ByValue
  <1>2. d \in Names /\ rank[d] \in Nat /\ rank[x] \in Nat
    BY <1>1 DEF Types, TypeOK
  <1>3. rank[d] \in 1..(rank[x] - 1)
    BY <1>1, <1>2 DEF ByValueFinishedBefore
  <1> QED
    BY <1>1, <1>2, <1>3

LEMMA HeaderStart == HeaderInit => HeaderInv
  <1> SUFFICES ASSUME HeaderInit PROVE HeaderInv
    OBVIOUS
  <1>1. calls = <<>> /\ ordered = <<>> /\ root = 0 /\ kind \in [Names -> Kinds]
    BY HeaderAssumption DEF HeaderInit
  <1>2. visited = {} /\ Len(calls) = 0 /\ Len(ordered) = 0
    BY <1>1 DEF visited
  <1>3. HeaderTypeOK
    BY <1>1 DEF HeaderTypeOK
  <1> QED
    BY <1>1, <1>2, <1>3 DEF HeaderInv, Phases, VisitsDescend, DepsHandled, OrderedSoFar, RootsVisited

\* Nothing is loaded any more when the rendering begins.
LEMMA LoadedStops == TypeOK /\ Loaded => ~Next
  BY DEF TypeOK, Loaded, Next, LoadNext, ParseMember, TakeResult, FinishRecord

\* The definitions so far stay in order while nothing is added to them.
LEMMA OrderedStays ==
  ASSUME OrderedSoFar, ordered' = ordered, Types' = Types, \A x : deps_of(x)' = deps_of(x)
  PROVE  OrderedSoFar' /\ visited' = visited
  <1>1. visited' = visited
    BY DEF visited
  <1>2. PICK o : o = ordered /\ o = ordered'
    OBVIOUS
  <1>3. /\ \A j, k \in 1..Len(o) : o[j] = o[k] => j = k
        /\ \A k \in 1..Len(o) : \A d \in deps_of(o[k]) : \E j \in 1..(k - 1) : o[j] = d
        /\ visited \subseteq Types
    BY <1>2 DEF OrderedSoFar
  <1>4. \A k \in 1..Len(o) : \A d \in deps_of(o[k])' : \E j \in 1..(k - 1) : o[j] = d
    BY <1>3
  <1>5. ordered' = o
    BY <1>2
  <1> QED
    BY <1>1, <1>3, <1>4, <1>5 DEF OrderedSoFar

\* A step that changes neither the graph nor the rendering.
LEMMA NothingMoves ==
  ASSUME HeaderInv, UNCHANGED <<vars, hvars>>
  PROVE  HeaderInv'
  <1>1. /\ kind' = kind /\ root' = root /\ calls' = calls /\ ordered' = ordered
        /\ rank' = rank /\ fields' = fields /\ stack' = stack /\ top' = top /\ structs' = structs
    BY DEF vars, hvars, file
  <1>2. Types' = Types /\ visited' = visited /\ on_stack' = on_stack
    BY <1>1 DEF Types, visited, on_stack
  <1>3. \A x : deps_of(x)' = deps_of(x)
    BY <1>1, <1>2 DEF deps_of, ByValue, IsSlice
  <1>4. HeaderTypeOK' /\ Phases'
    BY <1>1 DEF HeaderInv, HeaderTypeOK, Phases, Loaded
  <1>5. VisitsDescend' /\ DepsHandled'
    BY <1>1, <1>2, <1>3 DEF HeaderInv, VisitsDescend, DepsHandled
  <1>6. OrderedSoFar' /\ RootsVisited'
    BY <1>1, <1>2, <1>3, OrderedStays DEF HeaderInv, RootsVisited
  <1> QED
    BY <1>4, <1>5, <1>6 DEF HeaderInv

LEMMA LoadingStep ==
  ASSUME HeaderInv, TypeOK, Next, UNCHANGED hvars
  PROVE  HeaderInv'
  <1>1. root = 0 /\ calls = <<>> /\ ordered = <<>>
    BY LoadedStops DEF HeaderInv, Phases
  <1>2. root' = 0 /\ calls' = <<>> /\ ordered' = <<>> /\ kind' = kind
    BY <1>1 DEF hvars
  <1>3. visited' = {} /\ Len(calls') = 0 /\ Len(ordered') = 0
    BY <1>2 DEF visited
  <1>4. HeaderTypeOK'
    BY <1>1, <1>2 DEF HeaderInv, HeaderTypeOK
  <1> QED
    BY <1>2, <1>3, <1>4 DEF HeaderInv, Phases, VisitsDescend, DepsHandled, OrderedSoFar, RootsVisited
-----------------------------------------------------------------------------
(* The steps of render_header; the type graph stays as it is.              *)

LEMMA GraphStays ==
  ASSUME UNCHANGED vars, UNCHANGED kind
  PROVE  Types' = Types /\ rank' = rank /\ (Loaded => Loaded') /\ \A x : deps_of(x)' = deps_of(x)
  <1>1. rank' = rank /\ fields' = fields /\ stack' = stack /\ top' = top /\ structs' = structs
    BY DEF vars, file
  <1>2. Types' = Types
    BY <1>1 DEF Types
  <1> QED
    BY <1>1, <1>2 DEF deps_of, ByValue, IsSlice, Loaded

LEMMA RenderStep ==
  ASSUME HeaderInv, render_header, UNCHANGED vars
  PROVE  HeaderInv'
  <1>1. calls = <<>> /\ ordered = <<>> /\ calls' = <<>> /\ ordered' = <<>> /\ root' = 1 /\ kind' = kind
    BY DEF render_header, HeaderInv, Phases
  <1>2. visited' = {} /\ Len(calls') = 0 /\ Len(ordered') = 0 /\ Loaded'
    BY <1>1, GraphStays DEF visited, render_header
  <1>3. HeaderTypeOK'
    BY <1>1 DEF HeaderInv, HeaderTypeOK
  <1> QED
    BY <1>1, <1>2, <1>3 DEF HeaderInv, Phases, VisitsDescend, DepsHandled, OrderedSoFar, RootsVisited

LEMMA VisitRootStep ==
  ASSUME HeaderInv, VisitRoot, UNCHANGED vars
  PROVE  HeaderInv'
  <1>1. /\ calls = <<>> /\ on_stack = {} /\ ordered' = ordered /\ kind' = kind /\ visited' = visited
        /\ root \in 1..Len(Order) /\ root' = root + 1 /\ Loaded /\ Len(Order) \in Nat
    BY HeaderAssumption DEF VisitRoot, HeaderInv, Phases, visited, on_stack
  <1>2. Types' = Types /\ rank' = rank /\ Loaded' /\ \A x : deps_of(x)' = deps_of(x)
    BY <1>1, GraphStays
  <1>3. PICK x \in Names : x = Order[root]
    BY <1>1, HeaderAssumption
  <1>4. OrderedSoFar' /\ Phases'
    BY <1>1, <1>2, OrderedStays DEF HeaderInv, Phases
  <1>5. CASE x \in Types \ visited
    <2>1. calls' = <<Call(x)>> /\ Call(x).name = x /\ Call(x).deps = deps_of(x)
      BY <1>3, <1>5 DEF VisitRoot, Call
    <2>2. Len(calls') = 1 /\ calls'[1] = Call(x) /\ on_stack' = {x}
      BY <2>1 DEF on_stack
    <2>3. deps_of(x) \subseteq Names
      BY DEF deps_of, ByValue, Types
    <2>4. HeaderTypeOK'
      BY <1>1, <1>3, <2>1, <2>3 DEF HeaderInv, HeaderTypeOK, Call, Visit
    <2>5. VisitsDescend' /\ DepsHandled'
      BY <1>1, <1>2, <1>5, <2>1, <2>2 DEF VisitsDescend, DepsHandled
    <2>6. RootsVisited'
      BY <1>1, <1>2, <1>3, <2>2 DEF HeaderInv, RootsVisited
    <2> QED
      BY <1>4, <2>4, <2>5, <2>6 DEF HeaderInv
  <1>6. CASE x \notin Types \ visited
    <2>1. calls' = <<>> /\ Len(calls') = 0 /\ on_stack' = {}
      BY <1>3, <1>6 DEF VisitRoot, on_stack
    <2>2. HeaderTypeOK'
      BY <1>1, <2>1 DEF HeaderInv, HeaderTypeOK
    <2>3. RootsVisited'
      BY <1>1, <1>2, <1>3, <1>6, <2>1 DEF HeaderInv, RootsVisited
    <2> QED
      BY <1>4, <2>1, <2>2, <2>3 DEF HeaderInv, VisitsDescend, DepsHandled
  <1> QED
    BY <1>5, <1>6

\* What is left to visit of the innermost type has a lower rank than every
\* type being visited.
LEMMA DepsBelow ==
  ASSUME HeaderInv, TypeOK, ByValueFinishedBefore, calls # <<>>
  PROVE  /\ Len(calls) \in Nat /\ Len(calls) >= 1
         /\ Visiting \in Visit
         /\ \A d \in Visiting.deps :
              d \in Types /\ \A j \in 1..Len(calls) : rank[d] < rank[calls[j].name]
  <1>1. calls \in Seq(Visit)
    BY DEF HeaderInv, HeaderTypeOK
  <1>2. Len(calls) \in Nat /\ Len(calls) >= 1
    BY <1>1
  <1>3. /\ Visiting \in Visit
        /\ \A j \in 1..Len(calls) : calls[j] \in Visit
    BY <1>1, <1>2, ElementOfSeq DEF Visiting
  <1>4. ASSUME NEW d \in Visiting.deps, NEW j \in 1..Len(calls)
        PROVE  d \in Types /\ rank[d] < rank[calls[j].name]
    <2>1. d \in deps_of(Visiting.name)
      BY <1>2, <1>4 DEF HeaderInv, VisitsDescend, Visiting
    <2>2. d \in Types /\ rank[d] < rank[Visiting.name] /\ rank[d] \in Nat /\ rank[Visiting.name] \in Nat
      BY <1>3, <2>1, DepRank DEF Visit
    <2>3. rank[calls[j].name] \in Nat
      BY <1>3 DEF TypeOK, Visit
    <2>4. j # Len(calls) => rank[Visiting.name] < rank[calls[j].name]
      BY <1>2 DEF HeaderInv, VisitsDescend, Visiting
    <2> QED
      BY <2>2, <2>3, <2>4 DEF Visiting
  <1>5. \A d \in Visiting.deps : d \in Types
    BY <1>2, <1>4
  <1> QED
    BY <1>2, <1>3, <1>4, <1>5

LEMMA VisitDepStep ==
  ASSUME HeaderInv, TypeOK, ByValueFinishedBefore, VisitDep, UNCHANGED vars
  PROVE  HeaderInv'
  <1>1. /\ calls # <<>> /\ ordered' = ordered /\ kind' = kind /\ visited' = visited /\ root' = root
    BY DEF VisitDep, visited
  <1>2. Types' = Types /\ rank' = rank /\ (Loaded => Loaded') /\ \A x : deps_of(x)' = deps_of(x)
    BY <1>1, GraphStays
  <1>3. PICK n \in Nat : n = Len(calls) /\ n >= 1
    BY <1>1, DepsBelow
  <1>4. calls \in Seq(Visit)
    BY DEF HeaderInv, HeaderTypeOK
  <1>5. PICK d \in Visiting.deps :
          calls' = IF d \in visited \cup on_stack
                   THEN [calls EXCEPT ![Len(calls)] = Without(d)]
                   ELSE Append([calls EXCEPT ![Len(calls)] = Without(d)], Call(d))
    BY DEF VisitDep
  <1>6. d \in Types /\ d \in Names /\ \A j \in 1..n : rank[d] < rank[calls[j].name]
    BY <1>1, <1>3, DepsBelow DEF Types
  <1>7. d \notin on_stack
    BY <1>3, <1>6 DEF on_stack, TypeOK, Types, HeaderInv, VisitsDescend
  <1>8. PICK rest \in Seq(Visit) :
          /\ rest = [calls EXCEPT ![Len(calls)] = Without(d)]
          /\ Len(rest) = n /\ \A j \in 1..n : rest[j].name = calls[j].name
          /\ rest[n].deps = calls[n].deps \ {d}
          /\ \A j \in 1..n : j # n => rest[j].deps = calls[j].deps
    <2>1. Without(d) \in Visit /\ n \in 1..Len(calls) /\ Visiting = calls[n]
      BY <1>1, <1>3, DepsBelow DEF Visit, Without, Visiting
    <2>2. PICK rest \in Seq(Visit) :
            /\ rest = [calls EXCEPT ![Len(calls)] = Without(d)] /\ Len(rest) = Len(calls)
            /\ rest[Len(calls)] = Without(d)
            /\ \A j \in 1..Len(calls) : j # Len(calls) => rest[j] = calls[j]
      <3>1. Without(d) \in Visit /\ Len(calls) \in 1..Len(calls)
        BY <1>3, <2>1
      <3>2. /\ [calls EXCEPT ![Len(calls)] = Without(d)] \in Seq(Visit)
            /\ Len([calls EXCEPT ![Len(calls)] = Without(d)]) = Len(calls)
            /\ \A j \in 1..Len(calls) :
                 [calls EXCEPT ![Len(calls)] = Without(d)][j] = IF j = Len(calls) THEN Without(d) ELSE calls[j]
        BY <1>4, <3>1, ExceptSeq
      <3>3. PICK rest \in Seq(Visit) :
              /\ rest = [calls EXCEPT ![Len(calls)] = Without(d)] /\ Len(rest) = Len(calls)
              /\ \A j \in 1..Len(calls) : rest[j] = IF j = Len(calls) THEN Without(d) ELSE calls[j]
        BY <3>2, Zenon
      <3> QED
        BY <3>1, <3>3
    <2>3. Without(d).name = calls[n].name /\ Without(d).deps = calls[n].deps \ {d}
      BY <2>1 DEF Without
    <2>4. /\ Len(rest) = n /\ \A j \in 1..n : rest[j].name = calls[j].name
          /\ rest[n].deps = calls[n].deps \ {d}
          /\ \A j \in 1..n : j # n => rest[j].deps = calls[j].deps
      BY <1>3, <2>2, <2>3
    <2> QED
      BY <2>2, <2>4
  <1>9. OrderedSoFar' /\ Phases'
    BY <1>1, <1>2, OrderedStays DEF HeaderInv, Phases
  <1>10. /\ \A j \in 1..n : rest[j].name \in Types \ visited /\ rest[j].deps \subseteq deps_of(rest[j].name)
         /\ \A j, k \in 1..n : j < k => rank[rest[k].name] < rank[rest[j].name]
    BY <1>3, <1>8 DEF HeaderInv, VisitsDescend
  <1>11. \A j \in 1..n : deps_of(rest[j].name) \ rest[j].deps
           \subseteq visited \cup (IF j < n THEN {rest[j + 1].name} ELSE {d})
    <2>1. ASSUME NEW j \in 1..n, j < n PROVE j + 1 \in 1..n /\ rest[j + 1].name = calls[j + 1].name
      BY <1>8, <2>1
    <2>2. ASSUME NEW j \in 1..n, j < n
          PROVE  deps_of(rest[j].name) \ rest[j].deps \subseteq visited \cup {rest[j + 1].name}
      BY <1>3, <1>8, <2>1, <2>2 DEF HeaderInv, DepsHandled
    <2>3. deps_of(rest[n].name) \ rest[n].deps \subseteq visited \cup {d}
      BY <1>3, <1>8 DEF HeaderInv, DepsHandled
    <2> QED
      BY <1>3, <2>2, <2>3
  <1>12. {rest[j].name : j \in 1..n} = on_stack
    BY <1>3, <1>8 DEF on_stack
  <1>13. CASE d \in visited
    <2>1. calls' = rest /\ on_stack' = on_stack
      BY <1>5, <1>8, <1>12, <1>13 DEF on_stack
    <2>2. HeaderTypeOK'
      BY <1>1, <2>1 DEF HeaderInv, HeaderTypeOK
    <2>3. VisitsDescend' /\ DepsHandled'
      BY <1>1, <1>2, <1>8, <1>10, <1>11, <1>13, <2>1 DEF VisitsDescend, DepsHandled
    <2>4. RootsVisited'
      BY <1>1, <1>2, <2>1 DEF HeaderInv, RootsVisited
    <2> QED
      BY <1>9, <2>2, <2>3, <2>4 DEF HeaderInv
  <1>14. CASE d \notin visited
    <2>1. Call(d) \in Visit /\ Call(d).name = d /\ Call(d).deps = deps_of(d)
      BY <1>6 DEF Call, deps_of, ByValue, Types, Visit
    <2>2. PICK more \in Seq(Visit) :
            /\ more = Append(rest, Call(d)) /\ Len(more) = n + 1
            /\ more[n + 1] = Call(d) /\ \A j \in 1..n : more[j] = rest[j]
      <3>1. Call(d) \in Visit /\ Len(rest) = n
        BY <1>8, <2>1
      <3>2. /\ Append(rest, Call(d)) \in Seq(Visit) /\ Len(Append(rest, Call(d))) = Len(rest) + 1
            /\ \A j \in 1..Len(rest) : Append(rest, Call(d))[j] = rest[j]
            /\ Append(rest, Call(d))[Len(rest) + 1] = Call(d)
        BY <3>1, AppendProperties
      <3>3. PICK more \in Seq(Visit) :
              /\ more = Append(rest, Call(d)) /\ Len(more) = Len(rest) + 1
              /\ more[Len(rest) + 1] = Call(d) /\ \A j \in 1..Len(rest) : more[j] = rest[j]
        BY <3>2, Zenon
      <3> QED
        BY <3>1, <3>3
    <2>3. calls' = more
      BY <1>5, <1>7, <1>8, <1>14, <2>2
    <2>4. HeaderTypeOK'
      BY <1>1, <2>3 DEF HeaderInv, HeaderTypeOK
    <2>5. ASSUME NEW j \in 1..(n + 1)
          PROVE  more[j].name \in Types \ visited /\ more[j].deps \subseteq deps_of(more[j].name)
      BY <1>3, <1>6, <1>10, <1>14, <2>1, <2>2
    <2>6. ASSUME NEW j \in 1..(n + 1), NEW k \in 1..(n + 1), j < k
          PROVE  rank[more[k].name] < rank[more[j].name]
      <3>1. CASE k = n + 1
        <4>1. j \in 1..n /\ more[j].name = calls[j].name
          BY <1>3, <1>8, <2>2, <2>6, <3>1
        <4> QED
          BY <1>6, <2>1, <2>2, <3>1, <4>1
      <3>2. CASE k # n + 1
        <4>1. j \in 1..n /\ k \in 1..n
          BY <1>3, <2>6, <3>2
        <4> QED
          BY <1>10, <2>2, <2>6, <4>1
      <3> QED
        BY <3>1, <3>2
    <2>7. ASSUME NEW j \in 1..(n + 1)
          PROVE  deps_of(more[j].name) \ more[j].deps
                   \subseteq visited \cup (IF j < n + 1 THEN {more[j + 1].name} ELSE {})
      <3>1. CASE j = n + 1
        BY <2>1, <2>2, <3>1
      <3>2. CASE j = n
        BY <1>3, <1>11, <2>1, <2>2, <3>2
      <3>3. CASE j < n
        <4>1. j \in 1..n /\ j + 1 \in 1..n
          BY <1>3, <3>3
        <4> QED
          BY <1>3, <1>11, <2>2, <3>3, <4>1
      <3> QED
        BY <1>3, <3>1, <3>2, <3>3
    <2>8. on_stack \subseteq on_stack'
      <3>1. \A j \in 1..n : j \in 1..(n + 1) /\ more[j].name = rest[j].name
        BY <1>3, <2>2
      <3>2. on_stack' = {more[j].name : j \in 1..(n + 1)}
        BY <2>2, <2>3 DEF on_stack
      <3> QED
        BY <1>12, <3>1, <3>2
    <2>9. VisitsDescend'
      BY <1>1, <1>2, <2>2, <2>3, <2>5, <2>6 DEF VisitsDescend
    <2>10. DepsHandled'
      BY <1>1, <1>2, <2>2, <2>3, <2>7 DEF DepsHandled
    <2>11. RootsVisited'
      BY <1>1, <1>2, <2>8 DEF HeaderInv, RootsVisited
    <2> QED
      BY <1>9, <2>4, <2>9, <2>10, <2>11 DEF HeaderInv
  <1> QED
    BY <1>13, <1>14

LEMMA VisitEndsStep ==
  ASSUME HeaderInv, TypeOK, ByValueFinishedBefore, VisitEnds, UNCHANGED vars
  PROVE  HeaderInv'
  <1>1. calls # <<>> /\ kind' = kind /\ root' = root /\ Visiting.deps = {}
    BY DEF VisitEnds
  <1>2. Types' = Types /\ rank' = rank /\ (Loaded => Loaded') /\ \A x : deps_of(x)' = deps_of(x)
    BY <1>1, GraphStays
  <1>3. PICK n \in Nat : n = Len(calls) /\ n >= 1
    BY <1>1, DepsBelow
  <1>4. calls \in Seq(Visit) /\ ordered \in Seq(Names)
    BY DEF HeaderInv, HeaderTypeOK
  <1>5. PICK x \in Names : x = Visiting.name /\ x = calls[n].name
    BY <1>3, <1>1, DepsBelow DEF Visiting, Visit
  <1>6. PICK outer \in Seq(Visit) :
          /\ calls' = outer /\ Len(outer) = n - 1 /\ \A j \in 1..(n - 1) : outer[j] = calls[j]
    BY <1>1, <1>3, <1>4, DropLast DEF VisitEnds
  <1>7. PICK m \in Nat : m = Len(ordered)
    BY <1>4
  <1>8. PICK longer \in Seq(Names) :
          /\ ordered' = longer /\ Len(longer) = m + 1 /\ longer[m + 1] = x
          /\ \A j \in 1..m : longer[j] = ordered[j]
    <2>1. ordered' = Append(ordered, x)
      BY <1>5 DEF VisitEnds, Define
    <2> QED
      <3>1. /\ Append(ordered, x) \in Seq(Names) /\ Len(Append(ordered, x)) = Len(ordered) + 1
            /\ \A j \in 1..Len(ordered) : Append(ordered, x)[j] = ordered[j]
            /\ Append(ordered, x)[Len(ordered) + 1] = x
        BY <1>4, AppendProperties
      <3>2. PICK longer \in Seq(Names) :
              /\ longer = Append(ordered, x) /\ Len(longer) = Len(ordered) + 1
              /\ longer[Len(ordered) + 1] = x /\ \A j \in 1..Len(ordered) : longer[j] = ordered[j]
        BY <3>1, Zenon
      <3> QED
        BY <1>7, <2>1, <3>2
  <1>9. visited' = visited \cup {x}
    <2>1. \A j \in 1..(m + 1) : j = m + 1 \/ j \in 1..m
      BY <1>7
    <2>2. \A j \in 1..m : j \in 1..(m + 1)
      BY <1>7
    <2> QED
      BY <1>7, <1>8, <2>1, <2>2 DEF visited
  <1>10. x \in Types \ visited /\ deps_of(x) \subseteq visited
    BY <1>1, <1>3, <1>5 DEF HeaderInv, VisitsDescend, DepsHandled, Visiting
  <1>11. \A j \in 1..(n - 1) : j \in 1..n /\ outer[j].name = calls[j].name /\ calls[j].name # x
    <2>1. ASSUME NEW j \in 1..(n - 1) PROVE calls[j].name # x
      <3>1. j \in 1..n /\ n \in 1..n /\ j < n
        BY <1>3
      <3>2. rank[x] < rank[calls[j].name] /\ rank[x] \in Nat
        BY <1>3, <1>5, <3>1 DEF HeaderInv, VisitsDescend, TypeOK
      <3> QED
        BY <3>2
    <2> QED
      BY <1>3, <1>6, <2>1
  <1>12. VisitsDescend'
    BY <1>2, <1>3, <1>6, <1>9, <1>11 DEF HeaderInv, VisitsDescend
  <1>13. DepsHandled'
    <2>1. ASSUME NEW j \in 1..(n - 1)
          PROVE  deps_of(outer[j].name) \ outer[j].deps
                   \subseteq visited \cup {x} \cup (IF j < n - 1 THEN {outer[j + 1].name} ELSE {})
      <3>1. j \in 1..n /\ j < n /\ j + 1 \in 1..n /\ outer[j] = calls[j]
        BY <1>3, <1>6
      <3>2. deps_of(calls[j].name) \ calls[j].deps \subseteq visited \cup {calls[j + 1].name}
        BY <1>3, <3>1 DEF HeaderInv, DepsHandled
      <3>3. CASE j = n - 1
        BY <1>5, <3>1, <3>2, <3>3
      <3>4. CASE j < n - 1
        <4>1. j + 1 \in 1..(n - 1) /\ outer[j + 1] = calls[j + 1]
          BY <1>3, <1>6, <3>4
        <4> QED
          BY <3>1, <3>2, <3>4, <4>1
      <3> QED
        BY <1>3, <3>3, <3>4
    <2> QED
      BY <1>2, <1>6, <1>9, <2>1 DEF DepsHandled
  <1>14. OrderedSoFar'
    <2>1. ASSUME NEW j \in 1..(m + 1), NEW k \in 1..(m + 1), longer[j] = longer[k] PROVE j = k
      <3>1. \A l \in 1..m : longer[l] \in visited /\ longer[l] # x
        BY <1>7, <1>8, <1>10 DEF visited
      <3>2. (j = m + 1 \/ j \in 1..m) /\ (k = m + 1 \/ k \in 1..m)
        BY <1>7
      <3>3. CASE j \in 1..m /\ k \in 1..m
        BY <1>7, <1>8, <2>1, <3>3 DEF HeaderInv, OrderedSoFar
      <3> QED
        BY <1>8, <2>1, <3>1, <3>2, <3>3
    <2>2. ASSUME NEW k \in 1..(m + 1)
          PROVE  \A d \in deps_of(longer[k]) : \E j \in 1..(k - 1) : longer[j] = d
      <3>1. CASE k = m + 1
        <4>1. k - 1 = m
          BY <1>7, <3>1
        <4>2. \A d \in visited : \E j \in 1..m : longer[j] = d
          BY <1>7, <1>8 DEF visited
        <4> QED
          BY <1>8, <1>10, <3>1, <4>1, <4>2
      <3>2. CASE k # m + 1
        <4>1. k \in 1..m /\ \A j \in 1..(k - 1) : j \in 1..m /\ longer[j] = ordered[j]
          BY <1>7, <1>8, <3>2
        <4>2. \A d \in deps_of(ordered[k]) : \E j \in 1..(k - 1) : ordered[j] = d
          BY <1>7, <4>1 DEF HeaderInv, OrderedSoFar
        <4> QED
          BY <1>8, <4>1, <4>2
      <3> QED
        BY <3>1, <3>2
    <2>3. visited' \subseteq Types
      BY <1>9, <1>10 DEF HeaderInv, OrderedSoFar
    <2> QED
      BY <1>2, <1>8, <2>1, <2>2, <2>3 DEF OrderedSoFar
  <1>15. RootsVisited'
    <2>1. on_stack \subseteq on_stack' \cup {x}
      <3>1. ASSUME NEW j \in 1..n PROVE calls[j].name \in on_stack' \cup {x}
        <4>1. CASE j = n
          BY <1>5, <4>1
        <4>2. CASE j # n
          <5>1. j \in 1..(n - 1)
            BY <1>3, <4>2
          <5> QED
            BY <1>6, <5>1 DEF on_stack
        <4> QED
          BY <4>1, <4>2
      <3> QED
        BY <1>3, <3>1 DEF on_stack
    <2> QED
      BY <1>1, <1>2, <1>9, <2>1 DEF HeaderInv, RootsVisited
  <1>16. HeaderTypeOK'
    BY <1>1, <1>6, <1>8 DEF HeaderInv, HeaderTypeOK
  <1>17. Phases'
    <2>1. root # 0
      BY <1>1 DEF HeaderInv, Phases
    <2> QED
      BY <1>1, <1>2, <2>1 DEF HeaderInv, Phases
  <1> QED
    BY <1>12, <1>13, <1>14, <1>15, <1>16, <1>17 DEF HeaderInv
-----------------------------------------------------------------------------
LEMMA HeaderStep ==
  ASSUME HeaderInv, TypeOK, ByValueFinishedBefore, [HeaderNext]_<<vars, hvars>>
  PROVE  HeaderInv'
  BY NothingMoves, LoadingStep, RenderStep, VisitRootStep, VisitDepStep, VisitEndsStep DEF HeaderNext

\* A rendering is a loading, as far as the loader's variables go.
THEOREM HeaderLoads == HeaderSpec => Spec
  <1>1. HeaderInit => Init
    BY DEF HeaderInit
  <1>2. [HeaderNext]_<<vars, hvars>> => [Next]_vars
    BY DEF HeaderNext
  <1> QED
    BY <1>1, <1>2, PTL DEF HeaderSpec, Spec

THEOREM HeaderInvariant == HeaderSpec => []HeaderInv
  <1>1. HeaderInv /\ TypeOK /\ ByValueFinishedBefore /\ [HeaderNext]_<<vars, hvars>> => HeaderInv'
    BY HeaderStep
  <1> QED
    BY <1>1, HeaderStart, HeaderLoads, LoadTyped, ValuesBeforeHolders, PTL DEF HeaderSpec

\* For every file the search finds no cycle: line "cycle: break it" is dead code.
THEOREM NoCycle == HeaderSpec => []NoCycleToBreak
  <1>1. HeaderInv /\ TypeOK /\ ByValueFinishedBefore => NoCycleToBreak
    <2> SUFFICES ASSUME HeaderInv, TypeOK, ByValueFinishedBefore, calls # <<>>,
                        NEW d \in Visiting.deps, d \in on_stack
                 PROVE  FALSE
      BY DEF NoCycleToBreak
    <2>1. PICK j \in 1..Len(calls) : d = calls[j].name
      BY DEF on_stack
    <2>2. rank[d] < rank[d] /\ d \in Names
      BY <2>1, DepsBelow DEF Types
    <2> QED
      BY <2>2 DEF TypeOK
  <1> QED
    BY <1>1, HeaderInvariant, HeaderLoads, LoadTyped, ValuesBeforeHolders, PTL

\* For every file: each type is defined once, after all that it embeds.
THEOREM HeaderOrdered == HeaderSpec => []DefinedBeforeUse
  <1>1. HeaderInv => DefinedBeforeUse
    <2> SUFFICES ASSUME HeaderInv PROVE DefinedBeforeUse
      OBVIOUS
    <2>1. \A y : Embeds(y) = deps_of(y)
      BY DEF Embeds, deps_of, ByValue, Types
    <2>2. ASSUME Rendered PROVE visited = Types
      <3>1. on_stack = {}
        BY <2>2 DEF Rendered, on_stack
      <3>2. ASSUME NEW y \in Types PROVE y \in visited
        <4>1. PICK k \in 1..Len(Order) : Order[k] = y
          BY HeaderAssumption DEF Types
        <4>2. k < root
          BY <2>2, <4>1, HeaderAssumption DEF Rendered, HeaderInv, HeaderTypeOK
        <4> QED
          BY <3>1, <4>1, <4>2 DEF HeaderInv, RootsVisited
      <3> QED
        BY <3>2 DEF HeaderInv, OrderedSoFar
    <2> QED
      BY <2>1, <2>2 DEF DefinedBeforeUse, HeaderInv, OrderedSoFar
  <1> QED
    BY <1>1, HeaderInvariant, PTL
=============================================================================
