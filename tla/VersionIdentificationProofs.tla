--------------------- MODULE VersionIdentificationProofs ---------------------
(***************************************************************************)
(* Finding the version, for any strings, tables, databases, files and      *)
(* counts: what decides among the strings, what is picked by overlap, what *)
(* the search over signature files returns.  Sums and numbers are          *)
(* recursive; what they come to is shown by induction.                     *)
(***************************************************************************)
EXTENDS VersionIdentification, FiniteSetTheorems, TLAPS

-----------------------------------------------------------------------------
(* Induction in first-order form.  A theorem that takes a predicate cannot *)
(* be cited here; a set can stand for the predicate.                       *)

\* Every set of naturals that has an element has a least one.
LEMMA LeastNumber ==
  ASSUME NEW T, T \subseteq Nat, T # {}
  PROVE  \E m \in T : \A k \in T : m <= k
  <1> DEFINE R == OpToRel(<, Nat)
  <1>1. IsWellFoundedOn(R, Nat)
    BY NatLessThanWellFounded
  <1>2. \A x, y \in Nat : <<x, y>> \in R <=> x < y
    BY DEF OpToRel
  <1> HIDE DEF R
  <1>3. PICK m \in T : \A k \in T : ~ (<<k, m>> \in R)
    BY <1>1, WFMin
  <1>4. \A k \in T : k \in Nat /\ m \in Nat /\ ~ (k < m)
    BY <1>2, <1>3
  <1> QED
    BY <1>4

\* A bounded one has a greatest.
LEMMA GreatestNumber ==
  ASSUME NEW T, NEW b \in Nat, T \subseteq 0..b, T # {}
  PROVE  \E m \in T : \A k \in T : k <= m
  <1> DEFINE D == {b - k : k \in T}
  <1>0. \A k \in T : k \in Nat /\ b - k \in Nat
    OBVIOUS
  <1>1. D \subseteq Nat /\ D # {}
    BY <1>0
  <1>2. PICK d \in D : \A e \in D : d <= e
    <2> HIDE DEF D
    <2> QED
      BY <1>1, LeastNumber
  <1>3. PICK m \in T : d = b - m
    BY <1>2
  <1>4. \A k \in T : b - m <= b - k /\ k \in Nat /\ m \in Nat
    <2> TAKE k \in T
    <2>1. b - k \in D
      OBVIOUS
    <2> HIDE DEF D
    <2> QED
      BY <1>0, <1>2, <1>3, <2>1
  <1> QED
    BY <1>4

\* Induction from b on.
LEMMA SetInduction ==
  ASSUME NEW b \in Nat, NEW S, b \in S, \A k \in Nat : k >= b /\ k \in S => k + 1 \in S
  PROVE  \A k \in Nat : k >= b => k \in S
  <1> SUFFICES ASSUME NEW j \in Nat, j >= b, j \notin S PROVE FALSE
    OBVIOUS
  <1> DEFINE T == {k \in Nat : k >= b /\ k \notin S}
  <1>1. PICK m \in T : \A k \in T : m <= k
    <2>1. j \in T /\ T \subseteq Nat
      OBVIOUS
    <2> HIDE DEF T
    <2> QED
      BY <2>1, LeastNumber
  <1>2. m \in Nat /\ m > b /\ m - 1 \in Nat /\ m - 1 >= b
    BY <1>1
  <1>3. m - 1 \in S
    BY <1>1, <1>2
  <1>4. (m - 1) + 1 \in S
    BY <1>2, <1>3
  <1> QED
    BY <1>1, <1>2, <1>4

\* A finite set with a subset of some kind has a smallest one of that kind.
LEMMA MinimalSubset ==
  ASSUME NEW S, IsFiniteSet(S), NEW F \in SUBSET SUBSET S, F # {}
  PROVE  \E T \in F : \A U \in F : U \subseteq T => U = T
  <1> DEFINE R == StrictSubsetOrdering(S)
  <1>1. IsWellFoundedOn(R, FiniteSubsetsOf(S))
    BY FS_StrictSubsetOrderingWellFounded
  <1>2. F \subseteq FiniteSubsetsOf(S)
    BY FS_Subset DEF FiniteSubsetsOf
  <1>3. \A x, y \in SUBSET S : <<x, y>> \in R <=> x \subseteq y /\ x # y
    BY DEF StrictSubsetOrdering
  <1> HIDE DEF R
  <1>4. PICK T \in F : \A U \in F : ~ (<<U, T>> \in R)
    BY <1>1, <1>2, WFMin
  <1> QED
    BY <1>3, <1>4

\* A sequence of values, each made from the one before.
Chain(g, X, x, b, next) ==
  g \in [0..b -> X] /\ g[0] = x /\ \A k \in 1..b : g[k] = next[<<k, g[k - 1]>>]

Successors(X, b) == [(1..b) \X X -> X]

LEMMA Iterates ==
  ASSUME NEW X, NEW x \in X, NEW b \in Nat, NEW next \in Successors(X, b)
  PROVE  \E g : Chain(g, X, x, b, next)
  <1> USE DEF Successors, Chain
  <1> DEFINE Good(m) == \E g \in [0..m -> X] : g[0] = x /\ \A k \in 1..m : g[k] = next[<<k, g[k - 1]>>]
             S == {m \in Nat : m <= b => Good(m)}
  <1>1. Good(0)
    <2> DEFINE g == [k \in 0..0 |-> x]
    <2>1. g \in [0..0 -> X] /\ g[0] = x /\ \A k \in 1..0 : g[k] = next[<<k, g[k - 1]>>]
      OBVIOUS
    <2> HIDE DEF g
    <2> QED
      BY <2>1
  <1>2. ASSUME NEW m \in Nat, Good(m), m + 1 <= b PROVE Good(m + 1)
    <2>1. PICK g \in [0..m -> X] : g[0] = x /\ \A k \in 1..m : g[k] = next[<<k, g[k - 1]>>]
      BY <1>2
    <2> DEFINE h == [k \in 0..(m + 1) |-> IF k <= m THEN g[k] ELSE next[<<m + 1, g[m]>>]]
    <2>2. h \in [0..(m + 1) -> X]
      <3>1. m + 1 \in 1..b /\ g[m] \in X
        BY <1>2
      <3>2. next[<<m + 1, g[m]>>] \in X
        BY <3>1
      <3> QED
        BY <3>2
    <2>3. h[0] = x /\ \A k \in 1..(m + 1) : h[k] = next[<<k, h[k - 1]>>]
      <3>1. ASSUME NEW k \in 1..(m + 1) PROVE h[k] = next[<<k, h[k - 1]>>]
        <4>1. CASE k <= m
          <5>1. h[k] = g[k] /\ h[k - 1] = g[k - 1] /\ k \in 1..m
            BY <4>1
          <5> QED
            BY <2>1, <5>1
        <4>2. CASE k = m + 1
          <5>1. h[k] = next[<<m + 1, g[m]>>] /\ h[k - 1] = g[m]
            BY <4>2
          <5> QED
            BY <4>2, <5>1
        <4> QED
          BY <4>1, <4>2
      <3> QED
        <4>1. h[0] = g[0]
          OBVIOUS
        <4> HIDE DEF h
        <4> QED
          BY <2>1, <3>1, <4>1
    <2> HIDE DEF h
    <2> QED
      BY <2>2, <2>3
  <1> HIDE DEF Good
  <1>3. 0 \in S /\ \A m \in Nat : m >= 0 /\ m \in S => m + 1 \in S
    BY <1>1, <1>2
  <1> HIDE DEF S
  <1>4. \A m \in Nat : m >= 0 => m \in S
    BY <1>3, SetInduction
  <1>5. Good(b)
    BY <1>4 DEF S
  <1> QED
    BY <1>5 DEF Good

\* What is summed, one by one: element x counts f[x] times.
Occurrences(f, s, b) == {p \in s \X (1..b) : p[2] <= f[p[1]]}

SumStep(f, S, g) ==
  g = [s \in SUBSET S |-> IF s = {} THEN 0 ELSE LET x == CHOOSE x \in s : TRUE IN f[x] + g[s \ {x}]]

\* What a fold of the community modules that adds f[x] comes to: unfolding
\* MapThenSumSet and MapThenFoldSet shows it.
SumOf(f, S) == (CHOOSE g : SumStep(f, S, g))[S]

LEMMA OccurrencesFinite ==
  ASSUME NEW S, IsFiniteSet(S), NEW b \in Nat, NEW f, NEW s \in SUBSET S
  PROVE  IsFiniteSet(Occurrences(f, s, b)) /\ Cardinality(Occurrences(f, s, b)) \in Nat
  <1>1. IsFiniteSet(s) /\ IsFiniteSet(1..b)
    BY FS_Subset, FS_Interval
  <1>0. IsFiniteSet(s \X (1..b))
    BY <1>1, FS_Product
  <1>2. Occurrences(f, s, b) \subseteq s \X (1..b)
    BY DEF Occurrences
  <1> QED
    BY <1>0, <1>2, FS_Subset, FS_CardinalityType

LEMMA OccurrencesOf ==
  ASSUME NEW S, IsFiniteSet(S), NEW b \in Nat, NEW f, \A x \in S : f[x] \in 0..b,
         NEW s \in SUBSET S, NEW x \in s
  PROVE  Cardinality(Occurrences(f, s, b)) = f[x] + Cardinality(Occurrences(f, s \ {x}, b))
  <1> DEFINE A == Occurrences(f, s \ {x}, b)
             B == {x} \X (1..f[x])
  <1>1. f[x] \in 0..b
    OBVIOUS
  <1>2. Occurrences(f, s, b) = A \cup B
    BY <1>1 DEF Occurrences
  <1>3. A \cap B = {}
    BY DEF Occurrences
  <1>4. IsFiniteSet(A) /\ Cardinality(A) \in Nat
    BY OccurrencesFinite
  <1>5. IsFiniteSet(B) /\ Cardinality(B) = f[x]
    <2>1. IsFiniteSet({x}) /\ Cardinality({x}) = 1
      BY FS_Singleton
    <2>2. IsFiniteSet(1..f[x]) /\ Cardinality(1..f[x]) = f[x]
      <3> DEFINE m == f[x]
      <3>1. m \in Nat
        BY <1>1
      <3> HIDE DEF m
      <3>2. IsFiniteSet(1..m) /\ Cardinality(1..m) = IF 1 > m THEN 0 ELSE m - 1 + 1
        <4>1. 1 \in Int /\ m \in Int
          BY <3>1
        <4> QED
          BY <4>1, FS_Interval, Zenon
      <3>3. (IF 1 > m THEN 0 ELSE m - 1 + 1) = m
        BY <3>1
      <3> QED
        BY <3>2, <3>3 DEF m
    <2>3. IsFiniteSet(B) /\ Cardinality(B) = Cardinality({x}) * Cardinality(1..f[x])
      BY <2>1, <2>2, FS_Product
    <2> QED
      BY <1>1, <2>1, <2>2, <2>3
  <1> HIDE DEF A, B
  <1>6. Cardinality(A \cup B) = Cardinality(A) + Cardinality(B) - Cardinality({})
    BY <1>3, <1>4, <1>5, FS_Union
  <1>7. Cardinality({}) = 0
    BY FS_EmptySet
  <1> QED
    BY <1>1, <1>2, <1>4, <1>5, <1>6, <1>7 DEF A

\* Such a fold adds up as many as there are occurrences.
LEMMA SumCounts ==
  ASSUME NEW S, IsFiniteSet(S), NEW b \in Nat, NEW f, \A x \in S : f[x] \in 0..b
  PROVE  SumOf(f, S) = Cardinality(Occurrences(f, S, b))
  <1> DEFINE size == [s \in SUBSET S |-> Cardinality(Occurrences(f, s, b))]
             sum == CHOOSE g : SumStep(f, S, g)
  <1>1. SumOf(f, S) = sum[S]
    BY DEF SumOf
  <1>2. Occurrences(f, {}, b) = {} /\ Cardinality({}) = 0
    BY FS_EmptySet DEF Occurrences
  <1>3. SumStep(f, S, size)
    <2>1. ASSUME NEW s \in SUBSET S, s # {}
          PROVE  LET x == CHOOSE x \in s : TRUE IN size[s] = f[x] + size[s \ {x}]
      <3> DEFINE x == CHOOSE x \in s : TRUE
      <3>1. x \in s
        BY <2>1
      <3> HIDE DEF x
      <3>2. size[s] = f[x] + size[s \ {x}]
        BY <3>1, OccurrencesOf
      <3> QED
        BY <3>2 DEF x
    <2>2. size[{}] = 0
      BY <1>2
    <2> QED
      BY <2>1, <2>2 DEF SumStep
  <1>4. SumStep(f, S, sum)
    BY <1>3
  <1> HIDE DEF sum
  <1> DEFINE Wrong == {s \in SUBSET S : sum[s] # size[s]}
  <1>5. ASSUME Wrong # {} PROVE FALSE
    <2>1. PICK s \in Wrong : \A u \in Wrong : u \subseteq s => u = s
      <3>1. Wrong \in SUBSET SUBSET S
        OBVIOUS
      <3> HIDE DEF Wrong
      <3> QED
        BY <1>5, <3>1, MinimalSubset
    <2>2. s # {}
      BY <1>2, <1>4, <2>1 DEF SumStep
    <2> DEFINE x == CHOOSE x \in s : TRUE
    <2>3. x \in s
      BY <2>2
    <2>4. sum[s] = f[x] + sum[s \ {x}]
      BY <1>4, <2>1, <2>2 DEF SumStep
    <2>5. size[s] = f[x] + size[s \ {x}]
      BY <1>3, <2>1, <2>2 DEF SumStep
    <2>6. s \ {x} \notin Wrong
      BY <2>1, <2>3
    <2> QED
      BY <2>1, <2>4, <2>5, <2>6
  <1> QED
    BY <1>1, <1>5

-----------------------------------------------------------------------------
(* The strings of the binary.                                              *)

ChoiceTypeOK ==
  /\ strings \in Seq(String) /\ table \in Seq(Line)
  /\ i \in 1..(Len(strings) + 1) /\ line \in 1..(Len(table) + 1)
  /\ scan \in {"commit", "table", "rustc", "dash", "known", "overlap", "picked"}

FirstCommit(k) ==
  k \in 1..Len(strings) /\ strings[k].commit # None /\ \A j \in 1..(k - 1) : strings[j].commit = None

\* The lines of the table that say something about the first commit.
LinesFor(k) == {l \in 1..Len(table) : table[l].release # None /\ table[l].hash = strings[k].commit}

\* What has been passed over, and that nothing in it decides.
PassedOver ==
  /\ scan = "commit" => \A j \in 1..(i - 1) : strings[j].commit = None
  /\ scan = "table" => FirstCommit(i) /\ \A l \in LinesFor(i) : l >= line
  /\ scan \in {"rustc", "dash"} => \A k \in 1..Len(strings) : FirstCommit(k) => LinesFor(k) = {}
  /\ scan = "rustc" => \A j \in 1..(i - 1) : strings[j].rustc = None
  /\ scan = "dash" => /\ \A j \in 1..Len(strings) : strings[j].rustc = None
                      /\ \A j \in 1..(i - 1) : strings[j].dash = None
  /\ scan \in {"commit", "table"} => line = 1 \/ scan = "table"
  /\ scan \notin {"known"} => version = None

LEMMA MinIs ==
  ASSUME NEW S, S \subseteq Nat, NEW m \in S, \A k \in S : m <= k
  PROVE  Min(S) = m
  <1> DEFINE x == Min(S)
  <1>1. x \in S /\ \A k \in S : x <= k
    BY DEF Min
  <1> HIDE DEF x
  <1>2. x \in Nat /\ m \in Nat /\ x <= m /\ m <= x
    BY <1>1
  <1>3. x = m
    BY <1>2
  <1> QED
    BY <1>3 DEF x

\* The first commit is the least index of one.
LEMMA FirstCommitIs ==
  ASSUME NEW k, FirstCommit(k), strings \in Seq(String)
  PROVE  LET commits == {j \in 1..Len(strings) : strings[j].commit # None}
         IN  commits # {} /\ Min(commits) = k
  <1> DEFINE commits == {j \in 1..Len(strings) : strings[j].commit # None}
  <1>1. commits \subseteq Nat /\ k \in commits /\ \A j \in commits : k <= j
    BY DEF FirstCommit
  <1> HIDE DEF commits
  <1>2. Min(commits) = k
    BY <1>1, MinIs
  <1> QED
    BY <1>1, <1>2 DEF commits

LEMMA SomeFirstCommit ==
  ASSUME strings \in Seq(String), NEW j \in 1..Len(strings), strings[j].commit # None
  PROVE  \E k \in 1..Len(strings) : FirstCommit(k)
  <1> DEFINE T == {l \in 1..Len(strings) : strings[l].commit # None}
  <1>1. T \subseteq Nat /\ T # {}
    OBVIOUS
  <1> HIDE DEF T
  <1>2. PICK m \in T : \A l \in T : m <= l
    BY <1>1, LeastNumber
  <1> QED
    BY <1>2 DEF FirstCommit, T

LEMMA ChoiceInits == ChoiceInit => ChoiceTypeOK /\ PassedOver
  <1> SUFFICES ASSUME NEW strs \in SeqUpTo(String, MaxStrings), NEW lines \in SeqUpTo(Line, MaxLines),
                      ChoiceStart(strs, lines)
               PROVE  ChoiceTypeOK /\ PassedOver
    BY DEF ChoiceInit
  <1>1. ASSUME NEW S, NEW m \in Nat, NEW s \in SeqUpTo(S, m) PROVE s \in Seq(S)
    BY DEF SeqUpTo
  <1>2. strings \in Seq(String) /\ table \in Seq(Line)
    BY <1>1, ChoiceAssumption DEF ChoiceStart
  <1> QED
    BY <1>2 DEF ChoiceStart, ChoiceTypeOK, PassedOver

\* How the version was come by: what decides, and that nothing before it does.
ByCommit == \E k \in 1..Len(strings) :
              FirstCommit(k) /\ LinesFor(k) # {} /\ version = table[Min(LinesFor(k))].release
NotByCommit == \A k \in 1..Len(strings) : FirstCommit(k) => LinesFor(k) = {}
ByRustc == \E k \in 1..Len(strings) : /\ strings[k].rustc # None /\ version = strings[k].rustc
                                      /\ \A j \in 1..(k - 1) : strings[j].rustc = None
NotByRustc == \A k \in 1..Len(strings) : strings[k].rustc = None
ByDash == \E k \in 1..Len(strings) : /\ strings[k].dash # None /\ version = strings[k].dash
                                     /\ \A j \in 1..(k - 1) : strings[j].dash = None
NotByDash == (\A k \in 1..Len(strings) : strings[k].dash = None) /\ version = None

Decided ==
  \/ ByCommit
  \/ /\ NotByCommit
     /\ \/ ByRustc
        \/ /\ NotByRustc
           /\ ByDash \/ NotByDash

LEMMA DecidedInOrder ==
  ASSUME ChoiceTypeOK, scan = "known", Decided
  PROVE  StringsDecide
  <1> DEFINE commits == {k \in 1..Len(strings) : strings[k].commit # None}
             found == {l \in 1..Len(table) :
                         /\ table[l].release # None
                         /\ commits # {} /\ table[l].hash = strings[Min(commits)].commit}
             rustc == {k \in 1..Len(strings) : strings[k].rustc # None}
             dash == {k \in 1..Len(strings) : strings[k].dash # None}
  <1>1. ASSUME NEW k, FirstCommit(k) PROVE found = LinesFor(k)
    <2>1. commits # {} /\ Min(commits) = k
      BY <1>1, FirstCommitIs DEF ChoiceTypeOK
    <2> HIDE DEF commits
    <2> QED
      BY <2>1 DEF LinesFor
  <1>2. ASSUME \A k \in 1..Len(strings) : FirstCommit(k) => LinesFor(k) = {} PROVE found = {}
    <2>1. CASE commits = {}
      BY <2>1
    <2>2. CASE commits # {}
      <3>1. PICK k \in 1..Len(strings) : FirstCommit(k)
        BY <2>2, SomeFirstCommit DEF ChoiceTypeOK
      <3>2. found = LinesFor(k)
        BY <1>1, <3>1
      <3> HIDE DEF found
      <3> QED
        BY <1>2, <3>1, <3>2
    <2> HIDE DEF found, commits
    <2> QED
      BY <2>1, <2>2
  <1>3. ASSUME NEW k \in rustc, \A j \in 1..(k - 1) : strings[j].rustc = None PROVE rustc # {} /\ Min(rustc) = k
    <2>1. rustc \subseteq Nat /\ \A j \in rustc : k <= j
      BY <1>3
    <2> HIDE DEF rustc
    <2> QED
      BY <1>3, <2>1, MinIs
  <1>4. ASSUME NEW k \in dash, \A j \in 1..(k - 1) : strings[j].dash = None PROVE dash # {} /\ Min(dash) = k
    <2>1. dash \subseteq Nat /\ \A j \in dash : k <= j
      BY <1>4
    <2> HIDE DEF dash
    <2> QED
      BY <1>4, <2>1, MinIs
  <1>5. SUFFICES version = IF found # {} THEN table[Min(found)].release
                           ELSE IF rustc # {} THEN strings[Min(rustc)].rustc
                           ELSE IF dash # {} THEN strings[Min(dash)].dash
                           ELSE None
    BY DEF StringsDecide
  <1>6. (\A k \in 1..Len(strings) : strings[k].rustc = None) => rustc = {}
    OBVIOUS
  <1>7. (\A k \in 1..Len(strings) : strings[k].dash = None) => dash = {}
    OBVIOUS
  <1>8. \A k \in 1..Len(strings) : (strings[k].rustc # None => k \in rustc) /\ (strings[k].dash # None => k \in dash)
    OBVIOUS
  <1> HIDE DEF found, rustc, dash
  <1> QED
    BY <1>1, <1>2, <1>3, <1>4, <1>6, <1>7, <1>8
       DEF Decided, ByCommit, NotByCommit, ByRustc, NotByRustc, ByDash, NotByDash

LEMMA ChoiceSteps ==
  ASSUME ChoiceTypeOK, PassedOver, scan = "known" => Decided, ChoiceNext
  PROVE  ChoiceTypeOK' /\ PassedOver' /\ (scan' = "known" => Decided')
  <1>1. CASE ScanCommit
    <2>1. UNCHANGED <<strings, table, line, version>> /\ scan = "commit" /\ version = None /\ line = 1
      BY <1>1 DEF ScanCommit, text, PassedOver
    <2>2. CASE i > Len(strings)
      BY <1>1, <2>1, <2>2 DEF ScanCommit, Goto, ChoiceTypeOK, PassedOver, FirstCommit
    <2>3. CASE i <= Len(strings) /\ strings[i].commit = None
      BY <1>1, <2>1, <2>3 DEF ScanCommit, ChoiceTypeOK, PassedOver
    <2>4. CASE i <= Len(strings) /\ strings[i].commit # None
      <3>1. scan' = "table" /\ i' = i
        BY <1>1, <2>1, <2>4 DEF ScanCommit, ChoiceTypeOK
      <3>2. FirstCommit(i)'
        BY <2>1, <2>4, <3>1 DEF FirstCommit, PassedOver, ChoiceTypeOK
      <3>3. \A l \in LinesFor(i)' : l >= line'
        BY <2>1, <3>1 DEF LinesFor
      <3> QED
        BY <2>1, <3>1, <3>2, <3>3 DEF ChoiceTypeOK, PassedOver
    <2> QED
      BY <2>2, <2>3, <2>4 DEF ChoiceTypeOK
  <1>2. CASE LookUp
    <2>1. UNCHANGED <<strings, table>> /\ scan = "table" /\ version = None /\ FirstCommit(i)
          /\ \A l \in LinesFor(i) : l >= line
      BY <1>2 DEF LookUp, text, PassedOver
    <2>2. CASE line > Len(table)
      <3>1. LinesFor(i) = {}
        BY <2>1, <2>2 DEF LinesFor, ChoiceTypeOK
      <3>2. \A k \in 1..Len(strings) : FirstCommit(k) => k = i
        BY <2>1 DEF FirstCommit, ChoiceTypeOK
      <3>3. \A k \in 1..Len(strings) : FirstCommit(k)' => LinesFor(k)' = {}
        BY <2>1, <3>1, <3>2 DEF FirstCommit, LinesFor
      <3>4. scan' = "rustc" /\ i' = 1 /\ UNCHANGED <<line, version>>
        BY <1>2, <2>2 DEF LookUp, FallThrough, Goto
      <3> QED
        BY <2>1, <3>3, <3>4 DEF ChoiceTypeOK, PassedOver
    <2>3. CASE line <= Len(table) /\ Matches(line)
      <3>1. version' = table[line].release /\ scan' = "known" /\ UNCHANGED <<i, line>>
        BY <1>2, <2>3 DEF LookUp, ChoiceTypeOK
      <3>2. line \in LinesFor(i) /\ LinesFor(i) \subseteq Nat
        BY <2>3 DEF Matches, LinesFor, ChoiceTypeOK
      <3>3. Min(LinesFor(i)) = line
        BY <2>1, <3>2, MinIs
      <3>4. ChoiceTypeOK' /\ PassedOver'
        BY <2>1, <3>1 DEF ChoiceTypeOK, PassedOver
      <3>5. ByCommit'
        <4>1. FirstCommit(i)' /\ LinesFor(i)' = LinesFor(i) /\ i' \in 1..Len(strings')
          BY <2>1, <3>1 DEF FirstCommit, LinesFor
        <4>2. version' = table'[Min(LinesFor(i)')].release
          BY <2>1, <3>1, <3>3, <4>1
        <4>3. i' = i
          BY <3>1
        <4> QED
          BY <3>2, <4>1, <4>2, <4>3 DEF ByCommit
      <3> QED
        BY <3>4, <3>5 DEF Decided
    <2>4. CASE line <= Len(table) /\ ~Matches(line)
      <3>1. line' = line + 1 /\ UNCHANGED <<scan, i, version>>
        BY <1>2, <2>4 DEF LookUp, ChoiceTypeOK
      <3>2. LinesFor(i)' = LinesFor(i) /\ FirstCommit(i)'
        BY <2>1, <3>1 DEF LinesFor, FirstCommit
      <3>3. line \notin LinesFor(i) /\ LinesFor(i) \subseteq Nat /\ line \in Nat
        BY <2>4 DEF LinesFor, Matches, ChoiceTypeOK
      <3>4. \A l \in LinesFor(i) : l >= line + 1
        BY <2>1, <3>3
      <3> QED
        BY <2>1, <2>4, <3>1, <3>2, <3>4 DEF ChoiceTypeOK, PassedOver
    <2> QED
      BY <2>2, <2>3, <2>4 DEF ChoiceTypeOK
  <1>3. CASE ScanPattern
    <2>1. UNCHANGED <<strings, table, line>> /\ scan \in {"rustc", "dash"} /\ version = None /\ NotByCommit
      BY <1>3 DEF ScanPattern, text, PassedOver, NotByCommit
    <2>2. NotByCommit'
      BY <2>1 DEF NotByCommit, FirstCommit, LinesFor
    <2>3. CASE i > Len(strings)
      <3>1. i' = 1 /\ version' = version /\ scan' = IF scan = "rustc" THEN "dash" ELSE "known"
        BY <1>3, <2>3 DEF ScanPattern, Goto
      <3>2. CASE scan = "rustc"
        <4>1. \A j \in 1..Len(strings) : strings[j].rustc = None
          BY <2>3, <3>2 DEF PassedOver, ChoiceTypeOK
        <4> QED
          BY <2>1, <2>2, <3>1, <3>2, <4>1 DEF ChoiceTypeOK, PassedOver, NotByCommit
      <3>3. CASE scan = "dash"
        <4>1. NotByRustc' /\ NotByDash'
          BY <2>1, <2>3, <3>1, <3>3 DEF PassedOver, ChoiceTypeOK, NotByRustc, NotByDash
        <4> QED
          BY <2>1, <2>2, <3>1, <3>3, <4>1 DEF ChoiceTypeOK, PassedOver, Decided
      <3> QED
        BY <2>1, <3>2, <3>3
    <2>4. CASE i <= Len(strings) /\ Found(strings[i]) # None
      <3>1. version' = Found(strings[i]) /\ scan' = "known" /\ i' = i
        BY <1>3, <2>4 DEF ScanPattern, ChoiceTypeOK
      <3>2. ChoiceTypeOK' /\ PassedOver'
        BY <2>1, <3>1 DEF ChoiceTypeOK, PassedOver
      <3>3. CASE scan = "rustc"
        <4>1. ByRustc'
          BY <2>1, <2>4, <3>1, <3>3 DEF ByRustc, PassedOver, ChoiceTypeOK, Found
        <4> QED
          BY <2>2, <3>2, <4>1 DEF Decided
      <3>4. CASE scan = "dash"
        <4>1. NotByRustc' /\ ByDash'
          BY <2>1, <2>4, <3>1, <3>4 DEF NotByRustc, ByDash, PassedOver, ChoiceTypeOK, Found
        <4> QED
          BY <2>2, <3>2, <4>1 DEF Decided
      <3> QED
        BY <2>1, <3>3, <3>4
    <2>5. CASE i <= Len(strings) /\ Found(strings[i]) = None
      <3>1. i' = i + 1 /\ UNCHANGED <<scan, version>>
        BY <1>3, <2>5 DEF ScanPattern, ChoiceTypeOK
      <3> QED
        BY <2>1, <2>2, <2>5, <3>1 DEF ChoiceTypeOK, PassedOver, NotByCommit, Found
    <2> QED
      BY <2>3, <2>4, <2>5 DEF ChoiceTypeOK
  <1>4. CASE StartOverlap
    BY <1>4 DEF StartOverlap, ChoiceTypeOK, PassedOver
  <1>5. CASE TryCandidate
    BY <1>5 DEF TryCandidate, text, ChoiceTypeOK, PassedOver
  <1>6. CASE ReturnBest
    BY <1>6 DEF ReturnBest, text, ChoiceTypeOK, PassedOver
  <1> QED
    BY <1>1, <1>2, <1>3, <1>4, <1>5, <1>6 DEF ChoiceNext

-----------------------------------------------------------------------------
(* The candidates.                                                         *)

\* The overlap, with a sum that needs no operator as an argument.
Total(v) == SumOf(entries[v], recovered)

LEMMA OverlapIsTotal == \A v : Overlap(v) = Total(v)
  BY DEF Overlap, MapThenSumSet, MapThenFoldSet, Total, SumOf, SumStep

\* Before the pick nothing is compared; then best is the first of those that
\* overlap most, among the candidates tried.
BestOverlap ==
  /\ best \in 0..Candidates /\ c \in 1..(Candidates + 1) /\ best_overlap \in Nat
  /\ scan \notin {"overlap", "picked"} => c = 1 /\ best = NoVersion
  /\ best = NoVersion <=> best_overlap = 0
  /\ best < c /\ (recovered = {} => c = 1)
  /\ scan \in {"overlap", "picked"} =>
       /\ recovered \in SUBSET Names
       /\ entries \in [1..Candidates -> [Names -> 0..MaxEntries]]
       /\ best # NoVersion => best_overlap = Total(best)
       /\ \A v \in 1..(c - 1) : /\ Total(v) <= best_overlap
                                /\ v < best => Total(v) < best_overlap
  /\ scan = "picked" => recovered = {} \/ c = Candidates + 1

\* The overlap is the number of entries of the candidate that name something recovered.
LEMMA OverlapCounts ==
  ASSUME recovered \in SUBSET Names, entries \in [1..Candidates -> [Names -> 0..MaxEntries]],
         NEW v \in 1..Candidates
  PROVE  /\ Total(v) = Cardinality(Occurrences(entries[v], recovered, MaxEntries))
         /\ Total(v) \in Nat
         /\ Total(v) = 0 <=> Shared(v) = {}
  <1>1. IsFiniteSet(recovered) /\ MaxEntries \in Nat
    BY ChoiceAssumption, FS_Subset
  <1>2. \A x \in recovered : entries[v][x] \in 0..MaxEntries
    OBVIOUS
  <1>3. Total(v) = SumOf(entries[v], recovered)
    BY DEF Total
  <1>4. SumOf(entries[v], recovered) = Cardinality(Occurrences(entries[v], recovered, MaxEntries))
    BY <1>1, <1>2, SumCounts
  <1>5. IsFiniteSet(Occurrences(entries[v], recovered, MaxEntries))
    BY <1>1, OccurrencesFinite
  <1>6. Occurrences(entries[v], recovered, MaxEntries) = {} <=> Shared(v) = {}
    <2>1. ASSUME NEW x \in Shared(v) PROVE <<x, 1>> \in Occurrences(entries[v], recovered, MaxEntries)
      <3>1. x \in recovered /\ entries[v][x] \in 0..MaxEntries /\ entries[v][x] > 0
        BY <1>2 DEF Shared
      <3>2. 1 \in 1..MaxEntries /\ 1 <= entries[v][x]
        BY <1>1, <3>1
      <3> QED
        BY <3>1, <3>2 DEF Occurrences
    <2>2. ASSUME NEW p \in Occurrences(entries[v], recovered, MaxEntries) PROVE p[1] \in Shared(v)
      BY <1>1, <1>2 DEF Occurrences, Shared
    <2> QED
      BY <2>1, <2>2
  <1> QED
    BY <1>3, <1>4, <1>5, <1>6, FS_EmptySet, FS_CardinalityType

\* Where no name is listed twice, that is the number of names shared.
LEMMA OverlapIsShared ==
  ASSUME recovered \in SUBSET Names, entries \in [1..Candidates -> [Names -> 0..MaxEntries]],
         NEW v \in 1..Candidates, \A x \in Names : entries[v][x] <= 1
  PROVE  Total(v) = Cardinality(Shared(v))
  <1> DEFINE O == Occurrences(entries[v], recovered, MaxEntries)
             once == [x \in Shared(v) |-> <<x, 1>>]
  <1>1. IsFiniteSet(Shared(v))
    BY ChoiceAssumption, FS_Subset DEF Shared
  <1>2. \A x \in recovered : entries[v][x] \in {0, 1} /\ (entries[v][x] = 1 => 1 <= MaxEntries)
    BY ChoiceAssumption
  <1>3. O = {once[x] : x \in Shared(v)}
    <2>1. ASSUME NEW x \in Shared(v) PROVE <<x, 1>> \in O
      BY <1>2, ChoiceAssumption DEF Occurrences, Shared
    <2>2. ASSUME NEW p \in O PROVE p[1] \in Shared(v) /\ p = <<p[1], 1>>
      BY <1>2, ChoiceAssumption DEF Occurrences, Shared
    <2> HIDE DEF O
    <2> QED
      BY <2>1, <2>2
  <1>4. once \in Bijection(Shared(v), O)
    <2>1. \A x \in Shared(v) : once[x] = <<x, 1>>
      OBVIOUS
    <2>2. \A x, y \in Shared(v) : once[x] = once[y] => x = y
      BY <2>1
    <2>3. once \in [Shared(v) -> O]
      BY <1>3
    <2> HIDE DEF once, O
    <2> QED
      BY <1>3, <2>2, <2>3 DEF Bijection, Injection, Surjection, IsInjective
  <1> HIDE DEF once, O
  <1>5. Cardinality(O) = Cardinality(Shared(v))
    BY <1>1, <1>4, FS_Bijection DEF ExistsBijection
  <1> QED
    BY <1>5, OverlapCounts DEF O

LEMMA BestInits == ChoiceInit => BestOverlap
  BY ChoiceAssumption DEF ChoiceInit, ChoiceStart, BestOverlap, NoVersion

LEMMA BestSteps ==
  ASSUME BestOverlap, [ChoiceNext]_choiceVars
  PROVE  BestOverlap'
  <1>1. CASE ScanCommit \/ LookUp \/ ScanPattern
    <2>1. UNCHANGED choice /\ scan \notin {"overlap", "picked"} /\ scan' \notin {"overlap", "picked"}
      BY <1>1 DEF ScanCommit, LookUp, ScanPattern, Goto, FallThrough
    <2> QED
      BY <2>1 DEF BestOverlap, choice
  <1>2. CASE StartOverlap
    BY <1>2 DEF StartOverlap, BestOverlap, NoVersion
  <1>3. CASE TryCandidate
    <2>1. UNCHANGED <<recovered, entries, scan>> /\ c' = c + 1 /\ c \in 1..Candidates /\ scan = "overlap" /\ recovered # {}
      BY <1>3 DEF TryCandidate, BestOverlap
    <2>2. \A v \in 1..Candidates : Total(v) \in Nat
      BY <2>1, OverlapCounts DEF BestOverlap
    <2>3. Candidates \in Nat
      BY ChoiceAssumption
    <2>4. Overlap(c) = Total(c)
      BY OverlapIsTotal
    <2>5. \A v \in 1..(c' - 1) : v = c \/ v \in 1..(c - 1)
      BY <2>1, <2>3
    <2>6. \A v \in 1..(c - 1) : Total(v) \in Nat /\ Total(v) <= best_overlap /\ (v < best => Total(v) < best_overlap)
      BY <2>1, <2>2, <2>3 DEF BestOverlap
    <2>7. CASE Better(c)
      <3>1. best' = c /\ best_overlap' = Total(c) /\ Total(c) > best_overlap
        BY <1>3, <2>4, <2>7 DEF TryCandidate, Better
      <3>2. best_overlap \in Nat /\ Total(c) \in Nat
        BY <2>1, <2>2 DEF BestOverlap
      <3>3. \A v \in 1..(c' - 1) : Total(v) <= Total(c) /\ (v < c => Total(v) < Total(c))
        BY <2>1, <2>3, <2>5, <2>6, <3>1, <3>2
      <3> QED
        BY <2>1, <2>3, <3>1, <3>2, <3>3 DEF BestOverlap, NoVersion, Total
    <2>8. CASE ~Better(c)
      <3>1. UNCHANGED <<best, best_overlap>> /\ ~(Total(c) > best_overlap)
        BY <1>3, <2>4, <2>8 DEF TryCandidate, Better
      <3>2. best_overlap \in Nat /\ Total(c) \in Nat
        BY <2>1, <2>2 DEF BestOverlap
      <3>3. \A v \in 1..(c' - 1) : Total(v) <= best_overlap /\ (v < best => Total(v) < best_overlap)
        BY <2>1, <2>3, <2>5, <2>6, <3>1, <3>2 DEF BestOverlap
      <3> QED
        BY <2>1, <2>3, <3>1, <3>3 DEF BestOverlap, NoVersion, Total
    <2> QED
      BY <2>7, <2>8
  <1>4. CASE ReturnBest
    BY <1>4, ChoiceAssumption DEF ReturnBest, BestOverlap, choice, Total
  <1>5. CASE UNCHANGED choiceVars
    BY <1>5 DEF BestOverlap, choiceVars, choice, Total
  <1> QED
    BY <1>1, <1>2, <1>3, <1>4, <1>5 DEF ChoiceNext

LEMMA BestIsPicked ==
  ASSUME BestOverlap
  PROVE  NulloptIffDisjoint /\ SharesMostIfListedOnce
  <1> SUFFICES ASSUME scan = "picked" PROVE NulloptIffDisjoint /\ SharesMostIfListedOnce
    BY DEF NulloptIffDisjoint, SharesMostIfListedOnce
  <1>1. /\ recovered \in SUBSET Names /\ entries \in [1..Candidates -> [Names -> 0..MaxEntries]]
        /\ recovered = {} \/ c = Candidates + 1
        /\ Candidates \in Nat
    BY ChoiceAssumption DEF BestOverlap
  <1>2. \A v \in 1..Candidates : Total(v) \in Nat /\ (Total(v) = 0 <=> Shared(v) = {})
    BY <1>1, OverlapCounts
  <1>3. recovered = {} => best = NoVersion /\ \A v : Shared(v) = {}
    BY DEF BestOverlap, NoVersion, Shared
  <1>4. NulloptIffDisjoint
    <2>1. CASE c = Candidates + 1
      BY <1>1, <1>2, <2>1 DEF NulloptIffDisjoint, BestOverlap, NoVersion
    <2> QED
      BY <1>1, <1>3, <2>1 DEF NulloptIffDisjoint
  <1>5. ASSUME best # NoVersion, \A v \in 1..Candidates, x \in Names : entries[v][x] <= 1, NEW v \in 1..Candidates
        PROVE  IF v < best THEN Cardinality(Shared(v)) < Cardinality(Shared(best))
               ELSE Cardinality(Shared(v)) <= Cardinality(Shared(best))
    <2>1. c = Candidates + 1 /\ best \in 1..Candidates /\ best_overlap = Total(best)
      BY <1>1, <1>3, <1>5 DEF BestOverlap, NoVersion
    <2>2. Total(v) = Cardinality(Shared(v)) /\ Total(best) = Cardinality(Shared(best))
      BY <1>1, <1>5, <2>1, OverlapIsShared
    <2>3. Total(v) <= best_overlap /\ (v < best => Total(v) < best_overlap)
      BY <1>1, <2>1 DEF BestOverlap
    <2> QED
      BY <2>1, <2>2, <2>3
  <1> QED
    BY <1>4, <1>5 DEF SharesMostIfListedOnce

-----------------------------------------------------------------------------
(* What the name of a signature file says.                                 *)

\* A digit has a value.
Digit(ch) == CHOOSE d \in 0..9 : Digits[d + 1] = ch

DecimalStep(ds, g) ==
  g = [k \in 0..Len(ds) |-> IF k = 0 THEN 0 ELSE 10 * g[k - 1] + (CHOOSE d \in 0..9 : Digits[d + 1] = ds[k])]

LEMMA DigitsHaveValues == \A ch \in DigitSet : Digit(ch) \in 0..9
  <1> TAKE ch \in DigitSet
  <1>1. PICK d \in 1..10 : Digits[d] = ch
    BY DEF DigitSet
  <1>2. d - 1 \in 0..9 /\ Digits[(d - 1) + 1] = ch
    BY <1>1
  <1> QED
    BY <1>2 DEF Digit

LEMMA DecimalNat ==
  ASSUME NEW ds, Len(ds) \in Nat, \A k \in 1..Len(ds) : ds[k] \in DigitSet
  PROVE  Decimal(ds) \in Nat
  <1> DEFINE next == [p \in (1..Len(ds)) \X Nat |-> 10 * p[2] + Digit(ds[p[1]])]
             value == CHOOSE g : DecimalStep(ds, g)
  <1>1. Decimal(ds) = value[Len(ds)]
    BY DEF Decimal, DecimalStep
  <1>2. \A k \in 1..Len(ds) : \A y \in Nat : next[<<k, y>>] = 10 * y + Digit(ds[k]) /\ next[<<k, y>>] \in Nat
    BY DigitsHaveValues
  <1>3. PICK g \in [0..Len(ds) -> Nat] : g[0] = 0 /\ \A k \in 1..Len(ds) : g[k] = next[<<k, g[k - 1]>>]
    <2>1. next \in Successors(Nat, Len(ds))
      BY DigitsHaveValues DEF Successors
    <2> HIDE DEF next
    <2>2. \E g : Chain(g, Nat, 0, Len(ds), next)
      BY <2>1, Iterates
    <2> QED
      BY <2>2 DEF Chain
  <1> HIDE DEF next
  <1>4. ASSUME NEW k \in 1..Len(ds) PROVE g[k] = 10 * g[k - 1] + Digit(ds[k])
    <2>1. k - 1 \in 0..Len(ds) /\ g[k - 1] \in Nat
      OBVIOUS
    <2> QED
      BY <1>2, <1>3, <2>1
  <1>5. DecimalStep(ds, g)
    <2> DEFINE h == [k \in 0..Len(ds) |-> IF k = 0 THEN 0 ELSE 10 * g[k - 1] + Digit(ds[k])]
    <2>1. \A k \in 0..Len(ds) : g[k] = h[k]
      BY <1>3, <1>4
    <2>2. g = h
      BY <2>1
    <2> QED
      BY <2>2 DEF DecimalStep, Digit
  <1>6. DecimalStep(ds, value)
    BY <1>5
  <1> HIDE DEF value
  <1> DEFINE S == {k \in Nat : k <= Len(ds) => value[k] \in Nat}
  <1>7. 0 \in S
    BY <1>6 DEF DecimalStep
  <1>8. ASSUME NEW k \in Nat, k \in S PROVE k + 1 \in S
    <2> SUFFICES ASSUME k + 1 <= Len(ds) PROVE value[k + 1] \in Nat
      OBVIOUS
    <2>1. value[k] \in Nat /\ k + 1 \in 1..Len(ds)
      BY <1>8
    <2>2. \A l \in 1..Len(ds) : value[l] = 10 * value[l - 1] + Digit(ds[l])
      <3> TAKE l \in 1..Len(ds)
      <3>1. l \in 0..Len(ds) /\ l # 0
        OBVIOUS
      <3> QED
        BY <1>6, <3>1 DEF DecimalStep, Digit
    <2>3. value[k + 1] = 10 * value[k] + Digit(ds[k + 1])
      BY <2>1, <2>2
    <2>4. Digit(ds[k + 1]) \in 0..9
      BY <2>1, DigitsHaveValues
    <2> QED
      BY <2>1, <2>3, <2>4
  <1> HIDE DEF S
  <1>9. \A k \in Nat : k >= 0 => k \in S
    BY <1>7, <1>8, SetInduction
  <1> QED
    BY <1>1, <1>9 DEF S

-----------------------------------------------------------------------------
(* The numbers of a version.                                               *)

LEMMA StoiNat == ASSUME NEW part \in Seq(STRING) PROVE stoi(part) \in Nat
  <1> DEFINE Leading == {k \in 0..Len(part) : \A l \in 1..k : part[l] \in DigitSet}
             most == CHOOSE k \in Leading : \A l \in Leading : l <= k
  <1>1. Leading \subseteq 0..Len(part) /\ 0 \in Leading
    OBVIOUS
  <1>2. most \in Leading
    <2>1. \E k \in Leading : \A l \in Leading : l <= k
      <3>1. Len(part) \in Nat
        OBVIOUS
      <3> HIDE DEF Leading
      <3> QED
        BY <1>1, <3>1, GreatestNumber, Zenon
    <2> HIDE DEF Leading
    <2> QED
      BY <2>1
  <1>3. most \in 0..Len(part) /\ \A l \in 1..most : part[l] \in DigitSet
    BY <1>2
  <1>4. stoi(part) = Decimal(SubSeq(part, 1, most))
    BY DEF stoi
  <1> HIDE DEF most
  <1>5. Len(SubSeq(part, 1, most)) = most /\ \A l \in 1..most : SubSeq(part, 1, most)[l] = part[l]
    BY <1>3
  <1>6. \A l \in 1..most : SubSeq(part, 1, most)[l] \in DigitSet
    BY <1>3, <1>5
  <1> DEFINE ds == SubSeq(part, 1, most)
  <1>7. Len(ds) \in Nat /\ \A l \in 1..Len(ds) : ds[l] \in DigitSet
    BY <1>3, <1>5, <1>6
  <1>8. stoi(part) = Decimal(ds)
    BY <1>4
  <1> HIDE DEF ds
  <1> QED
    BY <1>7, <1>8, DecimalNat

\* The place of the next dot, or beyond the end.
Ends(v, j, e) ==
  /\ \A k \in j..(e - 1) : v[k] # "."
  /\ e <= Len(v) => v[e] = "."

EndOfNumber(v, j) == CHOOSE e \in j..(Len(v) + 1) : Ends(v, j, e)

NumbersAt(v, g, j) ==
  IF j > Len(v) THEN <<>>
  ELSE IF v[j] = "." THEN g[j + 1]
  ELSE <<stoi(SubSeq(v, j, EndOfNumber(v, j) - 1))>> \o g[EndOfNumber(v, j)]

NumbersStep(v, g) == g = [j \in 1..(Len(v) + 1) |-> NumbersAt(v, g, j)]

LEMMA NumbersUnfold == ASSUME NEW v PROVE Numbers(v) = (CHOOSE g : NumbersStep(v, g))[1]
  BY DEF Numbers, NumbersStep, NumbersAt, Ends, EndOfNumber

LEMMA NumberEnds ==
  ASSUME NEW v \in Seq(STRING), NEW j \in 1..Len(v), v[j] # "."
  PROVE  EndOfNumber(v, j) \in (j + 1)..(Len(v) + 1)
  <1> DEFINE T == {e \in j..(Len(v) + 1) : e <= Len(v) => v[e] = "."}
  <1>1. T \subseteq Nat /\ Len(v) + 1 \in T
    OBVIOUS
  <1>2. PICK m \in T : \A e \in T : m <= e
    <2> HIDE DEF T
    <2> QED
      BY <1>1, LeastNumber
  <1>3. ASSUME NEW k \in j..(m - 1) PROVE v[k] # "."
    <2>1. k \in j..(Len(v) + 1) /\ ~(m <= k)
      BY <1>2
    <2>2. k \notin T
      <3> HIDE DEF T
      <3> QED
        BY <1>2, <2>1
    <2> QED
      BY <2>1, <2>2
  <1>4. m \in j..(Len(v) + 1) /\ Ends(v, j, m)
    BY <1>2, <1>3 DEF Ends
  <1>5. EndOfNumber(v, j) \in j..(Len(v) + 1) /\ Ends(v, j, EndOfNumber(v, j))
    BY <1>4 DEF EndOfNumber
  <1>6. EndOfNumber(v, j) # j
    BY <1>5 DEF Ends
  <1> QED
    BY <1>5, <1>6

\* What is computed at j depends on what is computed behind it.
LEMMA NumbersDepend ==
  ASSUME NEW v \in Seq(STRING), NEW j \in 1..(Len(v) + 1), NEW g, NEW h,
         \A k \in (j + 1)..(Len(v) + 1) : g[k] = h[k]
  PROVE  NumbersAt(v, g, j) = NumbersAt(v, h, j)
  <1>1. CASE j > Len(v)
    BY <1>1 DEF NumbersAt
  <1>2. CASE j <= Len(v) /\ v[j] = "."
    <2>1. j + 1 \in (j + 1)..(Len(v) + 1)
      BY <1>2
    <2> QED
      BY <1>2, <2>1 DEF NumbersAt
  <1>3. CASE j <= Len(v) /\ v[j] # "."
    <2>1. EndOfNumber(v, j) \in (j + 1)..(Len(v) + 1)
      BY <1>3, NumberEnds
    <2> QED
      BY <1>3, <2>1 DEF NumbersAt
  <1> QED
    BY <1>1, <1>2, <1>3

LEMMA NumbersTyped ==
  ASSUME NEW v \in Seq(STRING), NEW j \in 1..(Len(v) + 1), NEW g,
         \A k \in (j + 1)..(Len(v) + 1) : g[k] \in Seq(Nat)
  PROVE  NumbersAt(v, g, j) \in Seq(Nat)
  <1>1. CASE j > Len(v)
    BY <1>1 DEF NumbersAt
  <1>2. CASE j <= Len(v) /\ v[j] = "."
    <2>1. j + 1 \in (j + 1)..(Len(v) + 1)
      BY <1>2
    <2> QED
      BY <1>2, <2>1 DEF NumbersAt
  <1>3. CASE j <= Len(v) /\ v[j] # "."
    <2> DEFINE e == EndOfNumber(v, j)
    <2>1. e \in (j + 1)..(Len(v) + 1)
      BY <1>3, NumberEnds
    <2>2. SubSeq(v, j, e - 1) \in Seq(STRING)
      <3>1. j \in 1..Len(v) /\ e - 1 \in 1..Len(v)
        BY <1>3, <2>1
      <3> HIDE DEF e
      <3> QED
        BY <3>1
    <2>3. stoi(SubSeq(v, j, e - 1)) \in Nat /\ g[e] \in Seq(Nat)
      BY <2>1, <2>2, StoiNat
    <2>4. NumbersAt(v, g, j) = <<stoi(SubSeq(v, j, e - 1))>> \o g[e]
      BY <1>3 DEF NumbersAt
    <2> HIDE DEF e
    <2> QED
      BY <2>3, <2>4
  <1> QED
    BY <1>1, <1>2, <1>3

LEMMA NumbersExist ==
  ASSUME NEW v \in Seq(STRING)
  PROVE  \E g : NumbersStep(v, g)
  <1> DEFINE end == Len(v) + 1
             Good(m) == \E g : g = [j \in (end - m)..end |-> NumbersAt(v, g, j)]
             S == {m \in Nat : m < end => Good(m)}
  <1>0. end \in Nat \ {0}
    OBVIOUS
  <1>1. Good(0)
    <2> DEFINE g == [j \in (end - 0)..end |-> <<>>]
    <2>1. \A j \in (end - 0)..end : NumbersAt(v, g, j) = <<>>
      BY DEF NumbersAt
    <2>2. g = [j \in (end - 0)..end |-> NumbersAt(v, g, j)]
      BY <2>1
    <2> HIDE DEF g
    <2> QED
      BY <2>2
  <1>2. ASSUME NEW m \in Nat, Good(m), m + 1 < end PROVE Good(m + 1)
    <2>1. PICK g : g = [j \in (end - m)..end |-> NumbersAt(v, g, j)]
      BY <1>2
    <2> DEFINE at == end - (m + 1)
               h == [j \in at..end |-> IF j = at THEN NumbersAt(v, g, at) ELSE g[j]]
    <2>2. at \in 1..end /\ at + 1 = end - m
      BY <1>0, <1>2
    <2>3. ASSUME NEW j \in at..end PROVE h[j] = NumbersAt(v, h, j)
      <3>1. \A k \in (j + 1)..end : h[k] = g[k]
        BY <2>2
      <3>2. NumbersAt(v, h, j) = NumbersAt(v, g, j)
        <4>1. j \in 1..(Len(v) + 1)
          BY <2>2
        <4> HIDE DEF h
        <4> QED
          BY <3>1, <4>1, NumbersDepend
      <3>3. CASE j = at
        BY <3>2, <3>3
      <3>4. CASE j # at
        <4>1. j \in (end - m)..end
          BY <2>2, <3>4
        <4>2. g[j] = NumbersAt(v, g, j)
          BY <2>1, <4>1
        <4> QED
          BY <3>2, <3>4, <4>2
      <3> QED
        BY <3>3, <3>4
    <2>4. h = [j \in at..end |-> NumbersAt(v, h, j)]
      BY <2>3
    <2> HIDE DEF h
    <2> QED
      BY <2>4
  <1> HIDE DEF Good
  <1>3. 0 \in S /\ \A m \in Nat : m >= 0 /\ m \in S => m + 1 \in S
    <2>1. ASSUME NEW m \in Nat, m \in S, m + 1 < end PROVE Good(m + 1)
      <3>1. Good(m)
        BY <1>0, <2>1
      <3> QED
        BY <1>2, <2>1, <3>1
    <2> QED
      BY <1>1, <2>1
  <1> HIDE DEF S
  <1>4. \A m \in Nat : m >= 0 => m \in S
    BY <1>3, SetInduction
  <1>5. Good(Len(v))
    BY <1>4 DEF S
  <1>6. end - Len(v) = 1
    OBVIOUS
  <1> QED
    BY <1>5, <1>6 DEF Good, NumbersStep

\* A version is a sequence of numbers, whatever the text.
LEMMA NumbersAreNumbers == ASSUME NEW v \in Seq(STRING) PROVE Numbers(v) \in Seq(Nat)
  <1> DEFINE end == Len(v) + 1
             g == CHOOSE g : NumbersStep(v, g)
             Good(m) == \A j \in (end - m)..end : g[j] \in Seq(Nat)
             S == {m \in Nat : m < end => Good(m)}
  <1>0. end \in Nat \ {0}
    OBVIOUS
  <1>1. \A j \in 1..end : g[j] = NumbersAt(v, g, j)
    <2>1. NumbersStep(v, g)
      BY NumbersExist
    <2> HIDE DEF g
    <2> QED
      BY <2>1 DEF NumbersStep
  <1>2. Numbers(v) = g[1]
    BY NumbersUnfold
  <1> HIDE DEF g
  <1>3. Good(0)
    <2>1. \A j \in (end - 0)..end : j = end /\ j \in 1..end
      BY <1>0
    <2>2. NumbersAt(v, g, end) \in Seq(Nat)
      BY DEF NumbersAt
    <2>3. g[end] \in Seq(Nat)
      BY <1>1, <2>1, <2>2
    <2> QED
      BY <2>1, <2>3
  <1>4. ASSUME NEW m \in Nat, Good(m), m + 1 < end PROVE Good(m + 1)
    <2> DEFINE at == end - (m + 1)
    <2>1. at \in 1..end /\ at + 1 = end - m
      BY <1>0, <1>4
    <2>2. NumbersAt(v, g, at) \in Seq(Nat)
      BY <1>4, <2>1, NumbersTyped
    <2>3. \A j \in at..end : j = at \/ j \in (end - m)..end
      BY <2>1
    <2> QED
      BY <1>1, <1>4, <2>1, <2>2, <2>3
  <1> HIDE DEF Good
  <1>5. 0 \in S /\ \A m \in Nat : m >= 0 /\ m \in S => m + 1 \in S
    <2>1. ASSUME NEW m \in Nat, m \in S, m + 1 < end PROVE Good(m + 1)
      <3>1. Good(m)
        BY <1>0, <2>1
      <3> QED
        BY <1>4, <2>1, <3>1
    <2> QED
      BY <1>3, <2>1
  <1> HIDE DEF S
  <1>6. \A m \in Nat : m >= 0 => m \in S
    BY <1>5, SetInduction
  <1>7. Good(Len(v))
    BY <1>6 DEF S
  <1>8. end - Len(v) = 1 /\ 1 \in 1..end
    OBVIOUS
  <1> QED
    BY <1>2, <1>7, <1>8 DEF Good

-----------------------------------------------------------------------------
(* Names and paths.                                                        *)

LEMMA BasenameOf ==
  ASSUME NEW path \in Seq(STRING)
  PROVE  /\ basename_of(path) \in Seq(STRING)
         /\ \A k \in 1..Len(basename_of(path)) : basename_of(path)[k] \notin {"/", "\\"}
  <1> DEFINE Slash == {k \in 1..Len(path) : path[k] \in {"/", "\\"}}
             last == CHOOSE k \in Slash : \A l \in Slash : l <= k
  <1>1. CASE Slash = {}
    BY <1>1 DEF basename_of
  <1>2. CASE Slash # {}
    <2>1. \E k \in Slash : \A l \in Slash : l <= k
      <3>1. Len(path) \in Nat /\ Slash \subseteq 0..Len(path)
        OBVIOUS
      <3> HIDE DEF Slash
      <3> QED
        BY <1>2, <3>1, GreatestNumber, Zenon
    <2>2. last \in Slash /\ \A l \in Slash : l <= last
      <3> HIDE DEF Slash
      <3> QED
        BY <2>1
    <2>3. basename_of(path) = SubSeq(path, last + 1, Len(path))
      <3>1. basename_of(path) = From(path, 1 + last)
        BY <1>2 DEF basename_of
      <3>2. 1 + last = last + 1
        BY <2>2
      <3> HIDE DEF last
      <3> QED
        BY <3>1, <3>2 DEF From
    <2>4. last \in 1..Len(path) /\ \A k \in 1..Len(path) : k > last => path[k] \notin {"/", "\\"}
      <3>1. \A k \in 1..Len(path) : k > last => ~(k <= last)
        BY <2>2
      <3> HIDE DEF last
      <3> QED
        BY <2>2, <3>1
    <2> HIDE DEF last, Slash
    <2>5. /\ SubSeq(path, last + 1, Len(path)) \in Seq(STRING)
          /\ Len(SubSeq(path, last + 1, Len(path))) = Len(path) - last
          /\ \A k \in 1..(Len(path) - last) : SubSeq(path, last + 1, Len(path))[k] = path[last + k]
      BY <2>4
    <2>6. \A k \in 1..(Len(path) - last) : last + k \in 1..Len(path) /\ last + k > last
      BY <2>4
    <2> QED
      BY <2>3, <2>4, <2>5, <2>6
  <1> QED
    BY <1>1, <1>2

LEMMA BasenameOnce ==
  ASSUME NEW path \in Seq(STRING)
  PROVE  parse_sig_filename(basename_of(path)) = parse_sig_filename(path)
  <1> DEFINE base == basename_of(path)
  <1>1. {k \in 1..Len(base) : base[k] \in {"/", "\\"}} = {}
    BY BasenameOf
  <1>2. basename_of(base) = base
    <2> HIDE DEF base
    <2> QED
      BY <1>1 DEF basename_of
  <1> HIDE DEF base
  <1> QED
    BY <1>2 DEF parse_sig_filename, base

LEMMA VersionTyped ==
  ASSUME NEW path \in Seq(STRING)
  PROVE  parse_sig_filename(path).version \in Seq(Nat)
  <1> DEFINE base == basename_of(path)
             name == IF base # <<>> /\ base[Len(base)] = ".sig" THEN SubSeq(base, 1, Len(base) - 1) ELSE base
             Opt == {k \in 1..Len(name) : name[k] = "-O"}
             pos == CHOOSE k \in Opt : \A l \in Opt : l <= k
  <1>1. base \in Seq(STRING)
    BY BasenameOf
  <1>2. name \in Seq(STRING)
    <2> HIDE DEF base
    <2>1. ASSUME base # <<>> PROVE SubSeq(base, 1, Len(base) - 1) \in Seq(STRING)
      <3>1. Len(base) \in Nat \ {0}
        BY <1>1, <2>1
      <3> QED
        BY <1>1, <3>1
    <2> QED
      BY <1>1, <2>1
  <1>3. /\ Opt = {} => parse_sig_filename(path).version = Numbers(name)
        /\ Opt # {} => parse_sig_filename(path).version = Numbers(SubSeq(name, 1, pos - 1))
    BY DEF parse_sig_filename
  <1>4. CASE Opt = {}
    <2> HIDE DEF name
    <2> QED
      BY <1>2, <1>3, <1>4, NumbersAreNumbers
  <1>5. CASE Opt # {}
    <2>1. Len(name) \in Nat /\ Opt \subseteq 0..Len(name)
      <3> HIDE DEF name
      <3> QED
        BY <1>2
    <2>2. \E k \in Opt : \A l \in Opt : l <= k
      <3> HIDE DEF Opt
      <3> QED
        BY <1>5, <2>1, GreatestNumber, Zenon
    <2>3. pos \in Opt
      <3> HIDE DEF Opt
      <3> QED
        BY <2>2
    <2>4. pos \in 1..Len(name)
      BY <2>3
    <2> HIDE DEF pos, Opt, name
    <2>5. SubSeq(name, 1, pos - 1) \in Seq(STRING)
      BY <1>2, <2>4
    <2> QED
      BY <1>3, <1>5, <2>5, NumbersAreNumbers
  <1> HIDE DEF Opt
  <1> QED
    BY <1>4, <1>5

-----------------------------------------------------------------------------
(* The levels.                                                             *)

\* A text of one digit is worth that digit.
LEMMA DecimalOfDigit ==
  ASSUME NEW ch \in DigitSet
  PROVE  Decimal(<<ch>>) = Digit(ch)
  <1> DEFINE ds == <<ch>>
             value == CHOOSE g : DecimalStep(ds, g)
             g == [k \in 0..1 |-> IF k = 0 THEN 0 ELSE Digit(ch)]
  <1>1. Decimal(ds) = value[1]
    BY DEF Decimal, DecimalStep
  <1>2. \A k \in 0..1 : k = 0 \/ (k = 1 /\ ds[k] = ch /\ k - 1 = 0)
    OBVIOUS
  <1>3. Digit(ch) \in Nat
    BY DigitsHaveValues
  <1>4. DecimalStep(ds, g)
    <2>1. Len(ds) = 1
      OBVIOUS
    <2>2. g = [k \in 0..1 |-> IF k = 0 THEN 0 ELSE 10 * g[k - 1] + Digit(ds[k])]
      BY <1>2, <1>3
    <2> QED
      BY <2>1, <2>2 DEF DecimalStep, Digit
  <1>5. DecimalStep(ds, value)
    BY <1>4
  <1> HIDE DEF value
  <1>6. value[1] = 10 * value[0] + Digit(ch) /\ value[0] = 0
    <2>1. Len(ds) = 1 /\ ds[1] = ch
      OBVIOUS
    <2> HIDE DEF ds
    <2>2. value = [k \in 0..1 |-> IF k = 0 THEN 0 ELSE 10 * value[k - 1] + Digit(ds[k])]
      BY <1>5, <2>1 DEF DecimalStep, Digit
    <2>3. 0 \in 0..1 /\ 1 \in 0..1 /\ 1 - 1 = 0
      OBVIOUS
    <2> QED
      BY <2>1, <2>2, <2>3
  <1> QED
    BY <1>1, <1>3, <1>6

LEMMA LevelsCount ==
  /\ Decimal(<<"0">>) = 0 /\ Decimal(<<"1">>) = 1 /\ Decimal(<<"2">>) = 2 /\ Decimal(<<"3">>) = 3
  <1>1. "0" \in DigitSet /\ "1" \in DigitSet /\ "2" \in DigitSet /\ "3" \in DigitSet
    <2>1. Digits[1] = "0" /\ Digits[2] = "1" /\ Digits[3] = "2" /\ Digits[4] = "3"
      BY DEF Digits
    <2>2. \A d \in 1..10 : Digits[d] \in DigitSet
      BY DEF DigitSet
    <2> QED
      BY <2>1, <2>2
  <1>2. /\ \A d \in 0..9 : Digits[d + 1] = "0" <=> d = 0
        /\ \A d \in 0..9 : Digits[d + 1] = "1" <=> d = 1
        /\ \A d \in 0..9 : Digits[d + 1] = "2" <=> d = 2
        /\ \A d \in 0..9 : Digits[d + 1] = "3" <=> d = 3
    <2>1. \A d \in 0..9 : d \in {0, 1, 2, 3, 4, 5, 6, 7, 8, 9}
      OBVIOUS
    <2> QED
      BY <2>1 DEF Digits
  <1>3. Digit("0") = 0 /\ Digit("1") = 1 /\ Digit("2") = 2 /\ Digit("3") = 3
    BY <1>2 DEF Digit
  <1> QED
    BY <1>1, <1>3, DecimalOfDigit

\* Which files are searched: those of the level asked for, or else of the
\* lowest level that any file has.
LEMMA ProbedLevel ==
  ASSUME NEW files, NEW opt
  PROVE  LET levels == <<opt, <<"0">>, <<"1">>, <<"2">>, <<"3">>>>
             present == {k \in 1..5 : levels[k] \in OptLevels /\ WithOpt(files, levels[k]) # {}}
         IN  /\ present = {} => Probed(files, opt) = {}
             /\ present # {} => \E k \in present : /\ \A l \in present : k <= l
                                                  /\ Probed(files, opt) = WithOpt(files, levels[k])
  <1> DEFINE levels == <<opt, <<"0">>, <<"1">>, <<"2">>, <<"3">>>>
             present == {k \in 1..5 : levels[k] \in OptLevels /\ WithOpt(files, levels[k]) # {}}
             Present == {o \in OptLevels : WithOpt(files, o) # {}}
             lowest == CHOOSE o \in Present : \A p \in Present : Decimal(o) <= Decimal(p)
  <1>1. \A k \in present : levels[k] \in Present
    OBVIOUS
  <1>2. /\ levels[1] = opt /\ levels[2] = <<"0">> /\ levels[3] = <<"1">> /\ levels[4] = <<"2">> /\ levels[5] = <<"3">>
        /\ OptLevels = {<<"0">>, <<"1">>, <<"2">>, <<"3">>}
    BY DEF OptLevels
  <1>3. \A k \in 2..5 : levels[k] \in OptLevels /\ Decimal(levels[k]) = k - 2
    <2>1. \A k \in 2..5 : k \in {2, 3, 4, 5}
      OBVIOUS
    <2> HIDE DEF levels
    <2> QED
      BY <1>2, <2>1, LevelsCount
  <1>4. \A o \in OptLevels : \E k \in 2..5 : o = levels[k]
    BY <1>2
  <1>5. \A k \in 1..5 : k = 1 \/ k \in 2..5
    OBVIOUS
  <1>6. \A o \in Present : \E k \in 2..5 : k \in present /\ o = levels[k]
    <2>1. Present \subseteq OptLevels /\ \A o \in Present : WithOpt(files, o) # {}
      OBVIOUS
    <2>2. \A k \in 2..5 : k \in 1..5
      OBVIOUS
    <2>3. \A k \in 1..5 : levels[k] \in OptLevels /\ WithOpt(files, levels[k]) # {} => k \in present
      OBVIOUS
    <2> HIDE DEF levels, Present, present
    <2> QED
      BY <1>4, <2>1, <2>2, <2>3
  <1>7. Probed(files, opt) = IF Present = {} THEN {} ELSE WithOpt(files, IF opt \in Present THEN opt ELSE lowest)
    BY DEF Probed
  <1>8. 1 \in present <=> opt \in Present
    BY <1>2
  <1>9. present \subseteq 1..5
    OBVIOUS
  <1>10. ASSUME present = {}
         PROVE  Probed(files, opt) = {}
    <2>1. Present = {}
      <3> HIDE DEF levels, present, Present
      <3> QED
        BY <1>6, <1>10
    <2> QED
      BY <1>7, <1>10, <2>1
  <1>11. ASSUME 1 \in present
         PROVE  \E k \in present : (\A l \in present : k <= l) /\ Probed(files, opt) = WithOpt(files, levels[k])
    <2>1. \A l \in present : 1 <= l
      BY <1>9
    <2>2. Probed(files, opt) = WithOpt(files, levels[1])
      <3>1. opt \in Present
        BY <1>8, <1>11
      <3> QED
        BY <1>2, <1>7, <3>1
    <2> QED
      BY <1>11, <2>1, <2>2
  <1>12. ASSUME present # {}, 1 \notin present
         PROVE  \E k \in present : (\A l \in present : k <= l) /\ Probed(files, opt) = WithOpt(files, levels[k])
    <2>1. PICK m \in present : \A l \in present : m <= l
      <3>1. present \subseteq Nat
        BY <1>9
      <3> HIDE DEF present
      <3> QED
        BY <1>12, <3>1, LeastNumber
    <2>2. m \in 2..5 /\ levels[m] \in Present
      BY <1>1, <1>9, <1>12, <2>1
    <2>3. \A p \in Present : Decimal(levels[m]) <= Decimal(p)
      <3> TAKE p \in Present
      <3>1. PICK k \in 2..5 : k \in present /\ p = levels[k]
        BY <1>6
      <3>2. Decimal(levels[m]) = m - 2 /\ Decimal(p) = k - 2 /\ m <= k
        BY <1>3, <2>1, <2>2, <3>1
      <3> QED
        BY <2>2, <3>1, <3>2
    <2>4. lowest \in Present /\ \A p \in Present : Decimal(lowest) <= Decimal(p)
      <3> HIDE DEF Present, levels
      <3> QED
        BY <2>2, <2>3
    <2>5. lowest = levels[m]
      <3>1. PICK k \in 2..5 : k \in present /\ lowest = levels[k]
        BY <1>6, <2>4
      <3>2. Decimal(lowest) = k - 2 /\ Decimal(levels[m]) = m - 2
        BY <1>3, <2>2, <3>1
      <3>3. k - 2 <= m - 2
        BY <2>2, <2>4, <3>2
      <3>4. m <= k
        BY <2>1, <3>1
      <3>5. m = k
        BY <2>2, <3>1, <3>3, <3>4
      <3> QED
        BY <3>1, <3>5
    <2>6. opt \notin Present
      BY <1>8, <1>12
    <2>7. Probed(files, opt) = WithOpt(files, levels[m])
      BY <1>7, <2>2, <2>5, <2>6
    <2> HIDE DEF levels, present
    <2> QED
      BY <2>1, <2>7
  <1> HIDE DEF levels, present
  <1> QED
    BY <1>10, <1>11, <1>12 DEF levels, present

-----------------------------------------------------------------------------
(* The search.                                                             *)

\* What both loops maintain: best_idx is the best of the indices counted so far.
BestSoFar ==
  /\ \A j \in cache : matches[j] <= best_count
  /\ cache # {} => best_idx \in cache /\ best_count = matches[best_idx]
  /\ cache = {} => /\ index = 0 /\ taken = 0 /\ best_idx = 0 /\ best_count = -1
                   /\ search \in {"listed", "coarse"} \/ n = 0
  /\ search = "listed" => n = 0 /\ right = 0

LEMMA SamplesPositive ==
  ASSUME n \in Nat \ {0}
  PROVE  n_samples \in 1..n /\ step \in Nat \ {0}
  <1>1. n_samples \in 1..n
    BY SearchAssumption DEF n_samples
  <1>2. n \div n_samples \in Int
    BY <1>1
  <1> QED
    BY <1>1, <1>2 DEF step

LEMMA SearchInits ==
  ASSUME NEW files, IsFiniteSet(files), NEW opt, SearchStart(files, opt)
  PROVE  SearchTypeOK /\ BestSoFar
  <1>1. IsFiniteSet(sig_files) /\ MaxMatches \in Nat
    BY SearchAssumption DEF SearchStart
  <1> QED
    BY <1>1 DEF SearchStart, SearchTypeOK, BestSoFar

\* The files probed are some of the files listed.
LEMMA ProbedAreFew ==
  ASSUME IsFiniteSet(sig_files)
  PROVE  /\ Cardinality(Probed(sig_files, probe_opt)) \in Nat
         /\ Cardinality(Probed(sig_files, probe_opt)) = 0 <=> Probed(sig_files, probe_opt) = {}
  <1> DEFINE B == {basename_of(g) : g \in sig_files}
             name == [g \in sig_files |-> basename_of(g)]
  <1>1. IsFiniteSet(B)
    <2>1. name \in Surjection(sig_files, B)
      BY DEF Surjection
    <2> HIDE DEF B, name
    <2> QED
      BY <2>1, FS_Surjection
  <1>2. Probed(sig_files, probe_opt) \subseteq B
    BY DEF Probed, WithOpt
  <1>3. IsFiniteSet(Probed(sig_files, probe_opt))
    BY <1>1, <1>2, FS_Subset
  <1> QED
    BY <1>3, FS_CardinalityType, FS_EmptySet

\* Counting one more index keeps the best of all counted.
LEMMA CountKeepsBest ==
  ASSUME SearchTypeOK, BestSoFar, n # 0, NEW j \in 0..(n - 1), Count(j), UNCHANGED <<n, matches>>
  PROVE  /\ best_idx' \in 0..(n - 1) /\ best_count' \in -1..MaxMatches /\ cache' \in SUBSET (0..(n - 1))
         /\ \A k \in cache' : matches'[k] <= best_count'
         /\ best_idx' \in cache' /\ best_count' = matches'[best_idx']
  <1>1. /\ matches' = matches /\ matches[j] \in 0..MaxMatches
        /\ \A k \in cache : k \in 0..(n - 1) /\ matches[k] \in 0..MaxMatches
        /\ best_count \in -1..MaxMatches /\ MaxMatches \in Nat
        /\ n \in Nat \ {0} /\ best_idx \in 0..(n - 1) /\ cache \in SUBSET (0..(n - 1))
    BY SearchAssumption DEF SearchTypeOK
  <1>2. CASE matches[j] > best_count
    <2>1. best_idx' = j /\ best_count' = matches[j] /\ cache' = cache \cup {j}
      BY <1>2 DEF Count, Take
    <2>2. \A k \in cache : matches[k] <= matches[j]
      BY <1>1, <1>2 DEF BestSoFar
    <2> QED
      BY <1>1, <2>1, <2>2
  <1>3. CASE ~(matches[j] > best_count)
    <2>1. best_idx' = best_idx /\ best_count' = best_count /\ cache' = cache \cup {j}
      BY <1>3 DEF Count, Take
    <2>2. cache # {}
      BY <1>1, <1>3 DEF BestSoFar
    <2>3. best_idx \in cache /\ best_count = matches[best_idx] /\ \A k \in cache : matches[k] <= best_count
      BY <2>2 DEF BestSoFar
    <2> QED
      BY <1>1, <1>3, <2>1, <2>3
  <1> QED
    BY <1>2, <1>3

LEMMA SearchSteps == SearchTypeOK /\ BestSoFar /\ [SearchNext]_searchVars => (SearchTypeOK /\ BestSoFar)'
  <1> SUFFICES ASSUME SearchTypeOK, BestSoFar, [SearchNext]_searchVars PROVE (SearchTypeOK /\ BestSoFar)'
    OBVIOUS
  <1>1. search \in {"coarse", "fine"} =>
          n \in Nat \ {0} /\ n_samples \in 1..n /\ step \in Nat \ {0} /\ index \in Nat
    BY SamplesPositive DEF SearchTypeOK
  <1>2. CASE ProbeSample
    <2>0. search = "coarse" /\ index < n /\ taken < n_samples
      BY <1>2 DEF ProbeSample, SamplesLeft
    <2>7. n # 0 /\ taken \in 0..n_samples
      BY <1>1, <2>0 DEF SearchTypeOK
    <2>1. index \in 0..(n - 1) /\ taken + 1 \in 0..n_samples /\ n # 0
      BY <1>1, <2>0, <2>7
    <2>2. n_samples' = n_samples /\ index' = index + step /\ taken' = taken + 1
      BY <1>2 DEF ProbeSample, probed, n_samples
    <2>3. /\ best_idx' \in 0..(n - 1) /\ best_count' \in -1..MaxMatches /\ cache' \in SUBSET (0..(n - 1))
          /\ \A k \in cache' : matches'[k] <= best_count'
          /\ best_idx' \in cache' /\ best_count' = matches'[best_idx']
      BY <1>2, <2>1, CountKeepsBest DEF ProbeSample, probed
    <2>4. index' \in Nat
      BY <1>1, <1>2, <2>2 DEF ProbeSample
    <2>5. UNCHANGED <<sig_files, n, matches, search, right>> /\ search = "coarse"
      BY <1>2 DEF ProbeSample, probed
    <2>6. SearchTypeOK'
      BY <2>1, <2>2, <2>3, <2>4, <2>5 DEF SearchTypeOK
    <2> QED
      BY <2>3, <2>5, <2>6 DEF BestSoFar
  <1>3. CASE StartFine
    <2>1. best_idx \in 0..(n - 1) /\ search = "coarse"
      BY <1>1, <1>3 DEF SearchTypeOK, StartFine
    <2>2. LeftOf(best_idx) \in Nat /\ RightOf(best_idx) \in 0..(n - 1)
      BY <1>1, <2>1 DEF LeftOf, RightOf
    <2>3. cache # {}
      BY <1>1, <1>3, <2>1 DEF StartFine, SamplesLeft, BestSoFar
    <2>4. n_samples' = n_samples
      BY <1>3 DEF StartFine, probed, n_samples
    <2> QED
      BY <1>3, <2>1, <2>2, <2>3, <2>4 DEF StartFine, SearchTypeOK, BestSoFar, probed
  <1>4. CASE SearchFine
    <2>1. index \in 0..(n - 1) /\ index + 1 \in Nat /\ n # 0 /\ search = "fine"
      BY <1>1, <1>4 DEF SearchFine, SearchTypeOK
    <2>2. n_samples' = n_samples
      BY <1>4 DEF SearchFine, probed, n_samples
    <2>3. /\ best_idx' \in 0..(n - 1) /\ best_count' \in -1..MaxMatches /\ cache' \in SUBSET (0..(n - 1))
          /\ \A k \in cache' : matches'[k] <= best_count'
          /\ best_idx' \in cache' /\ best_count' = matches'[best_idx']
      BY <1>4, <2>1, CountKeepsBest DEF SearchFine, probed
    <2> QED
      BY <1>4, <2>1, <2>2, <2>3 DEF SearchFine, SearchTypeOK, BestSoFar, probed
  <1>5. CASE Return
    BY <1>5 DEF Return, SearchTypeOK, BestSoFar, probed, n_samples
  <1>6. CASE UNCHANGED searchVars
    BY <1>6 DEF searchVars, probed, SearchTypeOK, BestSoFar, n_samples
  <1>7. CASE GroupFiles
    <2> DEFINE files == Probed(sig_files, probe_opt)
    <2>1. n' = Cardinality(files) /\ matches' \in [0..(n' - 1) -> 0..MaxMatches]
      BY <1>7 DEF GroupFiles
    <2>2. n' \in Nat /\ (n' = 0 <=> files = {})
      BY <2>1, ProbedAreFew DEF SearchTypeOK
    <2>3. n = 0 /\ cache = {}
      BY <1>7 DEF GroupFiles, BestSoFar, SearchTypeOK
    <2>4. index = 0 /\ taken = 0 /\ best_idx = 0 /\ best_count = -1
      BY <2>3 DEF BestSoFar
    <2>5. right = 0
      BY <1>7 DEF GroupFiles, BestSoFar
    <2>6. n_samples' \in Nat
      BY <2>2, SearchAssumption DEF n_samples
    <2>7. UNCHANGED <<sig_files, index, taken, right, best_idx, best_count, cache>>
          /\ search' = (IF files = {} THEN "done" ELSE "coarse")
      BY <1>7 DEF GroupFiles
    <2> HIDE DEF files
    <2>8. SearchTypeOK'
      BY <2>1, <2>2, <2>3, <2>4, <2>5, <2>6, <2>7 DEF SearchTypeOK
    <2> QED
      BY <2>2, <2>3, <2>4, <2>7, <2>8 DEF BestSoFar, SearchTypeOK
  <1> QED
    BY <1>2, <1>3, <1>4, <1>5, <1>6, <1>7 DEF SearchNext

\* The samples are the multiples of step up to index.
Multiples ==
  \A s \in cache : /\ s = 0 \/ s - step \in cache
                   /\ s + step \in cache \/ s + step = index

\* In the fine search a peak within reach is counted or still ahead.
Searched ==
  /\ search = "listed" => cache = {} /\ index = 0 /\ taken = 0 /\ n = 0
  /\ search = "coarse" =>
       /\ index = taken * step
       /\ Multiples
       /\ index = 0 \/ index - step \in cache
  /\ search \in {"fine", "done"} =>
       \A k \in 0..(n - 1) : PeakAt(k) /\ k <= Reach =>
         k \in cache \/ (search = "fine" /\ index <= k /\ k <= right)

\* The best sample is no further from a peak within reach than one step.
LEMMA BestProbeIsNear ==
  ASSUME SearchTypeOK, BestSoFar, Searched, search = "coarse", ~SamplesLeft,
         NEW k \in 0..(n - 1), PeakAt(k), k <= Reach
  PROVE  best_idx - step <= k /\ k <= best_idx + step
  <1>1. n \in Nat \ {0} /\ n_samples \in 1..n /\ step \in Nat \ {0}
    BY SamplesPositive DEF SearchTypeOK
  <1>2. /\ taken \in 0..n_samples /\ index \in Nat /\ index = taken * step
        /\ cache \in SUBSET (0..(n - 1))
    BY <1>1 DEF SearchTypeOK, Searched
  <1>3. cache # {}
    BY <1>1, <1>2 DEF SamplesLeft, BestSoFar
  <1>4. /\ best_idx \in cache /\ best_idx \in 0..(n - 1)
        /\ \A j \in cache : matches[j] <= matches[best_idx]
        /\ \A j \in cache : j \in 0..(n - 1) /\ matches[j] \in Nat
    BY <1>1, <1>2, <1>3 DEF BestSoFar, SearchTypeOK
  <1>0. Multiples
    BY DEF Searched
  <1>5. k <= index
    <2>1. CASE index >= n  BY <1>1, <1>2, <2>1
    <2>2. CASE taken = n_samples
      <3>1. Reach = n_samples * step
        BY <1>1, Z3 DEF Reach
      <3> QED  BY <1>2, <2>2, <3>1
    <2> QED  BY <1>1, <1>2, <2>1, <2>2 DEF SamplesLeft
  <1>6. ASSUME k < best_idx - step PROVE FALSE
    <2>1. best_idx - step \in cache
      BY <1>0, <1>1, <1>4, <1>6 DEF Multiples
    <2> DEFINE a == best_idx - step
    <2>2. a \in 0..(n - 1) /\ k <= a /\ a < best_idx
      BY <1>1, <1>4, <1>6, <2>1
    <2>3. matches[a] \in Nat /\ matches[a] <= matches[best_idx]
      BY <1>4, <2>1
    <2> HIDE DEF a
    <2>4. matches[a] > matches[best_idx]
      BY <1>4, <2>2 DEF PeakAt
    <2> QED  BY <1>4, <2>3, <2>4
  <1>7. ASSUME best_idx + step < k PROVE FALSE
    <2>1. best_idx + step \in cache
      <3>1. best_idx + step # index  BY <1>1, <1>4, <1>5, <1>7
      <3> QED  BY <1>0, <1>4, <3>1 DEF Multiples
    <2> DEFINE a == best_idx + step
    <2>2. a \in 0..(n - 1) /\ a <= k /\ best_idx < a
      BY <1>1, <1>4, <1>7, <2>1
    <2>3. matches[a] \in Nat /\ matches[a] <= matches[best_idx]
      BY <1>4, <2>1
    <2> HIDE DEF a
    <2>4. matches[a] > matches[best_idx]
      BY <1>4, <2>2 DEF PeakAt
    <2> QED  BY <1>4, <2>3, <2>4
  <1> QED
    BY <1>1, <1>4, <1>6, <1>7

LEMMA SearchedInits ==
  ASSUME NEW files, NEW opt, SearchStart(files, opt)
  PROVE  Searched
  BY DEF SearchStart, Searched, Multiples

LEMMA SearchedSteps ==
  SearchTypeOK /\ BestSoFar /\ Searched /\ [SearchNext]_searchVars => Searched'
  <1> SUFFICES ASSUME SearchTypeOK, BestSoFar, Searched, [SearchNext]_searchVars PROVE Searched'
    OBVIOUS
  <1>1. search \in {"coarse", "fine"} => n \in Nat \ {0} /\ n_samples \in 1..n /\ step \in Nat \ {0}
    BY SamplesPositive DEF SearchTypeOK
  <1>2. CASE GroupFiles
    <2>1. n' = Cardinality(Probed(sig_files, probe_opt)) /\ UNCHANGED <<index, taken, cache>>
          /\ search' = (IF Probed(sig_files, probe_opt) = {} THEN "done" ELSE "coarse")
          /\ cache = {} /\ index = 0 /\ taken = 0
      BY <1>2 DEF GroupFiles, Searched
    <2>2. n' \in Nat /\ (n' = 0 <=> search' = "done")
      BY <2>1, ProbedAreFew DEF SearchTypeOK
    <2>3. CASE search' = "done"
      BY <2>2, <2>3 DEF Searched
    <2>4. CASE search' = "coarse"
      <3>1. n' \in Nat \ {0}  BY <2>2, <2>4
      <3>2. n_samples' \in Nat \ {0}
        BY <3>1, SearchAssumption DEF n_samples
      <3>3. step' \in Int
        <4>1. n' \div n_samples' \in Int  BY <3>1, <3>2
        <4> QED  BY <4>1 DEF step
      <3>4. \A x \in Int : 0 = 0 * x
        OBVIOUS
      <3>5. index' = 0 /\ taken' = 0
        BY <2>1
      <3>6. index' = taken' * step'
        BY <3>3, <3>4, <3>5
      <3> QED  BY <2>1, <2>4, <3>6 DEF Searched, Multiples
    <2> QED  BY <2>1, <2>3, <2>4
  <1>3. CASE ProbeSample
    <2>1. /\ search = "coarse" /\ cache' = cache \cup {index} /\ UNCHANGED <<n, matches, search>>
          /\ index' = index + step /\ taken' = taken + 1
      BY <1>3 DEF ProbeSample, Count, probed
    <2>2. step' = step
      BY <2>1 DEF step, n_samples
    <2>3. index = taken * step /\ taken \in Nat /\ step \in Nat \ {0} /\ index \in Nat
      BY <1>1, <2>1 DEF Searched, SearchTypeOK
    <2>4. index' = taken' * step'
      <3>1. (taken + 1) * step = taken * step + step
        BY <2>3, Z3
      <3> QED  BY <2>1, <2>2, <2>3, <3>1
    <2>5. \A s \in cache : s \in Int
      BY <1>1, <2>1 DEF SearchTypeOK
    <2>6. (index = 0 \/ index - step \in cache) /\ index' - step' \in cache'
      BY <2>1, <2>2, <2>3 DEF Searched
    <2>7. Multiples'
      <3>1. Multiples
        BY <2>1 DEF Searched
      <3>2. ASSUME NEW s \in cache
            PROVE  (s = 0 \/ s - step \in cache') /\ s + step \in cache'
        BY <2>1, <3>1 DEF Multiples
      <3>3. (index = 0 \/ index - step \in cache') /\ index + step = index'
        BY <2>1, <2>6
      <3> QED  BY <2>1, <2>2, <3>2, <3>3 DEF Multiples
    <2> QED  BY <2>1, <2>4, <2>6, <2>7 DEF Searched
  <1>4. CASE StartFine
    <2>1. search = "coarse" /\ ~SamplesLeft /\ UNCHANGED <<n, matches, cache>>
          /\ search' = "fine" /\ index' = LeftOf(best_idx) /\ right' = RightOf(best_idx)
      BY <1>4 DEF StartFine, probed
    <2>2. n \in Nat \ {0} /\ step \in Nat \ {0} /\ best_idx \in 0..(n - 1)
      BY <1>1, <2>1 DEF SearchTypeOK
    <2>3. ASSUME NEW k \in 0..(n - 1), PeakAt(k), k <= Reach
          PROVE  index' <= k /\ k <= right'
      <3>1. best_idx - step <= k /\ k <= best_idx + step
        BY <2>1, <2>3, BestProbeIsNear
      <3> QED  BY <2>1, <2>2, <3>1 DEF LeftOf, RightOf
    <2>4. \A k \in 0..(n - 1) : (PeakAt(k)' <=> PeakAt(k)) /\ Reach' = Reach
      BY <2>1 DEF PeakAt, Reach, step, n_samples
    <2> QED  BY <2>1, <2>3, <2>4 DEF Searched
  <1>5. CASE SearchFine
    <2>1. search = "fine" /\ cache' = cache \cup {index} /\ UNCHANGED <<n, matches, search, right>>
          /\ index' = index + 1 /\ index \in Nat /\ n \in Nat
      BY <1>5 DEF SearchFine, Count, probed, SearchTypeOK
    <2>2. \A k \in 0..(n - 1) : (PeakAt(k)' <=> PeakAt(k)) /\ Reach' = Reach
      BY <2>1 DEF PeakAt, Reach, step, n_samples
    <2>3. ASSUME NEW k \in 0..(n - 1), PeakAt(k), k <= Reach
          PROVE  k \in cache' \/ (index' <= k /\ k <= right')
      <3>1. k \in cache \/ (index <= k /\ k <= right)
        BY <2>1, <2>3 DEF Searched
      <3> QED  BY <2>1, <3>1
    <2> QED  BY <2>1, <2>2, <2>3 DEF Searched
  <1>6. CASE Return
    <2>1. search = "fine" /\ index > right /\ search' = "done" /\ UNCHANGED <<n, matches, cache, index, right>>
          /\ index \in Nat /\ right \in Nat /\ n \in Nat
      BY <1>1, <1>6 DEF Return, probed, SearchTypeOK
    <2>2. \A k \in 0..(n - 1) : (PeakAt(k)' <=> PeakAt(k)) /\ Reach' = Reach
      BY <2>1 DEF PeakAt, Reach, step, n_samples
    <2>3. \A k \in 0..(n - 1) : PeakAt(k) /\ k <= Reach => k \in cache
      BY <2>1 DEF Searched
    <2> QED  BY <2>1, <2>2, <2>3 DEF Searched
  <1>7. CASE UNCHANGED searchVars
    <2>1. UNCHANGED <<search, n, matches, index, taken, right, cache>>
      BY <1>7 DEF searchVars, probed
    <2>2. step' = step /\ n_samples' = n_samples
      BY <2>1 DEF step, n_samples
    <2> QED  BY <2>1, <2>2 DEF Searched, Multiples, PeakAt, Reach
  <1> QED
    BY <1>2, <1>3, <1>4, <1>5, <1>6, <1>7 DEF SearchNext

-----------------------------------------------------------------------------
(* The answer.                                                             *)

\* What is searched are the files of one level, in order, and what is returned
\* is what the best of them says.
Listed ==
  /\ sig_files \subseteq Seq(STRING)
  /\ n = 0 \/ search # "done" => identified = <<>>
  /\ search # "listed" => n = Cardinality(Probed(sig_files, probe_opt))
  /\ n # 0 => ps \in Sorted(Probed(sig_files, probe_opt))
  /\ n # 0 /\ search = "done" => identified = <<parse_sig_filename(ps[best_idx + 1]).version>>
  /\ n # 0 /\ (\A j \in DOMAIN matches : matches[j] = matches[0]) => best_idx = 0

LEMMA ListedInits ==
  ASSUME NEW files, files \subseteq Seq(STRING), NEW opt, SearchStart(files, opt)
  PROVE  Listed
  BY DEF SearchStart, Listed

LEMMA ListedSteps ==
  ASSUME SearchTypeOK, BestSoFar, Searched, Listed, [SearchNext]_searchVars
  PROVE  Listed'
  <1>1. CASE GroupFiles
    <2>1. /\ search = "listed" /\ search' # "listed" /\ UNCHANGED <<sig_files, probe_opt, best_idx, identified>>
          /\ n' = Cardinality(Probed(sig_files, probe_opt)) /\ ps' \in Sorted(Probed(sig_files, probe_opt))
          /\ search' = IF Probed(sig_files, probe_opt) = {} THEN "done" ELSE "coarse"
      BY <1>1 DEF GroupFiles
    <2>2. n' = 0 <=> Probed(sig_files, probe_opt) = {}
      BY <2>1, ProbedAreFew DEF SearchTypeOK
    <2>3. best_idx = 0 /\ identified = <<>>
      BY <2>1 DEF BestSoFar, Searched, Listed
    <2> QED
      BY <2>1, <2>2, <2>3 DEF Listed
  <1>2. CASE ProbeSample \/ SearchFine
    <2>1. /\ search \in {"coarse", "fine"} /\ search' = search /\ UNCHANGED <<probed, identified>>
          /\ Count(index) /\ index \in Nat /\ n # 0
      BY <1>2 DEF ProbeSample, SearchFine, SearchTypeOK
    <2>2. index \in 0..(n - 1)
      BY <1>2, <2>1 DEF ProbeSample, SearchFine, SamplesLeft, SearchTypeOK
    <2>3. ASSUME \A j \in DOMAIN matches : matches[j] = matches[0] PROVE best_idx' = 0
      <3>1. best_idx = 0
        BY <2>1, <2>3 DEF Listed
      <3>2. CASE cache = {}
        BY <2>1, <3>1, <3>2 DEF BestSoFar, Count, Take
      <3>3. CASE cache # {}
        <4>1. best_count = matches[best_idx] /\ matches[index] = matches[0] /\ matches[0] \in 0..MaxMatches
          BY <2>1, <2>2, <2>3, <3>3 DEF BestSoFar, SearchTypeOK
        <4>2. ~(matches[index] > best_count)
          BY <3>1, <4>1, SearchAssumption
        <4> QED
          BY <2>1, <3>1, <4>2 DEF Count, Take
      <3> QED
        BY <3>2, <3>3
    <2> QED
      BY <2>1, <2>3 DEF Listed, probed
  <1>3. CASE StartFine
    BY <1>3 DEF StartFine, Listed, probed
  <1>4. CASE Return
    BY <1>4 DEF Return, Listed, probed, SearchTypeOK
  <1>5. CASE UNCHANGED searchVars
    BY <1>5 DEF searchVars, probed, Listed
  <1> QED
    BY <1>1, <1>2, <1>3, <1>4, <1>5 DEF SearchNext

\* A version is not newer than itself.
LEMMA NotNewer == ASSUME NEW v \in Seq(Nat) PROVE ~Newer(v, v)
  <1> SUFFICES ASSUME NEW k \in 1..Len(v), v[k] > v[k] PROVE FALSE
    BY DEF Newer
  <1>1. v[k] \in Nat
    OBVIOUS
  <1> QED
    BY <1>1

\* Searching names without their directories loses no version.
LEMMA LevelVersions ==
  ASSUME sig_files \subseteq Seq(STRING), NEW opt
  PROVE  {parse_sig_filename(f).version : f \in {g \in sig_files : parse_sig_filename(g).opt_level = opt}}
         = {parse_sig_filename(f).version : f \in WithOpt(sig_files, opt)}
  <1>1. \A g \in sig_files : parse_sig_filename(basename_of(g)) = parse_sig_filename(g)
    BY BasenameOnce
  <1> QED
    BY <1>1 DEF WithOpt

LEMMA FilesAreTexts ==
  ASSUME sig_files \subseteq Seq(STRING), NEW opt
  PROVE  WithOpt(sig_files, opt) \subseteq Seq(STRING)
  BY BasenameOf DEF WithOpt

LEMMA ListedAnswers ==
  ASSUME SearchTypeOK, Listed
  PROVE  AnswerIsListed
  <1> SUFFICES ASSUME search = "done" PROVE AnswerIsListed
    BY DEF AnswerIsListed
  <1> DEFINE levels == <<probe_opt, <<"0">>, <<"1">>, <<"2">>, <<"3">>>>
             Of(opt) == {parse_sig_filename(f).version :
                           f \in {g \in sig_files : parse_sig_filename(g).opt_level = opt}}
             known == {k \in 1..5 : levels[k] \in OptLevels /\ Of(levels[k]) # {}}
             present == {k \in 1..5 : levels[k] \in OptLevels /\ WithOpt(sig_files, levels[k]) # {}}
             files == Probed(sig_files, probe_opt)
  <1>1. \A opt : Of(opt) = {parse_sig_filename(f).version : f \in WithOpt(sig_files, opt)}
    BY LevelVersions DEF Listed
  <1>2. known = present
    <2>1. ASSUME NEW opt PROVE Of(opt) # {} <=> WithOpt(sig_files, opt) # {}
      <3>1. Of(opt) = {parse_sig_filename(f).version : f \in WithOpt(sig_files, opt)}
        BY <1>1
      <3> HIDE DEF Of
      <3>2. ASSUME NEW f \in WithOpt(sig_files, opt) PROVE parse_sig_filename(f).version \in Of(opt)
        BY <3>1
      <3>3. ASSUME NEW v \in Of(opt) PROVE \E f \in WithOpt(sig_files, opt) : TRUE
        BY <3>1
      <3> QED
        BY <3>2, <3>3
    <2> HIDE DEF Of, levels
    <2> QED
      BY <2>1
  <1>3. /\ present = {} => files = {}
        /\ present # {} => \E k \in present : (\A l \in present : k <= l) /\ files = WithOpt(sig_files, levels[k])
    BY ProbedLevel
  <1>4. n = Cardinality(files) /\ (n = 0 <=> files = {}) /\ n \in Nat
    BY ProbedAreFew DEF Listed, SearchTypeOK
  <1>5. CASE known = {}
    <2>1. identified = <<>>
      BY <1>2, <1>3, <1>4, <1>5 DEF Listed
    <2> QED
      BY <1>5, <2>1 DEF AnswerIsListed
  <1>6. CASE known # {}
    <2>1. PICK k \in known : (\A l \in known : k <= l) /\ files = WithOpt(sig_files, levels[k])
      BY <1>2, <1>3, <1>6
    <2> HIDE DEF levels, Of
    <2>2. files # {} /\ n # 0 /\ n \in Nat /\ files \subseteq Seq(STRING)
      <3>1. Of(levels[k]) # {}
        BY <2>1
      <3>2. files # {}
        BY <1>1, <2>1, <3>1
      <3>3. files \subseteq Seq(STRING)
        BY <2>1, FilesAreTexts DEF Listed
      <3> QED
        BY <1>4, <3>2, <3>3
    <2> HIDE DEF files, known, present
    <2> DEFINE version_of == [f \in files |-> parse_sig_filename(f).version]
    <2>3. /\ ps \in [1..n -> files] /\ files \subseteq {ps[j] : j \in DOMAIN ps}
          /\ \A j, l \in DOMAIN ps : j < l => ~Newer(version_of[ps[l]], version_of[ps[j]])
      <3>1. ps \in Sorted(files)
        BY <2>2 DEF Listed, files
      <3> QED
        BY <1>4, <3>1 DEF Sorted
    <2>4. best_idx + 1 \in 1..n /\ identified = <<parse_sig_filename(ps[best_idx + 1]).version>>
      BY <2>2 DEF SearchTypeOK, Listed
    <2>5. ps[best_idx + 1] \in files
      BY <2>3, <2>4
    <2>6. identified # <<>> /\ identified[1] \in Of(levels[k])
      BY <1>1, <2>1, <2>4, <2>5
    <2>7. ASSUME \A j \in DOMAIN matches : matches[j] = matches[0], NEW v \in Of(levels[k])
          PROVE  ~Newer(v, identified[1])
      <3>1. best_idx = 0
        BY <2>2, <2>7 DEF Listed
      <3>2. PICK f \in files : v = parse_sig_filename(f).version
        BY <1>1, <2>1
      <3>3. PICK j \in 1..n : f = ps[j]
        BY <2>3
      <3>4. identified[1] = version_of[ps[1]] /\ v = version_of[ps[j]]
        BY <2>4, <2>5, <3>1, <3>2, <3>3
      <3>5. CASE j = 1
        <4>1. v = identified[1] /\ v \in Seq(Nat)
          BY <2>2, <3>2, <3>4, <3>5, VersionTyped
        <4> QED
          BY <4>1, NotNewer
      <3>6. CASE j # 1
        <4>1. 1 \in DOMAIN ps /\ j \in DOMAIN ps /\ 1 < j
          BY <2>2, <2>3, <3>3, <3>6
        <4> HIDE DEF version_of
        <4> QED
          BY <2>3, <3>4, <4>1
      <3> QED
        BY <3>5, <3>6
    <2>8. \E l \in known :
            /\ \A m \in known : l <= m
            /\ identified # <<>> /\ identified[1] \in Of(levels[l])
            /\ (\A j \in DOMAIN matches : matches[j] = matches[0]) => \A v \in Of(levels[l]) : ~Newer(v, identified[1])
      BY <2>1, <2>6, <2>7
    <2> QED
      BY <1>6, <2>8 DEF AnswerIsListed, known, levels, Of
  <1> HIDE DEF known
  <1> QED
    BY <1>5, <1>6

-----------------------------------------------------------------------------
(* Both strategies.                                                        *)

ChoiceInv == ChoiceTypeOK /\ PassedOver /\ (scan = "known" => Decided) /\ BestOverlap
SearchInv == SearchTypeOK /\ BestSoFar /\ Searched /\ Listed

LEMMA Inits == Init => ChoiceInv /\ SearchInv
  <1> SUFFICES ASSUME Init PROVE ChoiceInv /\ SearchInv
    OBVIOUS
  <1>1. ASSUME ChoiceInit PROVE ChoiceInv
    <2>1. scan # "known"
      BY <1>1 DEF ChoiceInit, ChoiceStart
    <2> QED
      BY <1>1, <2>1, ChoiceInits, BestInits DEF ChoiceInv
  <1>2. ASSUME NEW files, NEW opt, SearchStart(files, opt), IsFiniteSet(files), files \subseteq Seq(STRING) PROVE SearchInv
    BY <1>2, SearchInits, SearchedInits, ListedInits DEF SearchInv
  <1>3. CASE strategy = "strings" /\ ChoiceInit /\ SearchStart({}, <<>>)
    BY <1>1, <1>2, <1>3, FS_EmptySet
  <1>4. CASE strategy = "flirt" /\ SearchInit /\ ChoiceStart(<<>>, <<>>)
    <2>1. SearchInv
      BY <1>2, <1>4, SearchAssumption DEF SearchInit
    <2>2. ChoiceInv
      <3>1. ChoiceTypeOK /\ PassedOver /\ scan # "known"
        BY <1>4 DEF ChoiceStart, ChoiceTypeOK, PassedOver
      <3>2. BestOverlap
        BY <1>4, ChoiceAssumption DEF ChoiceStart, BestOverlap, NoVersion
      <3> QED
        BY <3>1, <3>2 DEF ChoiceInv
    <2> QED
      BY <2>1, <2>2
  <1> QED
    BY <1>3, <1>4 DEF Init

LEMMA Steps == ChoiceInv /\ SearchInv /\ [Next]_vars => ChoiceInv' /\ SearchInv'
  <1> SUFFICES ASSUME ChoiceInv, SearchInv, [Next]_vars PROVE ChoiceInv' /\ SearchInv'
    OBVIOUS
  <1>1. [ChoiceNext]_choiceVars /\ [SearchNext]_searchVars
    BY DEF Next, vars
  <1>2. ChoiceInv'
    <2>1. BestOverlap'
      BY <1>1, BestSteps DEF ChoiceInv
    <2>2. CASE ChoiceNext
      BY <2>1, <2>2, ChoiceSteps DEF ChoiceInv
    <2>3. CASE UNCHANGED choiceVars
      <3>1. ChoiceTypeOK' /\ PassedOver'
        BY <2>3 DEF choiceVars, text, ChoiceInv, ChoiceTypeOK, PassedOver, FirstCommit, LinesFor
      <3>2. scan' = "known" => Decided'
        BY <2>3 DEF choiceVars, text, ChoiceInv, Decided, ByCommit, NotByCommit, ByRustc, NotByRustc, ByDash, NotByDash,
                    FirstCommit, LinesFor
      <3> QED
        BY <2>1, <3>1, <3>2 DEF ChoiceInv
    <2> QED
      BY <1>1, <2>2, <2>3
  <1>3. SearchInv'
    BY <1>1, SearchSteps, SearchedSteps, ListedSteps DEF SearchInv
  <1> QED
    BY <1>2, <1>3

\* For any strings and any table: the first commit that the table knows decides,
\* then the first "rustc X.Y.Z", then the first "rust-X.Y.Z".
THEOREM StringsDecideInOrder == Spec => []StringsDecide
  <1>1. ChoiceInv => StringsDecide
    BY DecidedInOrder DEF ChoiceInv, StringsDecide
  <1> QED
    BY <1>1, Inits, Steps, PTL DEF Spec

\* For any candidates and any lists: there is no version only if no candidate
\* lists a name of the binary.
THEOREM NulloptOnlyIfDisjoint == Spec => []NulloptIffDisjoint
  <1>1. ChoiceInv => NulloptIffDisjoint
    BY BestIsPicked DEF ChoiceInv
  <1> QED
    BY <1>1, Inits, Steps, PTL DEF Spec

\* For any candidates and any lists without repetitions: no candidate shares
\* more names with the binary, and none before it as many.
THEOREM PickSharesMost == Spec => []SharesMostIfListedOnce
  <1>1. ChoiceInv => SharesMostIfListedOnce
    BY BestIsPicked DEF ChoiceInv
  <1> QED
    BY <1>1, Inits, Steps, PTL DEF Spec

\* However the samples fall, the result is the best of the versions counted.
THEOREM SearchReturnsBest == Spec => [](SearchTypeOK /\ BestOfCounted)
  <1>1. SearchInv => SearchTypeOK /\ BestOfCounted
    BY DEF SearchInv, BestSoFar, BestOfCounted
  <1> QED
    BY <1>1, Inits, Steps, PTL DEF Spec

\* For any number of versions: a peak that lies within reach of the samples is
\* the version that is returned, though most are never counted.
THEOREM PeakIsFound == Spec => []PeakInReachFound
  <1>1. SearchInv => PeakInReachFound
    <2> SUFFICES ASSUME SearchTypeOK, BestSoFar, Searched, search = "done",
                        NEW k \in 0..(n - 1), PeakAt(k), k <= Reach
                 PROVE  best_idx = k
      BY DEF SearchInv, PeakInReachFound
    <2>1. k \in cache /\ n \in Nat \ {0}
      BY DEF Searched, SearchTypeOK
    <2>2. /\ best_idx \in 0..(n - 1) /\ matches[k] <= matches[best_idx]
          /\ \A j \in 0..(n - 1) : matches[j] \in Nat
      BY <2>1, SearchAssumption DEF BestSoFar, SearchTypeOK
    <2> QED
      BY <2>1, <2>2 DEF PeakAt
  <1> QED
    BY <1>1, Inits, Steps, PTL DEF Spec

\* For any files, whatever their names: the answer is the version of a listed
\* file of the right level, the newest if the counts tell nothing, and there is
\* one unless no file names a level.
THEOREM ListedIsAnswered == Spec => []AnswerIsListed
  <1>1. SearchInv => AnswerIsListed
    BY ListedAnswers DEF SearchInv
  <1> QED
    BY <1>1, Inits, Steps, PTL DEF Spec
=============================================================================
