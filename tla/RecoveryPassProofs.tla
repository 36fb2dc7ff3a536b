------------------------- MODULE RecoveryPassProofs -------------------------
(***************************************************************************)
(* Recovery passes over any number of functions, names and prototypes, for *)
(* every database of every version, and with whatever types users give:    *)
(* what a pass applies, passes with that database leave; it is the own     *)
(* prototype of a function that the file lists; and a pass misses no       *)
(* function it can name.                                                   *)
(* The comments at calls leave all of this as it is, and are there.        *)
(***************************************************************************)
EXTENDS IdiomComments, WellFoundedInduction, TLAPS

USE PassAssumption

\* A type that a database gave is the single prototype of the name there, or
\* the only one with the count of arguments last taken for the function.
TypesFounded ==
  \A a \in Funcs : tinfo[a] # NoSig /\ given[a] # NoDatabase =>
    \/ tinfo[a] \in Single(given[a], is[a])
    \/ tinfo[a] \in Chosen(given[a], is[a], ArgCount[tinfo[a]]) /\ inferred[a] = ArgCount[tinfo[a]]

Shown(a) == before[a] \in {"mangled", "plain"}

\* The functions behind the loop of rename_functions are grouped and marked,
\* those before it are as they were.
RenameProgress ==
  phase = "rename" =>
    \A a \in Funcs :
      /\ a \in left => form[a] = before[a]
      /\ a \notin left /\ Shown(a) =>
           a \in by_demangled[is[a]] /\ (is[a] \in NoReturns => a \in noret)

\* The functions behind the loop of apply_type_db have their single prototype,
\* or were refused it.
TypesProgress ==
  phase = "types" =>
    /\ db = NoDatabase => left = {}
    /\ \A a \in Funcs : Shown(a) =>
         /\ is[a] \in NoReturns => a \in noret
         /\ db # NoDatabase /\ a \notin left /\ a \notin refused =>
              \A s \in Single(db, is[a]) \cap Parsable : tinfo[a] = s

PassInv == TypeOK /\ TypesFounded /\ RenameProgress /\ TypesProgress

LEMMA PassInit == Init => PassInv
  <1> SUFFICES ASSUME Init PROVE PassInv
    OBVIOUS
  <1>1. form \in [Funcs -> Forms]
    BY DEF Init, Forms
  <1>2. /\ tinfo \in [Funcs -> Sigs \cup {NoSig}]
        /\ by_demangled \in [Names -> SUBSET Funcs]
        /\ inferred \in [Funcs -> {Unknown} \cup Nat]
        /\ given \in [Funcs -> Databases \cup {NoDatabase}]
    BY DEF Init
  <1>3. passes \in 0..MaxPasses
    BY DEF Init
  <1>4. TypeOK
    BY <1>1, <1>2, <1>3 DEF Init, TypeOK
  <1> QED
    BY <1>4 DEF Init, PassInv, TypesFounded, RenameProgress, TypesProgress

\* Names, flags and types as they were, the loops elsewhere.
LEMMA BeginPass == ASSUME PassInv, run_recovery PROVE PassInv'
  <1>1. UNCHANGED <<is, truth, form, noret, reanalyzed, tinfo, inferred, given>>
    BY DEF run_recovery, program, names
  <1>2. TypeOK'
    BY <1>1 DEF run_recovery, PassInv, TypeOK, UniqueNames, Owners
  <1>3. TypesFounded'
    BY <1>1 DEF PassInv, TypesFounded, Kept, Single, Chosen
  <1>4. phase' = "rename" /\ left' = Funcs /\ before' = form
    BY DEF run_recovery
  <1>5. RenameProgress' /\ TypesProgress'
    BY <1>1, <1>4 DEF RenameProgress, TypesProgress
  <1> QED
    BY <1>2, <1>3, <1>5 DEF PassInv

LEMMA RenameKeeps == ASSUME PassInv, rename_function PROVE PassInv'
  <1>1. PICK a \in left :
          /\ IF form[a] = "mangled" THEN SetName(a) ELSE UNCHANGED form
          /\ Group(a) /\ MarkNoReturn(a) /\ left' = left \ {a}
    BY DEF rename_function
  <1>2. /\ UNCHANGED <<is, truth, db, tinfo, inferred, given, refused, phase, before, interactive, passes>>
        /\ phase = "rename" /\ a \in Funcs /\ form[a] = before[a] /\ form[a] \in Forms
    BY <1>1 DEF rename_function, program, types, PassInv, TypeOK, RenameProgress
  <1>3. /\ form' \in [Funcs -> Forms] /\ \A b \in Funcs : b # a => form'[b] = form[b]
        /\ UniqueNames'
    <2>1. CASE UNCHANGED form
      BY <1>2, <2>1 DEF PassInv, TypeOK, UniqueNames, Owners
    <2>2. CASE form' = [form EXCEPT ![a] = IF Owners(is[a]) = {} THEN "plain" ELSE "suffixed"]
      <3>1. \A b \in Funcs : form'[b] =
              IF b = a THEN (IF Owners(is[a]) = {} THEN "plain" ELSE "suffixed") ELSE form[b]
        BY <2>2 DEF PassInv, TypeOK
      <3>2. form' \in [Funcs -> Forms]
        BY <2>2 DEF PassInv, TypeOK, Forms
      <3>3. ASSUME NEW n \in Names, NEW b \in Owners(n)', NEW c \in Owners(n)' PROVE b = c
        <4>1. b \in Funcs /\ c \in Funcs /\ is[b] = n /\ is[c] = n /\ form'[b] = "plain" /\ form'[c] = "plain"
          BY <1>2, <3>3 DEF Owners
        <4>2. CASE b # a /\ c # a
          BY <3>1, <4>1, <4>2 DEF PassInv, TypeOK, UniqueNames, Owners
        <4>3. CASE b = a \/ c = a
          <5>1. Owners(is[a]) = {} /\ is[a] = n
            BY <3>1, <4>1, <4>3
          <5> QED
            BY <3>1, <4>1, <5>1 DEF Owners
        <4> QED
          BY <4>2, <4>3
      <3> QED
        BY <3>1, <3>2, <3>3 DEF UniqueNames
    <2> QED
      BY <1>1, <2>1, <2>2 DEF SetName
  <1>4. /\ noret \subseteq noret' /\ noret' \subseteq Funcs /\ reanalyzed' \subseteq noret'
        /\ Shown(a) /\ is[a] \in NoReturns => a \in noret'
    BY <1>1, <1>2 DEF MarkNoReturn, Demangles, Shown, PassInv, TypeOK
  <1>5. /\ by_demangled' \in [Names -> SUBSET Funcs]
        /\ \A n \in Names : by_demangled[n] \subseteq by_demangled'[n]
        /\ Shown(a) => a \in by_demangled'[is[a]]
    <2>1. is[a] \in Names /\ by_demangled \in [Names -> SUBSET Funcs]
      BY <1>2 DEF PassInv, TypeOK
    <2> QED
      BY <1>1, <1>2, <2>1 DEF Group, Demangles, Shown
  <1>6. TypeOK'
    BY <1>1, <1>2, <1>3, <1>4, <1>5 DEF PassInv, TypeOK
  <1>7. TypesFounded'
    BY <1>2 DEF PassInv, TypesFounded, Kept, Single, Chosen
  <1>8. RenameProgress'
    BY <1>1, <1>2, <1>3, <1>4, <1>5 DEF PassInv, RenameProgress, Shown, TypeOK
  <1> QED
    BY <1>2, <1>6, <1>7, <1>8 DEF PassInv, TypesProgress

LEMMA RenameEndKeeps == ASSUME PassInv, RenameEnds PROVE PassInv'
  <1>1. /\ UNCHANGED <<is, truth, db, form, noret, reanalyzed, tinfo, inferred, given, refused, before,
                       by_demangled, interactive, passes>>
        /\ phase = "rename" /\ left = {} /\ phase' = "types"
        /\ left' = IF db = NoDatabase THEN {} ELSE UNION {by_demangled[n] : n \in Names}
    BY DEF RenameEnds, program, names, types
  <1>2. \A a \in Funcs :
          Shown(a) => (is[a] \in NoReturns => a \in noret) /\ (db # NoDatabase => a \in left')
    BY <1>1 DEF PassInv, RenameProgress, TypeOK
  <1>3. TypeOK'
    BY <1>1 DEF PassInv, TypeOK, UniqueNames, Owners
  <1>4. TypesFounded'
    BY <1>1 DEF PassInv, TypesFounded, Kept, Single, Chosen
  <1> QED
    BY <1>1, <1>2, <1>3, <1>4 DEF PassInv, RenameProgress, TypesProgress, Shown

\* What apply_tinfo makes of a prototype that is single, or chosen by the count
\* that has just been taken.
LEMMA ApplyStep ==
  ASSUME PassInv, NEW a \in Funcs, NEW s \in Kept(db, is[a]), Apply(a, s), UNCHANGED <<is, db>>,
         inferred' \in [Funcs -> {Unknown} \cup Nat],
         \A b \in Funcs : b # a => inferred'[b] = inferred[b],
         \/ s \in Single(db, is[a]) /\ inferred'[a] = inferred[a]
         \/ s \in Chosen(db, is[a], ArgCount[s]) /\ inferred'[a] = ArgCount[s],
         db \in Databases,
         tinfo[a] # NoSig => inferred'[a] \in {inferred[a], ArgCount[tinfo[a]]}
  PROVE  /\ tinfo' \in [Funcs -> Sigs \cup {NoSig}] /\ given' \in [Funcs -> Databases \cup {NoDatabase}]
         /\ refused \subseteq refused' /\ refused' \subseteq Funcs
         /\ \A b \in Funcs : b # a => tinfo'[b] = tinfo[b] /\ given'[b] = given[b]
         /\ tinfo'[a] # tinfo[a] => tinfo'[a] = s
         /\ s \in Parsable /\ a \notin refused' => tinfo'[a] = s
         /\ TypesFounded'
  <1>1. /\ tinfo \in [Funcs -> Sigs \cup {NoSig}] /\ given \in [Funcs -> Databases \cup {NoDatabase}]
        /\ TypesFounded /\ s \in Sigs /\ refused \subseteq Funcs
    BY DEF PassInv, TypeOK, Kept
  <1>2. \A d, n, k : Single(d, n)' = Single(d, n) /\ Chosen(d, n, k)' = Chosen(d, n, k)
    BY DEF Single, Chosen, Kept
  <1>3. CASE UNCHANGED <<tinfo, given>>
    <2>1. ASSUME NEW b \in Funcs, tinfo[b] # NoSig, given[b] # NoDatabase
          PROVE  \/ tinfo[b] \in Single(given[b], is[b])
                 \/ /\ tinfo[b] \in Chosen(given[b], is[b], ArgCount[tinfo[b]])
                    /\ inferred'[b] = ArgCount[tinfo[b]]
      BY <1>1, <2>1 DEF TypesFounded
    <2>2. TypesFounded'
      BY <1>2, <1>3, <2>1 DEF TypesFounded
    <2> QED
      BY <1>1, <1>3, <2>2 DEF Apply
  <1>4. CASE /\ tinfo' = [tinfo EXCEPT ![a] = s] /\ given' = [given EXCEPT ![a] = db]
             /\ UNCHANGED refused
    <2>1. \A b \in Funcs : /\ tinfo'[b] = IF b = a THEN s ELSE tinfo[b]
                           /\ given'[b] = IF b = a THEN db ELSE given[b]
      BY <1>1, <1>4
    <2>2. TypesFounded'
      BY <1>1, <1>2, <2>1 DEF TypesFounded
    <2> QED
      BY <1>1, <1>4, <2>1, <2>2
  <1> QED
    BY <1>3, <1>4 DEF Apply

\* What becomes of one function in the loop of apply_type_db.  A type it has
\* is the one that its count of arguments stands for.
LEMMA PrototypeStep ==
  ASSUME PassInv, NEW a \in Funcs, ApplySingle(a) \/ Negotiate(a) \/ Unlisted(a),
         UNCHANGED <<is, db>>, db # NoDatabase
  PROVE  /\ tinfo' \in [Funcs -> Sigs \cup {NoSig}] /\ given' \in [Funcs -> Databases \cup {NoDatabase}]
         /\ inferred' \in [Funcs -> {Unknown} \cup Nat]
         /\ refused \subseteq refused' /\ refused' \subseteq Funcs
         /\ \A b \in Funcs : b # a => tinfo'[b] = tinfo[b] /\ given'[b] = given[b]
         /\ tinfo[a] # NoSig /\ tinfo'[a] # tinfo[a] =>
              /\ given[a] # db
              /\ tinfo'[a] \in Single(db, is[a]) \/ ArgCount[tinfo'[a]] = ArgCount[tinfo[a]]
         /\ \A s \in Single(db, is[a]) \cap Parsable : a \in refused' \/ tinfo'[a] = s
         /\ TypesFounded'
  <1>1. /\ tinfo \in [Funcs -> Sigs \cup {NoSig}] /\ inferred \in [Funcs -> {Unknown} \cup Nat]
        /\ given \in [Funcs -> Databases \cup {NoDatabase}] /\ refused \subseteq Funcs
        /\ TypesFounded /\ db \in Databases
    BY DEF PassInv, TypeOK
  <1>2. \A d, n, k : Single(d, n)' = Single(d, n) /\ Chosen(d, n, k)' = Chosen(d, n, k)
    BY DEF Single, Chosen, Kept
  <1>3. \A s \in Sigs : ArgCount[s] \in Nat
    BY PassAssumption
  <1>4. CASE ApplySingle(a)
    <2>1. PICK s \in Single(db, is[a]) : Apply(a, s)
      BY <1>4 DEF ApplySingle
    <2>2. s \in Kept(db, is[a]) /\ \A t \in Kept(db, is[a]) : t = s
      BY <2>1 DEF Single
    <2>3. inferred' = inferred
      BY <1>4 DEF ApplySingle
    <2>4. /\ tinfo' \in [Funcs -> Sigs \cup {NoSig}] /\ given' \in [Funcs -> Databases \cup {NoDatabase}]
          /\ refused \subseteq refused' /\ refused' \subseteq Funcs
          /\ \A b \in Funcs : b # a => tinfo'[b] = tinfo[b] /\ given'[b] = given[b]
          /\ tinfo'[a] # tinfo[a] => tinfo'[a] = s
          /\ s \in Parsable /\ a \notin refused' => tinfo'[a] = s
          /\ TypesFounded'
      BY <1>1, <2>1, <2>2, <2>3, ApplyStep
    <2>5. tinfo[a] # NoSig /\ given[a] = db => tinfo[a] = s
      BY <1>1, <2>2 DEF TypesFounded, Single, Chosen
    <2> QED
      BY <1>1, <2>1, <2>2, <2>3, <2>4, <2>5 DEF Single
  <1>5. CASE Negotiate(a)
    <2>1. PICK nargs \in inferred_argcount(a) :
            /\ inferred' = [inferred EXCEPT ![a] = nargs]
            /\ \/ \E s \in Chosen(db, is[a], nargs) : Apply(a, s)
               \/ Chosen(db, is[a], nargs) = {} /\ UNCHANGED <<tinfo, given, refused>>
      BY <1>5 DEF Negotiate
    <2>2. Single(db, is[a]) = {}
      BY <1>5 DEF Negotiate
    <2>3. nargs \in {Unknown} \cup Nat /\ (tinfo[a] # NoSig => nargs = ArgCount[tinfo[a]])
      <3>1. tinfo[a] # NoSig => tinfo[a] \in Sigs
        BY <1>1
      <3> QED
        BY <1>3, <2>1, <3>1 DEF inferred_argcount
    <2>4. /\ inferred' \in [Funcs -> {Unknown} \cup Nat]
          /\ \A b \in Funcs : inferred'[b] = IF b = a THEN nargs ELSE inferred[b]
      BY <1>1, <2>1, <2>3
    <2>5. CASE UNCHANGED <<tinfo, given, refused>>
      <3>1. TypesFounded'
        BY <1>1, <1>2, <2>3, <2>4, <2>5 DEF TypesFounded
      <3> QED
        BY <1>1, <2>2, <2>4, <2>5, <3>1
    <2>6. ASSUME NEW s \in Chosen(db, is[a], nargs), Apply(a, s)
          PROVE  /\ tinfo' \in [Funcs -> Sigs \cup {NoSig}] /\ given' \in [Funcs -> Databases \cup {NoDatabase}]
                 /\ refused \subseteq refused' /\ refused' \subseteq Funcs
                 /\ \A b \in Funcs : b # a => tinfo'[b] = tinfo[b] /\ given'[b] = given[b]
                 /\ tinfo[a] # NoSig /\ tinfo'[a] # tinfo[a] =>
                      given[a] # db /\ ArgCount[tinfo'[a]] = ArgCount[tinfo[a]]
                 /\ TypesFounded'
      <3>1. /\ s \in Kept(db, is[a]) /\ ArgCount[s] = nargs /\ s \in Chosen(db, is[a], ArgCount[s])
            /\ \A t \in Kept(db, is[a]) : ArgCount[t] = nargs => t = s
        BY <2>6 DEF Chosen
      <3>2. \A b \in Funcs : b # a => inferred'[b] = inferred[b]
        BY <2>4
      <3>3. inferred'[a] = ArgCount[s]
        BY <2>4, <3>1
      <3>4. tinfo[a] # NoSig => inferred'[a] \in {inferred[a], ArgCount[tinfo[a]]}
        BY <2>3, <2>4
      <3>5. /\ tinfo' \in [Funcs -> Sigs \cup {NoSig}] /\ given' \in [Funcs -> Databases \cup {NoDatabase}]
            /\ refused \subseteq refused' /\ refused' \subseteq Funcs
            /\ \A b \in Funcs : b # a => tinfo'[b] = tinfo[b] /\ given'[b] = given[b]
            /\ tinfo'[a] # tinfo[a] => tinfo'[a] = s
            /\ TypesFounded'
        BY <1>1, <2>4, <2>6, <3>1, <3>2, <3>3, <3>4, ApplyStep
      <3>6. tinfo[a] # NoSig /\ given[a] = db => tinfo[a] = s
        BY <1>1, <2>2, <2>3, <3>1 DEF TypesFounded, Chosen
      <3> QED
        BY <2>3, <3>1, <3>5, <3>6
    <2> QED
      BY <2>1, <2>2, <2>4, <2>5, <2>6
  <1>6. CASE Unlisted(a)
    <2>1. UNCHANGED <<tinfo, inferred, given, refused>> /\ Single(db, is[a]) = {}
      BY <1>6 DEF Unlisted, types, Single
    <2>2. TypesFounded'
      BY <1>1, <1>2, <2>1 DEF TypesFounded
    <2> QED
      BY <1>1, <2>1, <2>2
  <1> QED
    BY <1>4, <1>5, <1>6

LEMMA ApplyKeeps == ASSUME PassInv, apply_prototype PROVE PassInv'
  <1>1. PICK a \in left : (ApplySingle(a) \/ Negotiate(a) \/ Unlisted(a)) /\ left' = left \ {a}
    BY DEF apply_prototype
  <1>2. /\ UNCHANGED <<is, truth, db, form, noret, reanalyzed, phase, interactive,
                       by_demangled, before, passes>>
        /\ phase = "types" /\ a \in Funcs /\ db # NoDatabase
    BY <1>1 DEF apply_prototype, program, names, PassInv, TypeOK, TypesProgress
  <1>3. /\ tinfo' \in [Funcs -> Sigs \cup {NoSig}] /\ given' \in [Funcs -> Databases \cup {NoDatabase}]
        /\ inferred' \in [Funcs -> {Unknown} \cup Nat]
        /\ refused \subseteq refused' /\ refused' \subseteq Funcs
        /\ \A b \in Funcs : b # a => tinfo'[b] = tinfo[b]
        /\ \A s \in Single(db, is[a]) \cap Parsable : a \in refused' \/ tinfo'[a] = s
        /\ TypesFounded'
    BY <1>1, <1>2, PrototypeStep
  <1>4. TypeOK'
    BY <1>1, <1>2, <1>3 DEF PassInv, TypeOK, UniqueNames, Owners
  <1>5. TypesProgress'
    <2>1. \A n : Single(db, n)' = Single(db, n)
      BY <1>2 DEF Single, Kept
    <2>2. \A b \in Funcs : Shown(b)' = Shown(b)
      BY <1>2 DEF Shown
    <2> QED
      BY <1>1, <1>2, <1>3, <2>1, <2>2 DEF PassInv, TypesProgress
  <1> QED
    BY <1>2, <1>3, <1>4, <1>5 DEF PassInv, RenameProgress

LEMMA OtherKeeps ==
  ASSUME PassInv, PassEnds \/ (\E a \in Funcs : FlirtNames(a) \/ UserTypes(a)) \/ UNCHANGED vars
  PROVE  PassInv'
  <1>1. CASE PassEnds
    <2>1. UNCHANGED <<is, truth, db, form, noret, reanalyzed, tinfo, inferred, given, refused, before, left,
                      by_demangled, interactive, passes>> /\ phase' = "idle"
      BY <1>1 DEF PassEnds, program, names, types
    <2>2. TypeOK'
      BY <2>1 DEF PassInv, TypeOK, UniqueNames, Owners
    <2> QED
      BY <2>1, <2>2 DEF PassInv, TypesFounded, Kept, Single, Chosen, RenameProgress, TypesProgress
  <1>2. ASSUME NEW a \in Funcs, FlirtNames(a) PROVE PassInv'
    <2>1. /\ UNCHANGED <<is, truth, db, noret, reanalyzed, tinfo, inferred, given, refused, phase, before,
                         left, by_demangled, interactive, passes>>
          /\ phase = "idle" /\ form' = [form EXCEPT ![a] = "mangled"]
      BY <1>2 DEF FlirtNames, program, pass, types
    <2>2. form' \in [Funcs -> Forms] /\ \A n \in Names : Owners(n)' \subseteq Owners(n)
      BY <2>1 DEF PassInv, TypeOK, Forms, Owners
    <2>3. TypeOK'
      BY <2>1, <2>2 DEF PassInv, TypeOK, UniqueNames
    <2> QED
      BY <2>1, <2>3 DEF PassInv, TypesFounded, Kept, Single, Chosen, RenameProgress, TypesProgress
  <1>3. ASSUME NEW a \in Funcs, UserTypes(a) PROVE PassInv'
    <2>1. /\ UNCHANGED <<is, truth, db, form, noret, reanalyzed, inferred, refused, phase, before,
                         left, by_demangled, interactive, passes>>
          /\ phase = "idle" /\ given' = [given EXCEPT ![a] = NoDatabase]
      BY <1>3 DEF UserTypes, program, pass, names
    <2>2. PICK s \in Sigs \cup {NoSig} : tinfo' = [tinfo EXCEPT ![a] = s]
      BY <1>3 DEF UserTypes
    <2>3. TypeOK'
      BY <2>1, <2>2 DEF PassInv, TypeOK, UniqueNames, Owners
    <2>4. /\ given'[a] = NoDatabase
          /\ \A b \in Funcs : b # a => tinfo'[b] = tinfo[b] /\ given'[b] = given[b]
      BY <2>1, <2>2 DEF PassInv, TypeOK
    <2>5. \A d, n, k : Single(d, n)' = Single(d, n) /\ Chosen(d, n, k)' = Chosen(d, n, k)
      BY DEF Single, Chosen, Kept
    <2>6. TypesFounded'
      BY <2>1, <2>4, <2>5 DEF PassInv, TypesFounded
    <2> QED
      BY <2>1, <2>3, <2>6 DEF PassInv, RenameProgress, TypesProgress
  <1>4. CASE UNCHANGED vars
    <2>1. UNCHANGED <<is, truth, db, form, noret, reanalyzed, tinfo, inferred, given, refused, phase, before,
                      left, by_demangled, interactive, passes>>
      BY <1>4 DEF vars, program, names, types, pass
    <2>2. TypeOK'
      BY <2>1 DEF PassInv, TypeOK, UniqueNames, Owners
    <2> QED
      BY <2>1, <2>2 DEF PassInv, TypesFounded, Kept, Single, Chosen, RenameProgress,
           TypesProgress, Shown
  <1> QED
    BY <1>1, <1>2, <1>3, <1>4

LEMMA PassStep == PassInv /\ [Next]_vars => PassInv'
  BY BeginPass, RenameKeeps, RenameEndKeeps, ApplyKeeps, OtherKeeps DEF Next

THEOREM PassInvariant == Spec => []PassInv
  BY PassInit, PassStep, PTL DEF Spec
-----------------------------------------------------------------------------
\* The state of the passes keeps its type; the kernel's names stay unique.
THEOREM PassTyped == Spec => []TypeOK
  <1>1. PassInv => TypeOK
    BY DEF PassInv
  <1> QED
    BY <1>1, PassInvariant, PTL

\* Every function that showed its name when a pass began has the single
\* prototype of that name when the pass ends.
THEOREM AllTyped == Spec => []MatchedAreTyped
  <1>1. PassInv => MatchedAreTyped
    BY DEF PassInv, MatchedAreTyped, TypesProgress, Finished, Shown
  <1> QED
    BY <1>1, PassInvariant, PTL

\* Every function that showed a no-return name when a pass began is marked.
THEOREM AllMarked == Spec => []NoReturnMarked
  <1>1. PassInv => NoReturnMarked
    BY DEF PassInv, NoReturnMarked, TypesProgress, Finished, Shown
  <1> QED
    BY <1>1, PassInvariant, PTL

\* The prototype that a file gave a function it lists is the function's own,
\* unless the arguments were miscounted or an entry of the name was dropped.
THEOREM AppliedTrue == Spec => []AppliedIsTrue
  <1>1. PassInv => AppliedIsTrue
    <2> SUFFICES ASSUME PassInv, NEW a \in Funcs,
                        GivenByListed(a), ~Misjudged(a), Complete(given[a], is[a])
                 PROVE  tinfo[a] = truth[a]
      BY DEF AppliedIsTrue
    <2>1. /\ truth[a] \in Sigs /\ is[a] \in Names /\ tinfo[a] \in Sigs
          /\ given[a][is[a]][truth[a]] \in Entry
      BY PassAssumption DEF PassInv, TypeOK, GivenByListed
    <2>2. truth[a] \in Kept(given[a], is[a])
      BY <2>1 DEF GivenByListed, Complete, Kept, Entry
    <2>3. ArgCount[tinfo[a]] \in Nat /\ ArgCount[tinfo[a]] # Unknown
      BY <2>1 DEF Unknown
    <2> QED
      BY <2>2, <2>3 DEF PassInv, TypesFounded, GivenByListed, Misjudged, Single, Chosen
  <1> QED
    BY <1>1, PassInvariant, PTL

\* No pass changes a prototype that a pass with the same database applied; and
\* the count of arguments of any other only for the sole prototype of the name.
THEOREM TypesFinal == Spec => TypesStable
  <1> DEFINE Stays(a) ==
        phase = "types" /\ tinfo[a] # NoSig /\ tinfo'[a] # tinfo[a] =>
          /\ given[a] # db
          /\ tinfo'[a] \in Single(db, is[a]) \/ ArgCount[tinfo'[a]] = ArgCount[tinfo[a]]
  <1>1. PassInv /\ [Next]_vars => [\A a \in Funcs : Stays(a)]_vars
    <2> SUFFICES ASSUME PassInv, Next, NEW a \in Funcs PROVE Stays(a)
      OBVIOUS
    <2>1. CASE apply_prototype
      <3>1. PICK b \in left : ApplySingle(b) \/ Negotiate(b) \/ Unlisted(b)
        BY <2>1 DEF apply_prototype
      <3>2. b \in Funcs /\ UNCHANGED <<is, db>> /\ db # NoDatabase
        BY <2>1, <3>1 DEF apply_prototype, program, PassInv, TypeOK, TypesProgress
      <3> QED
        BY <3>1, <3>2, PrototypeStep
    <2>2. CASE ~apply_prototype
      BY <2>2 DEF Next, run_recovery, rename_function, RenameEnds, PassEnds, FlirtNames, UserTypes, types
    <2> QED
      BY <2>1, <2>2
  <1> QED
    BY <1>1, PassInvariant, PTL DEF Spec, TypesStable
-----------------------------------------------------------------------------
(* The comments at calls.                                                  *)

\* The first of a set of categories is one of them.
LEMMA FirstIn == ASSUME NEW cs, cs \subseteq Nat, cs # {} PROVE First(cs) \in cs
  <1>1. \E c \in cs : \A d \in cs : ~ <<d, c>> \in OpToRel(<, Nat)
    BY WFMin, NatLessThanWellFounded, Zenon
  <1>2. PICK c \in cs : \A d \in cs : ~ <<d, c>> \in OpToRel(<, Nat)
    BY <1>1, Zenon
  <1>3. \A d \in cs : ~ (d < c)
    BY <1>2, Zenon DEF OpToRel
  <1>4. \A d \in cs : c <= d
    BY <1>3
  <1> QED
    BY <1>4 DEF First

\* A name has an idiom of the table or none.
LEMMA ClassifyIn ==
  ASSUME NEW name, NEW whole \in BOOLEAN
  PROVE  classify(name, whole) \in {NoIdiom} \cup DOMAIN Categories
  <1> DEFINE exact(w) == {c \in 1..Len(Categories) : w /\ name \in Categories[c].exact}
             part == {c \in 1..Len(Categories) : Categories[c].substrings \cap Contained[name] # {}}
  <1>1. \A w \in BOOLEAN : exact(w) # {} => First(exact(w)) \in exact(w)
    BY FirstIn, TableAssumption
  <1>2. part # {} => First(part) \in part
    <2>1. part \subseteq Nat
      BY TableAssumption
    <2> HIDE DEF part
    <2> QED
      BY <2>1, FirstIn
  <1>3. \A w \in BOOLEAN :
          classify(name, w) =
            IF exact(w) # {} THEN First(exact(w)) ELSE IF part # {} THEN First(part) ELSE NoIdiom
    BY Zenon DEF classify
  <1>4. classify(name, whole) \in {NoIdiom} \cup 1..Len(Categories)
    <2>1. part \subseteq 1..Len(Categories) /\ \A w \in BOOLEAN : exact(w) \subseteq 1..Len(Categories)
      OBVIOUS
    <2> HIDE DEF part, exact
    <2> QED
      BY <1>1, <1>2, <1>3, <2>1
  <1> QED
    BY <1>4, TableAssumption

\* The hook is there as soon as a pass with Hex-Rays has ended, and the calls
\* it has seen since are commented.
CommentsInv == CommentsTypeOK /\ armed = installed /\ NoReturnCommented

LEMMA CommentsBegin == CommentsInit => CommentsInv
  <1> SUFFICES ASSUME CommentsInit PROVE CommentsInv
    OBVIOUS
  <1>1. 0 \in 0..Len(Categories) \cup {UserComment}
    BY TableAssumption
  <1>2. comment \in [DOMAIN CallIn -> 0..Len(Categories) \cup {UserComment}]
    BY <1>1 DEF CommentsInit, NoIdiom
  <1> QED
    BY <1>2 DEF CommentsInit, CommentsInv, CommentsTypeOK, NoReturnCommented

\* What the hook writes at a call is the idiom of what is called.
LEMMA CallbackKeeps ==
  ASSUME CommentsInv, NEW a \in DOMAIN CallIn, hexrays_callback(a),
         UNCHANGED <<form, is, hexrays, installed, armed>>
  PROVE  CommentsInv'
  <1> DEFINE c == CommentAt(a)
  <1>1. c \in {NoIdiom} \cup DOMAIN Categories
    BY ClassifyIn DEF CommentAt, comment_for
  <1>2. comment' \in [DOMAIN CallIn -> 0..Len(Categories) \cup {UserComment}]
    BY <1>1, TableAssumption DEF hexrays_callback, visit_expr, CommentsInv, CommentsTypeOK
  <1>3. \A b \in DOMAIN CallIn : b # a => comment'[b] = comment[b]
    BY DEF hexrays_callback, visit_expr, CommentsInv, CommentsTypeOK
  <1>4. current' = IF armed THEN current \cup {a} ELSE current
    BY DEF hexrays_callback
  <1>5. ~armed => comment' = comment
    BY DEF hexrays_callback, CommentsInv
  <1>6. ASSUME armed, form[CallIn[a]] \in {"mangled", "plain"}, is[CallIn[a]] \in NoReturns
        PROVE  \E d \in DOMAIN Categories : comment'[a] = d /\ Categories[d].noreturn
    <2>1. c = classify(is[CallIn[a]], TRUE)
      BY <1>6 DEF CommentAt, comment_for
    <2>2. c # NoIdiom /\ Categories[c].noreturn
      BY <1>6, <2>1, CommentsAssumption DEF is_noreturn
    <2>3. comment'[a] = c
      BY <1>6, <2>2 DEF hexrays_callback, visit_expr, CommentsInv, CommentsTypeOK
    <2> QED
      BY <1>1, <2>2, <2>3
  <1>7. NoReturnCommented'
    <2> SUFFICES ASSUME NEW b \in current', form[CallIn[b]] \in {"mangled", "plain"},
                        is[CallIn[b]] \in NoReturns
                 PROVE  \E d \in DOMAIN Categories : comment'[b] = d /\ Categories[d].noreturn
      BY DEF NoReturnCommented
    <2>1. CASE b = a /\ armed
      BY <1>6, <2>1
    <2>2. CASE ~(b = a /\ armed)
      <3>1. b \in current /\ b \in DOMAIN CallIn /\ comment'[b] = comment[b]
        BY <1>3, <1>4, <1>5, <2>2 DEF CommentsInv, CommentsTypeOK
      <3> QED
        BY <3>1 DEF CommentsInv, CommentsTypeOK, NoReturnCommented
    <2> QED
      BY <2>1, <2>2
  <1> QED
    BY <1>2, <1>4, <1>7 DEF CommentsInv, CommentsTypeOK

\* Names change, and a call of what has another name now is forgotten.
LEMMA CommentsStep == ASSUME CommentsInv, [CommentsNext]_commentVars PROVE CommentsInv'
  <1>1. CASE Rename
    <2>1. UNCHANGED <<is, hexrays, installed, armed, comment>> /\ current' = RenamedIn(current)
      BY <1>1 DEF Rename, rename_function, FlirtNames, program
    <2>2. current' \subseteq current /\ \A a \in current' : form'[CallIn[a]] = form[CallIn[a]]
      BY <2>1 DEF RenamedIn
    <2> QED
      BY <2>1, <2>2 DEF CommentsInv, CommentsTypeOK, NoReturnCommented
  <1>2. CASE Prototype
    <2>1. UNCHANGED <<form, is, hexrays, installed, armed>>
      BY <1>2 DEF Prototype, apply_prototype, program, names
    <2>2. CASE UNCHANGED <<comment, current>>
      BY <2>1, <2>2 DEF CommentsInv, CommentsTypeOK, NoReturnCommented
    <2>3. ASSUME NEW a \in left \ left', Decompiles(a), hexrays_callback(a) PROVE CommentsInv'
      BY <2>1, <2>3, CallbackKeeps DEF Decompiles
    <2> QED
      BY <1>2, <2>2, <2>3 DEF Prototype
  <1>3. CASE EndOfPass
    <2>1. UNCHANGED <<form, is, hexrays, comment, current>> /\ armed' = installed' /\ installed' \in BOOLEAN
      BY <1>3 DEF EndOfPass, PassEnds, install_idiom_hooks, program, names, CommentsInv, CommentsTypeOK
    <2> QED
      BY <2>1 DEF CommentsInv, CommentsTypeOK, NoReturnCommented
  <1>4. CASE BetweenSteps
    <2>1. UNCHANGED <<form, is, hexrays, comment, current, installed, armed>>
      BY <1>4 DEF BetweenSteps, comments, run_recovery, RenameEnds, UserTypes, program, names
    <2> QED
      BY <2>1 DEF CommentsInv, CommentsTypeOK, NoReturnCommented
  <1>5. ASSUME NEW a \in DOMAIN CallIn, Decompile(a) PROVE CommentsInv'
    <2>1. UNCHANGED <<form, is, hexrays, installed, armed>>
      BY <1>5 DEF Decompile, vars, program, names
    <2> QED
      BY <1>5, <2>1, CallbackKeeps DEF Decompile
  <1>6. ASSUME NEW a \in DOMAIN CallIn, UserComments(a) PROVE CommentsInv'
    <2>1. /\ UNCHANGED <<form, is, hexrays, installed, armed>> /\ current' = current \ {a}
          /\ comment' = [comment EXCEPT ![a] = UserComment]
      BY <1>6 DEF UserComments, vars, program, names
    <2> QED
      BY <2>1 DEF CommentsInv, CommentsTypeOK, NoReturnCommented
  <1>7. CASE LoadHexRays
    BY <1>7 DEF LoadHexRays, vars, program, names, CommentsInv, CommentsTypeOK, NoReturnCommented
  <1>8. CASE StartAgain
    BY <1>8 DEF StartAgain, vars, program, names, CommentsInv, CommentsTypeOK, NoReturnCommented
  <1>9. CASE UNCHANGED commentVars
    BY <1>9 DEF commentVars, comments, vars, program, names, CommentsInv, CommentsTypeOK, NoReturnCommented
  <1> QED
    BY <1>1, <1>2, <1>3, <1>4, <1>5, <1>6, <1>7, <1>8, <1>9 DEF CommentsNext

THEOREM CommentsInvariant == CommentsSpec => []CommentsInv
  BY CommentsBegin, CommentsStep, PTL DEF CommentsSpec

\* With the hook, a run is still one of the passes: all that is proved of them
\* holds.
THEOREM CommentsArePasses == CommentsSpec => Spec
  <1>1. CommentsInit => Init
    BY DEF CommentsInit
  <1>2. [CommentsNext]_commentVars => [Next]_vars
    BY DEF CommentsNext, commentVars, Rename, Prototype, EndOfPass, BetweenSteps, Decompile,
      UserComments, LoadHexRays, StartAgain, Next
  <1> QED
    BY <1>1, <1>2, PTL DEF CommentsSpec, Spec

\* The call of a no-return function is commented as one, once the function it
\* is in has been decompiled after a pass that found Hex-Rays.
THEOREM CallsCommented == CommentsSpec => []NoReturnCommented
  <1>1. CommentsInv => NoReturnCommented
    BY DEF CommentsInv, CommentsTypeOK
  <1> QED
    BY <1>1, CommentsInvariant, PTL
=============================================================================
