---------------------------- MODULE RecoveryPass ----------------------------
(***************************************************************************)
(* The recovery passes over the functions of one database: rename_functions*)
(* and apply_type_db of src/src/ida/oxidizer_ida.cpp, with the kernel's    *)
(* names, flags and types they read and write.  A database is recovered by *)
(* several passes, automatic and manual; FLIRT names functions and users   *)
(* give them types between them.  Each pass has a version of its own, read *)
(* from the program or pinned anew, and loads that version's database.     *)
(*                                                                         *)
(* Several functions can have one demangled name: they are instances of a  *)
(* generic function, each with a signature of its own.  IDA names are      *)
(* unique: SN_FORCE gives the second function of a name a suffix ("n_0").  *)
(***************************************************************************)
EXTENDS Integers

CONSTANTS
  Funcs,       \* 1..n, the functions in address order
  Names,       \* demangled names
  NoReturns,   \* the names is_noreturn classifies as such
  Sigs,        \* rendered prototypes
  NoSig,       \* no type
  ArgCount,    \* [Sigs -> Nat]
  Parsable,    \* the prototypes parse_decl accepts
  Databases,   \* the function lists of the versions
  NoDatabase,  \* no version, or no readable file of it
  MaxPasses    \* bound on passes

\* What parse_prototype made of the entry of an instance: none in the file (a
\* program has instances of its own, and another version other signatures),
\* kept, or dropped because one of its types is unknown.
Entry == {"absent", "kept", "dropped"}

ASSUME PassAssumption ==
  /\ Funcs \subseteq Nat
  /\ NoReturns \subseteq Names /\ Parsable \subseteq Sigs /\ NoSig \notin Sigs
  /\ ArgCount \in [Sigs -> Nat]
  /\ Databases \subseteq [Names -> [Sigs -> Entry]] /\ NoDatabase \notin Databases
  /\ MaxPasses \in Nat

Unknown == -1

VARIABLES
  is, truth,      \* what each function really is: its name and its prototype
  form,           \* form[a]: how is[a] shows in the function's IDA name
  noret,          \* the functions with FUNC_NORET
  reanalyzed,     \* the functions planned for a new analysis
  tinfo,          \* tinfo[a]: the function's type, or NoSig
  phase,          \* "idle" | "rename" | "types"
  interactive,    \* a manual pass
  db,             \* the entries of the type database of the pass, or NoDatabase
  left,           \* the functions the loop has still to treat
  by_demangled,   \* the functions of each demangled name
  before,         \* history: form when the pass began
  inferred,       \* history: the argument count last taken for a function
  given,          \* history: the database that tinfo[a] is from, if it is from one
  refused,        \* history: the functions that IDA refused a type in this pass
  passes

program == <<is, truth>>
names == <<form, noret, reanalyzed>>
types == <<tinfo, inferred, given, refused>>
pass == <<phase, interactive, db, left, by_demangled, before>>
vars == <<program, names, types, pass, passes>>

\* A dummy name (sub_...), mangled, demangled, demangled with a suffix.
Forms == {"dummy", "mangled", "plain", "suffixed"}

Kept(d, n) == {s \in Sigs : d[n][s] = "kept"}
Owners(n) == {a \in Funcs : is[a] = n /\ form[a] = "plain"}
UniqueNames == \A n \in Names : \A a, b \in Owners(n) : a = b

TypeOK ==
  /\ is \in [Funcs -> Names] /\ truth \in [Funcs -> Sigs]
  /\ form \in [Funcs -> Forms]
  /\ UniqueNames
  /\ noret \subseteq Funcs /\ reanalyzed \subseteq noret
  /\ tinfo \in [Funcs -> Sigs \cup {NoSig}]
  /\ phase \in {"idle", "rename", "types"}
  /\ interactive \in BOOLEAN /\ db \in Databases \cup {NoDatabase}
  /\ left \subseteq Funcs
  /\ by_demangled \in [Names -> SUBSET Funcs]
  /\ before \in [Funcs -> Forms] /\ inferred \in [Funcs -> {Unknown} \cup Nat]
  /\ given \in [Funcs -> Databases \cup {NoDatabase}] /\ refused \subseteq Funcs
  /\ passes \in 0..MaxPasses

Init ==
  /\ is \in [Funcs -> Names] /\ truth \in [Funcs -> Sigs]
  /\ form \in [Funcs -> {"dummy", "mangled", "plain"}]
  /\ UniqueNames
  /\ noret = {} /\ reanalyzed = {}
  /\ tinfo = [a \in Funcs |-> NoSig]
  /\ phase = "idle" /\ interactive = FALSE /\ db = NoDatabase /\ left = {}
  /\ by_demangled = [n \in Names |-> {}]
  /\ before = form /\ inferred = [a \in Funcs |-> Unknown]
  /\ given = [a \in Funcs |-> NoDatabase] /\ refused = {}
  /\ passes = 0

-----------------------------------------------------------------------------
\* run_recovery: manual or not, with the type database of a version, which need
\* not be that of the pass before, or with none.
run_recovery ==
  /\ phase = "idle" /\ passes < MaxPasses
  /\ phase' = "rename" /\ left' = Funcs
  /\ interactive' \in BOOLEAN /\ db' \in Databases \cup {NoDatabase}
  /\ by_demangled' = [n \in Names |-> {}]
  /\ before' = form /\ refused' = {}
  /\ passes' = passes + 1
  /\ UNCHANGED <<program, names, tinfo, inferred, given>>

\* The names demangle leads back to is[a]; it leaves a suffixed name as it is.
Demangles(a) == form[a] \in {"mangled", "plain"}

\* Mutant: the functions are found by the names they have afterwards.
GroupRenamed(a) ==
  by_demangled' = IF Demangles(a) /\ form'[a] # "suffixed"
                  THEN [by_demangled EXCEPT ![is[a]] = @ \cup {a}] ELSE by_demangled

Group(a) ==
  by_demangled' = IF Demangles(a) THEN [by_demangled EXCEPT ![is[a]] = @ \cup {a}]
                  ELSE by_demangled

\* set_name takes the demangled name, or one with a suffix where it is taken;
\* it may also refuse.
SetName(a) ==
  \/ form' = [form EXCEPT ![a] = IF Owners(is[a]) = {} THEN "plain" ELSE "suffixed"]
  \/ UNCHANGED form

\* Mutant: only a function that is renamed is looked at.
MarkRenamed(a) ==
  IF form[a] = "mangled" /\ is[a] \in NoReturns
  THEN noret' = noret \cup {a} /\ UNCHANGED reanalyzed
  ELSE UNCHANGED <<noret, reanalyzed>>

\* FUNC_NORET, and a new analysis in a manual pass.
MarkNoReturn(a) ==
  IF Demangles(a) /\ is[a] \in NoReturns /\ a \notin noret
  THEN /\ noret' = noret \cup {a}
       /\ reanalyzed' = IF interactive THEN reanalyzed \cup {a} ELSE reanalyzed
  ELSE UNCHANGED <<noret, reanalyzed>>

rename_function ==
  /\ phase = "rename"
  /\ \E a \in left :
       /\ \A b \in left : a <= b  \* the functions are numbered in address order
       /\ IF form[a] = "mangled" THEN SetName(a) ELSE UNCHANGED form
       /\ Group(a) /\ MarkNoReturn(a)
       /\ left' = left \ {a}
  /\ UNCHANGED <<program, types, phase, interactive, db, before, passes>>

\* apply_type_db is called with what rename_functions grouped.
RenameEnds ==
  /\ phase = "rename" /\ left = {}
  /\ phase' = "types"
  /\ left' = IF db = NoDatabase THEN {} ELSE UNION {by_demangled[n] : n \in Names}
  /\ UNCHANGED <<program, names, types, interactive, db, by_demangled, before, passes>>

\* parse_proto, then apply_tinfo: either may refuse.
Apply(a, s) ==
  \/ s \in Parsable /\ tinfo' = [tinfo EXCEPT ![a] = s] /\ given' = [given EXCEPT ![a] = db]
     /\ UNCHANGED refused
  \/ s \in Parsable /\ refused' = refused \cup {a} /\ UNCHANGED <<tinfo, given>>
  \/ s \notin Parsable /\ UNCHANGED <<tinfo, given, refused>>

\* The only prototype of a name, as a set that is empty if there are others.
Single(d, n) == {s \in Kept(d, n) : \A t \in Kept(d, n) : t = s}

\* A single prototype: every function of the name gets it.
ApplySingle(a) ==
  /\ \E s \in Single(db, is[a]) : Apply(a, s)
  /\ UNCHANGED inferred

\* Mutant: the type that is already there is not asked for.
inferred_afresh(a) == {Unknown} \cup {ArgCount[s] : s \in Sigs}

\* The type that is there, whoever gave it, or what the decompiler makes of the
\* function.
inferred_argcount(a) ==
  IF tinfo[a] # NoSig THEN {ArgCount[tinfo[a]]}
  ELSE {Unknown} \cup {ArgCount[s] : s \in Sigs}

\* Mutant: of several candidates with the count one is taken.
AnyCandidate(d, n, nargs) == {s \in Kept(d, n) : ArgCount[s] = nargs}

\* The only candidate with this count, as a set that is empty if there is none.
Chosen(d, n, nargs) ==
  {s \in Kept(d, n) : ArgCount[s] = nargs /\ \A t \in Kept(d, n) : ArgCount[t] = nargs => t = s}

\* Several prototypes: the count of arguments decides.
Negotiate(a) ==
  /\ Kept(db, is[a]) # {} /\ Single(db, is[a]) = {}
  /\ \E nargs \in inferred_argcount(a) :
       /\ inferred' = [inferred EXCEPT ![a] = nargs]
       /\ \/ \E s \in Chosen(db, is[a], nargs) : Apply(a, s)
          \/ Chosen(db, is[a], nargs) = {} /\ UNCHANGED <<tinfo, given, refused>>

\* No entry with this name.
Unlisted(a) == Kept(db, is[a]) = {} /\ UNCHANGED types

\* The order is that of the names: no function depends on another one here.
apply_prototype ==
  /\ phase = "types"
  /\ \E a \in left :
       /\ ApplySingle(a) \/ Negotiate(a) \/ Unlisted(a)
       /\ left' = left \ {a}
  /\ UNCHANGED <<program, names, phase, interactive, db, by_demangled, before, passes>>

PassEnds ==
  /\ phase = "types" /\ left = {}
  /\ phase' = "idle"
  /\ UNCHANGED <<program, names, types, interactive, db, left, by_demangled, before, passes>>

\* A signature names a function.
FlirtNames(a) ==
  /\ phase = "idle" /\ form[a] = "dummy"
  /\ form' = [form EXCEPT ![a] = "mangled"]
  /\ UNCHANGED <<program, noret, reanalyzed, types, pass, passes>>

\* A user gives a function a type, or takes it away.
UserTypes(a) ==
  /\ phase = "idle"
  /\ \E s \in Sigs \cup {NoSig} : tinfo' = [tinfo EXCEPT ![a] = s]
  /\ given' = [given EXCEPT ![a] = NoDatabase]
  /\ UNCHANGED <<program, names, inferred, refused, pass, passes>>

Next ==
  \/ run_recovery \/ rename_function \/ RenameEnds \/ apply_prototype \/ PassEnds
  \/ \E a \in Funcs : FlirtNames(a) \/ UserTypes(a)

Spec == Init /\ [][Next]_vars

-----------------------------------------------------------------------------
(* Properties.                                                             *)

Finished == phase = "types" /\ left = {}

\* "unambiguous name -> apply to every matching address": every function that
\* showed its name when the pass began ends with the only prototype of that
\* name, the ones that lost the name to another function of it included,
\* whatever type it had; unless IDA refuses it.
MatchedAreTyped ==
  Finished /\ db # NoDatabase =>
    \A a \in Funcs \ refused :
      before[a] \in {"mangled", "plain"} =>
        \A s \in Single(db, is[a]) \cap Parsable : tinfo[a] = s

\* All functions that show a no-return name are marked by the end of a pass,
\* though renaming may give them a name that is none.
NoReturnMarked ==
  Finished => \A a \in Funcs :
    before[a] \in {"mangled", "plain"} /\ is[a] \in NoReturns => a \in noret

\* The count of arguments was taken wrongly: by the decompiler, or from the type
\* that a user or another version had given.
Misjudged(a) == inferred[a] \notin {Unknown, ArgCount[truth[a]]}
Complete(d, n) == \A s \in Sigs : d[n][s] # "dropped"

\* A database gave the function its type, and its own prototype is in that file.
GivenByListed(a) ==
  tinfo[a] # NoSig /\ given[a] # NoDatabase /\ given[a][is[a]][truth[a]] # "absent"

\* A function that the file lists gets its own prototype, as long as its
\* arguments are not miscounted and no instance of its name was dropped: in
\* whichever order versions, users and passes come.
AppliedIsTrue ==
  \A a \in Funcs :
    GivenByListed(a) /\ ~Misjudged(a) /\ Complete(given[a], is[a]) => tinfo[a] = truth[a]

\* "provably safe: a prototype is only applied when the DB determines a single
\* correct signature for that address", whatever the database could not parse.
\* (Of the functions that the file lists.)
ProvablySafe ==
  \A a \in Funcs : GivenByListed(a) /\ ~Misjudged(a) => tinfo[a] = truth[a]

\* A pass never changes the prototype that a pass with the same database gave,
\* whatever the decompiler says by now.  What another version or a user gave it
\* changes only to the sole prototype of the name, or to one with the same
\* number of arguments.
TypesStable ==
  [][\A a \in Funcs :
       phase = "types" /\ tinfo[a] # NoSig /\ tinfo'[a] # tinfo[a] =>
         /\ given[a] # db
         /\ tinfo'[a] \in Single(db, is[a]) \/ ArgCount[tinfo'[a]] = ArgCount[tinfo[a]]]_vars
=============================================================================
