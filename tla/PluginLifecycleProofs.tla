----------------------- MODULE PluginLifecycleProofs -----------------------
(***************************************************************************)
(* What holds of the plugin instance for every set of versions and         *)
(* databases and for every bound.                                          *)
(***************************************************************************)
EXTENDS PluginLifecycle, FiniteSetTheorems, SequenceTheorems, TLAPS

USE ConstantsAssumption

-----------------------------------------------------------------------------
(* The helpers.                                                            *)

\* Neither a detected plan nor a pinned version leaves the version set.
LEMMA DetectType ==
  ASSUME NEW b \in Binaries
  PROVE  detect_version(b) \in Versions \cup {None}
  BY DEF detect_version, BinaryRecord

LEMMA PlanType ==
  ASSUME NEW found, staging \in SUBSET Versions
  PROVE  PlanFor(found) \in SUBSET Versions
  BY DEF PlanFor, apply_flirt, apply_all_flirt

LEMMA PinType ==
  ASSUME NEW b \in Binaries, NEW sigs, NEW v \in pin_version_by_overlap(b, sigs)
  PROVE  v \in Versions \cup {None}
  BY DEF pin_version_by_overlap, BinaryRecord

\* More signatures never withdraw a version that was pinned.
LEMMA PinStable ==
  ASSUME NEW b \in Binaries, NEW s, NEW t, s \subseteq t,
         NEW v \in pin_version_by_overlap(b, s), v # None
  PROVE  v \in pin_version_by_overlap(b, t)
  BY DEF pin_version_by_overlap, StdNamesVisible

\* flirt_count is zero exactly when nothing was planned.
LEMMA NothingPlanned ==
  ASSUME NEW plan \in SUBSET Versions
  PROVE  Cardinality(plan) \in Nat /\ (Cardinality(plan) = 0 <=> plan = {})
  <1>1. IsFiniteSet(plan)
    BY FS_Subset
  <1> QED
    BY <1>1, FS_CardinalityType, FS_EmptySet

-----------------------------------------------------------------------------
(* Typing.                                                                 *)

\* Every pass that is appended is typed when its parts are.
LEMMA PassType ==
  ASSUME TypeOK, db \in Binaries,
         NEW kind \in {"automatic", "manual"}, NEW v \in Versions \cup {None},
         NEW plan \in SUBSET Versions, run_recovery(kind, v, plan)
  PROVE  passes' \in Seq(Pass)
  <1>1. [kind |-> kind, version |-> v, plan |-> plan, seen |-> applied[db]] \in Pass
    BY DEF TypeOK, Pass
  <1> QED
    BY <1>1 DEF run_recovery, TypeOK

LEMMA RecoverType ==
  ASSUME TypeOK, db \in Binaries, NEW v \in Versions \cup {None},
         NEW plan \in SUBSET Versions, do_recover(v, plan)
  PROVE  recovered' \in BOOLEAN /\ passes' \in Seq(Pass)
  <1>1. CASE recovered
    BY <1>1 DEF do_recover, TypeOK
  <1>2. CASE ~recovered
    BY <1>2, PassType DEF do_recover
  <1> QED
    BY <1>1, <1>2

LEMMA FinishType ==
  ASSUME TypeOK, db \in Binaries, NEW found \in Versions \cup {None},
         NEW plan \in SUBSET Versions, FinishRun(found, plan)
  PROVE  passes' \in Seq(Pass)
  <1>1. PICK v \in IF found = None THEN pin_version_by_overlap(db, applied[db]) ELSE {found} :
          run_recovery("manual", v, plan)
    BY DEF FinishRun
  <1>2. v \in Versions \cup {None}
    BY <1>1, PinType
  <1> QED
    BY <1>1, <1>2, PassType

\* A suspended invocation has its database open: needed to type the pass it
\* makes when it is resumed.
WaitingIsOpen == run.at = "waiting" => db # None

LEMMA TypeInit == Init => TypeOK /\ WaitingIsOpen
  <1> SUFFICES ASSUME Init PROVE TypeOK /\ WaitingIsOpen
    OBVIOUS
  <1>1. passes \in Seq(Pass)
    BY DEF Init
  <1>2. edits \in 0..MaxEdits /\ runs \in 0..MaxRuns
    BY DEF Init
  <1>3. applied \in [Binaries -> SUBSET Versions]
    BY DEF Init
  <1>4. run \in [at : {"idle", "waiting"}, version : Versions \cup {None}, plan : SUBSET Versions]
    BY DEF Init, NoRun
  <1> QED
    BY <1>1, <1>2, <1>3, <1>4 DEF Init, TypeOK, NoRun, WaitingIsOpen

LEMMA WaitingStep == TypeOK /\ WaitingIsOpen /\ [Next]_vars => WaitingIsOpen'
  BY DEF TypeOK, WaitingIsOpen, Next, KernelStep, OpenBase, ApplySignature, Analyse, NewWork,
         AutoEmpty, AutoEmptyFinally, CloseBase, RunBegin, RunResume, NoRun, vars, kernel

LEMMA TypeStep == TypeOK /\ WaitingIsOpen /\ [Next]_vars => TypeOK'
  <1> SUFFICES ASSUME TypeOK, WaitingIsOpen, [Next]_vars PROVE TypeOK'
    OBVIOUS
  <1>1. ASSUME NEW b \in Binaries, OpenBase(b) PROVE TypeOK'
    BY <1>1 DEF OpenBase, TypeOK, ctx, history
  <1>2. CASE KernelStep
    <2>1. CASE Analyse
      BY <2>1 DEF Analyse, TypeOK, ctx, history
    <2>2. ASSUME NEW v \in Versions, ApplySignature(v) PROVE TypeOK'
      BY <2>2 DEF ApplySignature, TypeOK, ctx, history
    <2> QED
      BY <1>2, <2>1, <2>2 DEF KernelStep
  <1>3. CASE NewWork
    BY <1>3 DEF NewWork, TypeOK, ctx, history
  <1>4. CASE AutoEmpty
    <2>1. CASE ~flirt_planned /\ PlanFlirt
      <3> DEFINE found == detect_version(db)
                 plan == PlanFor(found)
      <3>1. db \in Binaries /\ found \in Versions \cup {None} /\ plan \in SUBSET Versions
        BY <1>4, DetectType, PlanType DEF AutoEmpty, TypeOK
      <3>2. flirt_count' \in Nat
        BY <2>1, <3>1, NothingPlanned DEF PlanFlirt
      <3>3. recovered' \in BOOLEAN /\ passes' \in Seq(Pass)
        <4>1. CASE flirt_count' = 0
          BY <2>1, <3>1, <4>1, RecoverType DEF PlanFlirt
        <4>2. CASE flirt_count' # 0
          BY <2>1, <4>2 DEF PlanFlirt, TypeOK
        <4> QED
          BY <4>1, <4>2
      <3> QED
        BY <1>4, <2>1, <3>1, <3>2, <3>3 DEF AutoEmpty, PlanFlirt, TypeOK
    <2>2. CASE flirt_planned /\ UNCHANGED <<ctx, queue, history>>
      BY <1>4, <2>2 DEF AutoEmpty, TypeOK, ctx, history
    <2> QED
      BY <1>4, <2>1, <2>2 DEF AutoEmpty
  <1>5. CASE AutoEmptyFinally
    <2>1. db \in Binaries
      BY <1>5 DEF AutoEmptyFinally, TypeOK
    <2>2. version' \in Versions \cup {None}
      BY <1>5, <2>1, PinType DEF AutoEmptyFinally, TypeOK
    <2>3. autoPlan \in SUBSET Versions
      BY DEF TypeOK
    <2>4. recovered' \in BOOLEAN /\ passes' \in Seq(Pass)
      BY <1>5, <2>1, <2>2, <2>3, RecoverType DEF AutoEmptyFinally
    <2> QED
      BY <1>5, <2>2, <2>4 DEF AutoEmptyFinally, TypeOK
  <1>6. CASE CloseBase
    <2>1. passes' \in Seq(Pass)
      BY <1>6 DEF CloseBase
    <2> QED
      <3>1. run' \in [at : {"idle", "waiting"}, version : Versions \cup {None},
                      plan : SUBSET Versions]
        BY <1>6 DEF CloseBase, TypeOK
      <3>2. applied' \in [Binaries -> SUBSET Versions]
        BY <1>6 DEF CloseBase, TypeOK
      <3>3. edits' \in 0..MaxEdits /\ runs' \in 0..MaxRuns
        BY <1>6 DEF CloseBase
      <3>4. db' \in Binaries \cup {None} /\ version' \in Versions \cup {None}
        BY <1>6 DEF CloseBase, ResetFlags
      <3> QED
        BY <1>6, <2>1, <3>1, <3>2, <3>3, <3>4 DEF CloseBase, ResetFlags, TypeOK
  <1>7. CASE RunBegin
    <2> DEFINE found == detect_version(db)
               plan == PlanFor(found)
    <2>1. db \in Binaries /\ found \in Versions \cup {None} /\ plan \in SUBSET Versions
      BY <1>7, DetectType, PlanType DEF RunBegin, TypeOK
    <2>2. CASE plan = {}
      <3>1. passes' \in Seq(Pass)
        BY <1>7, <2>1, <2>2, FinishType DEF RunBegin
      <3> QED
        BY <1>7, <2>1, <2>2, <3>1 DEF RunBegin, TypeOK
    <2>3. CASE plan # {}
      BY <1>7, <2>1, <2>3 DEF RunBegin, TypeOK
    <2> QED
      BY <2>2, <2>3
  <1>8. CASE RunResume
    <2>1. run.version \in Versions \cup {None} /\ run.plan \in SUBSET Versions
      BY DEF TypeOK
    <2>2. db \in Binaries
      BY <1>8 DEF RunResume, TypeOK, WaitingIsOpen
    <2>3. passes' \in Seq(Pass)
      BY <1>8, <2>1, <2>2, FinishType DEF RunResume
    <2> QED
      BY <1>8, <2>3 DEF RunResume, NoRun, TypeOK, kernel, ctx
  <1>9. CASE UNCHANGED vars
    BY <1>9 DEF TypeOK, vars, kernel, ctx, history
  <1> QED
    BY <1>1, <1>2, <1>3, <1>4, <1>5, <1>6, <1>7, <1>8, <1>9 DEF Next

\* Every reachable state is typed.
THEOREM TypeCorrect == SafetySpec => []TypeOK
  <1>1. Init => TypeOK /\ WaitingIsOpen
    BY TypeInit
  <1>2. (TypeOK /\ WaitingIsOpen) /\ [Next]_vars => (TypeOK /\ WaitingIsOpen)'
    BY TypeStep, WaitingStep
  <1> QED
    BY <1>1, <1>2, PTL DEF SafetySpec
-----------------------------------------------------------------------------
(***************************************************************************)
(* The inductive invariant.  The four properties speak of passes already   *)
(* made; what makes the next pass a good one is that the flags describe    *)
(* the database that is open and that a planned signature stays in the     *)
(* queue until it is applied.                                              *)
(***************************************************************************)

\* The flags of the instance describe the database that is open.
FlagsOfThisDatabase ==
  /\ flirt_planned => db # None
  /\ ~flirt_planned => autoPlan = {} /\ version = None /\ ~fallback
  /\ flirt_planned => (fallback <=> db.embedded = None)
  /\ flirt_planned /\ ~fallback => version = db.embedded
  /\ version # None /\ fallback => version \in pin_version_by_overlap(db, applied[db])
  /\ phase # "initial" => flirt_planned

\* A planned signature is waiting in the queue until it is applied.
PlansPendingOrApplied ==
  db # None =>
    /\ autoPlan \subseteq queue \cup applied[db]
    /\ run.at = "waiting" => run.plan \subseteq queue \cup applied[db]

\* While an invocation waits, and once any pass is made, the automatic path
\* is closed; a closed database leaves it open for the next.
RecoveredBlocks ==
  /\ passes # <<>> \/ run.at = "waiting" => recovered
  /\ recovered => db # None

\* The version a suspended invocation carries is its database's.
RunOfThisDatabase == run.at = "waiting" => run.version = detect_version(db)

\* What the three properties of passes say of one pass over database b.
GoodPass(b, p) ==
  /\ p.plan \subseteq p.seen
  /\ IF b.embedded # None THEN p.version = b.embedded
     ELSE p.version = None \/ p.version \in pin_version_by_overlap(b, p.seen)
  /\ p.kind = "manual" \/ p.plan # {} =>
       b.embedded # None \/ p.version \in pin_version_by_overlap(b, p.seen)

PassesGood ==
  \A i \in 1..Len(passes) :
    GoodPass(db, passes[i]) /\ (passes[i].kind = "automatic" => i = 1)

SessionInv ==
  /\ TypeOK /\ WaitingIsOpen
  /\ FlagsOfThisDatabase /\ PlansPendingOrApplied /\ RecoveredBlocks /\ RunOfThisDatabase
  /\ PassesGood

\* A good pass may be appended; an automatic one only as the first.
LEMMA AppendGood ==
  ASSUME TypeOK, PassesGood, db \in Binaries, db' = db,
         NEW kind \in {"automatic", "manual"}, NEW v \in Versions \cup {None},
         NEW plan \in SUBSET Versions,
         kind = "automatic" => passes = <<>>,
         run_recovery(kind, v, plan),
         plan \subseteq applied[db],
         IF db.embedded # None THEN v = db.embedded
           ELSE v = None \/ v \in pin_version_by_overlap(db, applied[db]),
         kind = "manual" \/ plan # {} =>
           db.embedded # None \/ v \in pin_version_by_overlap(db, applied[db])
  PROVE  PassesGood' /\ passes' # <<>>
  <1> DEFINE p == [kind |-> kind, version |-> v, plan |-> plan, seen |-> applied[db]]
  <1>1. p \in Pass /\ passes \in Seq(Pass) /\ passes' = Append(passes, p)
    BY DEF TypeOK, Pass, run_recovery
  <1>2. /\ Len(passes') = Len(passes) + 1 /\ Len(passes) \in Nat
        /\ passes'[Len(passes) + 1] = p
        /\ \A i \in 1..Len(passes) : passes'[i] = passes[i]
    BY <1>1
  <1>3. GoodPass(db, p)
    BY DEF GoodPass
  <1>4. p.kind = "automatic" => Len(passes) + 1 = 1
    OBVIOUS
  <1>5. ASSUME NEW i \in 1..Len(passes')
        PROVE  GoodPass(db, passes'[i]) /\ (passes'[i].kind = "automatic" => i = 1)
    <2>1. CASE i \in 1..Len(passes)
      BY <1>2, <2>1 DEF PassesGood
    <2>2. CASE i = Len(passes) + 1
      BY <1>2, <1>3, <1>4, <2>2
    <2> QED
      BY <1>2, <2>1, <2>2
  <1>6. PassesGood'
    BY <1>5 DEF PassesGood
  <1>7. passes' # <<>>
    BY <1>2
  <1> QED
    BY <1>6, <1>7

\* The tail of run_pipeline_interactive makes a good pass once its own plan
\* has been applied.
LEMMA FinishGood ==
  ASSUME TypeOK, PassesGood, db \in Binaries, db' = db,
         NEW plan \in SUBSET Versions, plan \subseteq applied[db],
         FinishRun(detect_version(db), plan)
  PROVE  PassesGood' /\ passes' # <<>>
  <1> DEFINE found == detect_version(db)
  <1>1. PICK v \in IF found = None THEN pin_version_by_overlap(db, applied[db]) ELSE {found} :
          run_recovery("manual", v, plan)
    BY DEF FinishRun
  <1>2. v \in Versions \cup {None}
    BY <1>1, PinType, DetectType
  <1>3. found = db.embedded
    BY DEF detect_version
  <1> QED
    BY <1>1, <1>2, <1>3, AppendGood

\* do_recover makes a good pass, or leaves the ones there are.
LEMMA RecoverGood ==
  ASSUME TypeOK, PassesGood, RecoveredBlocks, db \in Binaries, db' = db,
         NEW v \in Versions \cup {None}, NEW plan \in SUBSET Versions,
         do_recover(v, plan), plan \subseteq applied[db],
         IF db.embedded # None THEN v = db.embedded
           ELSE v = None \/ v \in pin_version_by_overlap(db, applied[db]),
         plan # {} => db.embedded # None \/ v \in pin_version_by_overlap(db, applied[db])
  PROVE  PassesGood' /\ recovered'
  <1>1. CASE recovered
    <2>1. passes' = passes /\ recovered'
      BY <1>1 DEF do_recover
    <2> QED
      BY <2>1 DEF PassesGood
  <1>2. CASE ~recovered
    <2>1. recovered' /\ run_recovery("automatic", v, plan)
      BY <1>2 DEF do_recover
    <2>2. passes = <<>>
      BY <1>2 DEF RecoveredBlocks
    <2> QED
      BY <2>1, <2>2, AppendGood
  <1> QED
    BY <1>1, <1>2
\* A step of the kernel or of the handlers that makes no pass.
LEMMA PassesKept ==
  ASSUME PassesGood, UNCHANGED <<db, passes>>
  PROVE  PassesGood'
  BY DEF PassesGood

LEMMA SessionInit == Init => SessionInv
  <1> SUFFICES ASSUME Init PROVE SessionInv
    OBVIOUS
  <1>1. TypeOK /\ WaitingIsOpen
    BY TypeInit
  <1>2. PassesGood
    BY DEF Init, PassesGood
  <1> QED
    BY <1>1, <1>2 DEF Init, SessionInv, FlagsOfThisDatabase, PlansPendingOrApplied,
                      RecoveredBlocks, RunOfThisDatabase, NoRun

LEMMA KernelKeepsSession ==
  ASSUME SessionInv,
         (\E b \in Binaries : OpenBase(b)) \/ KernelStep \/ NewWork \/ UNCHANGED vars
  PROVE  /\ FlagsOfThisDatabase' /\ PlansPendingOrApplied' /\ RecoveredBlocks'
         /\ RunOfThisDatabase' /\ PassesGood'
  <1> USE DEF SessionInv
  <1>1. ASSUME NEW b \in Binaries, OpenBase(b)
        PROVE  /\ FlagsOfThisDatabase' /\ PlansPendingOrApplied' /\ RecoveredBlocks'
               /\ RunOfThisDatabase' /\ PassesGood'
    <2>1. passes = <<>> /\ run.at # "waiting" /\ ~flirt_planned /\ autoPlan = {}
      BY <1>1 DEF OpenBase, RecoveredBlocks, FlagsOfThisDatabase
    <2>2. PassesGood'
      BY <1>1, <2>1 DEF OpenBase, PassesGood, history
    <2> QED
      BY <1>1, <2>1, <2>2 DEF OpenBase, FlagsOfThisDatabase, PlansPendingOrApplied,
           RecoveredBlocks, RunOfThisDatabase, ctx, history
  <1>2. ASSUME NEW v \in Versions, ApplySignature(v)
        PROVE  /\ FlagsOfThisDatabase' /\ PlansPendingOrApplied' /\ RecoveredBlocks'
               /\ RunOfThisDatabase' /\ PassesGood'
    <2>1. PassesGood'
      BY <1>2, PassesKept DEF ApplySignature, history
    <2>2. CASE db \in Binaries
      <3>1. applied'[db] = applied[db] \cup {v}
        BY <1>2, <2>2 DEF ApplySignature, TypeOK
      <3>2. FlagsOfThisDatabase'
        BY <1>2, <2>2, <3>1, PinStable DEF ApplySignature, FlagsOfThisDatabase, ctx, history
      <3> QED
        BY <1>2, <2>1, <3>1, <3>2 DEF ApplySignature, PlansPendingOrApplied,
             RecoveredBlocks, RunOfThisDatabase, ctx, history
    <2>3. CASE db = None
      BY <1>2, <2>1, <2>3 DEF ApplySignature, FlagsOfThisDatabase, PlansPendingOrApplied,
           RecoveredBlocks, RunOfThisDatabase, ctx, history
    <2> QED
      BY <2>2, <2>3 DEF TypeOK
  <1>3. CASE Analyse
    BY <1>3, PassesKept DEF Analyse, FlagsOfThisDatabase, PlansPendingOrApplied,
         RecoveredBlocks, RunOfThisDatabase, ctx, history
  <1>4. CASE NewWork
    BY <1>4, PassesKept DEF NewWork, FlagsOfThisDatabase, PlansPendingOrApplied,
         RecoveredBlocks, RunOfThisDatabase, ctx, history
  <1>5. CASE UNCHANGED vars
    BY <1>5, PassesKept DEF vars, kernel, FlagsOfThisDatabase, PlansPendingOrApplied,
         RecoveredBlocks, RunOfThisDatabase, ctx, history
  <1> QED
    BY <1>1, <1>2, <1>3, <1>4, <1>5 DEF KernelStep

LEMMA EventsKeepSession ==
  ASSUME SessionInv, AutoEmpty \/ AutoEmptyFinally \/ CloseBase
  PROVE  /\ FlagsOfThisDatabase' /\ PlansPendingOrApplied' /\ RecoveredBlocks'
         /\ RunOfThisDatabase' /\ PassesGood'
  <1> USE DEF SessionInv
  <1>1. CASE AutoEmpty /\ ~flirt_planned /\ PlanFlirt
    <2> DEFINE found == detect_version(db)
               plan == PlanFor(found)
    <2>1. db \in Binaries /\ found \in Versions \cup {None} /\ plan \in SUBSET Versions
      BY <1>1, DetectType, PlanType DEF AutoEmpty, TypeOK
    <2>2. found = db.embedded
      BY DEF detect_version
    <2>3. db' = db /\ applied' = applied /\ run' = run
      BY <1>1 DEF AutoEmpty
    <2>4. FlagsOfThisDatabase' /\ PlansPendingOrApplied' /\ RunOfThisDatabase'
      BY <1>1, <2>1, <2>2, <2>3 DEF PlanFlirt, FlagsOfThisDatabase, PlansPendingOrApplied,
           RunOfThisDatabase
    <2>5. CASE flirt_count' = 0
      <3>1. plan = {} /\ do_recover(found, plan)
        BY <1>1, <2>1, <2>5, NothingPlanned DEF PlanFlirt
      <3>2. PassesGood' /\ recovered'
        BY <2>1, <2>2, <2>3, <3>1, RecoverGood
      <3> QED
        BY <2>1, <2>3, <2>4, <3>2 DEF RecoveredBlocks, TypeOK
    <2>6. CASE flirt_count' # 0
      <3>1. UNCHANGED <<recovered, passes>>
        BY <1>1, <2>6 DEF PlanFlirt
      <3> QED
        BY <2>3, <2>4, <3>1, PassesKept DEF RecoveredBlocks
    <2> QED
      BY <2>5, <2>6
  <1>2. CASE AutoEmpty /\ flirt_planned /\ UNCHANGED <<ctx, queue, history>>
    BY <1>2, PassesKept DEF AutoEmpty, FlagsOfThisDatabase, PlansPendingOrApplied,
         RecoveredBlocks, RunOfThisDatabase, ctx, history
  <1>3. CASE AutoEmptyFinally
    <2>1. /\ db \in Binaries /\ autoPlan \in SUBSET Versions
          /\ db' = db /\ applied' = applied /\ run' = run /\ flirt_planned
      BY <1>3 DEF AutoEmptyFinally, TypeOK, FlagsOfThisDatabase
    <2>2. version' \in Versions \cup {None}
      BY <1>3, <2>1, PinType DEF AutoEmptyFinally, TypeOK
    <2>3. autoPlan \subseteq applied[db]
      BY <1>3, <2>1 DEF AutoEmptyFinally, QueuesEmpty, PlansPendingOrApplied
    <2>4. IF db.embedded # None THEN version' = db.embedded
          ELSE version' \in pin_version_by_overlap(db, applied[db])
      BY <1>3, <2>1 DEF AutoEmptyFinally, FlagsOfThisDatabase
    <2>5. PassesGood' /\ recovered'
      BY <1>3, <2>1, <2>2, <2>3, <2>4, RecoverGood DEF AutoEmptyFinally
    <2>6. FlagsOfThisDatabase'
      BY <1>3, <2>1, <2>4 DEF AutoEmptyFinally, FlagsOfThisDatabase
    <2> QED
      BY <1>3, <2>1, <2>5, <2>6 DEF AutoEmptyFinally, PlansPendingOrApplied, RecoveredBlocks,
           RunOfThisDatabase, TypeOK
  <1>4. CASE CloseBase
    <2>1. PassesGood'
      BY <1>4 DEF CloseBase, PassesGood
    <2> QED
      BY <1>4, <2>1 DEF CloseBase, ResetFlags, FlagsOfThisDatabase, PlansPendingOrApplied,
           RecoveredBlocks, RunOfThisDatabase
  <1> QED
    BY <1>1, <1>2, <1>3, <1>4 DEF AutoEmpty

LEMMA RunKeepsSession ==
  ASSUME SessionInv, RunBegin \/ RunResume
  PROVE  /\ FlagsOfThisDatabase' /\ PlansPendingOrApplied' /\ RecoveredBlocks'
         /\ RunOfThisDatabase' /\ PassesGood'
  <1> USE DEF SessionInv
  <1>1. CASE RunBegin
    <2> DEFINE found == detect_version(db)
               plan == PlanFor(found)
    <2>1. /\ db \in Binaries /\ found \in Versions \cup {None} /\ plan \in SUBSET Versions
          /\ db' = db /\ applied' = applied /\ recovered'
      BY <1>1, DetectType, PlanType DEF RunBegin, TypeOK
    <2>2. FlagsOfThisDatabase'
      BY <1>1 DEF RunBegin, FlagsOfThisDatabase
    <2>3. CASE plan = {}
      <3>1. PassesGood'
        BY <1>1, <2>1, <2>3, FinishGood DEF RunBegin
      <3> QED
        BY <1>1, <2>1, <2>2, <2>3, <3>1 DEF RunBegin, PlansPendingOrApplied, RecoveredBlocks,
             RunOfThisDatabase
    <2>4. CASE plan # {}
      BY <1>1, <2>1, <2>2, <2>4, PassesKept DEF RunBegin, PlansPendingOrApplied,
           RecoveredBlocks, RunOfThisDatabase
    <2> QED
      BY <2>3, <2>4
  <1>2. CASE RunResume
    <2>1. /\ db \in Binaries /\ run.plan \in SUBSET Versions /\ db' = db
          /\ run.version = detect_version(db) /\ recovered
      BY <1>2 DEF RunResume, TypeOK, WaitingIsOpen, RunOfThisDatabase, RecoveredBlocks, kernel
    <2>2. run.plan \subseteq applied[db]
      BY <1>2, <2>1 DEF RunResume, QueuesEmpty, PlansPendingOrApplied
    <2>3. PassesGood'
      BY <1>2, <2>1, <2>2, FinishGood DEF RunResume
    <2> QED
      BY <1>2, <2>1, <2>3 DEF RunResume, NoRun, FlagsOfThisDatabase, PlansPendingOrApplied,
           RecoveredBlocks, RunOfThisDatabase, kernel, ctx
  <1> QED
    BY <1>1, <1>2

LEMMA SessionStep == SessionInv /\ [Next]_vars => SessionInv'
  <1> SUFFICES ASSUME SessionInv, [Next]_vars PROVE SessionInv'
    OBVIOUS
  <1>1. TypeOK' /\ WaitingIsOpen'
    BY TypeStep, WaitingStep DEF SessionInv
  <1>2. /\ FlagsOfThisDatabase' /\ PlansPendingOrApplied' /\ RecoveredBlocks'
        /\ RunOfThisDatabase' /\ PassesGood'
    BY KernelKeepsSession, EventsKeepSession, RunKeepsSession DEF Next
  <1> QED
    BY <1>1, <1>2 DEF SessionInv

THEOREM SessionInvariant == SafetySpec => []SessionInv
  BY SessionInit, SessionStep, PTL DEF SafetySpec
-----------------------------------------------------------------------------
(* The properties the runs check, for every value of the constants.        *)

\* An automatic pass is the first of its session: there is at most one, and
\* none after a manual invocation.
THEOREM AutomaticFirst == SafetySpec => []AutomaticPassIsFirst
  <1>1. SessionInv => AutomaticPassIsFirst
    BY DEF SessionInv, PassesGood, AutomaticPassIsFirst
  <1> QED
    BY <1>1, SessionInvariant, PTL

\* A pass sees the names of every signature its own path planned.
THEOREM PlannedApplied == SafetySpec => []PlannedSignaturesApplied
  <1>1. SessionInv => PlannedSignaturesApplied
    BY DEF SessionInv, PassesGood, GoodPass, PlannedSignaturesApplied
  <1> QED
    BY <1>1, SessionInvariant, PTL

\* No version of an earlier database reaches a pass.
THEOREM OwnVersion == SafetySpec => []VersionOfThisDatabase
  <1>1. SessionInv => VersionOfThisDatabase
    BY DEF SessionInv, PassesGood, GoodPass, VersionOfThisDatabase
  <1> QED
    BY <1>1, SessionInvariant, PTL

\* Where the fallback plans a file, or is run by hand, it ends pinned.
THEOREM Pinned == SafetySpec => []FallbackPinned
  <1>1. SessionInv => FallbackPinned
    BY DEF SessionInv, PassesGood, GoodPass, FallbackPinned
  <1> QED
    BY <1>1, SessionInvariant, PTL

-----------------------------------------------------------------------------
(* The plugin instance implements RecoverySession (its safety part).       *)

Kinds(ps) == [i \in 1..Len(ps) |-> ps[i].kind]

\* Appending a pass appends its kind to the log.
LEMMA KindsAppend ==
  ASSUME TypeOK, db \in Binaries, NEW kind \in {"automatic", "manual"},
         NEW v \in Versions \cup {None}, NEW plan \in SUBSET Versions,
         run_recovery(kind, v, plan)
  PROVE  Kinds(passes') = Append(Kinds(passes), kind)
  <1> DEFINE p == [kind |-> kind, version |-> v, plan |-> plan, seen |-> applied[db]]
             n == Len(passes)
  <1>1. p \in Pass /\ passes \in Seq(Pass) /\ passes' = Append(passes, p)
    BY DEF TypeOK, Pass, run_recovery
  <1>2. /\ n \in Nat /\ Len(passes') = n + 1 /\ passes'[n + 1].kind = kind
        /\ \A i \in 1..n : passes'[i] = passes[i] /\ passes[i].kind \in {"automatic", "manual"}
    <2>1. n \in Nat /\ Len(passes') = n + 1 /\ passes'[n + 1] = p
      BY <1>1
    <2>2. \A i \in 1..n : passes'[i] = passes[i] /\ passes[i] \in Pass
      BY <1>1
    <2> QED
      BY <2>1, <2>2 DEF Pass
  <1>3. Kinds(passes) \in Seq({"automatic", "manual"}) /\ Len(Kinds(passes)) = n
    BY <1>2 DEF Kinds
  <1> DEFINE a == Append(Kinds(passes), kind)
  <1>4. a \in Seq({"automatic", "manual"}) /\ Len(a) = n + 1 /\ a[n + 1] = kind
        /\ \A i \in 1..n : a[i] = passes[i].kind
    BY <1>2, <1>3 DEF Kinds
  <1>5. Kinds(passes') \in Seq({"automatic", "manual"}) /\ Len(Kinds(passes')) = n + 1
    BY <1>2 DEF Kinds
  <1>6. \A i \in 1..(n + 1) : Kinds(passes')[i] = a[i]
    BY <1>2, <1>4 DEF Kinds
  <1>7. Len(Kinds(passes')) = Len(a) /\ \A i \in 1..Len(Kinds(passes')) : Kinds(passes')[i] = a[i]
    BY <1>2, <1>4, <1>5, <1>6
  <1> HIDE DEF a
  <1>8. Kinds(passes') = a
    BY <1>4, <1>5, <1>7, SeqEqual
  <1> USE DEF a
  <1> QED
    BY <1>8
\* Making no pass in the same database, with the debt unchanged, is a stutter.
LEMMA SessionStutter ==
  ASSUME (db' # None) = (db # None), recovered' = recovered, passes' = passes
  PROVE  UNCHANGED Session!vars
  BY DEF Session!vars

\* do_recover pays the debt once, or leaves the session alone.
LEMMA RecoverRefines ==
  ASSUME SessionInv, db \in Binaries, db' = db,
         NEW v \in Versions \cup {None}, NEW plan \in SUBSET Versions, do_recover(v, plan)
  PROVE  Session!AutomaticPass \/ UNCHANGED Session!vars
  <1>1. CASE recovered
    BY <1>1, SessionStutter DEF do_recover
  <1>2. CASE ~recovered
    <2>1. recovered' /\ Kinds(passes') = Append(Kinds(passes), "automatic")
      BY <1>2, KindsAppend DEF do_recover, SessionInv
    <2> QED
      BY <1>2, <2>1 DEF Session!AutomaticPass, Kinds
  <1> QED
    BY <1>1, <1>2

\* The tail of an invocation is a manual pass.
LEMMA FinishRefines ==
  ASSUME SessionInv, db \in Binaries, db' = db, recovered',
         NEW found \in Versions \cup {None}, NEW plan \in SUBSET Versions, FinishRun(found, plan)
  PROVE  Session!ManualPass
  <1>1. PICK v \in IF found = None THEN pin_version_by_overlap(db, applied[db]) ELSE {found} :
          run_recovery("manual", v, plan)
    BY DEF FinishRun
  <1>2. v \in Versions \cup {None}
    BY <1>1, PinType
  <1>3. Kinds(passes') = Append(Kinds(passes), "manual")
    BY <1>1, <1>2, KindsAppend DEF SessionInv
  <1> QED
    BY <1>3 DEF Session!ManualPass, Kinds

LEMMA RefinementStep ==
  SessionInv /\ [Next]_vars => [Session!Next]_(Session!vars)
  <1> SUFFICES ASSUME SessionInv, [Next]_vars
               PROVE  Session!Next \/ UNCHANGED Session!vars
    OBVIOUS
  <1>1. ASSUME NEW b \in Binaries, OpenBase(b) PROVE Session!Open
    <2>1. passes = <<>> /\ ~recovered /\ passes' = passes /\ recovered' = recovered
      BY <1>1 DEF OpenBase, SessionInv, RecoveredBlocks, ctx, history
    <2> QED
      BY <1>1, <2>1 DEF OpenBase, Session!Open
  <1>2. CASE KernelStep \/ NewWork
    BY <1>2, SessionStutter DEF KernelStep, Analyse, ApplySignature, NewWork, ctx, history
  <1>3. CASE AutoEmpty
    <2> DEFINE found == detect_version(db)
               plan == PlanFor(found)
    <2>1. db \in Binaries /\ db' = db
      BY <1>3 DEF AutoEmpty, SessionInv, TypeOK
    <2>2. found \in Versions \cup {None} /\ plan \in SUBSET Versions
      BY <2>1, DetectType, PlanType DEF SessionInv, TypeOK
    <2>3. do_recover(found, plan) \/ UNCHANGED <<recovered, passes>>
      BY <1>3 DEF AutoEmpty, PlanFlirt, ctx, history
    <2> QED
      BY <2>1, <2>2, <2>3, RecoverRefines, SessionStutter DEF Session!Next
  <1>4. CASE AutoEmptyFinally
    <2>1. db \in Binaries /\ db' = db /\ autoPlan \in SUBSET Versions
      BY <1>4 DEF AutoEmptyFinally, SessionInv, TypeOK
    <2>2. version' \in Versions \cup {None}
      BY <1>4, <2>1, PinType DEF AutoEmptyFinally, SessionInv, TypeOK
    <2>3. do_recover(version', autoPlan)
      BY <1>4 DEF AutoEmptyFinally
    <2> QED
      BY <2>1, <2>2, <2>3, RecoverRefines DEF Session!Next
  <1>5. CASE CloseBase
    BY <1>5 DEF CloseBase, ResetFlags, Session!Close, Session!Next
  <1>6. CASE RunBegin
    <2> DEFINE found == detect_version(db)
               plan == PlanFor(found)
    <2>1. db \in Binaries /\ db' = db /\ recovered'
      BY <1>6 DEF RunBegin, SessionInv, TypeOK
    <2>2. found \in Versions \cup {None} /\ plan \in SUBSET Versions
      BY <2>1, DetectType, PlanType DEF SessionInv, TypeOK
    <2>3. FinishRun(found, plan) \/ passes' = passes
      BY <1>6 DEF RunBegin
    <2>4. CASE FinishRun(found, plan)
      BY <2>1, <2>2, <2>4, FinishRefines DEF Session!Next
    <2>5. CASE passes' = passes
      BY <2>1, <2>5 DEF Session!ManualBegin, Session!Next
    <2> QED
      BY <2>3, <2>4, <2>5
  <1>7. CASE RunResume
    <2>1. db \in Binaries /\ db' = db /\ recovered' = recovered /\ recovered
      BY <1>7 DEF RunResume, SessionInv, TypeOK, WaitingIsOpen, RecoveredBlocks, kernel, ctx
    <2>2. run.version \in Versions \cup {None} /\ run.plan \in SUBSET Versions
      BY DEF SessionInv, TypeOK
    <2> QED
      BY <1>7, <2>1, <2>2, FinishRefines DEF RunResume, Session!Next
  <1>8. CASE UNCHANGED vars
    BY <1>8, SessionStutter DEF vars, kernel, ctx, history
  <1> QED
    BY <1>1, <1>2, <1>3, <1>4, <1>5, <1>6, <1>7, <1>8 DEF Next, Session!Next

\* Whatever databases one instance serves, in whatever order its events and
\* its invocations come, each session keeps the promise of RecoverySession.
THEOREM SessionRefined == SafetySpec => Session!SafetySpec
  <1>1. Init => Session!Init
    BY DEF Init, Session!Init
  <1> QED
    BY <1>1, RefinementStep, SessionInvariant, PTL DEF SafetySpec, Session!SafetySpec
=============================================================================
