-------------------------- MODULE PluginLifecycle --------------------------
(***************************************************************************)
(* The plugin instance oxidizer_ctx_t of src/src/ida/oxidizer_ida.cpp: the *)
(* event listener that plans FLIRT signatures at auto_empty and recovers   *)
(* at auto_empty_finally, the manual invocation (menu / Ctrl-Alt-R), and   *)
(* the session flags that one instance keeps across databases.             *)
(*                                                                         *)
(* External to the code, modelled from how it uses the IDA kernel: the     *)
(* analysis queues, the two analysis-complete events, auto_wait, and the   *)
(* opening and closing of databases.  A signature file is represented by   *)
(* the rustc version it belongs to.                                        *)
(***************************************************************************)
EXTENDS Naturals, Sequences, FiniteSets

CONSTANTS
  Versions,     \* rustc versions a binary can name
  DbVersions,   \* the versions that have a file in <data>/type_db
  Binaries,     \* the databases a user may open, see BinaryRecord
  None,         \* std::nullopt
  MaxEdits,     \* bound on work the kernel finds for itself, per session
  MaxRuns       \* bound on manual invocations, per session

\* embedded: what detect_version reads from its strings; rustc: the version
\* whose std functions it contains; symbols: it is not stripped.
BinaryRecord == [embedded : Versions \cup {None}, rustc : Versions, symbols : BOOLEAN]

ASSUME ConstantsAssumption ==
  /\ DbVersions \subseteq Versions
  /\ IsFiniteSet(Versions)
  /\ None \notin Versions
  /\ Binaries \subseteq BinaryRecord
  /\ None \notin Binaries
  /\ MaxEdits \in Nat /\ MaxRuns \in Nat

VARIABLES
  \* the IDA kernel
  db,             \* the open database, or None
  staging,        \* the versions whose sig files can be staged in this session
  queue,          \* signatures planned and not applied yet
  work,           \* the other analysis queues are not empty
  phase,          \* which analysis-complete event can come next
  applied,        \* signatures applied, kept in each database when it is closed
  edits, runs,    \* bounded counters
  \* oxidizer_ctx_t
  flirt_planned, recovered, fallback, flirt_count, version,
  \* run_pipeline_interactive, suspended in auto_wait
  run,
  \* history of the session
  autoPlan,       \* the signatures the automatic path planned
  passes          \* the recovery passes made

kernel == <<db, staging, queue, work, phase, applied, edits, runs>>
ctx == <<flirt_planned, recovered, fallback, flirt_count, version>>
history == <<autoPlan, passes>>
vars == <<kernel, ctx, run, history>>

NoRun == [at |-> "idle", version |-> None, plan |-> {}]
Pass == [kind : {"automatic", "manual"}, version : Versions \cup {None},
         plan : SUBSET Versions, seen : SUBSET Versions]

TypeOK ==
  /\ db \in Binaries \cup {None}
  /\ staging \in SUBSET Versions /\ queue \in SUBSET Versions
  /\ work \in BOOLEAN
  /\ phase \in {"initial", "finishing", "settled"}
  /\ applied \in [Binaries -> SUBSET Versions]
  /\ edits \in 0..MaxEdits /\ runs \in 0..MaxRuns
  /\ flirt_planned \in BOOLEAN /\ recovered \in BOOLEAN /\ fallback \in BOOLEAN
  /\ flirt_count \in Nat /\ version \in Versions \cup {None}
  /\ run \in [at : {"idle", "waiting"}, version : Versions \cup {None}, plan : SUBSET Versions]
  /\ autoPlan \in SUBSET Versions /\ passes \in Seq(Pass)

-----------------------------------------------------------------------------
(* What the handlers compute.                                              *)

detect_version(b) == b.embedded

\* The files of one version, or of every version in the database directory.
apply_flirt(v) == {v} \cap staging
apply_all_flirt == DbVersions \cap staging

PlanFor(found) == IF found # None THEN apply_flirt(found) ELSE apply_all_flirt

\* The std names are in the function list when the binary has symbols or its
\* own version's signatures have been applied; the others do not fire.
StdNamesVisible(b, sigs) == b.symbols \/ b.rustc \in sigs

\* The version whose function names overlap most with the recovered ones. A
\* rustc that is not in the database is mistaken for any other, or for none.
pin_version_by_overlap(b, sigs) ==
  IF ~StdNamesVisible(b, sigs) THEN {None}
  ELSE IF b.rustc \in DbVersions THEN {b.rustc}
  ELSE DbVersions \cup {None}

\* A pass over the names that are visible now.
run_recovery(kind, v, plan) ==
  passes' = Append(passes, [kind |-> kind, version |-> v, plan |-> plan, seen |-> applied[db]])

\* Mutant: the recovered flag is not tested.
RecoverUntested(v, plan) == recovered' = TRUE /\ run_recovery("automatic", v, plan)

\* Mutant: the recovered flag is not set.
RecoverUnmarked(v, plan) ==
  IF recovered THEN UNCHANGED <<recovered, passes>>
  ELSE UNCHANGED recovered /\ run_recovery("automatic", v, plan)

do_recover(v, plan) ==
  IF recovered THEN UNCHANGED <<recovered, passes>>
  ELSE recovered' = TRUE /\ run_recovery("automatic", v, plan)

\* Mutant: the next database does not detect its version.
ResetKeepsPlanned ==
  /\ UNCHANGED flirt_planned /\ recovered' = FALSE /\ fallback' = FALSE
  /\ flirt_count' = 0 /\ version' = None

\* Mutant: the instance is not armed again.
ResetKeepsRecovered ==
  /\ flirt_planned' = FALSE /\ UNCHANGED recovered /\ fallback' = FALSE
  /\ flirt_count' = 0 /\ version' = None

\* closebase: nothing of the old database survives in the instance.
ResetFlags ==
  /\ flirt_planned' = FALSE /\ recovered' = FALSE /\ fallback' = FALSE
  /\ flirt_count' = 0 /\ version' = None

-----------------------------------------------------------------------------
(* The IDA kernel.                                                         *)

QueuesEmpty == queue = {} /\ ~work

Init ==
  /\ db = None /\ staging = {} /\ queue = {} /\ work = FALSE /\ phase = "initial"
  /\ applied = [b \in Binaries |-> {}]
  /\ edits = 0 /\ runs = 0
  /\ flirt_planned = FALSE /\ recovered = FALSE /\ fallback = FALSE
  /\ flirt_count = 0 /\ version = None
  /\ run = NoRun
  /\ autoPlan = {} /\ passes = <<>>

OpenBase(b) ==
  /\ db = None
  /\ db' = b /\ staging' \in SUBSET Versions
  /\ work' = TRUE /\ phase' = "initial"
  /\ UNCHANGED <<queue, applied, edits, runs, ctx, run, history>>

ApplySignature(v) ==
  /\ v \in queue
  /\ queue' = queue \ {v}
  /\ applied' = [applied EXCEPT ![db] = @ \cup {v}]
  /\ UNCHANGED <<db, staging, work, phase, edits, runs, ctx, run, history>>

Analyse ==
  /\ work
  /\ work' = FALSE
  /\ UNCHANGED <<db, staging, queue, phase, applied, edits, runs, ctx, run, history>>

\* More to analyse: code found by a signature, another plugin, a user's edit.
NewWork ==
  /\ db # None /\ edits < MaxEdits
  /\ work' = TRUE /\ edits' = edits + 1
  /\ phase' = IF phase = "finishing" THEN "initial" ELSE phase
  /\ UNCHANGED <<db, staging, queue, applied, runs, ctx, run, history>>

-----------------------------------------------------------------------------
(* on_event and run.                                                       *)

\* Mutant: recovers without waiting for the planned signatures.
PlanAndRecover ==
  LET found == detect_version(db)
      plan == PlanFor(found)
  IN  /\ flirt_planned' = TRUE
      /\ version' = found
      /\ fallback' = (fallback \/ found = None)
      /\ flirt_count' = Cardinality(plan)
      /\ queue' = queue \cup plan
      /\ autoPlan' = plan
      /\ do_recover(found, plan)

\* auto_empty, first time: detect, plan, and recover now if nothing was
\* planned.
PlanFlirt ==
  LET found == detect_version(db)
      plan == PlanFor(found)
  IN  /\ flirt_planned' = TRUE
      /\ version' = found
      /\ fallback' = (fallback \/ found = None)
      /\ flirt_count' = Cardinality(plan)
      /\ queue' = queue \cup plan
      /\ autoPlan' = plan
      /\ IF flirt_count' = 0 THEN do_recover(found, plan)
         ELSE UNCHANGED <<recovered, passes>>

\* The kernel repeats the event until a handler leaves the queues empty.
AutoEmpty ==
  /\ db # None /\ QueuesEmpty /\ phase = "initial"
  /\ \/ ~flirt_planned /\ PlanFlirt
     \/ flirt_planned /\ UNCHANGED <<ctx, queue, history>>
  /\ phase' = IF queue' = {} THEN "finishing" ELSE "initial"
  /\ UNCHANGED <<db, staging, work, applied, edits, runs, run>>

AutoEmptyFinally ==
  /\ db # None /\ QueuesEmpty /\ phase = "finishing"
  /\ phase' = "settled"
  /\ IF fallback /\ version = None
     THEN version' \in pin_version_by_overlap(db, applied[db])
     ELSE UNCHANGED version
  /\ do_recover(version', autoPlan)
  /\ UNCHANGED <<db, staging, queue, work, applied, edits, runs, run,
                 flirt_planned, fallback, flirt_count, autoPlan>>

CloseBase ==
  /\ db # None /\ run.at = "idle"
  /\ db' = None /\ queue' = {} /\ work' = FALSE /\ staging' = {} /\ phase' = "initial"
  /\ edits' = 0 /\ runs' = 0
  /\ ResetFlags
  /\ autoPlan' = {} /\ passes' = <<>>
  /\ UNCHANGED <<applied, run>>

\* Mutant: the manual path does not pin.
FinishUnpinned(found, plan) == run_recovery("manual", found, plan)

\* The tail of run_pipeline_interactive: pin if the version is unknown, recover.
FinishRun(found, plan) ==
  \E v \in IF found = None THEN pin_version_by_overlap(db, applied[db]) ELSE {found} :
    run_recovery("manual", v, plan)

RunBegin ==
  LET found == detect_version(db)
      plan == PlanFor(found)
  IN  /\ db # None /\ run.at = "idle" /\ runs < MaxRuns
      /\ runs' = runs + 1
      /\ recovered' = TRUE
      /\ queue' = queue \cup plan
      /\ IF plan = {}
         THEN FinishRun(found, plan) /\ UNCHANGED run
         ELSE run' = [at |-> "waiting", version |-> found, plan |-> plan] /\ UNCHANGED passes
      /\ UNCHANGED <<db, staging, work, phase, applied, edits, flirt_planned, fallback,
                     flirt_count, version, autoPlan>>

\* auto_wait returns once the queues are empty; until then the listener gets
\* its events as usual.
RunResume ==
  /\ run.at = "waiting" /\ QueuesEmpty
  /\ FinishRun(run.version, run.plan)
  /\ run' = NoRun
  /\ UNCHANGED <<kernel, ctx, autoPlan>>

-----------------------------------------------------------------------------
KernelStep == Analyse \/ \E v \in Versions : ApplySignature(v)

Next ==
  \/ \E b \in Binaries : OpenBase(b)
  \/ KernelStep \/ NewWork
  \/ AutoEmpty \/ AutoEmptyFinally
  \/ CloseBase \/ RunBegin \/ RunResume

SafetySpec == Init /\ [][Next]_vars

\* The kernel works its queues off and then delivers its events; auto_wait
\* returns.  Nobody has to open, close, edit, or invoke anything.
Fairness ==
  WF_vars(KernelStep) /\ WF_vars(AutoEmpty) /\ WF_vars(AutoEmptyFinally) /\ WF_vars(RunResume)

Spec == SafetySpec /\ Fairness

-----------------------------------------------------------------------------
(* Properties.                                                             *)

\* The promise of RecoverySession: the automatic pass is owed from the opening
\* of a database until the recovered flag is set.
Session == INSTANCE RecoverySession
  WITH open <- db # None,
       owed <- db # None /\ ~recovered,
       log <- [i \in 1..Len(passes) |-> passes[i].kind]

\* One instance serves one database after another: each session makes its
\* automatic pass at most once, never after a manual invocation, and makes it
\* unless it is superseded (on_event, do_recover, run).
ImplementsSession == Session!Spec

\* "a manual invocation supersedes the auto path", and the recovered flag lets
\* only one automatic pass through: an automatic pass is a session's first.
AutomaticPassIsFirst ==
  \A i \in 1..Len(passes) : passes[i].kind = "automatic" => i = 1

\* "so FLIRT-recovered names exist before type/prototype matching": a pass
\* starts only after every signature its own path planned has been applied.
\* (The comment of oxidizer_ctx_t on the two-phase flow.)
PlannedSignaturesApplied ==
  \A i \in 1..Len(passes) : passes[i].plan \subseteq passes[i].seen

\* A pass types the database with a version that belongs to it: the one its
\* strings name, else one that its own names point to; never the version of
\* a database that was open before.
VersionOfThisDatabase ==
  \A i \in 1..Len(passes) :
    LET v == passes[i].version
    IN  IF db.embedded # None THEN v = db.embedded
        ELSE v = None \/ v \in pin_version_by_overlap(db, passes[i].seen)

\* Where the fallback has signatures to apply, or is run by hand, it ends with
\* the version pinned whenever the names it pins by are visible.
\* (An automatic one that plans no file recovers at once, without a version:
\* README.md:16 promises the pinning of that one too.)
FallbackPinned ==
  \A i \in 1..Len(passes) :
    LET p == passes[i]
    IN  p.kind = "manual" \/ p.plan # {} =>
          db.embedded # None
          \/ p.version \in pin_version_by_overlap(db, p.seen)

\* Every database that stays open is recovered, whatever databases the
\* instance served before (closebase must re-arm it).
EveryDatabaseRecovered == db # None ~> db = None \/ passes # <<>>
=============================================================================
