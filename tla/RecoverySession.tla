-------------------------- MODULE RecoverySession --------------------------
(***************************************************************************)
(* What the plugin promises about one database session: as long as a       *)
(* database is open one automatic recovery pass is owed, it is made at     *)
(* most once, a manual invocation cancels the debt, and a debt that is not *)
(* cancelled is paid.  oxidizer_ctx_t (PluginLifecycle) implements it.     *)
(***************************************************************************)
EXTENDS Sequences

VARIABLES
  open,   \* a database is open
  owed,   \* the automatic pass of this session is still to be made
  log     \* the kinds of the passes made in this session, oldest first

vars == <<open, owed, log>>

Init == open = FALSE /\ owed = FALSE /\ log = <<>>

Open ==
  /\ ~open
  /\ open' = TRUE /\ owed' = TRUE /\ log' = <<>>

AutomaticPass ==
  /\ owed
  /\ owed' = FALSE /\ log' = Append(log, "automatic")
  /\ UNCHANGED open

\* A manual invocation takes the debt over before its own pass is made.
ManualBegin ==
  /\ open
  /\ owed' = FALSE
  /\ UNCHANGED <<open, log>>

ManualPass ==
  /\ open
  /\ owed' = FALSE /\ log' = Append(log, "manual")
  /\ UNCHANGED open

Close ==
  /\ open
  /\ open' = FALSE /\ owed' = FALSE /\ log' = <<>>

Next == Open \/ AutomaticPass \/ ManualBegin \/ ManualPass \/ Close

Spec == Init /\ [][Next]_vars /\ WF_vars(AutomaticPass)

SafetySpec == Init /\ [][Next]_vars
=============================================================================
