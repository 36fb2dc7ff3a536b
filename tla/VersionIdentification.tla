----------------------- MODULE VersionIdentification -----------------------
(***************************************************************************)
(* The two strategies of src/src/core/version_id.cpp: a call works on the  *)
(* strings of the binary, and on the names recovered if they say nothing,  *)
(* or on signature files.                                                  *)
(***************************************************************************)
EXTENDS VersionChoice, FlirtSearch

VARIABLE strategy   \* "strings" | "flirt"

vars == <<choiceVars, searchVars, strategy>>

Init ==
  \/ strategy = "strings" /\ ChoiceInit /\ SearchStart({}, <<>>)
  \/ strategy = "flirt" /\ SearchInit /\ ChoiceStart(<<>>, <<>>)

Next ==
  \/ strategy = "strings" /\ ChoiceNext /\ UNCHANGED <<searchVars, strategy>>
  \/ strategy = "flirt" /\ SearchNext /\ UNCHANGED <<choiceVars, strategy>>

Spec == Init /\ [][Next]_vars
=============================================================================
