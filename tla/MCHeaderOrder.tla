--------------------------- MODULE MCHeaderOrder ---------------------------
(* HeaderOrder over the files of MCTypeDBLoad, with an enum of each kind.  *)
EXTENDS HeaderOrder, MCTypeDBLoad

MCOrder == <<A, B, C>>

AllMembers == [x \in MCNames |-> "members"]
MCRenderings == {AllMembers, [AllMembers EXCEPT ![B] = "tagged"]}
=============================================================================
