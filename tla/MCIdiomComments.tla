--------------------------- MODULE MCIdiomComments ---------------------------
(* IdiomComments over the functions of MCRecoveryPass. *)
EXTENDS IdiomComments, MCRecoveryPass

\* An exact name, and a substring that the generic function's name contains.
MCCategories ==
  << [exact |-> {abort}, substrings |-> {}, noreturn |-> TRUE],
     [exact |-> {}, substrings |-> {"::clone"}, noreturn |-> FALSE] >>
MCContained == generic :> {"::clone"} @@ abort :> {}

\* The first function, which may be decompiled in a pass, calls the second.
MCCallIn == 1 :> 2

\* The version that lists two prototypes of the generic function, which the
\* count tells apart.
TwoListed == Listing("kept", "absent", "kept")
Commented == hexrays \/ installed \/ armed \/ current # {} \/ \E a \in DOMAIN CallIn : comment[a] # NoIdiom

\* Bound: where there are comments, there is one version, all functions are
\* instances it lists, and the types are those that passes gave.
FewTypesWithComments ==
  Commented =>
    /\ db \in {TwoListed, NoDatabase}
    /\ \A a \in Funcs : truth[a] # s2 /\ (tinfo[a] # NoSig => given[a] = TwoListed)
=============================================================================
