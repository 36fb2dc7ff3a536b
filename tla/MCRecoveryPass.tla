--------------------------- MODULE MCRecoveryPass ---------------------------
(* RecoveryPass over two functions: instances of a generic function, of a  *)
(* no-return function with one prototype, or one of each.                  *)
EXTENDS RecoveryPass, TLC

CONSTANTS generic, abort, s1, s2, s3

MCFuncs == 1..2
MCNames == {generic, abort}
MCNoReturns == {abort}
MCSigs == {s1, s2, s3}

\* Two of the prototypes have the same number of arguments.
MCArgCount == s1 :> 1 @@ s2 :> 1 @@ s3 :> 2

\* IDA cannot parse the C rendering of one of these two.
MCParsable == {s1, s3}

OnlyFirst == [s \in MCSigs |-> IF s = s1 THEN "kept" ELSE "absent"]
Listing(a, b, c) == generic :> (s1 :> a @@ s2 :> b @@ s3 :> c) @@ abort :> OnlyFirst

\* What the versions list of the generic function: three instances of which two
\* have the same count, two that the count tells apart, or one beside one that
\* was dropped.
MCDatabases ==
  {Listing("kept", "kept", "kept"), Listing("kept", "absent", "kept"),
   Listing("kept", "dropped", "absent")}
=============================================================================
