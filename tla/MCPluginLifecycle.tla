------------------------ MODULE MCPluginLifecycle ------------------------
(* PluginLifecycle with two versions, one of them in the type database.   *)
EXTENDS PluginLifecycle, TLC

CONSTANTS vDb, vOther

MCVersions == {vDb, vOther}
MCDbVersions == {vDb}

\* A binary that names its version, a stripped one that does not, an
\* unstripped one that does not, and one whose version is not in the database.
MCBinaries ==
  { [embedded |-> vDb, rustc |-> vDb, symbols |-> FALSE],
    [embedded |-> None, rustc |-> vDb, symbols |-> FALSE],
    [embedded |-> None, rustc |-> vDb, symbols |-> TRUE],
    [embedded |-> None, rustc |-> vOther, symbols |-> TRUE] }
=============================================================================
