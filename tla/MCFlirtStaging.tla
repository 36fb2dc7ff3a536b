--------------------------- MODULE MCFlirtStaging ---------------------------
(* FlirtStaging with three files, one of which the data directory lacks.   *)
EXTENDS FlirtStaging, TLC

CONSTANTS a3, a2, b3, v1, v2

MCFiles == {a3, a2, b3}
MCFilesOf == [v \in Versions |-> IF v = v1 THEN <<a3, a2>> ELSE <<b3>>]
MCAllFiles == <<a3, a2, b3>>
MCShipped == {a3, b3}

CONSTANT First  \* the process that starts the first session: all are alike

FirstStarts == sessions # <<>> \/ sessions' \in {<<>>, <<First>>}
MCSpec == Init /\ [][Next /\ FirstStarts]_vars /\ Fairness
=============================================================================
