----------------------------- MODULE Demangler ------------------------------
(***************************************************************************)
(* demangle of src/src/core/demangle.cpp: which parser a symbol is given   *)
(* to, and what becomes of its answer.                                     *)
(***************************************************************************)
EXTENDS V0Symbol, LegacySymbol

CONSTANT HashDigits   \* length of the hash of a legacy symbol: 16

ASSUME DemanglerAssumption == HashDigits \in Nat \ {0}

VARIABLE input        \* the symbol demangle was called with

strip_symbol_prefix(s) == IF Prefixed(s, <<"_", "_">>) THEN Tail(s) ELSE s

\* A thunk of a thunk has the prefix "j_" twice.
StripThunks(s) ==
  LET stripped[k \in 0..(Len(s) \div 2)] ==
        IF Prefixed(From(s, 2 * k + 1), <<"j", "_">>) THEN stripped[k + 1] ELSE From(s, 2 * k + 1)
  IN  stripped[0]

demangle_raw ==
  LET s == StripThunks(strip_symbol_prefix(input))
  IN  /\ phase = "start"
      /\ IF Prefixed(s, <<"_", "R">>)
         THEN IF Len(s) > 2 /\ s[3] \in DigitSet THEN Throw ELSE StartV0(From(s, 3))
         ELSE /\ IF Prefixed(s, <<"_", "Z", "N">>) THEN StartLegacy(From(s, 4))
                 ELSE IF Prefixed(s, <<"Z", "N">>) THEN StartLegacy(From(s, 3))
                 ELSE Reject
              /\ UNCHANGED depth

is_rust_hash(s) ==
  Len(s) = HashDigits + 1 /\ s[1] = "h" /\ \A k \in 2..Len(s) : s[k] \in DigitSet \cup LowerSet

\* The path without its last component if that is a hash and not all there is.
WithoutHash(path_) ==
  LET Hash == {k \in 1..Len(path_) : path_[k] = "::" /\ is_rust_hash(From(path_, k + 1))}
  IN  IF Hash = {} THEN path_ ELSE SubSeq(path_, 1, (CHOOSE k \in Hash : TRUE) - 1)

demangle ==
  /\ phase \in {"parsed", "rejected"}
  /\ phase' = "done"
  /\ out' = IF phase = "parsed" THEN WithoutHash(out) ELSE input
  /\ UNCHANGED <<cursor, calls, depth>>

DemangleStep ==
  /\ demangle_raw \/ V0Step \/ (LegacyStep /\ UNCHANGED depth) \/ demangle
  /\ UNCHANGED input
=============================================================================
