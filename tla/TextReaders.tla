---------------------------- MODULE TextReaders -----------------------------
(***************************************************************************)
(* The parsers of the core side by side: a symbol is demangled and its     *)
(* name normalized, or the text of a JSON file is read.                    *)
(***************************************************************************)
EXTENDS Normalize, JsonText

CONSTANTS
  Symbols,      \* the names demangle is called with
  Documents,    \* the texts json_parse is called with
  Meanings,     \* what some of the names say: [symbol, path, nested, plain]
  Writings      \* JSON values that some of the texts write: [text, value]

VARIABLE reader   \* "symbol" | "json"

vars == <<v0Vars, input, reader>>

Init ==
  /\ \/ reader = "symbol" /\ input \in Symbols /\ phase = "start"
     \/ reader = "json" /\ input \in Documents /\ phase = "value"
  /\ text = input /\ pos = 1 /\ depth = 0
  /\ calls = <<>> /\ out = <<>>

Next ==
  \/ reader = "symbol" /\ (DemangleStep \/ NormalizeStep) /\ UNCHANGED reader
  \/ reader = "json" /\ JsonStep /\ UNCHANGED <<depth, input, reader>>

SafetySpec == Init /\ [][Next]_vars

\* A parser that is called goes on.
Spec == SafetySpec /\ WF_vars(Next)

Answered == phase = "normal" \/ (reader = "json" /\ phase \in {"done", "rejected"})

-----------------------------------------------------------------------------

\* A symbol that rustc can write is demangled to the path it says, behind any
\* thunk prefixes, with a constant's value in decimal; one that is malformed,
\* has a constant beyond a long long or is nested deeper than the guard allows
\* comes back as it is.  (A back reference is not followed: of whatever it
\* stands for the path says "_".)
SymbolsReadBack ==
  phase = "done" /\ reader = "symbol" =>
    \A m \in Meanings :
      m.symbol = input => out = IF m.nested <= MaxDepth THEN m.path ELSE input

\* Of such a path normalize leaves what it says without parameters, and of each
\* "<X as Y>" in it, however deep, the side that is asked for.  (Of the paths of
\* which that is more than nothing, and in which no function type is spelt: the
\* ">" of its "->" is taken for a bracket.)
NormalizedIsPlain ==
  phase = "normal" /\ reader = "symbol" /\ calls # <<"all">> =>
    \A m \in Meanings :
      m.symbol = input /\ m.plain.sure =>
        out = IF m.nested > MaxDepth THEN input
              ELSE IF calls = <<"type">> THEN m.plain.type ELSE m.plain.trait

\* What a JSON writer has written, in whichever layout, is read as what it is.
WrittenIsRead ==
  phase \in {"done", "rejected"} /\ reader = "json" =>
    \A w \in Writings : w.text = input => phase = "done" /\ out = w.value

\* The end of a legacy component, j + length, wraps around to a place the loop
\* has been at.
WrapsBack ==
  /\ reader = "symbol" /\ AtComponent /\ ComponentLength < WordSize
  /\ LengthEnd - 1 + ComponentLength - WordSize \in 0..(pos - 1)

\* Every text is answered: the recursion, the loops and the cursor that jumps
\* by a length it has read come to an end.  The one exception is a symbol with a
\* length so large that the cursor wraps around.
EveryTextAnswered == <>(Answered \/ WrapsBack)
=============================================================================
