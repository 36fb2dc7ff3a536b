---------------------------- MODULE MCTypeDBLoad ----------------------------
(* TypeDBLoad over all small files of four shapes.                         *)
EXTENDS TypeDBLoad, TLC

CONSTANTS A, B, C

MCNames == {A, B, C}
MCEnums == {B}

Says(via, of, label) == [via |-> via, of |-> of, label |-> label]
Refs(names) == {Says(via, x, "other") : via \in {"value", "pointer"}, x \in names}
Bads == {Says("value", "int", "other"), Says("value", "bad", "other"), Says("pointer", "bad", "other")}
UpTo(n, ms) == UNION {[1..k -> ms] : k \in 0..n}

Of(x, lists) == [name : {x}, opaque : {FALSE}, members : lists]
Opaque(x) == [name |-> x, opaque |-> TRUE, members |-> <<>>]

\* Three records, each with up to two references.
Webs == {<<a, b, c>> : a \in Of(A, UpTo(2, Refs(MCNames))), b \in Of(B, UpTo(2, Refs(MCNames))),
                       c \in Of(C, UpTo(1, Refs(MCNames)))}

\* Two records of the same name or of two names, each whole or opaque, with
\* members that cannot be parsed; C is defined nowhere.
Odd(x) == Of(x, UpTo(2, Refs({A, B}) \cup Bads) \cup UpTo(1, Refs({C}))) \cup {Opaque(x)}
Twos == {<<a, b>> : a \in Odd(A), b \in Odd(A) \cup Odd(B)}

\* A format argument that holds an enum with a Placeholder, which holds what
\* is or is nearly a slice, in three orders.
Value(x, label) == Says("value", x, label)
Pointer(x, label) == Says("pointer", x, label)
Arguments ==
  Of(A, {<<Value(B, "ty")>>, <<Pointer(B, "ty")>>, <<Value(C, "ty")>>,
         <<Value(B, "ty"), Value("int", "ty")>>, <<Value(B, "ty"), Value("int", "other")>>})
Placeholders ==
  Of(B, {<<m>> : m \in {Value(C, "Placeholder"), Value(C, "other"), Pointer(A, "Placeholder"),
                        Value(A, "Placeholder")}}
        \cup {<<Value("word", "other"), m, Value(C, "Placeholder"), Pointer(B, "other")>> :
                m \in {Value("int", "Placeholder"), Value("int", "other")}})
Slices ==
  Of(C, {<<m, Value("word", "length")>> :
           m \in {Pointer(x, "data_ptr") : x \in {A, B, C, "int", "bad"}} \cup {Value("int", "data_ptr")}}
        \cup {<<m, Pointer("int", "data_ptr")>> :
                m \in {Value("int", "length"), Pointer("word", "length"), Value("word", "length")}}
        \cup {<<Value("word", "length"), Value("int", x), Pointer(B, "data_ptr")>> : x \in Labels})
Patched ==
  UNION {{<<a, b, c>>, <<c, b, a>>, <<b, c, a>>} : a \in Arguments, b \in Placeholders, c \in Slices}

MCDatabases == Webs \cup Twos \cup Patched
=============================================================================
