--------------------------- MODULE SymbolGrammar ----------------------------
(***************************************************************************)
(* The grammar of v0 symbols, RFC 2603, as it is written there and not as  *)
(* the parser reads it: what stands for a path, a type, a list, a constant *)
(* in a text, with what the demangler says of it, and how many paths and   *)
(* types are nested in it.  Of a lifetime it says "'_", of the name of a   *)
(* closure the letter of its namespace in braces, and it leaves out        *)
(* disambiguators, binders, the words before fn, and the types of constants *)
(* and of the bindings of a trait; values are said in decimal.  Left aside *)
(* are back references and placeholders for constants, names in punycode,  *)
(* an empty name with a digit behind it, and the marks of implementation.  *)
(***************************************************************************)
EXTENDS Characters

Letters ==
  {"a", "b", "c", "d", "e", "f", "g", "h", "i", "j", "k", "l", "m", "n", "o", "p", "q", "r", "s", "t", "u", "v",
   "w", "x", "y", "z", "A", "B", "C", "D", "E", "F", "G", "H", "I", "J", "K", "L", "M", "N", "O", "P", "Q", "R",
   "S", "T", "U", "V", "W", "X", "Y", "Z"}

\* basic-type
BasicNames ==
  [a |-> "i8", b |-> "bool", c |-> "char", d |-> "f64", e |-> "str", f |-> "f32", h |-> "u8",
   i |-> "isize", j |-> "usize", l |-> "i32", m |-> "u32", n |-> "i128", o |-> "u128", p |-> "_",
   s |-> "i16", t |-> "u16", u |-> "()", v |-> "...", x |-> "i64", y |-> "u64", z |-> "!"]

\* The types a constant can have, bool apart.
Integral == {"a", "c", "h", "i", "j", "l", "m", "n", "o", "s", "t", "x", "y"}

\* The greater of two depths.
Deeper(a, b) == IF a >= b THEN a ELSE b

Holds(t, i, c) == i <= Len(t) /\ t[i] = c

-----------------------------------------------------------------------------
(* What has no paths and types in it, from i on and up to j.               *)

Places(t) == 1..(Len(t) + 1)

\* base-62-number = { digit | lower | upper } "_"
Base62(t, i, j) ==
  \E e \in Places(t) :
    /\ i <= e /\ Holds(t, e, "_") /\ j = e + 1
    /\ \A k \in i..(e - 1) : t[k] \in Letters \cup DigitSet

\* disambiguator = "s" base-62-number; lifetime = "L" base-62-number; binder = "G" base-62-number
Marked(t, i, c, j) == Holds(t, i, c) /\ Base62(t, i + 1, j)
Optionally(t, i, c, j) == j = i \/ Marked(t, i, c, j)

\* undisambiguated-identifier = decimal-number ["_"] bytes: the number is all the
\* digits that stand at i, the bytes stand from c on.
Undisambiguated(t, i, c, j) ==
  \E b \in Places(t), n \in 0..Len(t) :
    /\ i < b /\ (\A k \in i..(b - 1) : t[k] \in DigitSet) /\ (b <= Len(t) => t[b] \notin DigitSet)
    /\ c = IF Holds(t, b, "_") THEN b + 1 ELSE b
    /\ n = Decimal(SubSeq(t, i, b - 1)) /\ j = c + n /\ j <= Len(t) + 1

\* const-data without its sign: { hex-digit } "_"
HexNumber(t, i, j, n) ==
  \E e \in Places(t) :
    /\ i <= e /\ Holds(t, e, "_") /\ j = e + 1
    /\ \A k \in i..(e - 1) : t[k] \in DigitSet \cup LowerSet
    /\ n = Hexadecimal(SubSeq(t, i, e - 1))

-----------------------------------------------------------------------------
(* What a node stands for among the nodes G of the text t.                 *)

\* The nodes by a rule that stand at i.
Of(G, rule, i) == {g \in G : g.rule = rule /\ g.from = i}

\* "C" identifier: the root of a crate.
CrateRoot(t, d) ==
  \E k, c \in Places(t) :
    /\ Optionally(t, d.from + 1, "s", k) /\ Undisambiguated(t, k, c, d.to)
    /\ d.says = SubSeq(t, c, d.to - 1) /\ d.nested = 1

\* "N" namespace path identifier: a member, and what has no name of its own.
MemberPath(t, G, d) ==
  \E k, c \in Places(t) : \E p \in Of(G, "path", d.from + 2) :
    /\ d.from < Len(t) /\ t[d.from + 1] \in Letters
    /\ Optionally(t, p.to, "s", k) /\ Undisambiguated(t, k, c, d.to)
    /\ d.says = p.says \o (IF c = d.to THEN <<"::{", t[d.from + 1], "}">> ELSE <<"::">> \o SubSeq(t, c, d.to - 1))
    /\ d.nested = p.nested + 1

\* "M" impl-path type: an inherent impl.
InherentImpl(t, G, d) ==
  \E k \in Places(t) : \E p \in Of(G, "path", k) : \E y \in Of(G, "type", p.to) :
    /\ Optionally(t, d.from + 1, "s", k) /\ d.to = y.to
    /\ d.says = <<"<">> \o (y.says \o <<">">>)
    /\ d.nested = 1 + Deeper(p.nested, y.nested)

\* "X" impl-path type path: an impl of a trait.
TraitImpl(t, G, d) ==
  \E k \in Places(t) : \E p \in Of(G, "path", k) : \E y \in Of(G, "type", p.to) : \E q \in Of(G, "path", y.to) :
    /\ Optionally(t, d.from + 1, "s", k) /\ d.to = q.to
    /\ d.says = <<"<">> \o (y.says \o (<<" as ">> \o (q.says \o <<">">>)))
    /\ d.nested = 1 + Deeper(p.nested, Deeper(y.nested, q.nested))

\* "Y" type path: the definition of a trait.
TraitDefinition(G, d) ==
  \E y \in Of(G, "type", d.from + 1) : \E q \in Of(G, "path", y.to) :
    /\ d.to = q.to
    /\ d.says = <<"<">> \o (y.says \o (<<" as ">> \o (q.says \o <<">">>)))
    /\ d.nested = 1 + Deeper(y.nested, q.nested)

\* "I" path { generic-arg } "E"
Instance(t, G, d) ==
  \E p \in Of(G, "path", d.from + 1) :
    \/ Holds(t, p.to, "E") /\ d.to = p.to + 1 /\ d.says = p.says /\ d.nested = 1 + p.nested
    \/ \E a \in Of(G, "generic-args", p.to) :
         /\ d.to = a.to
         /\ d.says = p.says \o (<<"::<">> \o (a.says \o <<">">>))
         /\ d.nested = 1 + Deeper(p.nested, a.nested)

PathIs(t, G, d) ==
  \/ Holds(t, d.from, "C") /\ CrateRoot(t, d)
  \/ Holds(t, d.from, "N") /\ MemberPath(t, G, d)
  \/ Holds(t, d.from, "M") /\ InherentImpl(t, G, d)
  \/ Holds(t, d.from, "X") /\ TraitImpl(t, G, d)
  \/ Holds(t, d.from, "Y") /\ TraitDefinition(G, d)
  \/ Holds(t, d.from, "I") /\ Instance(t, G, d)

-----------------------------------------------------------------------------

BasicType(t, d) ==
  /\ d.from <= Len(t) /\ t[d.from] \in DOMAIN BasicNames
  /\ d.to = d.from + 1 /\ d.says = <<BasicNames[t[d.from]]>> /\ d.nested = 1

NamedType(G, d) ==
  \E p \in Of(G, "path", d.from) : d.to = p.to /\ d.says = p.says /\ d.nested = 1 + p.nested

\* "A" type const
ArrayType(G, d) ==
  \E y \in Of(G, "type", d.from + 1) : \E n \in Of(G, "const", y.to) :
    /\ d.to = n.to
    /\ d.says = <<"[">> \o (y.says \o (<<"; ">> \o (n.says \o <<"]">>)))
    /\ d.nested = 1 + Deeper(y.nested, n.nested)

\* "S" type
SliceType(G, d) ==
  \E y \in Of(G, "type", d.from + 1) :
    d.to = y.to /\ d.says = <<"[">> \o (y.says \o <<"]">>) /\ d.nested = 1 + y.nested

\* "T" { type } "E": a comma tells one from a type in brackets.
TupleType(t, G, d) ==
  \/ Holds(t, d.from + 1, "E") /\ d.to = d.from + 2 /\ d.says = <<"(", ")">> /\ d.nested = 1
  \/ \E y \in Of(G, "type", d.from + 1) :
       \/ /\ Holds(t, y.to, "E") /\ d.to = y.to + 1
          /\ d.says = <<"(">> \o (y.says \o <<",)">>) /\ d.nested = 1 + y.nested
       \/ \E r \in Of(G, "types", y.to) :
            /\ d.to = r.to
            /\ d.says = <<"(">> \o (y.says \o (<<", ">> \o (r.says \o <<")">>)))
            /\ d.nested = 1 + Deeper(y.nested, r.nested)

\* "R" [lifetime] type, "Q" [lifetime] type: what follows the lifetime is printed so.
Reference(t, G, d, mark) ==
  \E k \in Places(t) : \E y \in Of(G, "type", k) :
    /\ Optionally(t, d.from + 1, "L", k) /\ d.to = y.to
    /\ d.says = <<"&">> \o ((IF k = d.from + 1 THEN <<>> ELSE <<"'_ ">>) \o (mark \o y.says))
    /\ d.nested = 1 + y.nested

\* "P" type, "O" type
Pointer(G, d, mark) ==
  \E y \in Of(G, "type", d.from + 1) : d.to = y.to /\ d.says = mark \o y.says /\ d.nested = 1 + y.nested

\* "K" abi, where abi = "C" | undisambiguated-identifier
Abi(t, i, j) ==
  /\ Holds(t, i, "K")
  /\ \/ Holds(t, i + 1, "C") /\ j = i + 2
     \/ \E c \in Places(t) : Undisambiguated(t, i + 1, c, j)

\* "F" [binder] ["U"] ["K" abi] { type } "E" type
FunctionType(t, G, d) ==
  \E a, b, e \in Places(t) :
    /\ Optionally(t, d.from + 1, "G", a)
    /\ \/ b = a
       \/ Holds(t, a, "U") /\ b = a + 1
    /\ \/ e = b
       \/ Abi(t, b, e)
    /\ \/ \E y \in Of(G, "type", e + 1) :
            /\ Holds(t, e, "E") /\ d.to = y.to
            /\ d.says = <<"fn(">> \o (<<") -> ">> \o y.says) /\ d.nested = 1 + y.nested
       \/ \E r \in Of(G, "types", e) : \E y \in Of(G, "type", r.to) :
            /\ d.to = y.to
            /\ d.says = <<"fn(">> \o (r.says \o (<<") -> ">> \o y.says))
            /\ d.nested = 1 + Deeper(r.nested, y.nested)

\* "D" [binder] { dyn-trait } "E" lifetime
DynType(t, G, d) ==
  \E a \in Places(t) :
    /\ Optionally(t, d.from + 1, "G", a)
    /\ \/ Holds(t, a, "E") /\ Marked(t, a + 1, "L", d.to) /\ d.says = <<"dyn ", "?">> /\ d.nested = 1
       \/ \E r \in Of(G, "dyn-traits", a) :
            Marked(t, r.to, "L", d.to) /\ d.says = <<"dyn ">> \o r.says /\ d.nested = 1 + r.nested

TypeIs(t, G, d) ==
  \/ BasicType(t, d)
  \/ NamedType(G, d)
  \/ Holds(t, d.from, "A") /\ ArrayType(G, d)
  \/ Holds(t, d.from, "S") /\ SliceType(G, d)
  \/ Holds(t, d.from, "T") /\ TupleType(t, G, d)
  \/ Holds(t, d.from, "R") /\ Reference(t, G, d, <<>>)
  \/ Holds(t, d.from, "Q") /\ Reference(t, G, d, <<"mut ">>)
  \/ Holds(t, d.from, "P") /\ Pointer(G, d, <<"*const ">>)
  \/ Holds(t, d.from, "O") /\ Pointer(G, d, <<"*mut ">>)
  \/ Holds(t, d.from, "F") /\ FunctionType(t, G, d)
  \/ Holds(t, d.from, "D") /\ DynType(t, G, d)

-----------------------------------------------------------------------------
(* Lists, which an "E" ends.                                               *)

\* A member, and the "E" or the others.
List(t, G, d, member, sep) ==
  \E y \in Of(G, member, d.from) :
    \/ Holds(t, y.to, "E") /\ d.to = y.to + 1 /\ d.says = y.says /\ d.nested = y.nested
    \/ \E r \in Of(G, d.rule, y.to) :
         d.to = r.to /\ d.says = y.says \o (<<sep>> \o r.says) /\ d.nested = Deeper(y.nested, r.nested)

\* generic-arg = lifetime | type | "K" const
GenericArg(t, G, d) ==
  \/ Marked(t, d.from, "L", d.to) /\ d.says = <<"'_">> /\ d.nested = 0
  \/ Holds(t, d.from, "K") /\ \E n \in Of(G, "const", d.from + 1) : d.to = n.to /\ d.says = n.says /\ d.nested = n.nested
  \/ \E y \in Of(G, "type", d.from) : d.to = y.to /\ d.says = y.says /\ d.nested = y.nested

\* dyn-trait = path { dyn-trait-assoc-binding }
DynTrait(G, d) ==
  \E p \in Of(G, "path", d.from) :
    /\ d.says = p.says
    /\ \/ d.to = p.to /\ d.nested = p.nested
       \/ \E b \in Of(G, "bindings", p.to) : d.to = b.to /\ d.nested = Deeper(p.nested, b.nested)

\* dyn-trait-assoc-binding = "p" undisambiguated-identifier type
Bindings(t, G, d) ==
  \E k, c \in Places(t) : \E y \in Of(G, "type", k) :
    /\ Holds(t, d.from, "p") /\ Undisambiguated(t, d.from + 1, c, k) /\ d.says = <<>>
    /\ \/ d.to = y.to /\ d.nested = y.nested
       \/ \E b \in Of(G, "bindings", y.to) : d.to = b.to /\ d.nested = Deeper(y.nested, b.nested)

\* The hexadecimal digits of const-data, which are said in decimal.
HexValue(t, d, largest) ==
  \E n \in 0..largest : HexNumber(t, d.from, d.to, n) /\ d.says = Spelling[n] /\ d.nested = 0

\* const = type const-data, where const-data = ["n"] { hex-digit } "_"
Constant(t, G, d) ==
  \E y \in Of(G, "type", d.from) :
    /\ y.to = d.from + 1 /\ d.nested = y.nested
    /\ \/ Holds(t, d.from, "b") /\ HexNumber(t, y.to, d.to, 0) /\ d.says = <<"false">>
       \/ Holds(t, d.from, "b") /\ HexNumber(t, y.to, d.to, 1) /\ d.says = <<"true">>
       \/ \E n \in Of(G, "number", y.to) : t[d.from] \in Integral /\ d.to = n.to /\ d.says = n.says
       \/ \E n \in Of(G, "number", y.to + 1) :
            Holds(t, y.to, "n") /\ t[d.from] \in Integral /\ d.to = n.to /\ d.says = <<"-">> \o n.says

Rules == {"path", "type", "generic-arg", "generic-args", "types", "dyn-trait", "dyn-traits", "bindings", "const",
          "number"}

\* G is the parse of stretches of t, made of the words W, with no constant beyond
\* the largest: every node is what its rule says.
Grammatical(t, G, W, largest) ==
  /\ t \in Seq(W)
  /\ \A d \in G :
       /\ d.rule \in Rules /\ d.from \in Nat \ {0} /\ d.to \in Nat \ {0} /\ d.says \in Seq(W) /\ d.nested \in Nat
       /\ d.rule = "path" => PathIs(t, G, d)
       /\ d.rule = "type" => TypeIs(t, G, d)
       /\ d.rule = "generic-arg" => GenericArg(t, G, d)
       /\ d.rule = "generic-args" => List(t, G, d, "generic-arg", ", ")
       /\ d.rule = "types" => List(t, G, d, "type", ", ")
       /\ d.rule = "dyn-trait" => DynTrait(G, d)
       /\ d.rule = "dyn-traits" => List(t, G, d, "dyn-trait", " + ")
       /\ d.rule = "bindings" => Bindings(t, G, d)
       /\ d.rule = "const" => Constant(t, G, d)
       /\ d.rule = "number" => HexValue(t, d, largest)
=============================================================================
