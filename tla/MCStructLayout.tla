--------------------------- MODULE MCStructLayout ---------------------------
(***************************************************************************)
(* Prototypes over three kinds of databases: pairs of types of which the   *)
(* second embeds the first, for the layout; types whose names differ       *)
(* little; and pairs of prototypes of one name.                            *)
(***************************************************************************)
EXTENDS Prototypes

CONSTANT MaxSize  \* bound on the sizes and offsets of the second type

Value(n) == [kind |-> "value", n |-> n, length |-> 1]
Bottom == [kind |-> "bottom", n |-> 0, length |-> 1]
First(length) == [kind |-> "type", n |-> 1, length |-> length]

At(offset, ty) == [offset |-> offset, ty |-> ty]
Struct(size, fs) == [shape |-> "struct", size |-> size, disc |-> 0, variants |-> <<fs>>]
Enum(size, disc, vs) == [shape |-> "enum", size |-> size, disc |-> disc, variants |-> vs]

\* Empty, exact, padded, irregular, tagged, niche-encoded, and a niche enum
\* whose payload is too large.
Firsts == {Struct(0, <<>>), Struct(3, <<At(0, Value(3))>>), Struct(2, <<At(1, Value(1))>>),
           Struct(2, <<At(0, Value(2)), At(0, Value(1))>>), Enum(2, 1, <<<<>>, <<At(0, Value(1))>>>>),
           Enum(2, 1, <<<<At(0, Bottom)>>, <<At(0, Value(1)), At(0, Value(1))>>>>),
           Enum(1, 0, <<<<At(0, Value(2))>>>>)}

Tys == {Value(1), Value(3), Bottom, First(0), First(1), First(2)}
Fields == [offset : 0..MaxSize, ty : Tys]
UpTo(n, S) == UNION {[1..m -> S] : m \in 0..n}

Payloads == UpTo(2, {At(0, ty) : ty \in {Value(1), Value(3), Bottom, First(1)}})
Seconds == {Struct(size, fs) : size \in 0..MaxSize, fs \in UpTo(2, Fields)} \cup
           {Enum(size, disc, <<v, w>>) : size \in 0..MaxSize, disc \in {0, 1, 3}, v, w \in Payloads}

Library(ns, ps) == [names |-> ns, prototypes |-> ps]

\* Alike when sanitized, alike when cut, and alike with a number behind them.
RustNames == {<<"a", "<">>, <<"a", "&">>, <<"a", "<", "&">>, <<"a">>, <<"a", "_", "1">>, <<"a", "<", "1", "b">>,
              <<"a", "<", "1", "c">>, <<"a", "<", "<", "1">>, <<"a", "<", "1">>}
Small == <<Struct(1, <<>>), Struct(1, <<>>), Struct(1, <<>>)>>
NamesAlike == {Library(ns, <<>>) : ns \in {s \in [1..3 -> RustNames] : IsInjective(s)}}

Plain(kind, n) == [wraps |-> <<>>, kind |-> kind, n |-> n]
Wrapped(wraps, n) == [wraps |-> wraps, kind |-> "type", n |-> n]
P == <<"pointer">>
\* Two small types with names alike, and one that is passed by reference.
Scalars == {Plain("int", 1), Plain("int", 3), Plain("int", 8), Plain("signed", 8), Plain("slice", 0),
            Plain("unknown", 0)}
Aggregates == {Plain("type", t) : t \in 1..3} \cup {Wrapped(P, t) : t \in 1..3}
                \cup {Wrapped(<<"array">>, 1), Wrapped(P \o P, 1), Wrapped(<<"pointer", "array">>, 2),
                       Wrapped(<<"array", "pointer">>, 2), [wraps |-> P, kind |-> "bottom", n |-> 0]}
Few == {Plain("int", 1), Plain("type", 1), Wrapped(P, 3), Plain("type", 3)}
Results == {Plain("unknown", 0), Plain("int", 1), Plain("type", 2), Plain("type", 3)}
Prototype(args, ret) == [args |-> args, ret |-> ret]
Singles == {Prototype(args, ret) : args \in UpTo(1, Scalars \cup Aggregates), ret \in Results}
Doubles == {Prototype(args, ret) : args \in UpTo(2, Few), ret \in {Plain("int", 1), Plain("type", 3)}}
OneBig == <<Struct(1, <<>>), Struct(1, <<>>), Struct(5, <<>>)>>
SameNames ==
  {Library(<<<<"a", "<">>, <<"a", "&">>, <<"b">>>>, ps) :
     ps \in UNION {UpTo(3, {Prototype(<<a>>, a) : a \in Few}), Doubles \X Doubles, Singles \X Singles}}

MCTypeLists == {Small, OneBig} \cup (Firsts \X Seconds)
MCLibraries(ts) ==
  IF ts = Small THEN NamesAlike ELSE IF ts = OneBig THEN SameNames
  ELSE {Library(<<<<"a">>, <<"b">>>>, <<>>)}
=============================================================================
