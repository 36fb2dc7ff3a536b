--------------------------- MODULE MCTextReaders ----------------------------
(***************************************************************************)
(* Symbols and JSON texts made from their grammars, whole and damaged.     *)
(***************************************************************************)
EXTENDS TextReaders, SequencesExt, FiniteSetsExt, TLC

MCEscapes ==
  (<<"L", "T">> :> "<") @@ (<<"G", "T">> :> ">") @@ (<<"C">> :> ",") @@ (<<"u", "2", "0">> :> " ")

Larger(m, n) == IF m > n THEN m ELSE n

-----------------------------------------------------------------------------
(* The grammar of v0 symbols (RFC 2603): a code, what it says, how many    *)
(* paths and types it nests, and what normalize is to leave of it.         *)

Sides(t, r, s) == [type |-> t, trait |-> r, sure |-> s]
Same(s) == Sides(s, s, TRUE)
Around(before, p, after) == Sides(before \o p.type \o after, before \o p.trait \o after, p.sure)
\* "<t as p>"
Qual(t, p) ==
  Sides(t.type, p.trait, t.sure /\ p.sure /\ <<>> \notin {t.type, t.trait, p.type, p.trait})

Term(c, s, n, p) == [code |-> c, says |-> s, nested |-> n, plain |-> p]
Literally(c, s, n) == Term(c, s, n, Same(s))

Names == {Literally(<<"1", "a">>, <<"a">>, 0), Literally(<<"3", "_", "_", "1", "b">>, <<"_", "1", "b">>, 0)}
Crates ==
  {Literally(<<"C", "1", "a">>, <<"a">>, 1), Literally(<<"C", "s", "1", "_", "2", "b", "b">>, <<"b", "b">>, 1)}
Basics == {Literally(<<"b">>, <<"bool">>, 1), Literally(<<"h">>, <<"u8">>, 1)}

\* A value is written in hexadecimal and said in decimal.
Constants ==
  {Literally(<<"h", "0", "1", "f", "_">>, <<"3", "1">>, 1), Literally(<<"l", "n", "2", "_">>, <<"-", "2">>, 1),
   Literally(<<"b", "1", "_">>, <<"true">>, 1), Literally(<<"b", "0", "_">>, <<"false">>, 1),
   Literally(<<"B", "_">>, <<"_">>, 0), Literally(<<"h", "_">>, <<"0">>, 1)}

\* Whatever it refers back to, the demangler says "_".
Backreference == Literally(<<"B", "1", "_">>, <<"_">>, 1)

\* A disambiguator keeps the length of a name from the empty name before it.
Apart(p) == IF Last(p.code) = "0" THEN <<"s", "_">> ELSE <<>>

\* The terms that hold a given path or type, and small ones.
PathsOf(p) ==
  {Term(<<"N", ns>> \o p.code \o Apart(p) \o n.code, p.says \o <<"::">> \o n.says, 1 + p.nested,
        Around(<<>>, p.plain, <<"::">> \o n.says)) :
     ns \in {"v", "t"}, n \in Names}
  \cup {Term(<<"N", "C">> \o p.code \o <<"s", "_", "0">>, p.says \o <<"::{", "C", "}">>, 1 + p.nested,
             Around(<<>>, p.plain, <<"::", "{", "C", "}">>)),
        Term(<<"I">> \o p.code \o <<"E">>, p.says, 1 + p.nested, p.plain),
        Term(<<"I">> \o p.code \o <<"L", "_", "h", "E">>,
             p.says \o <<"::<", "'_", ", ", "u8", ">">>, 1 + Larger(p.nested, 1), p.plain)}
  \cup {Term(<<"I">> \o p.code \o <<"K">> \o c.code \o <<"E">>,
             p.says \o <<"::<">> \o c.says \o <<">">>, 1 + Larger(p.nested, c.nested), p.plain) : c \in Constants}
  \cup {Term(<<"Y", "h">> \o p.code, <<"<", "u8", " as ">> \o p.says \o <<">">>, 1 + p.nested,
             Qual(Same(<<"u8">>), p.plain)),
        Term(<<"X", "s", "_", "C", "1", "c", "b">> \o p.code,
             <<"<", "bool", " as ">> \o p.says \o <<">">>, 1 + p.nested, Qual(Same(<<"bool">>), p.plain)),
        Term(<<"M">> \o p.code \o <<"h">>, <<"<", "u8", ">">>, 1 + p.nested, Same(<<>>))}

TypedPathsOf(t) ==
  {Term(<<"M", "C", "1", "c">> \o t.code, <<"<">> \o t.says \o <<">">>, 1 + t.nested,
        Sides(<<>>, <<>>, t.plain.sure)),
   Term(<<"X", "C", "1", "c">> \o t.code \o <<"C", "1", "a">>,
        <<"<">> \o t.says \o <<" as ", "a", ">">>, 1 + t.nested, Qual(t.plain, Same(<<"a">>))),
   Term(<<"Y">> \o t.code \o <<"B", "_">>, <<"<">> \o t.says \o <<" as ", "_", ">">>, 1 + t.nested,
        Qual(t.plain, Same(<<"_">>))),
   Term(<<"I", "C", "1", "a">> \o t.code \o <<"h", "E">>,
        <<"a", "::<">> \o t.says \o <<", ", "u8", ">">>, 1 + t.nested,
        Sides(<<"a">>, <<"a">>, t.plain.sure))}

TypesOf(t) ==
  LET Holds(c, before, after, nested) ==
        Term(c, before \o t.says \o after, 1 + nested, Around(before, t.plain, after))
      Function(c, s) == Term(c, s, 1 + t.nested, Sides(s, s, FALSE))
  IN  {Holds(<<"A">> \o t.code \o c.code, <<"[">>, <<"; ">> \o c.says \o <<"]">>, Larger(t.nested, c.nested)) :
         c \in Constants}
      \cup {Holds(<<"S">> \o t.code, <<"[">>, <<"]">>, t.nested),
            Holds(<<"T">> \o t.code \o <<"E">>, <<"(">>, <<",)">>, t.nested),
            Holds(<<"T">> \o t.code \o <<"h", "h", "h", "E">>,
                  <<"(">>, <<", ", "u8", ", ", "u8", ", ", "u8", ")">>, t.nested),
            Holds(<<"R">> \o t.code, <<"&">>, <<>>, t.nested),
            Holds(<<"Q", "L", "1", "_">> \o t.code, <<"&", "'_ ", "mut ">>, <<>>, t.nested),
            Holds(<<"P">> \o t.code, <<"*const ">>, <<>>, t.nested),
            Holds(<<"O">> \o t.code, <<"*mut ">>, <<>>, t.nested),
            Function(<<"F", "G", "_", "U", "K", "C">> \o t.code \o <<"E", "u">>,
                     <<"fn(">> \o t.says \o <<") -> ", "()">>),
            Function(<<"F", "K", "1", "x", "h", "h", "E">> \o t.code,
                     <<"fn(", "u8", ", ", "u8", ") -> ">> \o t.says),
            Literally(<<"D", "C", "1", "a", "p", "1", "x">> \o t.code \o <<"C", "1", "b", "E", "L", "_">>,
                      <<"dyn ", "a", " + ", "b">>, 1 + t.nested)}

PathTypesOf(p) ==
  {Term(p.code, p.says, 1 + p.nested, p.plain),
   Term(<<"D", "G", "_">> \o p.code \o <<"E", "L", "_">>, <<"dyn ">> \o p.says, 1 + p.nested,
        Around(<<"dyn ">>, p.plain, <<>>))}

Layers[k \in 0..2] ==
  IF k = 0
  THEN [paths |-> Crates,
        types |-> Basics \cup {Backreference, Literally(<<"T", "E">>, <<"(", ")">>, 1),
                              Literally(<<"D", "E", "L", "_">>, <<"dyn ", "?">>, 1)}]
  ELSE [paths |-> UNION {PathsOf(p) : p \in Layers[k - 1].paths}
                    \cup UNION {TypedPathsOf(t) : t \in Layers[k - 1].types},
        types |-> UNION {TypesOf(t) : t \in Layers[k - 1].types}
                    \cup UNION {PathTypesOf(p) : p \in Layers[k - 1].paths}]

Shallow == Layers[0].paths \cup Layers[1].paths \cup Layers[2].paths
\* The same inside one more path, which may be one too many.
V0 ==
  Shallow \cup {Term(<<"N", "t">> \o t.code \o Apart(t) \o <<"1", "c">>, t.says \o <<"::", "c">>, 1 + t.nested,
                     Around(<<>>, t.plain, <<"::", "c">>)) : t \in Shallow}

Meaning(s, p, n, l) == [symbol |-> s, path |-> p, nested |-> n, plain |-> l]
Unchanged(s) == Meaning(s, s, 0, Same(s))
\* A path as it is already spelt in the database.
AsPath(t) == Meaning(Spell(t.says), Spell(t.says), 0, t.plain)

OfConstant(c) == <<"_", "R", "I", "C", "1", "a", "K">> \o c \o <<"E">>

V0Meanings ==
  {Meaning(<<"_", "R">> \o t.code, t.says, t.nested, t.plain) : t \in V0}
  \cup {Meaning(before \o <<"_", "R">> \o t.code \o after, t.says, t.nested, t.plain) :
          t \in Crates, before \in {<<"_">>, <<"j", "_">>, <<"j", "_", "j", "_">>},
          after \in {<<>>, <<"C", "1", "c">>, <<".", "1">>}}
  \cup {AsPath(t) : t \in Layers[0].paths \cup Layers[1].paths \cup UNION {TypedPathsOf(u) : u \in Layers[1].types}}
  \cup {Meaning(OfConstant(<<"y", "2", "7", "0", "f", "_">>), <<"a", "::<", "9", "9", "9", "9", ">">>, 2, Same(<<"a">>))}
  \cup {Unchanged(s) : s \in {<<"_", "R", "1", "C", "1", "a">>, <<"_", "R">>, <<"_", "R", "C", "2", "a">>,
                               <<"_", "R", "I", "C", "1", "a", "h">>, <<"a">>}}

-----------------------------------------------------------------------------
(* The grammar itself has such symbols: "INtC1a1bhKh1f_L_E", the instance  *)
(* a::b::<u8, 31, '_>, and "YFG_UKChThhEEuXC1aDC1bp1xAhb1_C1cEL_NCC1a0",   *)
(* <fn(u8, (u8, u8)) -> () as <dyn b + c as a::{C}>>.                       *)

RFC2603 == INSTANCE SymbolGrammar

Stretch(rule_, i, j, s, n) == [rule |-> rule_, from |-> i, to |-> j, says |-> s, nested |-> n]

GenericSymbol == <<"I", "N", "t", "C", "1", "a", "1", "b", "h", "K", "h", "1", "f", "_", "L", "_", "E">>
GenericParse ==
  {Stretch("path", 1, 18, <<"a", "::", "b", "::<", "u8", ", ", "3", "1", ", ", "'_", ">">>, 3),
   Stretch("path", 2, 9, <<"a", "::", "b">>, 2), Stretch("path", 4, 7, <<"a">>, 1),
   Stretch("generic-args", 9, 18, <<"u8", ", ", "3", "1", ", ", "'_">>, 1),
   Stretch("generic-args", 10, 18, <<"3", "1", ", ", "'_">>, 1), Stretch("generic-args", 15, 18, <<"'_">>, 0),
   Stretch("generic-arg", 9, 10, <<"u8">>, 1), Stretch("generic-arg", 10, 15, <<"3", "1">>, 1),
   Stretch("generic-arg", 15, 17, <<"'_">>, 0), Stretch("type", 9, 10, <<"u8">>, 1), Stretch("type", 11, 12, <<"u8">>, 1),
   Stretch("const", 11, 15, <<"3", "1">>, 1), Stretch("number", 12, 15, <<"3", "1">>, 0)}

DynSymbol ==
  <<"Y", "F", "G", "_", "U", "K", "C", "h", "T", "h", "h", "E", "E", "u", "X", "C", "1", "a", "D", "C", "1", "b", "p", "1",
    "x", "A", "h", "b", "1", "_", "C", "1", "c", "E", "L", "_", "N", "C", "C", "1", "a", "0">>
TupleSays == <<"(", "u8", ", ", "u8", ")">>
FunctionSays == <<"fn(", "u8", ", ">> \o TupleSays \o <<") -> ", "()">>
ImplSays == <<"<", "dyn ", "b", " + ", "c", " as ", "a", "::{", "C", "}", ">">>
DynParse ==
  {Stretch("path", 1, 43, <<"<">> \o FunctionSays \o <<" as ">> \o ImplSays \o <<">">>, 5),
   Stretch("type", 2, 15, FunctionSays, 3), Stretch("types", 8, 14, <<"u8", ", ">> \o TupleSays, 2),
   Stretch("type", 8, 9, <<"u8">>, 1), Stretch("types", 9, 14, TupleSays, 2), Stretch("type", 9, 13, TupleSays, 2),
   Stretch("type", 10, 11, <<"u8">>, 1), Stretch("types", 11, 13, <<"u8">>, 1), Stretch("type", 11, 12, <<"u8">>, 1),
   Stretch("type", 14, 15, <<"()">>, 1), Stretch("path", 15, 43, ImplSays, 4), Stretch("path", 16, 19, <<"a">>, 1),
   Stretch("type", 19, 37, <<"dyn ", "b", " + ", "c">>, 3), Stretch("dyn-traits", 20, 35, <<"b", " + ", "c">>, 2),
   Stretch("dyn-trait", 20, 31, <<"b">>, 2), Stretch("path", 20, 23, <<"b">>, 1), Stretch("bindings", 23, 31, <<>>, 2),
   Stretch("type", 26, 31, <<"[", "u8", "; ", "true", "]">>, 2), Stretch("type", 27, 28, <<"u8">>, 1),
   Stretch("const", 28, 31, <<"true">>, 1), Stretch("type", 28, 29, <<"bool">>, 1), Stretch("dyn-traits", 31, 35, <<"c">>, 1),
   Stretch("dyn-trait", 31, 34, <<"c">>, 1), Stretch("path", 31, 34, <<"c">>, 1),
   Stretch("path", 37, 43, <<"a", "::{", "C", "}">>, 2), Stretch("path", 39, 42, <<"a">>, 1)}

WordsOf(t, G) == Range(t) \cup UNION {Range(d.says) : d \in G}

ASSUME SymbolsAreGrammatical ==
  /\ RFC2603!Grammatical(GenericSymbol, GenericParse, WordsOf(GenericSymbol, GenericParse), LongLongMax)
  /\ RFC2603!Grammatical(DynSymbol, DynParse, WordsOf(DynSymbol, DynParse), LongLongMax)

-----------------------------------------------------------------------------
(* Legacy symbols: the elements rustc writes, with their lengths.          *)

Element(i, s, p) == [ident |-> i, says |-> s, plain |-> p]
Kept(i, s) == Element(i, s, Same(s))
Space == <<"$", "u", "2", "0", "$">>
AAsB == <<"a">> \o Space \o <<"a", "s">> \o Space \o <<"b", "$", "G", "T", "$">>
Elements ==
  {Kept(<<"a">>, <<"a">>), Kept(<<"h", "0", "f">>, <<"h", "0", "f">>),
   Element(<<"_", "$", "L", "T", "$">>, <<"<">>, Sides(<<"<">>, <<"<">>, FALSE)),
   Kept(<<"$", "u", "2", "A", "$">>, <<"U+", "4", "2">>),
   Kept(<<"$", "u", "3", "e", "8", "$">>, <<"$", "u", "3", "e", "8", "$">>), Kept(<<"h", "0", "F">>, <<"h", "0", "F">>),
   Kept(<<"a", ".", ".", "b">>, <<"a", "::", "b">>), Kept(<<"$", "x", "y", "$">>, <<"$", "x", "y", "$">>),
   Kept(<<"a", "b", "a", "b", "a", "b", "a", "b", "a", "$", "b">>,
        <<"a", "b", "a", "b", "a", "b", "a", "b", "a", "$", "b">>),
   Element(<<"a", "$", "L", "T", "$", "b", "$", "G", "T", "$">>, <<"a", "<", "b", ">">>, Same(<<"a">>)),
   Element(<<"_", "$", "L", "T", "$">> \o AAsB, <<"<", "a", " ", "a", "s", " ", "b", ">">>,
           Sides(<<"a">>, <<"b">>, TRUE)),
   Element(<<"_", "$", "L", "T", "$", "i", "m", "p", "l">> \o Space \o AAsB,
           <<"<", "i", "m", "p", "l", " ", "a", " ", "a", "s", " ", "b", ">">>, Same(<<"b">>))}

Code(es) == FlattenSeq([k \in 1..Len(es) |-> Spelling[Len(es[k].ident)] \o es[k].ident])
Hash == Kept(<<"h", "0", "f">>, <<"h", "0", "f">>)
WithoutLast(es) == IF Len(es) > 1 /\ es[Len(es)] = Hash THEN Front(es) ELSE es
Path(ss) == FlattenSeq([k \in 1..Len(ss) |-> (IF k = 1 THEN <<>> ELSE <<"::">>) \o ss[k]])
LegacyMeaning(s, es) ==
  Meaning(s, Path([k \in 1..Len(es) |-> es[k].says]), 0,
          Sides(Path([k \in 1..Len(es) |-> es[k].plain.type]), Path([k \in 1..Len(es) |-> es[k].plain.trait]),
                \A k \in 1..Len(es) : es[k].plain.sure))

\* Escapes that stand alone, which paths of three elements leave out.
Opaque == {e \in Elements : "$" \in Range(e.ident) /\ e.says = e.plain.type /\ Len(e.ident) < 11}
LegacyPaths == (SeqOf(Elements, 2) \cup SeqOf(Elements \ Opaque, 3)) \ {<<>>}
LegacyMeanings ==
  {LegacyMeaning(z \o Code(es) \o <<"E">>, WithoutLast(es)) :
     es \in LegacyPaths, z \in {<<"_", "Z", "N">>, <<"j", "_", "j", "_", "Z", "N">>}}
  \cup {Unchanged(z \o Code(<<e>>)) : z \in {<<"_", "Z">>, <<"a", "_", "Z", "N">>}, e \in Elements}
  \cup {Unchanged(<<"_", "Z", "N">> \o Code(<<e>>) \o d) :
          e \in Elements, d \in {<<"a">>, <<"3", "a", "E">>, <<"5">>}}

\* Lengths that wrap around with the place they stand at: to where the loop has
\* been, or behind it.
WrappingSymbols ==
  {<<"_", "Z", "N">> \o s : s \in {<<"9", "9", "7">>, <<"9", "9", "8">>, <<"1", "a", "9", "9", "5">>,
                                  <<"1", "a", "9", "9", "7">>, <<"1", "a", "9", "9", "8">>}}

MCMeanings == V0Meanings \cup LegacyMeanings

\* Constants that the parser does not read, though RFC 2603 has them: one more
\* than LongLongMax, and one that is not known, written without a type.
UnreadConstants == {OfConstant(<<"y", "2", "7", "1", "0", "_">>), OfConstant(<<"p">>)}

\* Symbols cut off at every place, and with one character replaced.
Cut(s) == {SubSeq(s, 1, n) : n \in 2..Len(s)}
Damaged(s) == {[s EXCEPT ![k] = c] : k \in 3..Len(s), c \in {"u", "T", "E", "9", "_"}}
MCSymbols ==
  {m.symbol : m \in MCMeanings} \cup WrappingSymbols \cup UnreadConstants
  \cup UNION {Cut(<<"_", "R">> \o t.code) \cup Damaged(<<"_", "R">> \o t.code) : t \in Layers[1].paths}

\* A closure in a closure: RFC 2603 writes the length of an empty name "0", and
\* a length has no other digits then, so the two names are "00".
NestedClosures ==
  {Meaning(<<"_", "R", "N", "C", "N", "C">> \o t.code \o <<"0", "0">>,
           t.says \o <<"::{", "C", "}", "::{", "C", "}">>, 2 + t.nested, t.plain) : t \in Crates}

\* Demangling gives the path that a symbol says.
ReadBack(meanings) == phase = "done" => \A m \in meanings : m.symbol = input => out = m.path

\* A closure in a closure is demangled ("v0 mangling (RFC 2603)", demangle.cpp:157).
ClosuresReadBack == ReadBack(NestedClosures)
ClosureSymbols == {m.symbol : m \in NestedClosures}

\* A symbol that is malformed comes back (demangle.h:13).
MalformedAnswered == <>Answered

NoDocuments == {}

-----------------------------------------------------------------------------
(* JSON values and their writings.                                         *)

Writing(t, v) == [text |-> t, value |-> v]
Join(ts) == FlattenSeq([k \in 1..Len(ts) |-> (IF k = 1 THEN <<>> ELSE <<",">>) \o ts[k]])
Quoted(t) == <<Quote>> \o t \o <<Quote>>

Pieces ==
  {Writing(<<"a">>, <<"a">>), Writing(<<"\\", "\\">>, <<"\\">>), Writing(<<"\\", "n">>, <<"newline">>),
   Writing(<<"\\", "u", "a">>, <<"a">>), Writing(<<"\\", "u", "hi", "\\", "u", "lo">>, <<"pair">>),
   Writing(<<"\\", "u", "lo">>, <<"U+FFFD">>), Writing(<<"\\", Quote>>, <<Quote>>),
   Writing(<<"\\", "u", "hi", "a">>, <<"U+FFFD", "a">>)}
Strings ==
  {Writing(Quoted(FlattenSeq([k \in 1..Len(ps) |-> ps[k].text])),
           Value("string", FlattenSeq([k \in 1..Len(ps) |-> ps[k].value]))) : ps \in SeqOf(Pieces, 2)}
Scalars ==
  {Writing(<<"1">>, Value("int", 1)), Writing(<<"-", "1", "2">>, Value("negative", 12)),
   Writing(<<"1", "0", "0", "0", "1">>, Value("int", LongLongMax)),
   Writing(<<"1", ".", "5", "e", "-", "1">>, Value("double", <<"1", ".", "5", "e", "-", "1">>)),
   Writing(<<"t", "r", "u", "e">>, Value("bool", TRUE)), Writing(<<"n", "u", "l", "l">>, Value("null", <<>>)),
   Writing(Quoted(<<"a">>), Value("string", <<"a">>))}

Arrays(vs) ==
  {Writing(<<"[">> \o Join([k \in 1..Len(s) |-> s[k].text]) \o <<b, "]">>,
           Value("array", [k \in 1..Len(s) |-> s[k].value])) : s \in SeqOf(vs, 2), b \in {" "}}
Keys == {<<>>, <<"a">>}
Objects(vs) ==
  {Writing(<<"{", " ">> \o Join([k \in 1..Len(s) |-> Quoted(s[k][1]) \o <<" ", ":">> \o s[k][2].text]) \o <<"}">>,
           Value("object", [k \in 1..Len(s) |-> <<s[k][1], s[k][2].value>>])) : s \in SeqOf(Keys \X vs, 2)}

Flat == Arrays(Scalars) \cup Objects(Scalars)
Few == {w \in Flat : Len(w.text) <= 7}
MCWritings == Strings \cup Scalars \cup Flat \cup Arrays(Few) \cup Objects({w \in Few : Len(w.text) <= 5})

JsonChars == {"{", "}", "[", "]", ",", ":", Quote, "1"}
MCDocuments ==
  {w.text : w \in MCWritings}
  \cup UNION {{[w.text EXCEPT ![k] = c] : k \in 1..Len(w.text), c \in JsonChars}
                \cup {RemoveAt(w.text, k) : k \in 1..Len(w.text)} : w \in Few}
  \cup SeqOf(JsonChars, 4)

\* The text of a value, without blanks.
RECURSIVE Written(_)
Written(v) ==
  CASE v[1] = "int" -> Spelling[v[2]]
    [] v[1] = "string" -> Quoted(v[2])
    [] v[1] = "array" -> <<"[">> \o Join([k \in 1..Len(v[2]) |-> Written(v[2][k])]) \o <<"]">>
    [] v[1] = "object" ->
         <<"{">> \o Join([k \in 1..Len(v[2]) |-> Quoted(v[2][k][1]) \o <<":">> \o Written(v[2][k][2])]) \o <<"}">>

WithoutBlanks(s) == SelectSeq(s, LAMBDA c : c \notin Blanks)

\* A text that is accepted is one that a JSON writer can write: it is the value
\* it was read as, with every bracket, comma and colon in its place.  (Of the
\* texts without escapes; a number may also have zeros before it.)
ReadIsWritten ==
  reader = "json" /\ phase = "done" /\ Range(input) \subseteq JsonChars \cup {" ", "a"} =>
    WithoutBlanks(Written(out)) = WithoutBlanks(input)
=============================================================================
