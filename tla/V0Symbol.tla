------------------------------ MODULE V0Symbol ------------------------------
(***************************************************************************)
(* The parser of v0 symbols: class V0Demangler of src/src/core/demangle.cpp.*)
(* Its functions call each other; here a call in progress is the sequence  *)
(* of the items it has still to treat.  An item is a function, an eat() of  *)
(* Eats, or a literal of the result.  "unmute" ends a stretch of the symbol *)
(* that is parsed for nothing.                                             *)
(***************************************************************************)
EXTENDS TextReader

CONSTANT MaxDepth     \* calls of path and type in progress: 256 in guard()

ASSUME V0Assumption == MaxDepth \in Nat \ {0}

VARIABLE depth        \* depth_

v0Vars == <<readerVars, depth>>

BasicTypes ==
  [a |-> "i8", b |-> "bool", c |-> "char", d |-> "f64", e |-> "str", f |-> "f32", h |-> "u8",
   i |-> "isize", j |-> "usize", l |-> "i32", m |-> "u32", n |-> "i128", o |-> "u128",
   s |-> "i16", t |-> "u16", u |-> "()", v |-> "...", x |-> "i64", y |-> "u64", z |-> "!",
   p |-> "_"]

PathBody ==
  [C |-> <<"disambiguator", "identifier">>,
   N |-> <<"namespace">>,
   M |-> <<"disambiguator", "path", "unmute", "<", "type", ">">>,
   X |-> <<"disambiguator", "path", "unmute", "<", "type", " as ", "path", ">">>,
   Y |-> <<"<", "type", " as ", "path", ">">>,
   I |-> <<"path", "args">>,
   B |-> <<"base62", "_">>]

TypeBody ==
  [A |-> <<"[", "type", "; ", "constant", "]">>,
   S |-> <<"[", "type", "]">>,
   T |-> <<"(", "tuple">>,
   R |-> <<"&", "lifetime", "type">>,
   Q |-> <<"&", "lifetime", "mut ", "type">>,
   P |-> <<"*const ", "type">>,
   O |-> <<"*mut ", "type">>,
   F |-> <<"binder", "unsafe", "abi", "fn(", "params">>,
   D |-> <<"dyn ", "binder", "bounds", "nolifetime">>,
   B |-> <<"base62", "_">>]

\* eat(c): the items if the next character is c, which is taken, and if not.
Eats ==
  [disambiguator |-> <<"s", <<"base62">>, <<>>>>,
   lifetime      |-> <<"L", <<"base62", "'_ ">>, <<>>>>,
   nolifetime    |-> <<"L", <<"base62">>, <<>>>>,
   binder        |-> <<"G", <<"base62">>, <<>>>>,
   unsafe        |-> <<"U", <<>>, <<>>>>,
   abi           |-> <<"K", <<"abiname">>, <<>>>>,
   abiname       |-> <<"C", <<>>, <<"identifier", "unmute">>>>,
   args          |-> <<"E", <<>>, <<"::<", "arg", "moreargs">>>>,
   moreargs      |-> <<"E", <<">">>, <<", ", "arg", "moreargs">>>>,
   arg           |-> <<"L", <<"base62", "'_">>, <<"nonlifetime">>>>,
   nonlifetime   |-> <<"K", <<"constant">>, <<"type">>>>,
   tuple         |-> <<"E", <<")">>, <<"type", "single">>>>,
   single        |-> <<"E", <<",)">>, <<", ", "type", "moretuple">>>>,
   moretuple     |-> <<"E", <<")">>, <<", ", "type", "moretuple">>>>,
   params        |-> <<"E", <<") -> ", "type">>, <<"type", "moreparams">>>>,
   moreparams    |-> <<"E", <<") -> ", "type">>, <<", ", "type", "moreparams">>>>,
   bounds        |-> <<"E", <<"?">>, <<"path", "assoc", "morebounds">>>>,
   morebounds    |-> <<"E", <<>>, <<" + ", "path", "assoc", "morebounds">>>>,
   assoc         |-> <<"p", <<"identifier", "type", "unmute", "assoc">>, <<>>>>,
   constant      |-> <<"B", <<"base62", "_">>, <<"typed">>>>,
   sign          |-> <<"n", <<"-", "value">>, <<"placeholder">>>>,
   placeholder   |-> <<"p", <<"_">>, <<"value">>>>,
   boolsign      |-> <<"n", <<"-", "value">>, <<"boolplace">>>>,
   boolplace     |-> <<"p", <<"_">>, <<"boolvalue">>>>]

Item == Head(Head(calls))
Rest == Tail(Head(calls))

\* The innermost call goes on with items.
Continue(items) == calls' = <<items>> \o Tail(calls)
Emit(s) ==
  out' = IF \E c \in 1..Len(calls) : \E k \in 1..Len(calls[c]) : calls[c][k] = "unmute"
         THEN out ELSE out \o s

\* Some exception, which demangle_raw catches.
Throw == Reject /\ UNCHANGED depth

\* The constructor drops "_R"; parse() is a call of path.
StartV0(body) ==
  /\ text' = body /\ pos' = 1 /\ depth' = 0
  /\ calls' = <<<<"path">>>> /\ out' = <<>> /\ phase' = "v0"

-----------------------------------------------------------------------------

\* DepthGuard: a call of path or type that takes the first n characters itself.
Enter(n, items) ==
  /\ depth' = depth + 1 /\ pos' = pos + n
  /\ calls' = <<items, Rest>> \o Tail(calls)
  /\ UNCHANGED <<text, out, phase>>

path ==
  /\ Item = "path"
  /\ IF depth < MaxDepth /\ ~AtEnd /\ text[pos] \in DOMAIN PathBody
     THEN Enter(1, PathBody[text[pos]])
     ELSE Throw

\* Whatever is neither a basic type nor tagged as a type is the tag of a path.
TypeCall ==
  IF text[pos] \in DOMAIN BasicTypes THEN Enter(1, <<BasicTypes[text[pos]]>>)
  ELSE IF text[pos] \in DOMAIN TypeBody THEN Enter(1, TypeBody[text[pos]])
  ELSE Enter(0, <<"path">>)

type ==
  /\ Item = "type"
  /\ IF depth < MaxDepth /\ ~AtEnd THEN TypeCall ELSE Throw

\* Mutant: the depth of a call is not given back.
ReturnDeep ==
  /\ Head(calls) = <<>>
  /\ calls' = Tail(calls)
  /\ UNCHANGED depth
  /\ phase' = IF Tail(calls) = <<>> THEN "parsed" ELSE phase
  /\ UNCHANGED <<cursor, out>>

\* Only the outermost call, parse(), has counted nothing.
Return ==
  /\ Head(calls) = <<>>
  /\ calls' = Tail(calls)
  /\ depth' = IF Tail(calls) = <<>> THEN depth ELSE depth - 1
  /\ phase' = IF Tail(calls) = <<>> THEN "parsed" ELSE phase
  /\ UNCHANGED <<cursor, out>>

Eat ==
  /\ Item \in DOMAIN Eats
  /\ IF Looking(Eats[Item][1])
     THEN Continue(Eats[Item][2] \o Rest) /\ pos' = pos + 1
     ELSE Continue(Eats[Item][3] \o Rest) /\ UNCHANGED pos
  /\ UNCHANGED <<text, out, depth, phase>>

\* The letter of the namespace is printed for a name that is empty.
Namespace ==
  /\ Item = "namespace"
  /\ IF AtEnd THEN Throw
     ELSE /\ Continue(<<"path", "disambiguator", "member", text[pos], "}">> \o Rest)
          /\ pos' = pos + 1
          /\ UNCHANGED <<text, out, depth, phase>>

\* No number in base 62 is printed: only its end matters.
base62 ==
  LET e == RunEnd(pos, {text[k] : k \in 1..Len(text)} \ {"_", "$", "."})
  IN  /\ Item = "base62"
      /\ IF ~At(e, "_") THEN Throw
         ELSE /\ pos' = e + 1 /\ Continue(Rest)
              /\ UNCHANGED <<text, out, depth, phase>>

NumberAt == IF Looking("u") THEN pos + 1 ELSE pos
NumberEnd == RunEnd(NumberAt, DigitSet)
\* Mutant: the '_' before a name is taken for a part of it.
NameAtNumber == NumberEnd
NameAt == IF At(NumberEnd, "_") THEN NumberEnd + 1 ELSE NumberEnd
NameEnd == NameAt + Decimal(SubSeq(text, NumberAt, NumberEnd - 1))
\* What decode_punycode makes of the name, marked; it may also throw.
Name == (IF Looking("u") /\ NameEnd > NameAt THEN <<"punycode">> ELSE <<>>)
          \o SubSeq(text, NameAt, NameEnd - 1)

Named(spelling, items) ==
  IF NumberEnd = NumberAt \/ NameEnd > Len(text) + 1 THEN Throw
  ELSE /\ pos' = NameEnd /\ Emit(spelling) /\ Continue(items)
       /\ UNCHANGED <<text, depth, phase>>

identifier ==
  \/ Item = "identifier" /\ Named(Name, Rest)
  \/ /\ Item = "member"
     /\ IF NameEnd = NameAt THEN Named(<<"::{">>, Rest)
        ELSE Named(<<"::">> \o Name, SubSeq(Rest, 3, Len(Rest)))
  \/ Item \in {"identifier", "member"} /\ Looking("u") /\ Throw

\* The type of a constant is not printed; only whether it is bool is asked
\* (a type that is a path spelt "bool" is left aside).
Typed ==
  /\ Item = "typed"
  /\ Continue(<<"type", "unmute", IF Looking("b") THEN "boolsign" ELSE "sign">> \o Rest)
  /\ UNCHANGED <<cursor, out, depth, phase>>

HexEnd == RunEnd(pos, {text[k] : k \in 1..Len(text)} \ {"_"})
\* std::stoll reads the hexadecimal digits it finds first (a sign, blanks or a
\* "0x" before them, which no constant has, are left aside).
HexDigits == SubSeq(text, pos, RunEnd(pos, HexSet) - 1)

hex_const ==
  LET value == Hexadecimal(HexDigits)
  IN  /\ Item \in {"value", "boolvalue"}
      /\ IF HexEnd > pos /\ (HexDigits = <<>> \/ value > LongLongMax) THEN Throw
         ELSE /\ pos' = IF HexEnd > Len(text) THEN HexEnd ELSE HexEnd + 1
              /\ Emit(IF Item = "value" THEN Spelling[value]
                      ELSE IF value = 1 THEN <<"true">> ELSE <<"false">>)
              /\ Continue(Rest)
              /\ UNCHANGED <<text, depth, phase>>

Functions ==
  DOMAIN Eats \cup {"path", "type", "namespace", "base62", "identifier", "member", "typed", "value",
                    "boolvalue"}

Literal ==
  /\ Item \notin Functions
  /\ IF Item = "unmute" THEN UNCHANGED out ELSE Emit(<<Item>>)
  /\ Continue(Rest)
  /\ UNCHANGED <<cursor, depth, phase>>

V0Step ==
  /\ phase = "v0"
  /\ \/ Return
     \/ /\ Head(calls) # <<>>
        /\ \/ path \/ type \/ Eat \/ Namespace \/ base62 \/ identifier \/ Typed
           \/ hex_const \/ Literal

\* The guard holds the recursion to its limit, whatever the symbol: the calls in
\* progress are the ones counted, and a production that is left, by whichever
\* of its returns, has given back its count.
NestingBounded == phase = "v0" => Len(calls) = depth + 1 /\ depth <= MaxDepth
=============================================================================
