----------------------------- MODULE Prototypes -----------------------------
(***************************************************************************)
(* CRenderer as apply_type_db uses it: render_header gives every type its  *)
(* C name and writes the definitions (StructLayout); render_prototype      *)
(* makes C declarations of the prototypes that parse_prototype and fit_abi *)
(* (src/src/core/typedb.cpp) read for one function name; and apply_type_db *)
(* collects the distinct ones (src/src/ida/oxidizer_ida.cpp).              *)
(***************************************************************************)
EXTENDS StructLayout, Characters

CONSTANTS
  Libraries(_),  \* what goes with a list of types: [names, prototypes]
  NameLimit,     \* the characters of a sanitized name: 200 - 4, as "OXI_" is one here
  Word           \* arch_bytes

\* What an argument or a result is: base, behind wraps, the outermost first.
\* A base of kind "unknown" is one parse_type has no answer for; nothing wraps it.
Argument ==
  [wraps : Seq({"pointer", "array"}),
   kind : {"int", "signed", "type", "bottom", "slice", "unknown"}, n : Nat]

\* A prototype as the file has it.
Signature == [args : Seq(Argument), ret : Argument]

\* What a refers to is one of n types.
Refers(a, n) == a.kind = "type" => a.n \in 1..n

ASSUME PrototypesAssumption ==
  /\ NameLimit \in Nat \ {0} /\ Word \in Nat \ {0}
  /\ \A ts \in TypeLists : \A l \in Libraries(ts) :
       /\ DOMAIN l.names = 1..Len(ts) /\ \A i \in DOMAIN l.names : l.names[i] \in Seq(STRING)
       /\ l.prototypes \in Seq(Signature)
       /\ \A j \in 1..Len(l.prototypes) :
            LET p == l.prototypes[j]
            IN  Refers(p.ret, Len(ts)) /\ \A a \in 1..Len(p.args) : Refers(p.args[a], Len(ts))

VARIABLES
  library,    \* the names of the types, and the prototypes of one function name
  name_map,   \* name_map[i]: the C name of the i-th type, <<>> if it has none yet
  rendered,   \* how far the prototypes have been rendered
  distinct    \* the distinct declarations: [cdecl, argcount]

prototypeVars == <<library, name_map, rendered, distinct>>
renderVars == <<vars, prototypeVars>>

RenderInit ==
  /\ Init
  /\ library \in Libraries(types)
  /\ name_map = [i \in 1..Len(types) |-> <<>>]
  /\ rendered = 0 /\ distinct = <<>>

-----------------------------------------------------------------------------
(* C names.                                                                *)

IdentifierSet == DigitSet \cup {"a", "b", "c"}

\* A run of other characters is one underscore; what is too long is cut.
sanitize(rust_name) ==
  LET word(c) == rust_name[c] \in IdentifierSet
      out[c \in 0..Len(rust_name)] ==
        IF c = 0 THEN <<"OXI_">>
        ELSE IF word(c) THEN Append(out[c - 1], rust_name[c])
        ELSE IF c > 1 /\ ~word(c - 1) THEN out[c - 1]
        ELSE Append(out[c - 1], "_")
      all == out[Len(rust_name)]
  IN  IF Len(all) > NameLimit + 1 THEN SubSeq(all, 1, NameLimit + 1) ELSE all

Candidate(base, n) == IF n = 0 THEN base ELSE base \o <<"_">> \o Spelling[n]

\* Mutant: the name that is remembered as used is the one without its number.
UsedBase(cname) == \E j \in DOMAIN name_map : name_map[j] # <<>> /\ sanitize(library.names[j]) = cname

Used(cname) == \E j \in DOMAIN name_map : name_map[j] = cname

\* The first of base, base_1, base_2, ... that no type has.
ensure_name(i) ==
  LET base == sanitize(library.names[i])
  IN  /\ name_map[i] = <<>>
      /\ \E n \in 0..Len(types) :
           /\ ~Used(Candidate(base, n)) /\ \A m \in 0..(n - 1) : Used(Candidate(base, m))
           /\ name_map' = [name_map EXCEPT ![i] = Candidate(base, n)]
      /\ UNCHANGED <<vars, library, rendered, distinct>>

AllNamed == \A i \in DOMAIN name_map : name_map[i] # <<>>

\* render_header names every type before it writes a definition.
WriteHeader == AllNamed /\ Next /\ UNCHANGED prototypeVars

-----------------------------------------------------------------------------
(* Prototypes.                                                             *)

\* An aggregate of more than two words is passed and returned by reference.
Big(a) == a.wraps = <<>> /\ a.kind = "type" /\ types[a.n].size > Word * 2
Pointer(a) == [a EXCEPT !.wraps = <<"pointer">> \o @]

\* Mutant: the place for the result is no argument.
FitWithoutBuffer(p) ==
  [args |-> [j \in 1..Len(p.args) |-> IF Big(p.args[j]) THEN Pointer(p.args[j]) ELSE p.args[j]],
   ret |-> p.ret, is_retbuf |-> Big(p.ret)]

fit_abi(p) ==
  LET args == [j \in 1..Len(p.args) |-> IF Big(p.args[j]) THEN Pointer(p.args[j]) ELSE p.args[j]]
  IN  [args |-> IF Big(p.ret) THEN <<Pointer(p.ret)>> \o args ELSE args,
       ret |-> p.ret, is_retbuf |-> Big(p.ret)]

\* One argument of no known type makes a prototype unknown; a result does not.
parse_prototype(p) == \A j \in 1..Len(p.args) : p.args[j].kind # "unknown"

\* An integer of odd width becomes a byte, whatever its size.
int_token(size, sign) == <<sign, "__int">> \o Spelling[IF size \in {1, 2, 4, 8, 16} THEN 8 * size ELSE 8]

BaseToken(a) ==
  CASE a.kind = "signed" -> int_token(a.n, "signed")
    [] a.kind = "int" -> int_token(a.n, "unsigned")
    [] a.kind = "type" -> name_map[a.n]
    [] a.kind = "slice" -> <<"Oxidizer_Slice">>
    [] OTHER -> <<"void", "*">>

\* A pointer to a pointer is a pointer to void; an array is a pointer here.
type_token(a) ==
  LET token[w \in 1..(Len(a.wraps) + 1)] ==
        IF w > Len(a.wraps) THEN BaseToken(a)
        ELSE IF a.wraps[w] = "pointer" /\ \E c \in 1..Len(token[w + 1]) : token[w + 1][c] = "*"
        THEN <<"void", "*">>
        ELSE Append(token[w + 1], "*")
  IN  token[1]

\* The declaration of a function f.
render_prototype(p) ==
  LET params[j \in 0..Len(p.args)] ==
        IF j = 0 THEN <<>>
        ELSE params[j - 1] \o (IF j = 1 THEN <<>> ELSE <<",">>) \o type_token(p.args[j]) \o <<" a">>
               \o Spelling[j - 1]
  IN  (IF p.is_retbuf \/ p.ret.kind = "unknown" THEN <<"void">> ELSE type_token(p.ret)) \o <<" f(">>
        \o (IF p.args = <<>> THEN <<"void">> ELSE params[Len(p.args)]) \o <<")">>

\* The next prototype of the name that could be read; what renders like an
\* earlier one is seen.
RenderPrototype ==
  /\ AllNamed /\ Len(defs) = Len(types) /\ ~busy
  /\ \E j \in (rendered + 1)..Len(library.prototypes) :
       /\ parse_prototype(library.prototypes[j])
       /\ \A h \in (rendered + 1)..(j - 1) : ~parse_prototype(library.prototypes[h])
       /\ LET p == fit_abi(library.prototypes[j])
              cdecl == render_prototype(p)
          IN  distinct' = IF \E d \in 1..Len(distinct) : distinct[d].cdecl = cdecl THEN distinct
                          ELSE Append(distinct, [cdecl |-> cdecl, argcount |-> Len(p.args)])
       /\ rendered' = j
  /\ UNCHANGED <<vars, library, name_map>>

RenderNext ==
  \/ \E i \in DOMAIN name_map : ensure_name(i)
  \/ WriteHeader
  \/ RenderPrototype

RenderSpec == RenderInit /\ [][RenderNext]_renderVars

-----------------------------------------------------------------------------
(* Properties.                                                             *)

\* "stable, collision-free": no two types get one C name, though sanitizing and
\* cutting makes their names alike, and a number put behind one may make it the
\* name of another.
CNamesDistinct ==
  \A i, j \in DOMAIN name_map : name_map[i] = name_map[j] /\ name_map[i] # <<>> => i = j

\* What the declaration says of the aggregates of a prototype as the file has it.
Shown(a) ==
  IF a.kind = "type" /\ Len(a.wraps) <= 1 THEN <<a.n, a.wraps # <<>> \/ Big(a)>> ELSE <<>>
Parameters(p) ==
  (IF Big(p.ret) THEN <<Shown(p.ret)>> ELSE <<>>) \o [j \in 1..Len(p.args) |-> Shown(p.args[j])]
Result(p) == IF Big(p.ret) THEN <<>> ELSE Shown(p.ret)

\* "several rendering identically": prototypes that render alike take as many
\* arguments, in each place the same aggregate if any, and that number is what is
\* remembered of them; a hidden place for the result counts.  What is distinct
\* is listed once.
MergedAreAlike ==
  LET Read == {j \in 1..rendered : parse_prototype(library.prototypes[j])}
      source(j) == library.prototypes[j]
      cdecl(j) == render_prototype(fit_abi(source(j)))
  IN  /\ \A i, j \in Read :
           cdecl(i) = cdecl(j) =>
             Parameters(source(i)) = Parameters(source(j)) /\ Result(source(i)) = Result(source(j))
      /\ \A j \in Read :
           \E d \in 1..Len(distinct) :
             /\ distinct[d] = [cdecl |-> cdecl(j), argcount |-> Len(Parameters(source(j)))]
             /\ \A e \in 1..Len(distinct) : distinct[e].cdecl = cdecl(j) => e = d
=============================================================================
