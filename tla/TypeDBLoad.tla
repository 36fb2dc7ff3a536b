----------------------------- MODULE TypeDBLoad -----------------------------
(***************************************************************************)
(* The construction of the type graph: TypeDB::load, parse_type,           *)
(* parse_pointer, parse_struct, parse_enum and apply_patches of            *)
(* src/src/core/typedb.cpp.                                                *)
(* The recursion over the JSON records is an explicit stack of the records *)
(* being parsed; structs and enums take the same path, a record of either  *)
(* kind is a list of members (an enum's are those of all its variants).    *)
(*                                                                         *)
(* A member is held by value or behind a pointer; an array is held by      *)
(* value, like its element.  It is an integer of the pointer's size        *)
(* ("word"), some other primitive ("int"), something that parse_type       *)
(* answers with nullptr ("bad"), or a reference to a record by name, with  *)
(* null fields, as the databases write nested types.  A name belongs to a  *)
(* struct or to an enum and not to both.                                   *)
(***************************************************************************)
EXTENDS Integers, Sequences, FiniteSets

CONSTANTS
  Names,      \* names of structs and enums
  Enums,      \* those of enums
  Argument,   \* "core::fmt::rt::Argument"
  Databases   \* the contents of "structs" that are considered

Primitives == {"int", "word"}
\* What is asked of names: that of a field, or of the variant it belongs to.
Labels == {"data_ptr", "length", "ty", "Placeholder", "other"}
\* No member with one of these names is an array; a Placeholder has a field.
Member == [via : {"value", "pointer"}, of : Names \cup Primitives \cup {"bad"}, label : Labels]
\* opaque: the record has no fields of its own (null).
Record == [name : Names, opaque : BOOLEAN, members : Seq(Member)]

\* What a parsed field holds: a primitive, Bottom, or a memoised type.  A slice
\* has one field, its element, which is held like nothing else.
Parsed == Names \cup Primitives \cup {"bottom"}
Field == [via : {"value", "pointer", "slice"}, ty : Parsed, label : Labels]

ASSUME TypeDBAssumption ==
  /\ IsFiniteSet(Names) /\ Enums \subseteq Names /\ Databases \subseteq Seq(Record)
  /\ Names \cap {"int", "word", "bad", "bottom", "null", "none", "descend"} = {}

VARIABLES
  structs,    \* the records, in file order
  struct_db,  \* struct_db_: the place of the record of each name, or 0
  top,        \* the loop of load
  stack,      \* the records being parsed, outermost first
  pending,    \* pending_
  resolving,  \* resolving_
  rank,       \* 0 until types has the name, then its place in order of completion
  count,      \* how many names types has
  fields,     \* the fields of the memoised types
  ret         \* "none", or the result a record hands to the one around it

file == <<structs, struct_db>>
vars == <<file, top, stack, pending, resolving, rank, count, fields, ret>>

\* fwd: the record was reached through a reference that resolving_ holds.
Frame == [rec : Nat, at : Nat, done : Seq(Field), fwd : BOOLEAN]

TypeOK ==
  /\ structs \in Seq(Record)
  /\ struct_db \in [Names -> 0..Len(structs)]
  /\ top \in 1..(Len(structs) + 1)
  /\ stack \in Seq(Frame)
  /\ \A i \in 1..Len(stack) :
       /\ stack[i].rec \in 1..Len(structs)
       /\ stack[i].at \in 1..(Len(structs[stack[i].rec].members) + 1)
  /\ pending \in SUBSET Names /\ resolving \in SUBSET Names
  /\ rank \in [Names -> Nat] /\ count \in Nat
  /\ fields \in [Names -> Seq(Field)]
  /\ ret \in Names \cup {"none", "null"}

\* The first loop of load: of several records of one name the last is found.
LastOfEachName(db) ==
  \A x \in Names :
    IF db[x] = 0 THEN \A d \in 1..Len(structs) : structs[d].name # x
    ELSE structs[db[x]].name = x /\ \A e \in (db[x] + 1)..Len(structs) : structs[e].name # x

Init ==
  /\ structs \in Databases
  /\ struct_db \in [Names -> 0..Len(structs)] /\ LastOfEachName(struct_db)
  /\ top = 1 /\ stack = <<>> /\ pending = {} /\ resolving = {}
  /\ rank = [x \in Names |-> 0] /\ count = 0
  /\ fields = [x \in Names |-> <<>>]
  /\ ret = "none"

-----------------------------------------------------------------------------
(* parse_struct, parse_enum.                                               *)

\* The record a null-fields record named x stands for, 0 if none; d is its
\* own place in structs, 0 when it is a reference inside another record.
Resolved(x, d) ==
  IF x \in resolving \/ struct_db[x] \in {0, d} THEN 0
  ELSE IF structs[struct_db[x]].opaque THEN 0 ELSE struct_db[x]

IsForward(d) == IF d = 0 THEN TRUE ELSE structs[d].opaque

\* The record to descend into for a record named x at place d.
Into(x, d) == IF IsForward(d) THEN Resolved(x, d) ELSE d

\* Mutant: the pending names are not consulted.
AnswerUnguarded(x, d) ==
  IF rank[x] # 0 THEN x ELSE IF Into(x, d) = 0 THEN "null" ELSE "descend"

\* Mutant: a name in progress answers like a finished one.
AnswerEarly(x, d) ==
  IF rank[x] # 0 \/ x \in pending THEN x ELSE IF Into(x, d) = 0 THEN "null" ELSE "descend"

\* Mutant: the memo is not consulted.
AnswerForgetful(x, d) ==
  IF x \in pending THEN "bottom" ELSE IF Into(x, d) = 0 THEN "null" ELSE "descend"

\* What parse_struct answers at once, or that it has to descend: the memo
\* first, Bottom for a name in progress, nullptr for one that nothing defines.
Answer(x, d) ==
  IF rank[x] # 0 THEN x
  ELSE IF x \in pending THEN "bottom"
  ELSE IF Into(x, d) = 0 THEN "null" ELSE "descend"

Push(x, d) ==
  /\ stack' = Append(stack, [rec |-> Into(x, d), at |-> 1, done |-> <<>>, fwd |-> IsForward(d)])
  /\ pending' = pending \cup {x}
  /\ resolving' = IF IsForward(d) THEN resolving \cup {x} ELSE resolving
  /\ UNCHANGED <<rank, count, fields, ret>>

Depth == Len(stack)
Top == stack[Depth]
TopName == structs[Top.rec].name
TopMembers == structs[Top.rec].members

\* Leave the record on top, handing r to the one around it (the loop of load
\* does not look at it).
Pop(r) ==
  /\ stack' = SubSeq(stack, 1, Depth - 1)
  /\ resolving' = IF Top.fwd THEN resolving \ {TopName} ELSE resolving
  /\ pending' = pending \ {TopName}
  /\ ret' = IF Depth = 1 THEN "none" ELSE r

\* The next member of the record on top is of type t.
Accept(t) ==
  /\ LET f == [via |-> TopMembers[Top.at].via, ty |-> t, label |-> TopMembers[Top.at].label]
         further == [Top EXCEPT !.at = @ + 1, !.done = Append(@, f)]
     IN  stack' = [stack EXCEPT ![Depth] = further]
  /\ ret' = "none"
  /\ UNCHANGED <<pending, resolving, rank, count, fields>>

\* Mutant: the member is dropped and the record kept.
SkipUnknown(r) ==
  IF r = "null" THEN Accept("bottom") ELSE Accept(r)

\* The member answered r.  A pointer to nothing known points to Bottom; a
\* value of no known type makes the whole record unknown.
Give(r) ==
  IF r # "null" THEN Accept(r)
  ELSE IF TopMembers[Top.at].via = "pointer" THEN Accept("bottom")
  ELSE Pop("null") /\ UNCHANGED <<rank, count, fields>>

-----------------------------------------------------------------------------
(* apply_patches.                                                          *)

Named(fs) == {fs[k].label : k \in 1..Len(fs)}
\* The last of the fields of a name.
LastOf(fs, name) ==
  {k \in 1..Len(fs) : fs[k].label = name /\ \A l \in (k + 1)..Len(fs) : fs[l].label # name}

\* A struct of a pointer and a length stands for a slice; so does "&str", whose
\* element nobody asks for.
to_slice(fs) ==
  LET Data == {d \in LastOf(fs, "data_ptr") :
                 /\ fs[d].via = "pointer"
                 /\ \E l \in LastOf(fs, "length") : fs[l].via = "value" /\ fs[l].ty = "word"}
  IN  IF Named(fs) # {"data_ptr", "length"} \/ Data = {} THEN fs
      ELSE <<[via |-> "slice", ty |-> fs[CHOOSE d \in Data : TRUE].ty, label |-> "other"]>>

\* The fields of an enum's Placeholder, which follow each other.
Placeholder(fs) ==
  LET Blocks == {b \in (1..Len(fs)) \X (1..Len(fs)) :
                   /\ b[1] <= b[2]
                   /\ \A k \in 1..Len(fs) : fs[k].label = "Placeholder" <=> k \in b[1]..b[2]}
      block == CHOOSE b \in Blocks : TRUE
  IN  IF Blocks = {} THEN <<>> ELSE SubSeq(fs, block[1], block[2])

\* The argument of a format holds an enum; it gets the fields of its Placeholder.
unwrap_argument(x, fs, table) ==
  IF /\ x = Argument /\ Named(fs) = {"ty"}
     /\ fs[1].via = "value" /\ fs[1].ty \in Enums
     /\ Placeholder(table[fs[1].ty]) # <<>>
  THEN Placeholder(table[fs[1].ty])
  ELSE fs

apply_patches(x, fs) == IF x \in Enums THEN fs ELSE unwrap_argument(x, to_slice(fs), fields)

-----------------------------------------------------------------------------
\* load: parse the next record of the file.
LoadNext ==
  /\ stack = <<>> /\ top <= Len(structs)
  /\ LET x == structs[top].name
     IN  IF Answer(x, top) = "descend" THEN Push(x, top)
         ELSE UNCHANGED <<stack, pending, resolving, rank, count, fields, ret>>
  /\ top' = top + 1
  /\ UNCHANGED file

ParseMember ==
  /\ stack # <<>> /\ ret = "none" /\ Top.at <= Len(TopMembers)
  /\ LET x == TopMembers[Top.at].of
     IN  IF x \in Primitives THEN Give(x)
         ELSE IF x = "bad" THEN Give("null")
         ELSE IF Answer(x, 0) = "descend" THEN Push(x, 0)
         ELSE Give(Answer(x, 0))
  /\ UNCHANGED <<file, top>>

TakeResult ==
  /\ stack # <<>> /\ ret # "none"
  /\ Give(ret)
  /\ UNCHANGED <<file, top>>

\* All members are parsed: memoise the type.
FinishRecord ==
  /\ stack # <<>> /\ ret = "none" /\ Top.at > Len(TopMembers)
  /\ count' = count + 1
  /\ rank' = [rank EXCEPT ![TopName] = count + 1]
  /\ fields' = [fields EXCEPT ![TopName] = apply_patches(TopName, Top.done)]
  /\ Pop(TopName)
  /\ UNCHANGED <<file, top>>

\* The steps of parse_enum are these too, over the fields of all variants.
Next == LoadNext \/ ParseMember \/ TakeResult \/ FinishRecord

Spec == Init /\ [][Next]_vars

-----------------------------------------------------------------------------
(* Properties.                                                             *)

Loaded == stack = <<>> /\ top > Len(structs)

\* The recursion is as deep as there are names at most, however the records
\* refer to each other: the records being parsed have different names, and
\* pending_ holds exactly these.
PendingIsStack ==
  /\ \A x \in Names :
       x \in pending <=> \E i \in 1..Len(stack) : structs[stack[i].rec].name = x
  /\ \A i, j \in 1..Len(stack) : structs[stack[i].rec].name = structs[stack[j].rec].name => i = j

\* A type is made of types that were finished before it: by value, the graph
\* has no cycle, and render_header finds an order that declares every member
\* before its container.
ByValueFinishedBefore ==
  \A x \in Names : \A i \in 1..Len(fields[x]) :
    LET f == fields[x][i]
    IN  f.via = "value" /\ f.ty \in Names => rank[f.ty] \in 1..(rank[x] - 1)

\* A finished type is never replaced: whoever holds it holds what types has.
MemoIsFinal ==
  [][\A x \in Names : rank[x] # 0 => rank'[x] = rank[x] /\ fields'[x] = fields[x]]_vars

\* The names the record of x refers to, in one of the ways vias; those that
\* can be reached from x that way.
RefersTo(x, vias) ==
  IF struct_db[x] = 0 THEN {}
  ELSE LET ms == structs[struct_db[x]].members
       IN  {ms[i].of : i \in {j \in 1..Len(ms) : ms[j].via \in vias}} \cap Names

Reach(x, vias) ==
  LET in[k \in Nat] ==
        IF k = 0 THEN RefersTo(x, vias)
        ELSE in[k - 1] \cup UNION {RefersTo(y, vias) : y \in in[k - 1]}
  IN  in[Cardinality(Names)]

Recursive(x) == x \in Reach(x, {"value", "pointer"})
HoldsItself(x) == x \in Reach(x, {"value"})
DefinedOnce(x) ==
  \A d, e \in 1..Len(structs) : structs[d].name = x /\ structs[e].name = x => d = e

\* Neither x nor what it is made of is recursive or defined twice.
Plain(x) ==
  \A y \in {x} \cup Reach(x, {"value", "pointer"}) : ~Recursive(y) /\ DefinedOnce(y)

\* x has a record with fields, and all that it holds by value is in ks.
MadeOf(x, ks) ==
  /\ struct_db[x] # 0 /\ ~structs[struct_db[x]].opaque
  /\ \A i \in 1..Len(structs[struct_db[x]].members) :
       LET m == structs[struct_db[x]].members[i]
       IN  m.via = "value" => m.of \in ks \cup Primitives

\* x has a record with fields, and so has all that it holds by value.
Known(x) ==
  LET in[k \in Nat] == IF k = 0 THEN {} ELSE {y \in Names : MadeOf(y, in[k - 1])}
  IN  x \in in[Cardinality(Names)]

\* What the file says of x: its members, Bottom for what is not known.
Said(x) ==
  LET ms == structs[struct_db[x]].members
  IN  [i \in 1..Len(ms) |->
         [via |-> ms[i].via, label |-> ms[i].label,
          ty |-> IF ms[i].of = "bad" \/ (ms[i].of \in Names /\ ~Known(ms[i].of)) THEN "bottom"
                 ELSE ms[i].of]]

\* Without recursion the graph is what the file says, in whatever order its
\* records come and whatever fails around them: a type is there when all it
\* is made of is, and every member that is known is in its place, or in that
\* of the slice or the format argument the struct stands for.
PlainTypesExact ==
  Loaded => \A x \in Names : Plain(x) =>
    /\ rank[x] # 0 <=> Known(x)
    /\ rank[x] # 0 =>
         fields[x] =
           IF x \in Enums THEN Said(x)
           ELSE unwrap_argument(x, to_slice(Said(x)), [y \in Enums |-> IF Known(y) THEN Said(y) ELSE <<>>])

\* render_struct leaves out the members of size zero: "Zero-sized types (e.g.
\* Rust closures / PhantomData) occupy no space."  A member whose type the file
\* defines has a place: it is never replaced by Bottom, which has size zero too.
\* (Of files a compiler can write: no type holds itself by value.)
ValuesKept ==
  Loaded /\ (\A x \in Names : DefinedOnce(x) /\ ~HoldsItself(x)) =>
    \A x \in Names : \A i \in 1..Len(fields[x]) :
      fields[x][i].via = "value" => fields[x][i].ty # "bottom"
=============================================================================
