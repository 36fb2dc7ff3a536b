---------------------------- MODULE StructLayout ----------------------------
(***************************************************************************)
(* The layout of the C definitions: render_struct, render_enum, Layout,    *)
(* member_decl and opaque of src/src/core/c_render.cpp, over the types in  *)
(* the order in which render_header defines them (see HeaderOrder: what a  *)
(* definition embeds comes before it).  All definitions stand under        *)
(* #pragma pack(1): a C member begins where the one before it ends.        *)
(***************************************************************************)
EXTENDS Integers, Sequences, FiniteSetsExt

CONSTANTS
  TypeLists  \* the lists of types that are considered

\* The type of a member: n bytes of integer, float, bool, char, pointer or
\* slice; Bottom; or the n-th type of the list.  Arrays of arrays are
\* flattened: length is the number of elements, 1 for what is no array.
Ty == [kind : {"value", "bottom", "type"}, n : Nat, length : Nat]
Field == [offset : Nat, ty : Ty]

\* A struct has one list of fields, an enum one for every variant.
Type == [shape : {"struct", "enum"}, size : Nat, disc : Nat, variants : Seq(Seq(Field))]

Earlier(ts, i) ==
  \A v \in DOMAIN ts[i].variants : \A k \in DOMAIN ts[i].variants[v] :
    LET ty == ts[i].variants[v][k].ty IN ty.kind = "type" => ty.n \in 1..(i - 1)

ASSUME LayoutAssumption ==
  /\ TypeLists \subseteq Seq(Type)
  /\ \A ts \in TypeLists : \A i \in 1..Len(ts) :
       Earlier(ts, i) /\ (ts[i].shape = "struct" => Len(ts[i].variants) = 1)

VARIABLES
  types,    \* the types in the order of their definitions
  defs,     \* the definitions written so far
  busy,     \* a definition is being laid out
  members,  \* the members that are laid out, and the one the loop is at
  k,
  off,      \* where the next payload field of a niche enum goes
  cur, decls, failed  \* Layout

layout == <<cur, decls, failed>>
vars == <<types, defs, busy, members, k, off, layout>>

\* of: the member declared, 0 for padding; at: its offset in C.
Decl == [of : Nat, at : Nat, size : Nat]
Definition == [opaque : BOOLEAN, decls : Seq(Decl)]

TypeOK ==
  /\ types \in TypeLists
  /\ defs \in Seq(Definition) /\ Len(defs) <= Len(types)
  /\ busy \in BOOLEAN /\ (busy => Len(defs) < Len(types))
  /\ members \in Seq(Field) /\ k \in 1..(Len(members) + 1)
  /\ off \in Nat /\ cur \in Nat /\ decls \in Seq(Decl) /\ failed \in BOOLEAN

Init ==
  /\ types \in TypeLists
  /\ defs = <<>> /\ busy = FALSE /\ members = <<>> /\ k = 1 /\ off = 0
  /\ cur = 0 /\ decls = <<>> /\ failed = FALSE

-----------------------------------------------------------------------------
(* Sizes, in Rust and in C.                                                *)

EndOf(ds) == IF ds = <<>> THEN 0 ELSE ds[Len(ds)].at + ds[Len(ds)].size

Size(ty) ==
  ty.length * (IF ty.kind = "value" THEN ty.n ELSE IF ty.kind = "type" THEN types[ty.n].size ELSE 0)

\* Mutant: an odd width becomes a token of its own, as it does in a prototype.
TokenSize(n) == IF n \in {1, 2, 4, 8, 16} THEN n ELSE 1

\* An integer of odd width is declared as an array of bytes.
DeclaredSize(n) == n

CSize(ty) ==
  ty.length * (IF ty.kind = "value" THEN DeclaredSize(ty.n)
               ELSE IF ty.kind = "type" THEN EndOf(defs[ty.n].decls) ELSE 1)

PayloadSize(v) == MapThenSumSet(LAMBDA j : Size(v[j].ty), DOMAIN v)

is_niche_encoded(t) ==
  /\ t.shape = "enum" /\ t.size > 0
  /\ \E v \in DOMAIN t.variants : PayloadSize(t.variants[v]) >= t.size

-----------------------------------------------------------------------------
(* Layout.                                                                 *)

Place(ds, member, size) == Append(ds, [of |-> member, at |-> EndOf(ds), size |-> size])

\* Mutant: two members that touch count as overlapping.
Overlaps(offset) == offset < cur \/ (cur > 0 /\ offset = cur)

Before(offset) == offset < cur

Padded(offset) == IF offset > cur THEN Place(decls, 0, offset - cur) ELSE decls

add(offset, size, csize) ==
  IF Before(offset) THEN failed' = TRUE /\ UNCHANGED <<cur, decls>>
  ELSE /\ decls' = Place(Padded(offset), k, csize)
       /\ cur' = offset + size
       /\ UNCHANGED failed

This == types[Len(defs) + 1]

LayOut(ms) ==
  /\ ~busy /\ busy' = TRUE
  /\ members' = ms /\ k' = 1 /\ off' = 0
  /\ cur' = 0 /\ decls' = <<>> /\ failed' = FALSE
  /\ UNCHANGED <<types, defs>>

render_struct == Len(defs) < Len(types) /\ This.shape = "struct" /\ LayOut(This.variants[1])

\* The first of the variants with the largest payload.
render_niche ==
  /\ Len(defs) < Len(types) /\ is_niche_encoded(This)
  /\ \E v \in DOMAIN This.variants :
       /\ \A w \in DOMAIN This.variants :
            LET largest == PayloadSize(This.variants[v])
                other == PayloadSize(This.variants[w])
            IN  other <= largest /\ (w < v => other < largest)
       /\ LayOut(This.variants[v])

Tag == [offset |-> 0, ty |-> [kind |-> "value", n |-> This.disc, length |-> 1]]

\* The payload of a tagged enum is left to the padding.
render_tagged ==
  /\ Len(defs) < Len(types) /\ This.shape = "enum" /\ ~is_niche_encoded(This)
  /\ LayOut(IF This.disc > 0 THEN <<Tag>> ELSE <<>>)

\* Mutant: all members are declared, those without a size too.
NoneSkipped(ty) == FALSE

\* C would give a byte to what has no size in Rust.
Skipped(ty) == Size(ty) = 0

OffsetOf(f) == IF This.shape = "enum" THEN off ELSE f.offset

AddMember ==
  /\ busy /\ k <= Len(members)
  /\ LET f == members[k]
     IN  /\ IF Skipped(f.ty) THEN UNCHANGED layout
            ELSE add(OffsetOf(f), Size(f.ty), CSize(f.ty))
         /\ off' = off + Size(f.ty)
  /\ k' = k + 1
  /\ UNCHANGED <<types, defs, busy, members>>

opaque(size) ==
  [opaque |-> TRUE, decls |-> Place(<<>>, 0, IF size > 1 THEN size ELSE 1)]

finish(total) ==
  [opaque |-> FALSE, decls |-> IF cur < total THEN Place(decls, 0, total - cur) ELSE decls]

\* The members are laid out: the rest of render_struct and of both branches of
\* render_enum.
Define ==
  /\ busy /\ k > Len(members)
  /\ defs' = Append(defs, IF failed \/ cur > This.size THEN opaque(This.size) ELSE finish(This.size))
  /\ busy' = FALSE
  /\ UNCHANGED <<types, members, k, off, layout>>

Next == render_struct \/ render_niche \/ render_tagged \/ AddMember \/ Define

Spec == Init /\ [][Next]_vars

-----------------------------------------------------------------------------
(* Properties.                                                             *)

\* "Always produces valid, correctly-sized types": whatever sizes, offsets and
\* variants the database gives, sizeof in C is the size in Rust, padding,
\* odd widths, arrays and embedded types included.
SizesExact ==
  \A i \in 1..Len(defs) : types[i].size > 0 => EndOf(defs[i].decls) = types[i].size

\* Every member of a struct that has a size is declared, and where Rust has it.
MembersInPlace ==
  \A i \in 1..Len(defs) :
    types[i].shape = "struct" /\ ~defs[i].opaque =>
      \A j \in DOMAIN types[i].variants[1] :
        LET f == types[i].variants[1][j]
        IN  Size(f.ty) > 0 =>
              \E d \in DOMAIN defs[i].decls :
                defs[i].decls[d] = [of |-> j, at |-> f.offset, size |-> Size(f.ty)]

\* The fields are in order, do not overlap and lie inside the type.
Regular(t) ==
  LET fs == t.variants[1]
      sized(j) == Size(fs[j].ty) > 0
      end(j) == fs[j].offset + Size(fs[j].ty)
  IN  \A j \in DOMAIN fs : sized(j) =>
        /\ end(j) <= t.size
        /\ \A h \in DOMAIN fs : sized(h) /\ h < j => end(h) <= fs[j].offset

\* "opaque: irregular layout": only an irregular struct loses its members.
OpaqueIsIrregular ==
  \A i \in 1..Len(defs) :
    types[i].shape = "struct" /\ Regular(types[i]) => ~defs[i].opaque
=============================================================================
