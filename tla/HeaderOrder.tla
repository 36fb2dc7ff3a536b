---------------------------- MODULE HeaderOrder ----------------------------
(***************************************************************************)
(* The order of the C declarations: render_header of                       *)
(* src/src/core/c_render.cpp over the type graph that TypeDBLoad builds.   *)
(* Its depth-first search is an explicit stack of the types being visited. *)
(* Finished types have different names, so the sets visited and on_stack   *)
(* of the code are the names in ordered and in calls.                      *)
(***************************************************************************)
EXTENDS TypeDBLoad

CONSTANTS
  Order,      \* the names in the order of std::map
  Renderings  \* [Names -> Kinds]: what can become of the types

\* A struct or niche enum renders its members by value, a tagged enum its tag
\* and a blob.
Kinds == {"members", "tagged"}

ASSUME HeaderAssumption ==
  /\ Order \in Seq(Names) /\ \A x \in Names : \E k \in 1..Len(Order) : Order[k] = x
  /\ \A j, k \in 1..Len(Order) : Order[j] = Order[k] => j = k
  /\ Renderings \subseteq [Names -> Kinds]

VARIABLES
  kind,     \* how the types are rendered
  root,     \* the name the outer loop is at; 0 before render_header
  calls,    \* the types being visited, each with the dependencies still to visit
  ordered   \* the types in the order of their definitions

hvars == <<kind, root, calls, ordered>>

Types == {x \in Names : rank[x] # 0}
visited == {ordered[k] : k \in 1..Len(ordered)}
on_stack == {calls[k].name : k \in 1..Len(calls)}

Visit == [name : Names, deps : SUBSET Names]

HeaderTypeOK ==
  /\ kind \in [Names -> Kinds]
  /\ root \in 0..(Len(Order) + 1)
  /\ calls \in Seq(Visit)
  /\ ordered \in Seq(Names)

HeaderInit ==
  /\ Init
  /\ kind \in Renderings /\ root = 0 /\ calls = <<>> /\ ordered = <<>>

-----------------------------------------------------------------------------
ByValue(x) ==
  {fields[x][k].ty : k \in {j \in 1..Len(fields[x]) : fields[x][j].via = "value"}} \cap Types

\* A slice (or &str) is a predeclared type.
IsSlice(x) == \E k \in 1..Len(fields[x]) : fields[x][k].via = "slice"

\* What x holds by value that is an aggregate itself.
deps_of(x) ==
  IF kind[x] = "members" THEN {d \in ByValue(x) : ~IsSlice(d)} ELSE {}

render_header ==
  /\ Loaded /\ root = 0
  /\ root' = 1
  /\ UNCHANGED <<kind, calls, ordered>>

Call(x) == [name |-> x, deps |-> deps_of(x)]

VisitRoot ==
  /\ root \in 1..Len(Order) /\ calls = <<>>
  /\ root' = root + 1
  /\ calls' = IF Order[root] \in Types \ visited THEN <<Call(Order[root])>> ELSE <<>>
  /\ UNCHANGED <<kind, ordered>>

Visiting == calls[Len(calls)]

\* The dependencies are visited in the order of std::set.
IsNext(d) ==
  \E k \in 1..Len(Order) : Order[k] = d /\ \A j \in 1..(k - 1) : Order[j] \notin Visiting.deps

Without(d) == [name |-> Visiting.name, deps |-> Visiting.deps \ {d}]

\* A type that is visited already, or whose visit is going on, is passed over.
VisitDep ==
  /\ calls # <<>>
  /\ \E d \in Visiting.deps :
       /\ IsNext(d)
       /\ LET rest == [calls EXCEPT ![Len(calls)] = Without(d)]
          IN  calls' = IF d \in visited \cup on_stack THEN rest ELSE Append(rest, Call(d))
  /\ UNCHANGED <<kind, root, ordered>>

\* Mutant: a type is defined before its members, when its visit begins.
DefineFirst == ordered' = <<Visiting.name>> \o ordered

Define == ordered' = Append(ordered, Visiting.name)

VisitEnds ==
  /\ calls # <<>> /\ Visiting.deps = {}
  /\ calls' = SubSeq(calls, 1, Len(calls) - 1)
  /\ Define
  /\ UNCHANGED <<kind, root>>

HeaderNext ==
  \/ Next /\ UNCHANGED hvars
  \/ (render_header \/ VisitRoot \/ VisitDep \/ VisitEnds) /\ UNCHANGED vars

HeaderSpec == HeaderInit /\ [][HeaderNext]_<<vars, hvars>>

-----------------------------------------------------------------------------
(* Properties.                                                             *)

Rendered == root > Len(Order) /\ calls = <<>>

\* What the definition of x embeds: the C compiler has to know its size.
Embeds(x) == IF kind[x] = "members" THEN {y \in ByValue(x) : ~IsSlice(y)} ELSE {}

\* parse_decls can take the header: every type is defined once, after all the
\* types its definition embeds.
DefinedBeforeUse ==
  /\ \A j, k \in 1..Len(ordered) : ordered[j] = ordered[k] => j = k
  /\ \A k \in 1..Len(ordered) : \A d \in Embeds(ordered[k]) : \E j \in 1..(k - 1) : ordered[j] = d
  /\ Rendered => visited = Types

\* "cycle: break it" is never taken: the graph the loader builds has none by
\* value, whatever the file says.
NoCycleToBreak ==
  calls # <<>> => Visiting.deps \cap on_stack = {}
=============================================================================
