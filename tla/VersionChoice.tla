--------------------------- MODULE VersionChoice ---------------------------
(***************************************************************************)
(* The rustc version of a binary: detect_version with                      *)
(* find_version_in_strings and lookup_commit_version, and where the        *)
(* strings give none, pick_version_by_overlap over the function lists that *)
(* load_function_names reads (src/src/core/version_id.cpp, typedb.cpp,     *)
(* src/src/ida/oxidizer_ida.cpp).                                          *)
(*                                                                         *)
(* A string is what the three patterns find in it; a line of the commit    *)
(* table is the hash it mentions and the version the pattern finds there.  *)
(* A function list is the bag of its names: a database has one entry per   *)
(* monomorphisation.  A file that cannot be read is an empty list.         *)
(***************************************************************************)
EXTENDS Naturals, Sequences, FiniteSets, FiniteSetsExt

CONSTANTS
  Commits,     \* rustc commit hashes
  Releases,    \* version numbers
  None,        \* std::nullopt
  MaxStrings,  \* bound on the strings of the binary
  MaxLines,    \* bound on the lines of the commit table
  Names,       \* demangled std function names
  Candidates,  \* number of candidate versions, in the order of enumeration
  MaxEntries   \* bound on the entries of one name in one database

String == [commit : Commits \cup {None}, rustc : Releases \cup {None}, dash : Releases \cup {None}]
Line == [hash : Commits, release : Releases \cup {None}]

ASSUME ChoiceAssumption ==
  /\ None \notin Commits \cup Releases
  /\ IsFiniteSet(Names)
  /\ MaxStrings \in Nat /\ MaxLines \in Nat /\ Candidates \in Nat /\ MaxEntries \in Nat

VARIABLES
  strings,    \* the strings of the binary, in the order of the string list
  table,      \* the lines of commit_versions.py, none if it is not readable
  scan,       \* "commit" | "table" | "rustc" | "dash" | "known" | "overlap" | "picked"
  i,          \* the string the loop is at
  line,       \* the line of the table
  version,    \* what find_version_in_strings returns
  recovered,  \* names present in the binary
  entries,    \* entries[c][x]: how often candidate c lists x
  c,          \* the candidate the loop is at
  best,       \* the best candidate so far, or NoVersion
  best_overlap

text == <<strings, table>>
choice == <<recovered, entries, c, best, best_overlap>>
choiceVars == <<text, scan, i, line, version, choice>>

SeqUpTo(S, n) == UNION {[1..k -> S] : k \in 0..n}

NoLists == [v \in 1..Candidates |-> [x \in Names |-> 0]]

NoVersion == 0  \* std::nullopt

ChoiceStart(strs, lines) ==
  /\ strings = strs /\ table = lines
  /\ scan = "commit" /\ i = 1 /\ line = 1 /\ version = None
  /\ recovered = {} /\ entries = NoLists
  /\ c = 1 /\ best = NoVersion /\ best_overlap = 0

ChoiceInit ==
  \E strs \in SeqUpTo(String, MaxStrings), lines \in SeqUpTo(Line, MaxLines) : ChoiceStart(strs, lines)

-----------------------------------------------------------------------------
(* find_version_in_strings.                                                *)

Goto(where) == scan' = where /\ i' = 1

\* Mutant: a commit that is not in the table ends the search.
GiveUp == scan' = "known" /\ UNCHANGED i

\* "do NOT give up -- fall through and try the version-string patterns"
FallThrough == Goto("rustc")

\* Only the first string with a commit is looked at.
ScanCommit ==
  /\ scan = "commit"
  /\ IF i > Len(strings) THEN Goto("rustc")
     ELSE IF strings[i].commit = None THEN i' = i + 1 /\ UNCHANGED scan
     ELSE scan' = "table" /\ UNCHANGED i
  /\ UNCHANGED <<text, line, version, choice>>

\* A line that mentions the commit but has no version is passed over.
Matches(l) == table[l].hash = strings[i].commit /\ table[l].release # None

\* lookup_commit_version, a line at a time.
LookUp ==
  /\ scan = "table"
  /\ IF line > Len(table) THEN FallThrough /\ UNCHANGED <<line, version>>
     ELSE IF Matches(line)
       THEN version' = table[line].release /\ scan' = "known" /\ UNCHANGED <<i, line>>
     ELSE line' = line + 1 /\ UNCHANGED <<scan, i, version>>
  /\ UNCHANGED <<text, choice>>

Found(s) == IF scan = "rustc" THEN s.rustc ELSE s.dash

\* The patterns, one after the other over all the strings.
ScanPattern ==
  /\ scan \in {"rustc", "dash"}
  /\ IF i > Len(strings)
       THEN Goto(IF scan = "rustc" THEN "dash" ELSE "known") /\ UNCHANGED version
     ELSE IF Found(strings[i]) # None
       THEN version' = Found(strings[i]) /\ scan' = "known" /\ UNCHANGED i
     ELSE i' = i + 1 /\ UNCHANGED <<scan, version>>
  /\ UNCHANGED <<text, line, choice>>

-----------------------------------------------------------------------------
(* pin_version_by_overlap, in a later call: the strings are gone, and what  *)
(* is recovered depends on what FLIRT named meanwhile.                      *)

StartOverlap ==
  /\ scan = "known" /\ version = None
  /\ scan' = "overlap" /\ strings' = <<>> /\ table' = <<>> /\ i' = 1 /\ line' = 1
  /\ recovered' \in SUBSET Names
  /\ entries' \in [1..Candidates -> [Names -> 0..MaxEntries]]
  /\ UNCHANGED <<version, c, best, best_overlap>>

\* Mutant: the sizes of the lists are compared, matching or not.
ListLength(v) == MapThenSumSet(LAMBDA x : entries[v][x], Names)

\* Every entry whose name was recovered counts.
Overlap(v) == MapThenSumSet(LAMBDA x : entries[v][x], recovered)

\* Mutant: nothing in common is good enough.
BetterOrEqual(v) == Overlap(v) >= best_overlap

Better(v) == Overlap(v) > best_overlap

TryCandidate ==
  /\ scan = "overlap" /\ recovered # {} /\ c <= Candidates
  /\ IF Better(c) THEN best' = c /\ best_overlap' = Overlap(c)
     ELSE UNCHANGED <<best, best_overlap>>
  /\ c' = c + 1
  /\ UNCHANGED <<text, scan, i, line, version, recovered, entries>>

ReturnBest ==
  /\ scan = "overlap"
  /\ recovered = {} \/ c > Candidates
  /\ scan' = "picked"
  /\ UNCHANGED <<text, i, line, version, choice>>

ChoiceNext ==
  \/ ScanCommit \/ LookUp \/ ScanPattern
  \/ StartOverlap \/ TryCandidate \/ ReturnBest

-----------------------------------------------------------------------------
(* Properties.                                                             *)

\* The strings decide in this order: the release of the first commit, by the
\* first line of the table that has one for it; the first string with "rustc
\* X.Y.Z"; the first with "rust-X.Y.Z".  An unknown commit hides nothing.
StringsDecide ==
  scan = "known" =>
    LET commits == {k \in 1..Len(strings) : strings[k].commit # None}
        found == {l \in 1..Len(table) :
                    /\ table[l].release # None
                    /\ commits # {} /\ table[l].hash = strings[Min(commits)].commit}
        rustc == {k \in 1..Len(strings) : strings[k].rustc # None}
        dash == {k \in 1..Len(strings) : strings[k].dash # None}
    IN  version =
          IF found # {} THEN table[Min(found)].release
          ELSE IF rustc # {} THEN strings[Min(rustc)].rustc
          ELSE IF dash # {} THEN strings[Min(dash)].dash
          ELSE None

Shared(v) == {x \in recovered : entries[v][x] > 0}

\* "version is nullopt if nothing overlaps", and only then.
NulloptIffDisjoint ==
  scan = "picked" => (best = NoVersion <=> \A v \in 1..Candidates : Shared(v) = {})

\* Where no database lists a name twice, the version picked shares the most
\* names with the binary, and of several it is the first enumerated.
SharesMostIfListedOnce ==
  scan = "picked" /\ best # NoVersion /\ (\A v \in 1..Candidates, x \in Names : entries[v][x] <= 1) =>
    \A v \in 1..Candidates :
      IF v < best THEN Cardinality(Shared(v)) < Cardinality(Shared(best))
      ELSE Cardinality(Shared(v)) <= Cardinality(Shared(best))
=============================================================================
