---------------------------- MODULE FlirtStaging ----------------------------
(***************************************************************************)
(* Staging of FLIRT signature files: copy_file, apply_flirt and            *)
(* apply_all_flirt of src/src/ida/oxidizer_ida.cpp.  Every IDA process of  *)
(* one installation copies into the same signature directory, and each     *)
(* plans the staged files for its own analysis; the directory outlives     *)
(* the processes.                                                          *)
(*                                                                         *)
(* A file is the set of the chunks (one qfread buffer each) that have been *)
(* written to it: an interrupted copy misses its last chunks, and a writer *)
(* whose file another process truncates leaves a hole.                     *)
(***************************************************************************)
EXTENDS Naturals, Sequences, FiniteSets

CONSTANTS
  Procs,        \* IDA processes
  Files,        \* names of signature files
  Versions,     \* rustc versions, each with its files in opt-level order
  FilesOf,      \* [Versions -> Seq(Files)]
  AllFiles,     \* the files of every version of the database directory
  Shipped,      \* the files that are readable in the data directory
  Chunks,       \* chunks per file
  Faults,       \* the faults that can occur
  MaxSessions   \* bound on sessions started

\* A file name is made of set, version and opt level: a loop never repeats one.
NoRepeats(s) == \A i, j \in 1..Len(s) : s[i] = s[j] => i = j

ASSUME StagingAssumption ==
  /\ FilesOf \in [Versions -> Seq(Files)]
  /\ AllFiles \in Seq(Files)
  /\ NoRepeats(AllFiles) /\ \A v \in Versions : NoRepeats(FilesOf[v])
  /\ Shipped \subseteq Files
  /\ Chunks \in Nat \ {0}
  /\ Faults \subseteq {"open", "write", "read", "flush", "plan", "crash"}
  /\ MaxSessions \in Nat

VARIABLES
  there,     \* the staged files that exist
  data,      \* data[f]: the chunks of f that are in place
  at,        \* "off" | "loop" | "open" | "copy" | "staged", per process
  mode,      \* "one" for apply_flirt, "all" for apply_all_flirt
  todo,      \* files the loop has still to treat; the current one first
  pos,       \* the chunk copy_file reads next
  planned,   \* files given to plan_to_apply_idasgn and not applied yet
  copied,    \* those of them that this session copied itself
  cut,       \* history: the files a copy of which did not come to its end since
             \* they were last truncated
  torn,      \* files that were incomplete when the kernel read them
  sessions   \* the processes that started a session, in order

dir == <<there, data, cut>>
local == <<mode, todo, pos, planned, copied, torn>>
vars == <<dir, at, local, sessions>>

Whole(f) == data[f] = 1..Chunks
Current(p) == Head(todo[p])
Copying(p, f) == at[p] = "copy" /\ Current(p) = f

\* No other process has started a session.
Alone(p) == \A s \in 1..Len(sessions) : sessions[s] = p

TypeOK ==
  /\ there \in SUBSET Files /\ data \in [Files -> SUBSET (1..Chunks)]
  /\ cut \in SUBSET Files
  /\ at \in [Procs -> {"off", "loop", "open", "copy", "staged"}]
  /\ mode \in [Procs -> {"one", "all"}]
  /\ todo \in [Procs -> Seq(Files)]
  /\ pos \in [Procs -> 1..(Chunks + 1)]
  /\ planned \in [Procs -> SUBSET Files] /\ copied \in [Procs -> SUBSET Files]
  /\ torn \in [Procs -> SUBSET Files]
  /\ sessions \in Seq(Procs) /\ Len(sessions) <= MaxSessions

Init ==
  /\ there = {} /\ data = [f \in Files |-> {}] /\ cut = {}
  /\ at = [p \in Procs |-> "off"]
  /\ mode = [p \in Procs |-> "one"]
  /\ todo = [p \in Procs |-> <<>>]
  /\ pos = [p \in Procs |-> 1]
  /\ planned = [p \in Procs |-> {}] /\ copied = [p \in Procs |-> {}]
  /\ torn = [p \in Procs |-> {}]
  /\ sessions = <<>>

-----------------------------------------------------------------------------
(* The loops of apply_flirt and apply_all_flirt.                           *)

Begin(p, m, files) ==
  /\ at[p] = "off" /\ Len(sessions) < MaxSessions
  /\ at' = [at EXCEPT ![p] = "loop"]
  /\ mode' = [mode EXCEPT ![p] = m]
  /\ todo' = [todo EXCEPT ![p] = files]
  /\ planned' = [planned EXCEPT ![p] = {}]
  /\ copied' = [copied EXCEPT ![p] = {}]
  /\ torn' = [torn EXCEPT ![p] = {}]
  /\ sessions' = Append(sessions, p)
  /\ UNCHANGED <<dir, pos>>

apply_flirt(p) == \E v \in Versions : Begin(p, "one", FilesOf[v])
apply_all_flirt(p) == Begin(p, "all", AllFiles)

\* Mutant: a file that is skipped is tried again.
StayAtFile(p) ==
  /\ at' = [at EXCEPT ![p] = "loop"]
  /\ UNCHANGED todo

\* Go on with the next file, and plan the current one.
NextFile(p) ==
  /\ at' = [at EXCEPT ![p] = "loop"]
  /\ todo' = [todo EXCEPT ![p] = Tail(@)]

PlanCurrent(p) ==
  \/ planned' = [planned EXCEPT ![p] = @ \cup {Current(p)}]
  \/ "plan" \in Faults /\ UNCHANGED planned

AtFile(p) == at[p] = "loop" /\ todo[p] # <<>>

SkipMissing(p) ==
  /\ AtFile(p) /\ Current(p) \notin Shipped
  /\ NextFile(p)
  /\ UNCHANGED <<dir, mode, pos, planned, copied, torn, sessions>>

\* Mutant: the detected path reuses as well.
ReuseAlways(p) == Current(p) \in there

\* Only apply_all_flirt takes a file that is already staged as it is.
Reusable(p) == mode[p] = "all" /\ Current(p) \in there

Reuse(p) ==
  /\ AtFile(p) /\ Current(p) \in Shipped /\ Reusable(p)
  /\ NextFile(p) /\ PlanCurrent(p)
  /\ UNCHANGED <<dir, mode, pos, copied, torn, sessions>>

StartCopy(p) ==
  /\ AtFile(p) /\ Current(p) \in Shipped /\ ~Reusable(p)
  /\ at' = [at EXCEPT ![p] = "open"]
  /\ UNCHANGED <<dir, local, sessions>>

LoopEnds(p) ==
  /\ at[p] = "loop" /\ todo[p] = <<>>
  /\ at' = [at EXCEPT ![p] = "staged"]
  /\ UNCHANGED <<dir, local, sessions>>

-----------------------------------------------------------------------------
(* copy_file.                                                              *)

\* Either file cannot be opened: nothing is written, nothing is planned.
OpenFails(p) ==
  /\ at[p] = "open" /\ "open" \in Faults
  /\ NextFile(p)
  /\ UNCHANGED <<dir, mode, pos, planned, copied, torn, sessions>>

\* qfopen(dst, "wb") creates the file or truncates the one that is there.
OpenFiles(p) ==
  /\ at[p] = "open"
  /\ there' = there \cup {Current(p)}
  /\ data' = [data EXCEPT ![Current(p)] = {}]
  /\ cut' = cut \ {Current(p)}
  /\ at' = [at EXCEPT ![p] = "copy"]
  /\ pos' = [pos EXCEPT ![p] = 1]
  /\ UNCHANGED <<mode, todo, planned, copied, torn, sessions>>

CopyChunk(p) ==
  /\ at[p] = "copy" /\ pos[p] <= Chunks
  /\ data' = [data EXCEPT ![Current(p)] = @ \cup {pos[p]}]
  /\ pos' = [pos EXCEPT ![p] = @ + 1]
  /\ UNCHANGED <<there, cut, at, mode, todo, planned, copied, torn, sessions>>

CutShort(p) == cut' = cut \cup {Current(p)}

\* copy_file returns true: plan the file.
CopySucceeds(p) ==
  /\ NextFile(p) /\ PlanCurrent(p)
  /\ copied' = [copied EXCEPT ![p] = @ \cup {Current(p)}]
  /\ UNCHANGED <<there, mode, pos, torn, sessions>>

\* Mutant: a short write is taken for the end of the copy.
IgnoreShortWrite(p) == CopySucceeds(p) /\ UNCHANGED <<data, cut>>

\* copy_file returns false: the file is not planned, and not removed either.
CopyFails(p) ==
  /\ NextFile(p) /\ CutShort(p)
  /\ UNCHANGED <<there, data, mode, pos, planned, copied, torn, sessions>>

\* A short qfwrite.
WriteFails(p) ==
  /\ at[p] = "copy" /\ pos[p] <= Chunks /\ "write" \in Faults
  /\ CopyFails(p)

\* Mutant: the last chunk is taken for the end of the file.
EndBeforeLast(p) ==
  /\ at[p] = "copy" /\ pos[p] >= Chunks
  /\ CopySucceeds(p) /\ UNCHANGED <<data, cut>>

\* qfread answers 0 at the end of the file.
EndOfFile(p) ==
  /\ at[p] = "copy" /\ pos[p] > Chunks
  /\ CopySucceeds(p) /\ UNCHANGED <<data, cut>>

\* A negative answer of qfread leaves the loop like the end of the file.
ReadFails(p) ==
  /\ at[p] = "copy" /\ pos[p] <= Chunks /\ "read" \in Faults
  /\ CopySucceeds(p) /\ CutShort(p) /\ UNCHANGED data

\* The last chunk may still be buffered; what qfclose answers is not looked at.
FlushFails(p) ==
  /\ at[p] = "copy" /\ pos[p] > Chunks /\ "flush" \in Faults
  /\ CopySucceeds(p) /\ CutShort(p)
  /\ data' = [data EXCEPT ![Current(p)] = @ \ {Chunks}]

-----------------------------------------------------------------------------
(* The kernel reads a planned file when its analysis comes to it; then the *)
(* process exits, or is killed at any time.                                *)

ApplyPlanned(p, f) ==
  /\ at[p] = "staged" /\ f \in planned[p]
  /\ planned' = [planned EXCEPT ![p] = @ \ {f}]
  /\ torn' = IF f \in there /\ Whole(f) THEN torn ELSE [torn EXCEPT ![p] = @ \cup {f}]
  /\ UNCHANGED <<dir, at, mode, todo, pos, copied, sessions>>

Exit(p) ==
  /\ at[p] = "staged" /\ planned[p] = {}
  /\ at' = [at EXCEPT ![p] = "off"]
  /\ UNCHANGED <<dir, local, sessions>>

\* A killed process takes what it had buffered with it.
Crash(p) ==
  /\ at[p] # "off" /\ "crash" \in Faults
  /\ \/ UNCHANGED data
     \/ at[p] = "copy" /\ data' = [data EXCEPT ![Current(p)] = @ \ {pos[p] - 1}]
  /\ IF at[p] = "copy" THEN CutShort(p) ELSE UNCHANGED cut
  /\ at' = [at EXCEPT ![p] = "off"]
  /\ todo' = [todo EXCEPT ![p] = <<>>]
  /\ planned' = [planned EXCEPT ![p] = {}]
  /\ UNCHANGED <<there, mode, pos, copied, torn, sessions>>

Copy(p) ==
  \/ OpenFails(p) \/ OpenFiles(p) \/ CopyChunk(p) \/ WriteFails(p)
  \/ EndOfFile(p) \/ ReadFails(p) \/ FlushFails(p)

Loop(p) == SkipMissing(p) \/ Reuse(p) \/ StartCopy(p) \/ LoopEnds(p)

Kernel(p) == Exit(p) \/ \E f \in Files : ApplyPlanned(p, f)

Step(p) == apply_flirt(p) \/ apply_all_flirt(p) \/ Loop(p) \/ Copy(p) \/ Kernel(p) \/ Crash(p)

Next == \E p \in Procs : Step(p)

SafetySpec == Init /\ [][Next]_vars

\* A process that has begun goes on; when one begins is the user's choice.
Fairness == \A p \in Procs : WF_vars(Loop(p) \/ Copy(p) \/ Kernel(p))
Spec == SafetySpec /\ Fairness

-----------------------------------------------------------------------------
(* Properties.                                                             *)

\* While no other process stages, a file that a session copied itself is whole
\* when the kernel reads it, whatever earlier sessions left behind: a failed
\* copy is not planned, and copying over a partial file repairs it.  Only a
\* failed read or flush, which copy_file does not notice, can leave it short.
CopiedIsWhole == \A p \in Procs : Alone(p) => torn[p] \cap copied[p] \subseteq cut

\* apply_flirt never relies on what another session staged: with the version
\* detected, nothing is applied that a killed or failed session left incomplete.
DetectedIsWhole ==
  \A p \in Procs : Alone(p) /\ mode[p] = "one" => torn[p] \subseteq copied[p] \cap cut

\* Processes that copy the same file at the same time, truncating it under
\* each other, still leave it whole once the last of them is done, as long as
\* no copy was cut short since it was last truncated.
WholeWhenQuiet ==
  \A f \in there \ cut : Whole(f) \/ \E p \in Procs : Copying(p, f)

\* "stage once, then reuse": what a fallback session applies is whole.
FallbackIsWhole == \A p \in Procs : mode[p] = "all" => torn[p] = {}

\* A session that has begun comes to its end (or its process dies).
StagingEnds == \A p \in Procs : at[p] # "off" ~> at[p] = "off"
=============================================================================
