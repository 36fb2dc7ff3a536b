------------------------- MODULE FlirtStagingProofs -------------------------
(***************************************************************************)
(* Staging for any number of processes, files and chunks.                  *)
(***************************************************************************)
EXTENDS FlirtStaging, TLAPS

USE StagingAssumption

-----------------------------------------------------------------------------
(* Typing.                                                                 *)

\* copy_file runs on the file at the head of the loop.
BusyHasFile == \A p \in Procs : at[p] \in {"open", "copy"} => todo[p] # <<>>

Typed == TypeOK /\ BusyHasFile

LEMMA TypeInit == Init => Typed
  <1> SUFFICES ASSUME Init PROVE Typed
    OBVIOUS
  <1>1. <<>> \in Seq(Files) /\ 1 \in 1..(Chunks + 1)
    OBVIOUS
  <1>2. BusyHasFile
    BY DEF Init, BusyHasFile
  <1> QED
    BY <1>1, <1>2 DEF Init, Typed, TypeOK

\* The current file is a file, and what remains after it is a sequence of files.
LEMMA CurrentFile ==
  ASSUME TypeOK, NEW p \in Procs, todo[p] # <<>>
  PROVE  Current(p) \in Files /\ Tail(todo[p]) \in Seq(Files) /\ Current(p) = todo[p][1]
  <1>1. todo[p] \in Seq(Files)
    BY DEF TypeOK
  <1> QED
    BY <1>1 DEF Current

LEMMA NextFileType ==
  ASSUME Typed, NEW p \in Procs, todo[p] # <<>>, NextFile(p)
  PROVE  /\ at' \in [Procs -> {"off", "loop", "open", "copy", "staged"}]
         /\ todo' \in [Procs -> Seq(Files)] /\ BusyHasFile'
  BY CurrentFile DEF NextFile, Typed, TypeOK, BusyHasFile

LEMMA PlanType ==
  ASSUME TypeOK, NEW p \in Procs, todo[p] # <<>>, PlanCurrent(p)
  PROVE  planned' \in [Procs -> SUBSET Files]
  <1>1. Current(p) \in Files
    BY CurrentFile
  <1>2. planned \in [Procs -> SUBSET Files]
    BY DEF TypeOK
  <1>3. planned[p] \cup {Current(p)} \in SUBSET Files
    BY <1>1, <1>2
  <1> QED
    BY <1>2, <1>3 DEF PlanCurrent

LEMMA BeginTyped ==
  ASSUME Typed, NEW p \in Procs, apply_flirt(p) \/ apply_all_flirt(p)
  PROVE  Typed'
  <1>1. PICK m \in {"one", "all"}, files \in Seq(Files) : Begin(p, m, files)
    BY DEF apply_flirt, apply_all_flirt
  <1>2. sessions' \in Seq(Procs) /\ Len(sessions') <= MaxSessions
    BY <1>1 DEF Begin, Typed, TypeOK
  <1>3. BusyHasFile'
    BY <1>1 DEF Begin, Typed, TypeOK, BusyHasFile
  <1>4. at' \in [Procs -> {"off", "loop", "open", "copy", "staged"}]
    BY <1>1 DEF Begin, Typed, TypeOK
  <1>5. mode' \in [Procs -> {"one", "all"}] /\ todo' \in [Procs -> Seq(Files)]
    BY <1>1 DEF Begin, Typed, TypeOK
  <1>6. /\ planned' \in [Procs -> SUBSET Files] /\ copied' \in [Procs -> SUBSET Files]
        /\ torn' \in [Procs -> SUBSET Files]
    BY <1>1 DEF Begin, Typed, TypeOK
  <1> QED
    BY <1>1, <1>2, <1>3, <1>4, <1>5, <1>6 DEF Begin, Typed, TypeOK, dir

LEMMA LoopTyped ==
  ASSUME Typed, NEW p \in Procs, Loop(p)
  PROVE  Typed'
  <1>1. CASE SkipMissing(p)
    BY <1>1, NextFileType DEF SkipMissing, AtFile, Typed, TypeOK, dir
  <1>2. CASE Reuse(p)
    BY <1>2, NextFileType, PlanType DEF Reuse, AtFile, Typed, TypeOK, dir
  <1>3. CASE StartCopy(p)
    BY <1>3 DEF StartCopy, AtFile, Typed, TypeOK, BusyHasFile, dir, local
  <1>4. CASE LoopEnds(p)
    BY <1>4 DEF LoopEnds, Typed, TypeOK, BusyHasFile, dir, local
  <1> QED
    BY <1>1, <1>2, <1>3, <1>4 DEF Loop

\* copy_file returned true, whatever became of the data of the file.
LEMMA SuccessTyped ==
  ASSUME Typed, NEW p \in Procs, at[p] = "copy", CopySucceeds(p),
         data' \in [Files -> SUBSET (1..Chunks)], cut' \in SUBSET Files
  PROVE  Typed'
  <1>1. todo[p] # <<>>
    BY DEF Typed, BusyHasFile
  <1>2. copied' \in [Procs -> SUBSET Files]
    BY <1>1, CurrentFile DEF CopySucceeds, Typed, TypeOK
  <1> QED
    BY <1>1, <1>2, NextFileType, PlanType DEF CopySucceeds, Typed, TypeOK

LEMMA CopyTyped ==
  ASSUME Typed, NEW p \in Procs, Copy(p)
  PROVE  Typed'
  <1>1. at[p] \in {"open", "copy"} /\ todo[p] # <<>>
    BY DEF Copy, OpenFails, OpenFiles, CopyChunk, WriteFails, EndOfFile, ReadFails, FlushFails,
           Typed, BusyHasFile
  <1>2. Current(p) \in Files
    BY <1>1, CurrentFile DEF Typed
  <1>3. CASE OpenFails(p)
    BY <1>1, <1>3, NextFileType DEF OpenFails, Typed, TypeOK, dir
  <1>4. CASE OpenFiles(p)
    <2>1. pos' \in [Procs -> 1..(Chunks + 1)]
      BY <1>4 DEF OpenFiles, Typed, TypeOK
    <2>2. data' \in [Files -> SUBSET (1..Chunks)] /\ there' \in SUBSET Files /\ cut' \in SUBSET Files
      BY <1>2, <1>4 DEF OpenFiles, Typed, TypeOK
    <2>3. at' \in [Procs -> {"off", "loop", "open", "copy", "staged"}]
      BY <1>4 DEF OpenFiles, Typed, TypeOK
    <2>4. BusyHasFile'
      BY <1>1, <1>4 DEF OpenFiles, Typed, TypeOK, BusyHasFile
    <2>5. UNCHANGED <<mode, todo, planned, copied, torn, sessions>>
      BY <1>4 DEF OpenFiles
    <2> QED
      BY <2>1, <2>2, <2>3, <2>4, <2>5 DEF Typed, TypeOK
  <1>5. CASE CopyChunk(p)
    <2>1. pos[p] \in 1..Chunks /\ pos[p] + 1 \in 1..(Chunks + 1)
      BY <1>5 DEF CopyChunk, Typed, TypeOK
    <2>2. pos' \in [Procs -> 1..(Chunks + 1)]
      BY <1>5, <2>1 DEF CopyChunk, Typed, TypeOK
    <2>3. data' \in [Files -> SUBSET (1..Chunks)]
      BY <1>2, <1>5, <2>1 DEF CopyChunk, Typed, TypeOK
    <2> QED
      BY <1>5, <2>2, <2>3 DEF CopyChunk, Typed, TypeOK, BusyHasFile
  <1>6. CASE WriteFails(p)
    BY <1>1, <1>2, <1>6, NextFileType DEF WriteFails, CopyFails, CutShort, Typed, TypeOK
  <1>7. CASE EndOfFile(p)
    BY <1>7, SuccessTyped DEF EndOfFile, Typed, TypeOK
  <1>8. CASE ReadFails(p)
    BY <1>2, <1>8, SuccessTyped DEF ReadFails, CutShort, Typed, TypeOK
  <1>9. CASE FlushFails(p)
    <2>1. data' \in [Files -> SUBSET (1..Chunks)]
      BY <1>2, <1>9 DEF FlushFails, Typed, TypeOK
    <2>2. cut' \in SUBSET Files
      BY <1>2, <1>9 DEF FlushFails, CutShort, Typed, TypeOK
    <2> QED
      BY <1>9, <2>1, <2>2, SuccessTyped DEF FlushFails
  <1> QED
    BY <1>3, <1>4, <1>5, <1>6, <1>7, <1>8, <1>9 DEF Copy

LEMMA KernelTyped ==
  ASSUME Typed, NEW p \in Procs, Kernel(p) \/ Crash(p)
  PROVE  Typed'
  <1>1. ASSUME NEW f \in Files, ApplyPlanned(p, f) PROVE Typed'
    BY <1>1 DEF ApplyPlanned, Typed, TypeOK, BusyHasFile, dir
  <1>2. CASE Exit(p)
    BY <1>2 DEF Exit, Typed, TypeOK, BusyHasFile, dir, local
  <1>3. CASE Crash(p)
    <2>1. data' \in [Files -> SUBSET (1..Chunks)]
      <3>1. data \in [Files -> SUBSET (1..Chunks)]
        BY DEF Typed, TypeOK
      <3>2. data[Current(p)] \ {pos[p] - 1} \in SUBSET (1..Chunks) \/ Current(p) \notin Files
        BY <3>1
      <3> QED
        BY <1>3, <3>1, <3>2 DEF Crash
    <2>2. todo' \in [Procs -> Seq(Files)] /\ planned' \in [Procs -> SUBSET Files]
      BY <1>3 DEF Crash, Typed, TypeOK
    <2>3. cut' \in SUBSET Files
      <3>1. CASE at[p] = "copy"
        <4>1. Current(p) \in Files
          BY <3>1, CurrentFile DEF Typed, BusyHasFile
        <4> QED
          BY <1>3, <3>1, <4>1 DEF Crash, CutShort, Typed, TypeOK
      <3>2. CASE at[p] # "copy"
        BY <1>3, <3>2 DEF Crash, Typed, TypeOK
      <3> QED
        BY <3>1, <3>2
    <2> QED
      BY <1>3, <2>1, <2>2, <2>3 DEF Crash, Typed, TypeOK, BusyHasFile
  <1> QED
    BY <1>1, <1>2, <1>3 DEF Kernel

LEMMA TypedStep == Typed /\ [Next]_vars => Typed'
  <1> SUFFICES ASSUME Typed, [Next]_vars PROVE Typed'
    OBVIOUS
  <1>1. CASE UNCHANGED vars
    BY <1>1 DEF vars, dir, local, Typed, TypeOK, BusyHasFile
  <1> QED
    BY <1>1, BeginTyped, LoopTyped, CopyTyped, KernelTyped DEF Next, Step

\* Every reachable state is typed.
THEOREM StagingTyped == SafetySpec => []Typed
  BY TypeInit, TypedStep, PTL DEF SafetySpec
-----------------------------------------------------------------------------
(***************************************************************************)
(* Concurrent copies.  That a file is whole when nobody copies it is not   *)
(* inductive: a copy may end while another has truncated the file.  What   *)
(* is: an incomplete file, none of whose copies was cut short, has a writer *)
(* behind whose position nothing is missing, the last that truncated it.   *)
(***************************************************************************)

LastTruncator ==
  \A f \in there \ cut :
    Whole(f) \/ \E p \in Procs : Copying(p, f) /\ 1..(pos[p] - 1) \subseteq data[f]

\* What a step of p that leaves the directory alone may do to the writers: it
\* may not take away one that is copying.
LEMMA WritersKept ==
  ASSUME LastTruncator, there' = there, data' = data, cut' = cut,
         \A p \in Procs : at[p] = "copy" =>
           at'[p] = "copy" /\ todo'[p] = todo[p] /\ pos'[p] = pos[p]
  PROVE  LastTruncator'
  BY DEF LastTruncator, Whole, Copying, Current

LEMMA LastTruncatorStep ==
  ASSUME Typed, LastTruncator, [Next]_vars
  PROVE  LastTruncator'
  <1>1. ASSUME NEW p \in Procs,
               apply_flirt(p) \/ apply_all_flirt(p) \/ Loop(p) \/ Kernel(p) \/ OpenFails(p)
        PROVE  LastTruncator'
    <2>1. there' = there /\ data' = data /\ cut' = cut /\ pos' = pos
      BY <1>1 DEF apply_flirt, apply_all_flirt, Begin, Loop, SkipMissing, Reuse, StartCopy,
           LoopEnds, Kernel, ApplyPlanned, Exit, OpenFails, dir, local
    <2>2. /\ at[p] # "copy"
          /\ \A q \in Procs : q # p => at'[q] = at[q] /\ todo'[q] = todo[q]
      BY <1>1 DEF apply_flirt, apply_all_flirt, Begin, Loop, SkipMissing, Reuse, StartCopy,
           LoopEnds, Kernel, ApplyPlanned, Exit, OpenFails, AtFile, NextFile, local, Typed, TypeOK
    <2> QED
      BY <2>1, <2>2, WritersKept
  <1>2. ASSUME NEW p \in Procs, OpenFiles(p) PROVE LastTruncator'
    <2>0. PICK f \in Files : f = Current(p)
      BY <1>2, CurrentFile DEF OpenFiles, CopyChunk, Typed, BusyHasFile
    <2>1. /\ there' = there \cup {f} /\ todo' = todo /\ cut' = cut \ {f}
          /\ data'[f] = {} /\ at'[p] = "copy" /\ pos'[p] = 1
      BY <1>2, <2>0 DEF OpenFiles, Typed, TypeOK
    <2>2. Copying(p, f)' /\ 1..(pos'[p] - 1) \subseteq data'[f]
      BY <2>0, <2>1 DEF Copying, Current
    <2>3. ASSUME NEW g \in there \ cut, g # f
          PROVE  Whole(g)' \/ \E q \in Procs : Copying(q, g)' /\ 1..(pos'[q] - 1) \subseteq data'[g]
      <3>1. data'[g] = data[g]
        BY <1>2, <2>0, <2>3 DEF OpenFiles, Typed, TypeOK
      <3>2. \A q \in Procs : Copying(q, g) => Copying(q, g)' /\ pos'[q] = pos[q]
        BY <1>2, <2>1 DEF OpenFiles, Copying, Current, Typed, TypeOK
      <3> QED
        BY <3>1, <3>2 DEF LastTruncator, Whole
    <2>4. ASSUME NEW g \in there' \ cut'
          PROVE  Whole(g)' \/ \E q \in Procs : Copying(q, g)' /\ 1..(pos'[q] - 1) \subseteq data'[g]
      <3>1. CASE g = f
        BY <2>2, <3>1
      <3>2. CASE g # f
        BY <2>1, <2>3, <3>2
      <3> QED
        BY <3>1, <3>2
    <2> QED
      BY <2>4 DEF LastTruncator
  <1>3. ASSUME NEW p \in Procs, CopyChunk(p) PROVE LastTruncator'
    <2>0. PICK f \in Files : f = Current(p)
      BY <1>3, CurrentFile DEF OpenFiles, CopyChunk, Typed, BusyHasFile
    <2>1. /\ there' = there /\ cut' = cut /\ at' = at /\ todo' = todo /\ pos[p] \in 1..Chunks
          /\ data'[f] = data[f] \cup {pos[p]} /\ pos'[p] = pos[p] + 1
          /\ \A g \in Files : g # f => data'[g] = data[g]
          /\ \A q \in Procs : q # p => pos'[q] = pos[q]
      BY <1>3, <2>0 DEF CopyChunk, Typed, TypeOK
    <2>2. 1..(pos'[p] - 1) = (1..(pos[p] - 1)) \cup {pos[p]}
      BY <2>1
    <2>3. \A g \in Files : data[g] \subseteq 1..Chunks
      BY DEF Typed, TypeOK
    <2>4. ASSUME NEW g \in there \ cut
          PROVE  Whole(g)' \/ \E q \in Procs : Copying(q, g)' /\ 1..(pos'[q] - 1) \subseteq data'[g]
      <3>1. g \in Files /\ data[g] \subseteq data'[g]
        BY <2>1 DEF Typed, TypeOK
      <3>2. CASE Whole(g)
        BY <2>1, <2>3, <3>1, <3>2 DEF Whole
      <3>3. ASSUME NEW q \in Procs, Copying(q, g), 1..(pos[q] - 1) \subseteq data[g]
            PROVE  Copying(q, g)' /\ 1..(pos'[q] - 1) \subseteq data'[g]
        <4>1. Copying(q, g)'
          BY <2>1, <3>3 DEF Copying, Current
        <4>2. CASE q = p
          BY <2>0, <2>1, <2>2, <3>1, <3>3, <4>1, <4>2 DEF Copying
        <4>3. CASE q # p
          BY <2>1, <3>1, <3>3, <4>1, <4>3
        <4> QED
          BY <4>2, <4>3
      <3> QED
        BY <3>2, <3>3 DEF LastTruncator
    <2> QED
      BY <2>1, <2>4 DEF LastTruncator
  <1>4. ASSUME NEW p \in Procs, EndOfFile(p) PROVE LastTruncator'
    <2>1. /\ there' = there /\ data' = data /\ cut' = cut /\ pos' = pos /\ pos[p] = Chunks + 1
          /\ \A q \in Procs : q # p => at'[q] = at[q] /\ todo'[q] = todo[q]
      BY <1>4 DEF EndOfFile, CopySucceeds, NextFile, Typed, TypeOK
    <2>2. ASSUME NEW g \in there \ cut
          PROVE  Whole(g)' \/ \E q \in Procs : Copying(q, g)' /\ 1..(pos'[q] - 1) \subseteq data'[g]
      <3>1. data[g] \subseteq 1..Chunks
        BY DEF Typed, TypeOK
      <3>2. CASE Whole(g)
        BY <2>1, <3>2 DEF Whole
      <3>3. ASSUME NEW q \in Procs, Copying(q, g), 1..(pos[q] - 1) \subseteq data[g]
            PROVE  Whole(g)' \/ (Copying(q, g)' /\ 1..(pos'[q] - 1) \subseteq data'[g])
        <4>1. CASE q = p
          <5>0. Chunks \in Nat /\ pos[q] = Chunks + 1
            BY <2>1, <4>1
          <5>1. pos[q] - 1 = Chunks
            BY <5>0
          <5>2. data[g] = 1..Chunks
            BY <3>1, <3>3, <5>1
          <5> QED
            BY <2>1, <5>2 DEF Whole
        <4>2. CASE q # p
          BY <2>1, <3>3, <4>2 DEF Copying, Current
        <4> QED
          BY <4>1, <4>2
      <3> QED
        BY <3>2, <3>3 DEF LastTruncator
    <2> QED
      BY <2>1, <2>2 DEF LastTruncator
  <1>5. CASE UNCHANGED vars
    BY <1>5, WritersKept DEF vars, dir, local
  <1>6. ASSUME NEW p \in Procs, WriteFails(p) \/ ReadFails(p) \/ FlushFails(p) \/ Crash(p)
        PROVE  LastTruncator'
    <2>1. CASE at[p] = "copy"
      <3>0. PICK f \in Files : f = Current(p)
        BY <2>1, CurrentFile DEF Typed, BusyHasFile
      <3>1. /\ there' = there /\ pos' = pos /\ cut' = cut \cup {f}
            /\ \A q \in Procs : q # p => at'[q] = at[q] /\ todo'[q] = todo[q]
        BY <1>6, <2>1, <3>0 DEF WriteFails, CopyFails, ReadFails, FlushFails, CopySucceeds,
             Crash, CutShort, NextFile, Typed, TypeOK
      <3>2. \A g \in Files : g # f => data'[g] = data[g]
        BY <1>6, <2>1, <3>0 DEF WriteFails, CopyFails, ReadFails, FlushFails, Crash, Typed, TypeOK
      <3>3. ASSUME NEW g \in there \ cut, g # f
            PROVE  Whole(g)' \/ \E q \in Procs : Copying(q, g)' /\ 1..(pos'[q] - 1) \subseteq data'[g]
        <4>1. data'[g] = data[g]
          BY <3>2, <3>3 DEF Typed, TypeOK
        <4>2. \A q \in Procs : Copying(q, g) => Copying(q, g)'
          BY <3>0, <3>1, <3>3 DEF Copying, Current
        <4> QED
          BY <3>1, <3>3, <4>1, <4>2 DEF LastTruncator, Whole
      <3> QED
        BY <3>1, <3>3 DEF LastTruncator
    <2>2. CASE at[p] # "copy"
      <3>1. /\ there' = there /\ data' = data /\ cut' = cut /\ pos' = pos
            /\ \A q \in Procs : q # p => at'[q] = at[q] /\ todo'[q] = todo[q]
        BY <1>6, <2>2 DEF WriteFails, ReadFails, FlushFails, Crash, Typed, TypeOK
      <3> QED
        BY <2>2, <3>1, WritersKept
    <2> QED
      BY <2>1, <2>2
  <1> QED
    BY <1>1, <1>2, <1>3, <1>4, <1>5, <1>6 DEF Next, Step, Copy

\* However many processes truncate and copy one file under each other, it is
\* whole once none of them is copying it, unless one of its copies was cut short.
THEOREM StagedWholeWhenQuiet == SafetySpec => []WholeWhenQuiet
  <1>1. Init => LastTruncator
    BY DEF Init, LastTruncator
  <1>2. Typed /\ LastTruncator /\ [Next]_vars => LastTruncator'
    BY LastTruncatorStep
  <1>3. LastTruncator => WholeWhenQuiet
    BY DEF LastTruncator, WholeWhenQuiet
  <1> QED
    BY <1>1, <1>2, <1>3, StagingTyped, PTL DEF SafetySpec
-----------------------------------------------------------------------------
(***************************************************************************)
(* One process at a time.  What a session copied stays whole because its   *)
(* loop never comes to the same file again, and because a copy that is not *)
(* cut short by a read or a flush is complete when it answers true.        *)
(***************************************************************************)

\* A process that is not off has started a session.
Registered == \A p \in Procs : at[p] # "off" => \E s \in 1..Len(sessions) : sessions[s] = p

Looping(p) == at[p] \in {"loop", "open", "copy"}

CopyProgress(p) == at[p] = "copy" => Current(p) \in there /\ 1..(pos[p] - 1) \subseteq data[Current(p)]

CopiedInPlace(p) == \A f \in copied[p] : f \in cut \/ (f \in there /\ Whole(f))

NoFileTwice(p) ==
  Looping(p) =>
    /\ NoRepeats(todo[p])
    /\ \A i \in 1..Len(todo[p]) : todo[p][i] \notin copied[p]
    /\ torn[p] = {}

Undisturbed(p) ==
  /\ CopyProgress(p) /\ CopiedInPlace(p) /\ NoFileTwice(p)
  /\ torn[p] \cap copied[p] \subseteq cut

\* apply_flirt plans only what it has copied.
OwnCopies(p) == mode[p] = "one" => planned[p] \subseteq copied[p] /\ torn[p] \subseteq copied[p]

AloneInv == Registered /\ \A p \in Procs : OwnCopies(p) /\ (Alone(p) => Undisturbed(p))

\* The head of a loop without repeats is not in its tail.
LEMMA TailRepeats ==
  ASSUME NEW s \in Seq(Files), s # <<>>, NoRepeats(s)
  PROVE  /\ NoRepeats(Tail(s))
         /\ \A i \in 1..Len(Tail(s)) : Tail(s)[i] # Head(s) /\ \E j \in 1..Len(s) : Tail(s)[i] = s[j]
  <1>1. /\ Len(s) \in Nat /\ Len(s) >= 1 /\ Len(Tail(s)) = Len(s) - 1 /\ Head(s) = s[1]
        /\ \A i \in 1..Len(Tail(s)) : Tail(s)[i] = s[i + 1] /\ i + 1 \in 1..Len(s) /\ i + 1 # 1
    OBVIOUS
  <1> QED
    BY <1>1 DEF NoRepeats

\* A step of a session that has begun starts none; a new one is recorded.
LEMMA SessionsGrow ==
  ASSUME Typed, NEW p \in Procs, Step(p)
  PROVE  \/ sessions' = sessions /\ at[p] # "off"
         \/ sessions' = Append(sessions, p) /\ (apply_flirt(p) \/ apply_all_flirt(p))
  BY DEF Step, apply_flirt, apply_all_flirt, Begin, Loop, SkipMissing, Reuse, StartCopy, LoopEnds,
       AtFile, Copy, OpenFails, OpenFiles, CopyChunk, WriteFails, CopyFails, CopySucceeds, EndOfFile,
       ReadFails, FlushFails, Kernel, ApplyPlanned, Exit, Crash

LEMMA OthersKeepPlace ==
  ASSUME Typed, NEW p \in Procs, Step(p), NEW q \in Procs, q # p
  PROVE  /\ at'[q] = at[q] /\ mode'[q] = mode[q]
         /\ planned'[q] = planned[q] /\ copied'[q] = copied[q] /\ torn'[q] = torn[q]
  BY DEF Step, apply_flirt, apply_all_flirt, Begin, Loop, SkipMissing, Reuse, StartCopy, LoopEnds,
       AtFile, NextFile, PlanCurrent, Copy, OpenFails, OpenFiles, CopyChunk, WriteFails, CopyFails,
       CopySucceeds, EndOfFile, ReadFails, FlushFails, Kernel, ApplyPlanned, Exit, Crash, local,
       Typed, TypeOK

\* What a longer sequence of sessions has at its places.
LEMMA Recorded ==
  ASSUME Typed, NEW p \in Procs, sessions' = Append(sessions, p)
  PROVE  /\ \A s \in 1..Len(sessions) : s \in 1..Len(sessions') /\ sessions'[s] = sessions[s]
         /\ \E s \in 1..Len(sessions') : sessions'[s] = p
         /\ \A q : Alone(q)' => q = p /\ Alone(q)
  <1>1. PICK n \in Nat : n = Len(sessions)
    BY DEF Typed, TypeOK
  <1>2. /\ Len(sessions') = n + 1 /\ sessions'[n + 1] = p
        /\ \A s \in 1..n : sessions'[s] = sessions[s]
    BY <1>1 DEF Typed, TypeOK
  <1>3. n + 1 \in 1..Len(sessions') /\ \A s \in 1..n : s \in 1..Len(sessions')
    BY <1>2
  <1> QED
    BY <1>1, <1>2, <1>3 DEF Alone

LEMMA RegisteredStep ==
  ASSUME Typed, Registered, [Next]_vars
  PROVE  Registered'
  <1>1. CASE UNCHANGED vars
    BY <1>1 DEF vars, Registered
  <1>2. ASSUME NEW p \in Procs, Step(p) PROVE Registered'
    <2>1. CASE sessions' = sessions /\ at[p] # "off"
      BY <1>2, <2>1, OthersKeepPlace DEF Registered
    <2>2. CASE sessions' = Append(sessions, p)
      BY <1>2, <2>2, OthersKeepPlace, Recorded DEF Registered
    <2> QED
      BY <1>2, <2>1, <2>2, SessionsGrow
  <1> QED
    BY <1>1, <1>2 DEF Next

\* As long as p is alone, every step is one of its own.
LEMMA AloneSteps ==
  ASSUME Typed, Registered, NEW p \in Procs, NEW q \in Procs, Step(q), Alone(p)'
  PROVE  q = p /\ Alone(p)
  <1>1. CASE sessions' = sessions /\ at[q] # "off"
    BY <1>1 DEF Registered, Alone
  <1>2. CASE sessions' = Append(sessions, q)
    BY <1>2, Recorded
  <1> QED
    BY <1>1, <1>2, SessionsGrow

LEMMA OwnCopiesStep ==
  ASSUME Typed, NEW p \in Procs, OwnCopies(p), [Next]_vars
  PROVE  OwnCopies(p)'
  <1>1. CASE UNCHANGED vars
    BY <1>1 DEF vars, local, OwnCopies
  <1>2. ASSUME NEW q \in Procs, q # p, Step(q) PROVE OwnCopies(p)'
    BY <1>2, OthersKeepPlace DEF OwnCopies
  <1>3. CASE apply_flirt(p) \/ apply_all_flirt(p)
    BY <1>3 DEF apply_flirt, apply_all_flirt, Begin, OwnCopies, Typed, TypeOK
  <1>4. CASE Reuse(p)
    BY <1>4 DEF Reuse, Reusable, OwnCopies
  <1>5. CASE CopySucceeds(p)
    BY <1>5 DEF CopySucceeds, PlanCurrent, OwnCopies, Typed, TypeOK
  <1>6. CASE SkipMissing(p) \/ StartCopy(p) \/ LoopEnds(p) \/ Exit(p)
    BY <1>6 DEF SkipMissing, StartCopy, LoopEnds, Exit, local, OwnCopies
  <1>7. CASE OpenFails(p) \/ OpenFiles(p) \/ CopyChunk(p) \/ WriteFails(p)
    BY <1>7 DEF OpenFails, OpenFiles, CopyChunk, WriteFails, CopyFails, OwnCopies
  <1>8. ASSUME NEW f \in Files, ApplyPlanned(p, f) PROVE OwnCopies(p)'
    BY <1>8 DEF ApplyPlanned, OwnCopies, Typed, TypeOK
  <1>9. CASE Crash(p)
    BY <1>9 DEF Crash, OwnCopies, Typed, TypeOK
  <1> QED
    BY <1>1, <1>2, <1>3, <1>4, <1>5, <1>6, <1>7, <1>8, <1>9
       DEF Next, Step, Loop, Copy, Kernel, EndOfFile, ReadFails, FlushFails

LEMMA UndisturbedStep ==
  ASSUME NEW p \in Procs, Typed, Undisturbed(p), Step(p)
  PROVE  Undisturbed(p)'
  <1> USE DEF Undisturbed
  <1>0. /\ todo[p] \in Seq(Files) /\ copied[p] \subseteq Files /\ copied \in [Procs -> SUBSET Files]
        /\ pos[p] \in 1..(Chunks + 1) /\ data \in [Files -> SUBSET (1..Chunks)]
        /\ at[p] \in {"open", "copy"} => todo[p] # <<>>
    BY DEF Typed, TypeOK, BusyHasFile
  <1>a. at[p] \in {"open", "copy"} \/ AtFile(p) => Current(p) \in Files /\ Current(p) = todo[p][1]
    BY <1>0, CurrentFile DEF Typed, AtFile
  <1>b. at[p] \in {"open", "copy"} => Current(p) \notin copied[p]
    <2>1. at[p] \in {"open", "copy"} => 1 \in 1..Len(todo[p])
      BY <1>0
    <2> QED
      BY <1>a, <2>1 DEF NoFileTwice, Looping
  <1>1. CASE apply_flirt(p) \/ apply_all_flirt(p)
    <2>1. PICK m \in {"one", "all"}, files \in Seq(Files) : Begin(p, m, files) /\ NoRepeats(files)
      BY <1>1 DEF apply_flirt, apply_all_flirt
    <2>2. at'[p] = "loop" /\ todo'[p] = files /\ copied'[p] = {} /\ torn'[p] = {}
      BY <2>1 DEF Begin, Typed, TypeOK
    <2> QED
      BY <2>1, <2>2 DEF CopyProgress, CopiedInPlace, NoFileTwice, Looping
  <1>2. CASE SkipMissing(p) \/ Reuse(p) \/ OpenFails(p) \/ WriteFails(p)
    <2>1. /\ there' = there /\ data' = data /\ copied' = copied /\ torn' = torn /\ cut \subseteq cut'
          /\ at'[p] = "loop" /\ todo'[p] = Tail(todo[p]) /\ todo[p] # <<>> /\ Looping(p)
      BY <1>0, <1>2 DEF SkipMissing, Reuse, OpenFails, WriteFails, CopyFails, CutShort, NextFile,
           AtFile, Typed, TypeOK, dir, Looping
    <2>2. NoFileTwice(p)'
      BY <1>0, <2>1, TailRepeats DEF NoFileTwice
    <2> QED
      BY <2>1, <2>2 DEF CopyProgress, CopiedInPlace, Whole
  <1>3. CASE StartCopy(p) \/ LoopEnds(p) \/ Exit(p)
    <2>1. at'[p] # "copy" /\ (Looping(p)' => Looping(p))
      BY <1>3 DEF StartCopy, LoopEnds, Exit, AtFile, Typed, TypeOK, Looping
    <2> QED
      BY <1>3, <2>1 DEF StartCopy, LoopEnds, Exit, dir, local, CopyProgress, CopiedInPlace,
           NoFileTwice, Whole
  <1>4. CASE OpenFiles(p)
    <2>1. PICK f \in Files : f = Current(p) /\ f \notin copied[p]
      BY <1>4, <1>a, <1>b DEF OpenFiles
    <2>2. /\ there' = there \cup {f} /\ data'[f] = {} /\ at'[p] = "copy" /\ pos'[p] = 1
          /\ cut' = cut \ {f} /\ \A g \in Files : g # f => data'[g] = data[g]
          /\ UNCHANGED <<todo, copied, torn>> /\ Looping(p) /\ Looping(p)'
      BY <1>0, <1>4, <2>1 DEF OpenFiles, Typed, TypeOK, Looping
    <2>3. CopyProgress(p)'
      BY <2>1, <2>2 DEF CopyProgress, Current
    <2>4. CopiedInPlace(p)'
      BY <1>0, <2>1, <2>2 DEF CopiedInPlace, Whole
    <2>5. torn[p] = {}
      BY <2>2 DEF NoFileTwice
    <2> QED
      BY <2>2, <2>3, <2>4, <2>5 DEF NoFileTwice
  <1>5. CASE CopyChunk(p)
    <2>1. PICK f \in Files : f = Current(p)
      BY <1>5, <1>a DEF CopyChunk
    <2>2. /\ data'[f] = data[f] \cup {pos[p]} /\ pos[p] \in 1..Chunks /\ pos'[p] = pos[p] + 1
          /\ \A g \in Files : g # f => data'[g] = data[g]
          /\ UNCHANGED <<there, cut, at, todo, copied, torn>> /\ at[p] = "copy"
      BY <1>0, <1>5, <2>1 DEF CopyChunk, Typed, TypeOK
    <2>3. 1..(pos'[p] - 1) = (1..(pos[p] - 1)) \cup {pos[p]}
      BY <2>2
    <2>4. CopyProgress(p)'
      <3>1. f \in there /\ 1..(pos[p] - 1) \subseteq data[f] /\ Current(p)' = f
        BY <2>1, <2>2 DEF CopyProgress, Current
      <3>2. 1..(pos'[p] - 1) \subseteq data'[f]
        BY <2>2, <2>3, <3>1
      <3> QED
        BY <2>2, <3>1, <3>2 DEF CopyProgress
    <2>5. CopiedInPlace(p)'
      <3>1. f \notin copied[p]
        BY <1>b, <2>1, <2>2
      <3> QED
        BY <1>0, <2>2, <3>1 DEF CopiedInPlace, Whole
    <2> QED
      BY <2>2, <2>4, <2>5 DEF NoFileTwice, Looping
  <1>6. CASE EndOfFile(p) \/ ReadFails(p) \/ FlushFails(p)
    <2>1. PICK f \in Files : f = Current(p) /\ f \notin copied[p]
      BY <1>6, <1>a, <1>b DEF EndOfFile, ReadFails, FlushFails
    <2>2. /\ UNCHANGED <<there, torn>> /\ copied'[p] = copied[p] \cup {f} /\ cut \subseteq cut'
          /\ at'[p] = "loop" /\ todo'[p] = Tail(todo[p]) /\ todo[p] # <<>> /\ Looping(p)
          /\ at[p] = "copy" /\ \A g \in Files : g # f => data'[g] = data[g]
      BY <1>0, <1>6, <2>1 DEF EndOfFile, ReadFails, FlushFails, CutShort, CopySucceeds, NextFile,
           Typed, TypeOK, Looping
    <2>3. f \in cut' \/ (f \in there /\ data'[f] = 1..Chunks)
      <3>1. CASE EndOfFile(p)
        <4>0. data' = data /\ pos[p] = Chunks + 1
          BY <3>1 DEF EndOfFile, Typed, TypeOK
        <4>1. Chunks \in Nat /\ pos[p] - 1 = Chunks
          BY <4>0
        <4>2. data[f] \subseteq 1..Chunks
          BY <1>0
        <4> QED
          BY <2>1, <2>2, <4>0, <4>1, <4>2 DEF CopyProgress
      <3>2. CASE ReadFails(p) \/ FlushFails(p)
        BY <2>1, <3>2 DEF ReadFails, FlushFails, CutShort
      <3> QED
        BY <1>6, <3>1, <3>2
    <2>4. CopiedInPlace(p)'
      BY <1>0, <2>1, <2>2, <2>3 DEF CopiedInPlace, Whole
    <2>5. NoFileTwice(p)' /\ torn[p] = {}
      BY <1>0, <2>1, <2>2, TailRepeats DEF NoFileTwice, Current
    <2> QED
      BY <2>2, <2>4, <2>5 DEF CopyProgress
  <1>7. ASSUME NEW f \in Files, ApplyPlanned(p, f) PROVE Undisturbed(p)'
    <2>1. /\ UNCHANGED <<there, data, cut, at, todo, pos, copied>> /\ at[p] = "staged"
          /\ torn'[p] = IF f \in there /\ Whole(f) THEN torn[p] ELSE torn[p] \cup {f}
      BY <1>7 DEF ApplyPlanned, Typed, TypeOK, dir
    <2>2. torn'[p] \cap copied'[p] \subseteq cut'
      BY <2>1 DEF CopiedInPlace
    <2> QED
      BY <2>1, <2>2 DEF CopyProgress, CopiedInPlace, NoFileTwice, Looping, Whole
  <1>8. CASE Crash(p)
    <2>1. at'[p] = "off" /\ UNCHANGED <<there, copied, torn>> /\ cut \subseteq cut'
      BY <1>8 DEF Crash, CutShort, Typed, TypeOK
    <2>2. \A f \in copied[p] : data'[f] = data[f]
      <3>1. CASE at[p] = "copy"
        BY <1>0, <1>8, <1>b, <3>1 DEF Crash
      <3>2. CASE at[p] # "copy"
        BY <1>8, <3>2 DEF Crash
      <3> QED
        BY <3>1, <3>2
    <2> QED
      BY <2>1, <2>2 DEF CopyProgress, CopiedInPlace, NoFileTwice, Looping, Whole
  <1> QED
    BY <1>1, <1>2, <1>3, <1>4, <1>5, <1>6, <1>7, <1>8 DEF Step, Loop, Copy, Kernel

LEMMA AloneInit == Init => AloneInv
  BY DEF Init, AloneInv, Registered, OwnCopies, Undisturbed, CopyProgress, CopiedInPlace,
       NoFileTwice, Looping

LEMMA AloneStep == Typed /\ AloneInv /\ [Next]_vars => AloneInv'
  <1> SUFFICES ASSUME Typed, AloneInv, [Next]_vars PROVE AloneInv'
    OBVIOUS
  <1>1. Registered' /\ \A p \in Procs : OwnCopies(p)'
    BY RegisteredStep, OwnCopiesStep DEF AloneInv
  <1>2. ASSUME NEW p \in Procs, Alone(p)' PROVE Undisturbed(p)'
    <2>1. CASE UNCHANGED vars
      <3>1. Undisturbed(p)
        BY <1>2, <2>1 DEF AloneInv, Alone, vars
      <3> QED
        BY <2>1, <3>1 DEF vars, dir, local, Undisturbed, CopyProgress, CopiedInPlace, NoFileTwice,
             Looping, Whole, Current
    <2>2. ASSUME NEW q \in Procs, Step(q) PROVE Undisturbed(p)'
      <3>1. q = p /\ Alone(p)
        BY <1>2, <2>2, AloneSteps DEF AloneInv
      <3> QED
        BY <2>2, <3>1, UndisturbedStep DEF AloneInv
    <2> QED
      BY <2>1, <2>2 DEF Next
  <1> QED
    BY <1>1, <1>2 DEF AloneInv

THEOREM AloneInvariant == SafetySpec => []AloneInv
  BY AloneInit, AloneStep, StagingTyped, PTL DEF SafetySpec

\* A session without rivals applies no file of its own that is incomplete,
\* unless a read or a flush of it failed: short writes are noticed, and a
\* partial file left by a crash is repaired.
THEOREM CopiedWhole == SafetySpec => []CopiedIsWhole
  <1>1. AloneInv => CopiedIsWhole
    BY DEF AloneInv, Undisturbed, CopiedIsWhole
  <1> QED
    BY <1>1, AloneInvariant, PTL

\* With the version detected, an incomplete file that is applied is the
\* session's own, and its read or flush failed.
THEOREM DetectedWhole == SafetySpec => []DetectedIsWhole
  <1>1. AloneInv => DetectedIsWhole
    BY DEF AloneInv, Undisturbed, OwnCopies, DetectedIsWhole
  <1> QED
    BY <1>1, AloneInvariant, PTL
=============================================================================
