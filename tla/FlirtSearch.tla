---------------------------- MODULE FlirtSearch ----------------------------
(***************************************************************************)
(* identify_version_by_flirt (src/src/core/version_id.cpp): the signature  *)
(* files of one opt level, newest first, then a coarse probe of some of    *)
(* them and a fine search around the best.  The files are the indices of   *)
(* ps, counted from 0; what count_fn answers for each does not change      *)
(* while the search runs.                                                  *)
(***************************************************************************)
EXTENDS SigFiles

CONSTANTS
  Searches,     \* what it is called with: [files, opt]
  ProbeLimit,   \* the most versions the coarse phase probes: 10 in the code
  MaxMatches    \* bound on a match count

ASSUME SearchAssumption ==
  /\ \A s \in Searches : IsFiniteSet(s.files) /\ s.files \subseteq Seq(STRING)
  /\ ProbeLimit \in Nat \ {0} /\ MaxMatches \in Nat

VARIABLES
  sig_files,   \* the files
  probe_opt,
  search,      \* "listed" | "coarse" | "fine" | "done"
  n,           \* ps.size()
  ps,          \* the files probed, counted from 1
  matches,     \* matches[j]: what count_fn answers for index j
  index,       \* the index the loop is at
  taken,       \* sample_indices.size() so far
  right,       \* the last index of the fine search
  best_idx,    \* best_probe_idx, then best_idx
  best_count,  \* best_probe_score, then best_count
  cache,       \* the indices count_fn has been called for
  identified   \* the version returned, in a sequence of at most one

probed == <<sig_files, probe_opt, n, ps, matches>>
searchVars == <<probed, search, index, taken, right, best_idx, best_count, cache, identified>>

n_samples == IF n < ProbeLimit THEN n ELSE ProbeLimit

\* n / n_samples, and at least 1.
step == IF n \div n_samples > 1 THEN n \div n_samples ELSE 1

SearchTypeOK ==
  /\ IsFiniteSet(sig_files)
  /\ search \in {"listed", "coarse", "fine", "done"}
  /\ n \in Nat /\ (search \in {"coarse", "fine"} => n # 0)
  /\ index \in Nat /\ best_count \in -1..MaxMatches
  /\ n # 0 => /\ matches \in [0..(n - 1) -> 0..MaxMatches] /\ taken \in 0..n_samples
              /\ right \in 0..(n - 1) /\ best_idx \in 0..(n - 1)
  /\ cache \in SUBSET (0..(n - 1))

SearchStart(files, opt) ==
  /\ sig_files = files /\ probe_opt = opt
  /\ search = "listed" /\ n = 0 /\ ps = <<>> /\ matches = <<>>
  /\ index = 0 /\ taken = 0 /\ right = 0
  /\ best_idx = 0 /\ best_count = -1 /\ cache = {} /\ identified = <<>>

SearchInit == \E s \in Searches : SearchStart(s.files, s.opt)

\* Without a file of one of the levels there is no answer.
GroupFiles ==
  LET files == Probed(sig_files, probe_opt)
  IN  /\ search = "listed"
      /\ n' = Cardinality(files) /\ ps' \in Sorted(files)
      /\ matches' \in [0..(n' - 1) -> 0..MaxMatches]
      /\ search' = IF files = {} THEN "done" ELSE "coarse"
      /\ UNCHANGED <<sig_files, probe_opt, index, taken, right, best_idx, best_count, cache, identified>>

\* Mutant: the score is raised and the index is forgotten.
TakeScore(j) ==
  IF matches[j] > best_count THEN best_idx' = best_idx /\ best_count' = matches[j]
  ELSE UNCHANGED <<best_idx, best_count>>

\* Keep the better of the best so far and index j; the first of equals stays.
Take(j) ==
  IF matches[j] > best_count THEN best_idx' = j /\ best_count' = matches[j]
  ELSE UNCHANGED <<best_idx, best_count>>

\* Both loops count through the cache.
Count(j) == cache' = cache \cup {j} /\ Take(j)

SamplesLeft == index < n /\ taken < n_samples

ProbeSample ==
  /\ search = "coarse" /\ SamplesLeft
  /\ Count(index)
  /\ index' = index + step /\ taken' = taken + 1
  /\ UNCHANGED <<probed, search, right, identified>>

LeftOf(b) == IF b >= step THEN b - step ELSE 0

\* Mutant: the fine search stops at the best probe.
NothingRightOf(b) == b
RightOf(b) == IF b + step < n - 1 THEN b + step ELSE n - 1

StartFine ==
  /\ search = "coarse" /\ ~SamplesLeft
  /\ search' = "fine" /\ index' = LeftOf(best_idx) /\ right' = RightOf(best_idx)
  /\ UNCHANGED <<probed, taken, best_idx, best_count, cache, identified>>

SearchFine ==
  /\ search = "fine" /\ index <= right
  /\ Count(index)
  /\ index' = index + 1
  /\ UNCHANGED <<probed, search, taken, right, identified>>

Return ==
  /\ search = "fine" /\ index > right
  /\ search' = "done"
  /\ identified' = <<parse_sig_filename(ps[best_idx + 1]).version>>
  /\ UNCHANGED <<probed, index, taken, right, best_idx, best_count, cache>>

SearchNext == GroupFiles \/ ProbeSample \/ StartFine \/ SearchFine \/ Return

-----------------------------------------------------------------------------
(* Properties.                                                             *)

\* The index and the count returned belong together, and no version that was
\* counted matched more.
BestOfCounted ==
  search = "done" /\ n # 0 =>
    /\ best_idx \in cache /\ best_count = matches[best_idx]
    /\ \A j \in cache : matches[j] <= best_count

\* Counts that rise to one version and fall from it, as the counts of the
\* neighbours of a binary's own version do.
PeakAt(k) ==
  \A a, b \in 0..(n - 1) :
    /\ a < b /\ b <= k => matches[a] < matches[b]
    /\ k <= a /\ a < b => matches[a] > matches[b]

\* How far the samples and the fine search around the last of them reach.
Reach == (n_samples - 1) * step + step

\* A peak within reach is found although most versions are never counted.
PeakInReachFound ==
  search = "done" => \A k \in 0..(n - 1) : PeakAt(k) /\ k <= Reach => best_idx = k

\* The answer is the version of a file that is listed, of the level asked for
\* where there is one and of no higher level than necessary where there is
\* none; where no count speaks for another version it is the newest.  There is
\* an answer unless no file names one of the levels.
AnswerIsListed ==
  search = "done" =>
    LET Of(opt) == {parse_sig_filename(f).version :
                      f \in {g \in sig_files : parse_sig_filename(g).opt_level = opt}}
        levels == <<probe_opt, <<"0">>, <<"1">>, <<"2">>, <<"3">>>>
        known == {k \in 1..5 : levels[k] \in OptLevels /\ Of(levels[k]) # {}}
    IN  IF known = {} THEN identified = <<>>
        ELSE \E k \in known :
               /\ \A l \in known : k <= l
               /\ identified # <<>> /\ identified[1] \in Of(levels[k])
               /\ (\A j \in DOMAIN matches : matches[j] = matches[0]) =>
                    \A v \in Of(levels[k]) : ~Newer(v, identified[1])
=============================================================================
