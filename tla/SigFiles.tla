------------------------------ MODULE SigFiles ------------------------------
(***************************************************************************)
(* Signature files by version and opt level: basename_of,                  *)
(* parse_sig_filename and the first part of identify_version_by_flirt      *)
(* (src/src/core/version_id.cpp).  In a path "-O" and ".sig" are one       *)
(* character each.                                                         *)
(***************************************************************************)
EXTENDS Characters, FiniteSets

basename_of(path) ==
  LET Slash == {k \in 1..Len(path) : path[k] \in {"/", "\\"}}
  IN  IF Slash = {} THEN path ELSE From(path, 1 + CHOOSE k \in Slash : \A l \in Slash : l <= k)

\* std::stoi: the digits it begins with, and where there are none it throws.
stoi(part) ==
  LET Leading == {k \in 0..Len(part) : \A l \in 1..k : part[l] \in DigitSet}
  IN  Decimal(SubSeq(part, 1, CHOOSE k \in Leading : \A l \in Leading : l <= k))

\* The numbers between the dots; what is no number counts as 0.
Numbers(v) ==
  LET numbers[i \in 1..(Len(v) + 1)] ==
        IF i > Len(v) THEN <<>>
        ELSE IF v[i] = "." THEN numbers[i + 1]
        ELSE LET e == CHOOSE e \in i..(Len(v) + 1) :
                        /\ \A k \in i..(e - 1) : v[k] # "."
                        /\ e <= Len(v) => v[e] = "."
             IN  <<stoi(SubSeq(v, i, e - 1))>> \o numbers[e]
  IN  numbers[1]

\* "1.87.0-O3.sig"; a name without "-O" has no opt level.
parse_sig_filename(filename) ==
  LET base == basename_of(filename)
      name == IF base # <<>> /\ base[Len(base)] = ".sig" THEN SubSeq(base, 1, Len(base) - 1) ELSE base
      Opt == {k \in 1..Len(name) : name[k] = "-O"}
      pos == CHOOSE k \in Opt : \A l \in Opt : l <= k
  IN  IF Opt = {} THEN [version |-> Numbers(name), opt_level |-> <<>>]
      ELSE [version |-> Numbers(SubSeq(name, 1, pos - 1)), opt_level |-> From(name, pos + 1)]

\* The order of std::vector<int>.
Newer(a, b) ==
  \E k \in 1..Len(a) :
    /\ k <= Len(b) + 1 /\ \A l \in 1..(k - 1) : a[l] = b[l]
    /\ k <= Len(b) => a[k] > b[k]

\* sigs_by_opt: without doubles, whatever directory a file is in.
OptLevels == {<<"0">>, <<"1">>, <<"2">>, <<"3">>}
WithOpt(files, opt) == {f \in {basename_of(g) : g \in files} : parse_sig_filename(f).opt_level = opt}

\* Mutant: the level asked for, or none.
OnlyProbed(files, probe_opt) == IF probe_opt \in OptLevels THEN WithOpt(files, probe_opt) ELSE {}

\* The files of the level asked for, or else of the lowest that has any.
Probed(files, probe_opt) ==
  LET Present == {o \in OptLevels : WithOpt(files, o) # {}}
      lowest == CHOOSE o \in Present : \A p \in Present : Decimal(o) <= Decimal(p)
  IN  IF Present = {} THEN {}
      ELSE WithOpt(files, IF probe_opt \in Present THEN probe_opt ELSE lowest)

\* std::sort, newest first: files of one version come in any order.
Sorted(files) ==
  LET version == [f \in files |-> parse_sig_filename(f).version]
  IN  {s \in [1..Cardinality(files) -> files] :
         /\ files \subseteq {s[k] : k \in DOMAIN s}
         /\ \A j, k \in DOMAIN s : j < k => ~Newer(version[s[k]], version[s[j]])}
=============================================================================
