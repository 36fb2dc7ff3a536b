# Verification of ida-oxidizer in TLA+

The plugin in `src/` recovers names, types and prototypes of Rust's standard library in an IDA
database. This directory holds TLA+ models of it, written from the C++ source, the TLC
configurations that check them on small instances, and theorems that TLAPS proves for every
instance. `PROJECT.json` lists the runs, the mutants that show each property can fail, the source
lines of every definition, the hazards and the theorems.

    tlc -workers 2 -config MCPluginLifecycle.cfg MCPluginLifecycle
    tlapm PluginLifecycleProofs.tla

## 1. The system

`src/src/core` is portable code without IDA; `src/src/ida` is the glue. An instance of the plugin is
created once and serves every database the process opens.

| Component | Source | State | Operations | Talks to |
|---|---|---|---|---|
| plugin lifecycle | `ida/oxidizer_ida.cpp` 484-571 | `flirt_planned`, `recovered`, `fallback`, `flirt_count`, `version`; a manual run suspended in `auto_wait` | `on_event` (auto_empty, auto_empty_finally, closebase), `run`, `do_recover` | kernel events; calls all below |
| FLIRT staging | `oxidizer_ida.cpp` 300-408 | files in IDA's signature directory, shared by processes and kept between sessions | `copy_file`, `apply_flirt`, `apply_all_flirt` | file system, kernel's signature queue |
| version search by FLIRT, signature files | `core/version_id.cpp` 68-180 | samples, cache, best index and count | `parse_sig_filename`, `identify_version_by_flirt` | a counting callback |
| version choice | `version_id.cpp` 12-66, 182-200; `oxidizer_ida.cpp` 82-107, 410-440 | position in strings, table, candidates | `find_version_in_strings`, `lookup_commit_version`, `pick_version_by_overlap` | string list, function names, database files |
| type database | `core/typedb.cpp` 83-345 | `types` (memo), `pending_`, `resolving_`, `struct_db_` | `load`, `parse_type`, `parse_struct`, `parse_enum`, `apply_patches`, `parse_prototype`, `fit_abi` | JSON values |
| C rendering | `core/c_render.cpp` | `name_map_`, the names used; `visited`, `on_stack`, `ordered`; `Layout` | `ensure_name`, `render_header`, `render_struct`, `render_enum`, `render_prototype` | type graph |
| recovery pass | `oxidizer_ida.cpp` 113-294, 450-482 | `by_demangled`; the kernel's names, flags, types | `rename_functions`, `apply_type_db`, `inferred_argcount` | kernel, demangler, renderer |
| idiom comments, idioms | `ida/idiom_hooks.cpp`, `core/idioms.cpp` | `g_installed`; the comments in the database | `install_idiom_hooks`, callback at `hxe_maturity`, `classify`, `comment_for` | decompiler, recovery pass |
| demangler | `core/demangle.cpp` | during a call: cursor, depth, calls, result | `demangle`, `demangle_legacy`, `V0Demangler`, `normalize` | |
| JSON reader | `core/json.cpp` | during a call: cursor, open objects and arrays | `json_parse` | |
| Python reference, tests, SDK stubs, tools | `reference_py`, `tests`, `tools` | none | | |

### What is hard here

* **Events and manual runs interleave.** `run` calls `auto_wait`, during which the kernel goes on
  delivering `auto_empty` and `auto_empty_finally` to the same object, whose flags both paths write.
* **Order.** Names must be there before they are matched: signatures are only planned by the code;
  the kernel applies them at some later time.
* **State that survives.** The object outlives each database; staged files outlive each process and
  are shared by several at once; names, types and comments of one pass are the input of the next;
  the comment hook outlives the pass that installed it.
* **Partial failure.** A copy stops half way, a process is killed, a name is taken or refused, a
  record cannot be parsed, a layout cannot be expressed in C, the decompiler is missing.
* **Recursion over cyclic data.** Types refer to each other through pointers and by forward
  declarations; what is answered for a type in progress is memoised. Symbols nest paths and types to
  any depth.
* **Boundaries.** Samples rounded down; ties; zero-sized and odd-width members; lengths in a symbol
  that run into a name, or beyond the end; names alike after sanitizing, cutting and numbering.

### What makes each part correct

| Component | Correct when |
|---|---|
| lifecycle | every database is recovered, automatically at most once, after its planned signatures were applied, with its own version |
| staging | what a session copied is whole when it is applied; concurrent copies leave whole files; a session ends whatever fails |
| version search | files are grouped and ordered by what their names say; the result is the best of what was counted, and a peak within reach is found |
| version choice | strings decide in a fixed order; pinning takes the version that shares most names, none if none does |
| type database | the recursion ends; memoised types are final; by value the graph has no cycle; types that are not recursive are exact |
| rendering | C names are distinct; types are defined once and before use; sizes and offsets are Rust's; prototypes that render alike are alike |
| recovery pass | every function showing its name gets its mark and the sole prototype of the name; one that the file lists never gets another's; no pass changes what one with the same database gave |
| idiom comments | calls of no-return functions are commented once the decompiler is there, whatever was written there before |
| demangler | a symbol is answered with what it says, and what is no symbol with itself; the recursion is bounded; normalizing leaves the plain path; every text is answered |
| JSON reader | what is written is read; what is read was written; every text is answered |

## 2. Modules

| Module | Models | Checked by | Proved in |
|---|---|---|---|
| `RecoverySession` | abstract: what is promised about one session | through `PluginLifecycle` | |
| `PluginLifecycle` | `oxidizer_ctx_t` over the kernel's queues | `lifecycle` | `PluginLifecycleProofs` |
| `FlirtStaging` | copies of several processes into one directory | `staging`, `staging_partial` | `FlirtStagingProofs` |
| `SigFiles` | names of signature files: version, level, order | `versions` | `VersionIdentificationProofs` |
| `FlirtSearch` | EXTENDS `SigFiles`: the two-phase search | `versions` | `VersionIdentificationProofs` |
| `VersionChoice` | detection, then pinning | `versions` | `VersionIdentificationProofs` |
| `VersionIdentification` | both strategies side by side | `versions` | `VersionIdentificationProofs` |
| `TypeDBLoad` | construction of the type graph | `types`, `typedb_values` | `TypeGraphProofs` |
| `HeaderOrder` | EXTENDS `TypeDBLoad`: order of the C definitions | `types` | `TypeGraphProofs` |
| `StructLayout` | layout of each C definition | `struct_layout` | `StructLayoutProofs` |
| `Prototypes` | EXTENDS `StructLayout`: C names before it, prototypes after it | `struct_layout` | `StructLayoutProofs` |
| `RecoveryPass` | several passes over one database | `recovery_pass`, `recovery_safe` | `RecoveryPassProofs` |
| `Idioms` | the table of idioms | `recovery_pass` | |
| `IdiomComments` | EXTENDS `RecoveryPass` and `Idioms`: hook, decompiler and user around the passes | `recovery_pass` | `RecoveryPassProofs` |
| `Characters`, `TextReader` | digits and texts; cursor, calls and result of a parser | `readers` | |
| `LegacySymbol`, `V0Symbol` | the two parsers of the demangler | `readers`, `v0_closures`, `legacy_wrap` | `TextReadersProofs`, `SymbolProofs` |
| `SymbolGrammar` | reference: the v0 symbols of RFC 2603 and what they say, independent of the parser | `readers` (two samples) | `SymbolProofs` |
| `Demangler`, `Normalize` | EXTEND the parsers: `demangle`, then `normalize` | `readers`, `v0_closures` | `SymbolProofs` |
| `JsonText` | `json_parse` | `readers` | `TextReadersProofs` |
| `TextReaders` | the parsers side by side | `readers`, `v0_closures`, `legacy_wrap` | `TextReadersProofs`, `SymbolProofs` |

`MC...` modules give the constants values. Modules keep the source's names for functions and
variables. Definitions marked *Mutant* are plausible bugs and belong to no specification;
`PROJECT.json` says which property finds each.

### How state and actions correspond to the code

**PluginLifecycle.** The five members of `oxidizer_ctx_t` are variables of the same name.
`AutoEmpty`, `AutoEmptyFinally` and `CloseBase` are the branches of `on_event`, each one atomic step
as the kernel's thread runs them. `run` is two steps, `RunBegin` and `RunResume`, because
`auto_wait` (line 488) lets events in between; with nothing planned it is one. `run` holds what the
suspended call has on its stack. The kernel is external: `queue` and `work` are its analysis queues,
`phase` says which event can follow: `auto_empty` is sent while the queues are empty and repeated
until a handler leaves them empty, `auto_empty_finally` once after that. `NewWork` is work that
appears for reasons of the kernel's or the user's own. `staging` is what can be staged in a session,
so `flirt_count` may be zero with a known version. Signatures applied to a database are stored with
it. `autoPlan` and `passes` are history.

**FlirtStaging.** Each process goes through `loop`, `open`, `copy`, `staged`. A file is the set of
its chunks in place, so truncation under a writer leaves a hole, not a prefix. `OpenFiles` is
`qfopen(dst, "wb")`, `CopyChunk` an iteration of line 312, and the returns of `copy_file` are
`CopySucceeds` and `CopyFails`. `Faults` names the faults that can happen: `open`, `write`, `read`,
`flush`, `plan`, `crash`. `ReadFails` and `FlushFails` end in `CopySucceeds`, as in the code, and
are remembered in `cut`, as is a copy that stopped. The kernel reading a planned file is
`ApplyPlanned`, which records in `torn` that it was incomplete. `sessions` is the history of who
started one.

**SigFiles, FlirtSearch.** A path is a sequence of characters in which `-O` and `.sig` are one each.
`Probed` is the choice of the level, `Sorted` every order `std::sort` may give to files of one
version. `ProbeSample` and `SearchFine` are one iteration of each loop; `best_idx` and `best_count`
stand for both pairs of variables of the code, as the fine search starts from the values of the
probe. Counts are a function of the file.

**VersionChoice.** A string is what each of the three patterns finds in it. One step is one string,
or one line of the table. Pinning is a later call in other circumstances, so recovered names and
function lists are chosen freely when it starts. `VersionIdentification` runs either strategy.

**TypeDBLoad.** The recursion is an explicit stack: `Push` is a call that inserts a name in
`pending_` (and `resolving_`, for the frame of a forward declaration), `Pop` its return, `Give` what
the caller does with the answer, `Answer` the early returns at lines 156-165. `rank` numbers the
types in the order of their completion. Structs and enums have the same control; an enum's members
are those of its variants. Of the name of a field, or of its variant, a `label` says what
`apply_patches` asks for: `FinishRecord` memoises what `to_slice` and `unwrap_argument` make of the
fields. A slice is a type whose one field is held as a slice; a format argument gets the fields its
enum's Placeholder has in the memo at that moment.

**HeaderOrder.** `calls` is the stack of `visit` with the dependencies left. Whether an enum renders
its members or a tag and a blob is an input; slices are those the loader made.

**StructLayout.** One definition at a time, one member at a time. `Layout`'s fields are `cur`,
`decls`, `failed`; `decls` keeps for each C declaration where C puts it, which under `#pragma
pack(1)` is the end of the one before. A member of an earlier type takes the size *C* has for it
(`CSize`), while the padding is computed from Rust's (`Size`); that both agree is the property.

**Prototypes.** `render_header` names every type before the first definition: `ensure_name` is one
type, in any order, over names whose characters are words or separators. `WriteHeader` is a step of
`StructLayout`. `RenderPrototype` takes the next prototype of one function name that
`parse_prototype` accepts through `fit_abi` and `render_prototype` and keeps its declaration if it
is new, as lines 255-268 of the glue do; `rendered` is how far it has come in the prototypes as the
file has them. An argument is a base behind pointers and arrays; the declaration is a sequence of
tokens, so that "renders alike" is equality.

**RecoveryPass.** `form` is how a function's name shows: dummy, mangled, demangled, or demangled
with a suffix, as `SN_FORCE` gives where the name is taken. `rename_function` and `apply_prototype`
are one iteration of each loop. Each pass has a version of its own, read from the program or pinned
anew, so `run_recovery` takes any of `Databases`, or `NoDatabase` (no version, or no file for it).
What that file holds for an instance is `absent`, `kept` or `dropped` (`parse_prototype` answered
false). `is` and `truth` say what each function really is; nothing says that the file lists it: a
program has instances of its own, which get the sole prototype of their name all the same (line
271). `set_name`, `parse_decl` and `apply_tinfo` may refuse. Manual and automatic passes follow each
other; between them FLIRT names functions, and users give them types (`UserTypes`). `given` and
`refused` are history: the database a type is from, and the functions that IDA refused one.

**IdiomComments.** `install_idiom_hooks` belongs to the end of a pass (`EndOfPass`) and succeeds if
Hex-Rays is there, which a user may load later (`LoadHexRays`). The callback runs when a function is
decompiled: by a user (`Decompile`) or by `inferred_argcount` within a pass (`Prototype`).
`UserComments` is the user's edit of the same comment. `StartAgain` is a new process: the hook is
gone, database and comments stay. `Idioms` takes the table as a constant.

**V0Symbol.** A call in progress is the sequence of items it has still to treat: functions, `eat`s
and literals of the result; calling `path` or `type` pushes one, with the depth that `DepthGuard`
counts. A stretch the code parses into a discarded string ends with the item `unmute`. Exceptions
are `Throw`. `hex_const` reads base 16 and writes decimal (`Hexadecimal`, `Spelling` of
`Characters`); a value beyond `LongLongMax`, for which `std::stoll` throws, is one.

**LegacySymbol, Demangler, Normalize.** A step of `LegacySymbol` is one component; cursor arithmetic
is that of `size_t` (`WordSize`), the length that of `std::stoul`. `demangle_raw` picks the parser,
`demangle` drops the hash or gives the symbol back. Of `normalize` one step is one iteration of its
loop, with the three regular expressions as sets of matches, the first of which is replaced; the
call in progress holds the side of `<X as Y>` it keeps.

**JsonText.** `calls` are the objects and arrays that are open. Strings and numbers are read in one
step, by recursive functions of the place they begin at.

## 3. Runs

| Run | Question | Bounds | Distinct states |
|---|---|---|---|
| `lifecycle` | automatic pass first and once; planned signatures applied; own version; fallback pins; implements `RecoverySession`; every database recovered | 4 kinds of binaries (names its version; stripped; with symbols; version not in the database), 2 versions, 2 manual runs and 1 edit per session, any number of sessions | 19 824 |
| `staging` | what a lone session copied, or applied with a known version, is whole; what nobody writes is whole unless cut; every session ends | 2 processes (of which one may stay away), 3 files (one not shipped), 2 chunks, 2 sessions, all six faults | 315 440 |
| `versions` | order of precedence; nullopt exactly if disjoint; shares most; best of the counted; peak in reach found; the answer is a file of the level | 2 strings, 2 table lines, 2 hashes, 2 releases, 3 candidates, 2 names listed up to twice; 1-6 versions, 3 samples, counts 0-5, odd file names and levels | 788 388 |
| `types` | recursion, memo, exactness, order of definitions | every file of three records with up to two references; every file of two records with unparsable members, duplicates, forward declarations; format arguments, their enums and slices, or what nearly is one, in three orders | 769 870 |
| `struct_layout` | sizes, offsets, opaqueness; distinct names; merged prototypes alike | a first type of 7 shapes in every second type of size 0-4 with up to 2 fields at 0-4, or with 2 variants of up to 2 payload fields; 3 of 9 similar names cut at 4 characters, in every order; pairs and triples of prototypes of up to 2 arguments, words of 2 bytes | 1 039 726 |
| `recovery_pass` | typed, marked, true, stable; commented | 2 functions, 2 names, 3 prototypes (two of one arity, one not parsable), 3 databases that list two or three of them or have dropped one, 2 passes, each with any of them or none; 2 idioms, one call (where there are comments, one database with two prototypes, and no types by users: `FewTypesWithComments`) | 6 606 016 |
| `readers` | symbols read back; normalized; nesting bounded; written is read, read is written; every text answered | v0 paths of two layers of the grammar, and all of them inside a third, depth guard 3; those of one layer cut at every place and damaged at every place in 5 ways; legacy paths of up to 3 of 12 elements, hashes of 2 digits; five lengths that wrap, `size_t` below 1000, `long long` up to 9999; JSON values to depth 2, all texts of 4 JSON characters | 171 464 |

Why these are enough: in the lifecycle a second database suffices to see state of a first one, and
two manual runs to see one during and one after an automatic path. A file of two chunks can be
empty, cut, whole, or have a hole; a second session sees what a first one left, or runs beside it.
Six versions with three samples give a step of 2 with and without a remainder, and both cut ends.
Cycles of length one, two and three, with a value and a pointer edge each, fit into three records.
The layout looks at two neighbours and at the end of the type only, and an odd width is one of 3.
Three names show one that is alike after sanitizing, one after cutting, and one that takes the
number put behind another; 4 characters are enough to cut. Two functions show ambiguity, name
clash, mixed instances and a caller; two passes show what a pass does with the result of another,
of the same version or another. In two layers of v0 paths and types, each production that holds
others holds those of the layer below; impl paths, binders, ABI names and bindings of traits hold
small terms only. Paths are nested as deep as the guard of the run allows, and inside a third layer
by one too many. The theorems of section 5 need none of these bounds.

Type invariants are theorems (`TypeCorrect`, `StagingTyped`, `LoadTyped`, `HeaderInvariant`,
`PassTyped`, `LayoutTyped`), so the runs spend their time on other properties.

Deadlock is checked for the lifecycle, which never stops, and switched off for the others:
algorithms return, sessions and passes are bounded, and staging stops with its last session.

### Runs that find a violation

| Run | What the source says | What the code does |
|---|---|---|
| `staging_partial` | `oxidizer_ida.cpp`:402 "stage once, then reuse" | a copy cut short leaves its file, which every later fallback plans as staged |
| `typedb_values` | `c_render.cpp`:203: members left out are Rust's zero-sized types | a member held by value loses its type for good when parsed through a pointer inside that type |
| `recovery_safe` | `oxidizer_ida.cpp`:247 "provably safe" | with an instance dropped by the parser, the others look like all and are applied to it |
| `v0_closures` | `demangle.cpp`:157 and README.md:15: the v0 grammar of RFC 2603, in which a closure in a closure ends in `00` | line 233 reads all digits as one length, finds the second name missing, and the symbol stays mangled |
| `legacy_wrap` | `demangle.h`:13: a malformed symbol comes back unchanged | with a length near the end of `size_t`, line 143 computes an earlier place than the cursor's; the loop starts again from there and never ends |

For each of them a positive property says what does hold: `CopiedIsWhole` and `DetectedIsWhole`,
`PlainTypesExact` (types without recursion), `AppliedIsTrue` (nothing dropped), `SymbolsReadBack` (a
disambiguator or a name between two lengths), `EveryTextAnswered` (`WrapsBack` is its only
exception).

Three more divergences have no run. `FallbackPinned` leaves one aside: README.md:16 promises that an
unknown version is pinned by name overlap, but with no signature file to plan, line 549 recovers at
once without one, and line 553 pins too late. And RFC 2603 has constants that `constant` does not
read: 64-bit values whose highest bit is set, for which `std::stoll` throws (line 328), and
placeholders, written `p` without a type. Such symbols come back as they are; they are among the
texts of `readers`, and what they say is not asked for.

## 4. Fairness

*Lifecycle.* Weak fairness of the kernel's work, of each of its two events, and of the return of
`auto_wait`: the kernel runs its queues until they are empty and then sends the events; the code
relies on that by hooking them. Nothing is assumed of users: opening, closing, editing and manual
runs may never happen. `EveryDatabaseRecovered` and the liveness part of `ImplementsSession` rest on
it.

*Staging.* Weak fairness of the steps of each process (loop, copy, kernel): a process that runs goes
on. No fairness of faults and crashes, nor of starting a session.

*Readers.* Weak fairness of the next step: a parser that is called goes on. It says that the thread
runs, nothing about the text; `EveryTextAnswered` is then that loops, cursor and recursion end.

The other specifications have no fairness and promise safety only.

## 5. Proofs

TLAPS checks every proof from the assumptions named in the modules (`ConstantsAssumption`,
`StagingAssumption`, ...), which TLC evaluates on the instances.

**PluginLifecycleProofs.** `SessionInv` strengthens the properties by what connects flags to
history: `FlagsOfThisDatabase` (a version in the instance comes from the open database),
`PlansPendingOrApplied` (what was planned is in the queue or applied: with empty queues it is
applied), `RecoveredBlocks` (once a pass is made, or while a run waits, the flag is set),
`RunOfThisDatabase` (a suspended run holds its own database's version, and no database closes under
it) and `PassesGood`. From it `AutomaticFirst`, `PlannedApplied`, `OwnVersion`, `Pinned`.
`SessionRefined` shows that every step is a step of `RecoverySession` or a stutter.

**FlirtStagingProofs.** All for any number of processes and any set of faults.
`StagedWholeWhenQuiet`: every chunk of a staged file that was not cut is in place, or some process
copying the file has yet to write it; a truncation makes the truncating process that writer.
`CopiedWhole`: while a process is alone, the chunks before its position are in place
(`CopyProgress`), files copied are whole and not in the rest of the loop (`CopiedInPlace`,
`NoFileTwice`); so partial files of earlier sessions do not matter. `DetectedWhole`: a session with
a version plans only what it copied.

**Induction.** The library's induction theorems take a predicate as a parameter, which no installed
prover can instantiate. The lemmas at the beginning of four of the modules say the same of sets: a
set of numbers that is not empty has a least one (`LeastNumber`); a set of numbers that holds `n`
and with each number the next one holds all from `n` on (`SetInduction`); a sequence can be built
step by step from a function that gives the next element (`Iterates`), without end too (`Orbits`).
With them a recursive function, which is a `CHOOSE`, is shown to exist and to satisfy its equation,
and what it computes is proved like any other invariant.

**VersionIdentificationProofs.** `SearchReturnsBest`: bounds, and best of the counted, for any
`ProbeLimit`, number of versions and counts. `PeakIsFound`: if the counts rise to one version and
fall from it, and it is within one step of a sample, the best sample is next to it and the fine
search, one step to both sides, comes across it; `SearchInv` (`BestSoFar`, `Searched`) says how far
each loop has come. `ListedIsAnswered` adds to it that the list of versions holds files of the level
asked for, in order (`Listed`). Of `VersionChoice`, `ChoiceInv` says that the strings and lines
passed over held nothing (`PassedOver`, `Decided`: hence `StringsDecideInOrder`), and that the
overlap remembered is the largest so far, zero exactly if nothing is (`BestOverlap`: hence
`NulloptOnlyIfDisjoint` and `PickSharesMost`). The count of shared names is a fold over a set; that
it is the number of names listed in both, if each is listed once, is `SumCounts`.

**TypeGraphProofs.** `LoadInv`: the stack's names are `pending_`; ranks are counted in order; fields
already done are finished types or Bottom, a result on its way is finished too. `PatchesFinished`:
what a patched type holds was held by the struct or by a finished enum, and was finished before it.
Hence `RecursionGuarded`, `ValuesBeforeHolders` (a type held by value has a smaller rank: no cycle
by value, for any file), `NeverReplaced`. `PlainExact`: a type without recursion is what the file
says, to any depth, however the loader came to it. The reference is a set of names that is closed
under what their records ask for, so the proof follows `PlainInv`: a name being resolved was asked
for by a record still open (`OpenAsked`, `OpenReached`), so it is none of those a plain type
reaches; a result and a memoised type of a plain name are exact (`ResultRight`, `PlainMemo`), and a
name that was tried is known (`KnownTried`). It needs the file to be finite. `HeaderLoads`: the
renderer's steps leave the loader's variables alone, so the theorems above hold there. `HeaderInv`:
ranks decrease along the visits, what was a dependency of a visit is visited or still to do, what is
ordered is complete. Hence `NoCycle` (the branch "cycle: break it" is dead) and `HeaderOrdered`.

**StructLayoutProofs.** `LayoutInv`: the declarations end at `cur` (`Underway`), every sized member
passed is in place, `cur` is beyond no later member of a regular struct, and a layout of such a
struct does not fail (`StructUnderway`). The size of an embedded type in C comes from `SizesExact`
for the earlier definitions, so the proof is an induction along the list. Hence `ExactSizes`,
`MembersPlaced`, `OnlyIrregularOpaque`. `RendererLaysOut`: names and prototypes leave the layout
alone, so these hold of the whole renderer (`RendererSizesExact`). `NamesDistinct`: names stay
distinct, for any number of types and any limit, because a name is compared with those given, not
with what they were made from. `MergedAlike`: what is merged is alike. A declaration is read in one
way only: the marks between the tokens of its arguments are in no token, so the first parameter ends
at the first mark of both readings, and so on (`NotShorter`, `ReadSame`, `ReadOnce`); declarations
that are alike have the same tokens in the same places (`DeclSame`). A token that begins like a C
name is that of one type, since the names differ, and one star at most follows it (`NamedShape`);
any other token shows no aggregate (`OtherShape`). Over them, `MergeInv` says that what is distinct
lists once each the declarations read so far, and that names are given before the first of them, so
that no declaration changes afterwards. The file's references are within the list of types, as
`PrototypesAssumption` says; what `sanitize` leaves begins with the prefix `OXI_` (`Sanitized`),
which no other token does.

**RecoveryPassProofs.** `PassInv` relates what is grouped to the names at the beginning of the pass,
and each applied type to the database it is from and the way it was chosen there. Hence `AllTyped`
(unless IDA refuses), `AllMarked`, and unique names in `PassTyped`. `AppliedTrue` is about functions
that the file lists, with none of the name dropped and the arguments counted right, for any
databases in any order: nothing can be said of a function that is in no file. `TypesFinal`: a pass
never changes what one with the same database gave; what another database or a user gave, it changes
to the sole prototype of the name, or to one with as many arguments. `CommentsArePasses`: hook,
decompiler and user leave the variables of the passes alone, so these hold with them.
`CallsCommented` rests on an invariant that the hook is installed once armed, and that a function
decompiled since carries the comment of what it calls.

**TextReadersProofs.** `NestingIsBounded`: the calls in progress are those counted, for every symbol
and limit; each production pushes or returns one, a rejection leaves the parser. `WritingIsRead`:
`json_parse` reads back every JSON value, at any depth, in any layout and with any escapes. What
JSON is, is said without the parser and without recursion (`IsWriting`): the values in a text are a
set of nodes, each a text with what it says, and every container lists its members with the places
where they, their names and the separators stand (`ContainerWriting`, `KeyWriting`, `ValueWriting`);
a string is cut into pieces, each with what it stands for (`Piece`). The value of a number is what
the module's `Number` makes of its characters, so of numbers it is shown that all their characters,
and no other, are read. The theorem asks of the instance that each of its `Writings` is such a text.
The invariant (`Goes`) says that the calls in progress are a path in that tree: each call has the
members before its own in its content, its own name if it has one, and the cursor stands where the
node says (`AtValue`, `AtKey`, `BehindValue`). Each production of `JsonStep` keeps it, because what
may follow a value is none of the characters that one begins with or goes on with (`FirstsApart`).
`parse_string` reads the pieces one by one, from the last to the first (`StringReads`), as it is a
function of what follows.

**SymbolProofs.** `MeaningIsRead`: `demangle` answers every symbol that has a meaning with that
meaning; `SymbolIsRead` is its instance `SymbolsReadBack`, for every set of symbols that have one.
What a symbol means is said without the parser. `SymbolGrammar` states the grammar of RFC 2603,
which `demangle.cpp`:157 names, rule by rule: a parse is a set of stretches of the text
(`Grammatical`), each written as its rule says (`PathIs`, `TypeIs`, `TupleType`, ...), with what it
says and how many paths and types it nests; constants are read in base 16 and said in decimal. It
uses none of the parser's tables; only the wording is the demangler's (`'_` for any lifetime, `{C}`
for a closure, no binders and ABI). `MCTextReaders` has TLC check that two symbols, which between
them use most rules, are grammatical (`SymbolsAreGrammatical`), so the grammar is not empty.
`IsMeaning` has three cases:

* v0 symbols, with any thunk prefixes (`Thunk`, which `StripStep` removes one by one) and any
  suffix; where they are nested deeper than `MaxDepth`, the answer is the symbol itself;
* legacy symbols of at most `MaxParts` components, with a hash or without; where a component is
  malformed (`LegacyBreak`), the answer is the symbol itself;
* names that are no symbol, and `_R` before a digit: themselves.

The proof has two halves. The first is about the parser: it sees a symbol as a tree of its own items
(`ParseTree`: `PathWriting`, `NamespaceWriting`, `ItemWriting`, ...). The invariant (`Saying`, for
v0 symbols `On`) says that the calls in progress are what is still `Ahead` in the tree, that what is
said so far and what is ahead make up the path, and that `depth` is what the nodes entered count.
One lemma per production (`PathGoes`, `TypeGoes`, `NamespaceGoes`, `LiteralGoes`, ...) shows that it
takes the text of its own node and no more; `ComponentGoes` and `LegacyStops` do the same for
`LegacyStep`. The second half, from `Tree` to `TreeParses`, is about the grammar: from any parse by
RFC 2603 a tree of the parser's items is made, rule by rule (`InstanceRow`, `TupleTypeRow`,
`FunctionRow`, `DynRow`, ...), which says the same and nests as deep. A rule's items form a `Row`;
lists, which the parser reads with one item that comes again and again, are made of their tails
(`MoreRow`, `ParamsRow`, `BoundsRow`).

What has no meaning here, so that nothing is proved of it: back references, which the code prints as
`_`; placeholders; names in punycode; an empty name before a digit; constants beyond `LongLongMax`;
malformed v0 symbols; lengths at which `size_t` wraps. For legacy symbols, `WithoutHash`, `Joined`,
`decode_legacy_ident` and `Decimal` are the model's own in what a symbol says: that part is about
which characters they are applied to, not about what they make of them.

Only model-checked: liveness (`EveryDatabaseRecovered`, `StagingEnds`, `EveryTextAnswered`, the fair
part of `ImplementsSession`), which is out of the prover's reach; `SymbolsReadBack` as the run has
it: its `Meanings` also hold back references, said `_` as the code does, and malformed v0 symbols,
so the hypothesis of `SymbolIsRead` is not met by that set as a whole (of its symbols that have a
meaning `MeaningIsRead` speaks one by one, but that they have one is nothing TLAPS shows: recursive
functions write them); and `NormalizedIsPlain` and `ReadIsWritten`, which compare a reader with such
functions. The properties of the runs that end in a violation are theorems of nothing.

## 6. Not modelled

Abstracted within the modules:

* *Demangler.* `decode_punycode`: a name is marked, or rejected, either way. Numbers in base 62, of
  which only the end matters, and their overflow. A back reference is passed over and said `_`, as
  in the code, whatever it refers to. Of what `std::stoul` and `std::stoll` accept, a sign, blanks
  and `0x` before the digits are left aside. A code point that `$u..$` names is a number (`U+n`). A
  constant's type that is a path spelt `bool`. `WordSize` is 1000 and `LongLongMax` 9999 in the
  runs, so that short symbols reach both.
* *normalize.* `NormalizedIsPlain` leaves aside function types in parameters, where the code takes
  the `>` of `->` for a bracket and leaves the rest of the parameter in the path, and paths of which
  a side would be empty.
* *JSON.* The four digits of `\u` are one token; of the blanks three stand for four, of the exponent
  signs `e` for both; the bytes of a character are one character; a double is its text. `-` alone
  and `01` are numbers, in the code as in the model. The parser has no depth guard (line 43): a file
  nested as deep as the stack is not one of the plugin's own.
* *Type database.* Arrays have the control of their element. References of prototypes are answered
  from the memo or fail as before: by then every record has been tried. Whether a name of two
  records is a struct or an enum does not change. A Placeholder's fields keep offset 0 (line 238),
  so a format argument with two sized ones is an irregular struct and rendered opaque: one of the
  shapes of `StructLayout`.
* *C rendering.* Names of members, which may be alike after sanitizing; the comments that list
  variants; the text of the two predeclared structs. An integer argument of odd width becomes an
  `unsigned __int8` (line 84 speaks of the same size), a result of unknown type `void`:
  `MergedAreAlike` compares aggregates and the number of arguments for that reason.
* *Recovery pass.* Suffixed names of a first pass are not matched by a later one (line 138). Names a
  user gives between two passes. Which version a pass gets (it is chosen freely: `VersionChoice`
  models the choice). What the demangler and the renderer answer is given by the instance: their
  modules are checked for themselves.
* *Lifecycle.* Exceptions from the kernel: `recovered` is set before the pipeline runs, so a pass
  that ends in one is not repeated.
* Integer overflow of sizes: 64-bit sums of small numbers in a file of the plugin's own.

Left out: the Python reference (a second implementation the tests compare with), tests, SDK stubs,
command-line tools and build files, which keep no state of the system.

## 7. Plan

Written so far, in this order: lifecycle, staging, type graph and header, recovery pass, layout,
versions; then demangler and JSON reader, signature files, idioms and their comments, C names and
prototypes, normalization, patches. What is left:

1. `RecoveryPass` over `Prototypes`: rendered declarations in place of given prototypes, so that
   `distinct` is compared as in the glue.
2. `Prototypes` over `TypeDBLoad`: sizes and kinds from the loaded graph, with patched types among
   the arguments.
3. Names of members: what `parse_decls` refuses, and what becomes of the header then.
4. Proofs: that a malformed v0 symbol comes back as it is, and that what `json_parse` accepts is a
   writing; a refinement of `RecoveryPass` to "each function gets its own prototype once".

Modules to be proved about keep to recursive functions and folds.
