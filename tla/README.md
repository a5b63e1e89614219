# A TLA+ verification of effect-audit

effect-audit keeps the *functional core* of a cargo workspace pure: it finds the
crates that declare `role = "kernel"` or `role = "domain"`, looks at their
manifests and at the syntax of their sources, and fails the build when an effect
(I/O, a clock, randomness, async, ...) leaks in. The modules here are models of
that program, translated from `src/src/*.rs`; TLC checks them on small instances
and TLAPS proves the most important results for every instance.

The program is one sequential process. What makes it hard to get right is not
threads but **false greens** (a crate, a file or a construct that is silently not
looked at while "functional core holds" is printed), **false reds** (test code
taken for production), the mutual recursion that decides which is which, and a
baseline file that several runs read and write with no lock.

## 1. Inventory

| component | state it keeps | operations | hard behaviour | what makes it correct |
|---|---|---|---|---|
| discovery (`discovery.rs`) | none; yields the core crates in name order | `core_crates`, `role_of`, `to_core_crate`, `read_pure_deps` | cargo metadata fails; a malformed key is read as absent | exactly the core crates, with the dependencies that count |
| audit driver (`audit.rs`) | `AuditOutcome`: findings and skipped files | `audit`, `manifest_findings`, `classify`, `source_findings`, `scan_one_file` | files in no promised order; a walk, a read or a parse fails anywhere | nothing is lost; one failure abandons everything; the kernel layer is closed |
| command line driver (`main.rs`, `lib.rs`) | arguments, ratchet, exit code, what was printed | `main`, `run`, `handle_no_core_crates`, `required_role_missing`, `update_baseline`, `emit`, `warn_skipped`, `warn_inert_vouching`, `exit_code` | the flags cross each other at every end of `run` | the clean verdict is earned; exit codes mean what they say; no skip is silent; JSON stands alone on stdout |
| argument parser (`main.rs`) | the options so far, the index | `parse_args`, `parse_format` | which words are values; which of several mistakes counts; missing values | the line is read for what it means as a whole |
| baseline ratchet (`baseline.rs`, `finding.rs`) | the baseline file, shared by all runs | `load`, `apply`, `render`, `write`, `signature` | torn and interrupted writes, two writers, edits in the middle of a run | new debt is blocked, frozen debt passes |
| cfg evaluation (`cfg_pred.rs`) | a call stack | `is_test_only`, `is_test_attr`, `can_be_true_without_test`, `can_be_false_without_test` | mutual recursion, short circuits, lists that do not parse | what is skipped is in no build without `test` |
| module tree (`modtree.rs`) | a worklist, the exclusion roots | `test_gated_roots`, `collect`, `visit_external`, `resolve_external_file`, `is_excluded` | no visited set; the same path declared twice; two roots; `#[path]` | excluded = compiled by tests only |
| syntax scanner (`scan.rs`) | aliases, findings | `scan_file`, the alias passes, the `Scanner` visitor | gates at some places and not others; macros; aliases gathered elsewhere than used | nothing hidden, nothing invented |
| inline suppression (`suppress.rs`) | the lines with a directive | `suppressed_lines`, `is_suppressed` | a marker counts by where it stands | only a comment with a reason silences |
| effect taxonomy (`effect.rs`) | tables | `classify_path`, `classify_crate`, the tables for macros, methods and types | its rules cross: roots, clocks, randomness, std, crates; by any segment, the first or the last | with the scanner: an effect is seen by its import or by its call, a value by neither |
| report (`report.rs`) | none | `render`, `render_json`, `distinct_files`, `distinct_kinds` | findings come in walk order | every finding is printed, under its file, and counted |
| executable specs (`tests/`, `features/`) | - | - | - | read as documentation |

How they interact: `main` calls discovery, then `audit`, which calls the module
tree once per crate and the scanner once per file; both ask the cfg evaluation
about every attribute list; the scanner asks suppression about every finding and
the taxonomy about every name. `main` then loads, applies or rewrites the
baseline and prints. All of it is synchronous calls; the only state shared
between *processes* is the tree being edited and the baseline file.

## 2. The modules

| module | models | built on |
|---|---|---|
| `Workspace` | what a run reads, roles, dependencies, the manifest policy, which files are production | - |
| `Baseline` | the baseline file: its lines, `load`, `apply`, `render`, interrupted writes | - |
| `Gate` | **abstract**: the contract of a run as one step from inputs to exit code, verdict, lists, file | `Workspace`, `Baseline` |
| `AuditRun` | **detailed**: a run step by step, with every way it is abandoned; implements `Gate` | `Workspace`, `Baseline`, `Gate` |
| `Ratchet` | many runs, overlapping, over one baseline file and a tree being edited | `Baseline` |
| `CfgPred` | the evaluation of an item's attributes, call by call | - |
| `ModuleGraph` | **external reference**: what rustc compiles of a tree of files | - |
| `ModTree` | the worklist of `modtree.rs`, measured against `ModuleGraph` | `ModuleGraph` |
| `Suppress`, `Scan` | which lines are silenced; `scan_file` over one file | - |
| `Effect` | the taxonomy's tables and `classify_path` over sequences of identifiers | - |
| `Imports` | one `use` item and one call through it: aliases, `flatten_use_tree`, both classifications | `Effect` |
| `CommandLine` | the words of a command line, and what is asked of one | - |
| `Usage` | **abstract**: what a command line means, in one step, by the places of its words | `CommandLine` |
| `Arguments` | **detailed**: `parse_args` word by word; implements `Usage` | `CommandLine`, `Usage` |
| `Report` | `render` as the sequence of lines it prints | - |
| `Shell` | `main` from the command line to the exit code, with everything printed | `Arguments`, `Report` |
| `MC*` | small instances for TLC | the module of that name |
| `*Proofs` | theorems and proofs | the module of that name; `ShellProofs` also on `ArgumentsProofs` |

### State and actions against the code

**AuditRun.** `pc` is the place in `run()`: "discover", "check roles", "crate"
(about to take the next core crate, `audit`), "walk" (inside `source_findings`),
"outcome" (audit finished), "emit", "done". `todo` and `walk` are what the two
loops have left; `findings` and `skipped` are `AuditOutcome`; `ratchet` is
`Ratchet`; `exit` and `out` are what the process leaves behind. Crates are taken in
name order (`Current`), because `core_crates` sorts them; files in *any* order,
because the walker promises none. `DiscoveryFails`, `WalkFails`, `FileFails`,
`WriteFails` and `LoadFails` are the `?` of the code: they leave exit code 2 and
undo nothing. `scanned` is a history variable, read by no action.

**Ratchet.** A run is "audit", then either the `Gate` step (load, apply and exit
code) or `OpenBaseline` and `WriteBaseline`: `std::fs::write` truncates when it
opens, so another process can see the empty file in between. `CrashWriting` leaves
any part of the text with possibly one cut line; a writer that finds the file
changed since it opened it overwrites only as far as its own text goes
(`Overwritten`). Developers introduce and fix leaks, break and mend files at any
time, also in the middle of a run. `lasting`, `readable`, `accepted`, `calm` and
`frozen` are history variables.

**CfgPred.** A recursive call is a node with a `mode` (may it be true, may it be
false) and, once it returned, an `answer`. No two calls of one evaluation are for
the same node, so the call stack is a function of the node, and the whole
recursion is a state machine with no recursive operator. `all` and `any` ask their
children left to right and stop at the first that decides; `not` asks its child
the opposite question.

**ModTree.** `worklist` holds the (file, directory of its submodules) pairs;
`excludedFiles` and `excludedDirs` together are the `BTreeSet<PathBuf>` of roots.
The worklist is a set: the order in which pairs are popped changes nothing, and
equal pairs would be processed alike.

**Scan.** A file is a tree of constructs, each with what the taxonomy says of it and
with its gate. `ReadMarkers`, then the alias walk (`GatherUse`, `GatherMod`,
`GatherNothing`), then the visitor (`VisitTestOnly`, `Visit`). `todo` is what a walk
has left. `collect_clock_aliases` and `collect_hash_aliases` walk alike and are one
walk here.

**Effect, Imports.** A path is a sequence of identifiers. `StripRoots`, `IsClock`,
`IsRandom`, `StdKind` and `CrateKind` are the functions of `effect.rs`, asked in
its order by `ClassifyPath`. `Imports` follows one snippet through the three
passes of `scan_file`: the alias collectors (`Gather*`), `flatten_use_tree`
(`Flatten*`; the shared `prefix` that is pushed before and popped behind a
subtree is the variable of that name), and the visitor (`VisitUse`, `VisitCall`).
The recursion of the code is a stack of subtrees. What a snippet *means* (the
paths it imports, the kind of effect called) is given with it, from the
libraries' documentation, and never computed by the code's rules. `ImportedAssumption`
has a call name something, and ties the imports to the form of the tree, each form by what Rust means by it, without prefixes
or stacks: a path imports what its subtree does, below its segment; a group what its items do, none of it
twice (rustc rejects a name imported twice).

**CommandLine, Usage, Arguments.** `Arguments` has the locals of `parse_args`:
`index`, and `opts` for the variables the flags set. `Collect` is the panic of
`std::env::args` on a word that is not Unicode; each arm of the `match` is an
action, the arms that take a value split into success and mistake; `Reject` and
`Accept` are what follows the loop. `Usage` never reads the words in turn: by its place
in an unbroken row of `--format` and `--baseline` a word is a value or not, the
first mistake or call for help ends the line, the last occurrence of a flag
counts. `Contract == INSTANCE Usage WITH reply <- Reply` maps every
state in which words are still being read to "waiting".

**Report, Shell.** `Shell` extends `Arguments` with what `main` does around the
audit. Its `Audit` step draws any result the flags allow (`AuditRun` says how a result
is reached); everything behind it is the code's own order: `AuditFails`,
`NoCoreCrates`, `MissingRole`, `AnnounceUpdate`, then `emit` (`EmitJson`, `EmitVerdict`, or
`StartReport`, `EmitLeaks`, `EmitStale`, `EmitNotes`) and `exit_code` (`Leaving`).
`text` is the sequence of lines printed, each with its stream; `Rendered` sorts by file
and line, opens a heading where the file changes and closes with each hint once.

## 3. What the runs check

Runs that pass:

| run | question | result, size |
|---|---|---|
| `audit` | Whatever the manifests, roles, allowlists and `--require-*` flags, and in any order of files with any failure, skip or broken baseline: is there a false green, an open kernel layer, a baseline from half an audit, or a run that does not end? | `CleanVerdictIsEarned`, `KernelLayerIsClosed`, `BaselineOnlyFromCompleteAudit`, `OutcomeInv`, `ImplementsGate`, `Terminates`; 691 k states |
| `ratchet` | Two runs on one file, one after the other or at once, with edits, crashes and half-written baselines anywhere: is new debt blocked, does a frozen tree pass, does an undisturbed run answer as one look at the tree would, is anything a run has seen called stale? | `NewDebtIsBlocked`, `FrozenTreePasses`, `UndisturbedIsAtomic`, `StaleIsUnseen` and the inductive `IInv`; 1.5 M states up to symmetry |
| `cfg_pred` | Is the recursion sound, exact when no flag repeats, and does it end? | `SkippedIsTestOnly`, `KeptIsCompiled`, `Decides`; 52 k states |
| `modtree` | In trees with and without `#[path]`: is no production file excluded, every test-only subtree excluded, does the walk go down and end? | `NoProductionExcluded`, `TestSubtreesExcluded`, `WalkGoesDeeper`, `Terminates`; 26 k states |
| `scan` | Is what production code does, imports, boxes or reaches by a renamed import reported unless excused; borrowed aliases apart, nothing else; and no construct come to twice? | `NothingHidden`, `NothingElseInvented`, `EachConstructOnce`, `Terminates`; 56 k states |
| `imports` | However a path is divided between an import and a call, is its effect found, named for what it is, and nothing else? | `UseIsReadExactly`, `EffectIsWitnessed`, `SplitHidesNothing`, `NothingElseIsFound`; 25 k states |
| `shell` | Is a command line read for what it means as a whole, and do the printed lines and the exit code say what was found, under every mix of flags? | `ImplementsUsage`, `ReportIsComplete`, `SkipsAreNeverSilent`, `JsonIsAlone`, `OneMeansLeak`, `Terminates`; 74 k states |

Runs in which TLC shows that the code does not do what the repository says:

| run | what the code does |
|---|---|
| `ratchet_stale` | After `--strict --update-baseline`, a gate run without `--strict` (or one that skips a file) reports entries as stale, "the leak is gone", whose leaks are all in the tree; obeying the message drops accepted debt. `StaleIsUnseen` is the claim with its exceptions named (a leak gone meanwhile, in a skipped file, or of a kind not asked for), and holds. |
| `cfg_opaque` | A list with one child that does not parse as a `Meta` counts as empty, and `any()` of nothing is false: `#[cfg(any(feature = "x", true))]` is skipped as test-only though the feature alone compiles it: a false green. |
| `modtree_twice` | `#[cfg(test)] mod a;` beside `#[cfg(not(test))] mod a;` excludes `a.rs`, which every production build compiles: a false green. |
| `scan_alias` | Aliases are gathered per file and not per module, and from test-only `use` items too: `use std::time::Instant as I` in one module makes another module's own `I::now()` a clock, though the README says that the tool never invents a violation. `NothingElseInvented` is the claim with this exception named (`Borrowed`), and holds. |
| `scan_gated` | A `#[cfg(test)]` method of a trait (or a gated field) is scanned as production. |

Further disagreements that reading the code showed and that have no run:

* *Modules.* A `mod b;` inside a test-only inline module is not excluded
  (`modtree.rs:80`); beside a `lib.rs` the test-only modules of `main.rs` are not
  excluded (`modtree.rs:55`); a `#[path]` in a file that is no `mod.rs` is resolved
  against the directory of its submodules, where rustc takes the file's own
  directory (`modtree.rs:107`; the repository's Limitations admit gaps here).
  The directory of a gated module is excluded whole, "narrow by construction, so
  excluding it never reaches a sibling module's file" (`modtree.rs:131`), and yet it
  reaches production in three shapes of trees: `#[cfg(test)] mod a;` beside `#[path = "a/b.rs"] mod c;`;
  a gated `#[path = "a/mod.rs"] mod c;` beside a production `mod a` with submodules; a gated
  `mod main;` in `lib.rs` of a package that has a `main.rs`. The attempt to prove
  `NoProductionExcluded` for all trees found the three, and TLC has a counterexample
  for each. `RootsApart`, `PathsApart` and `PathsAreLeaves` (in `ModuleGraph`) name
  what a tree must not do, and without any one of them the property is false.
* *Scanning.* Under `--strict` an `async fn` that a trait declares is not flagged
  (`scan.rs:175`). A call through a `use ... as` that stands in a function is missed
  (`scan.rs:430`). One `fc-allow` silences every finding of two lines (`suppress.rs:60`).
* *Names.* A module of the crate's own is taken for the standard library's:
  `crate::fs::load` is filesystem, `self::env::args` environment (`effect.rs`, the
  roots are stripped alike; no snippet of `MCImports` is one of these). `use uuid::Uuid as U; U::new_v4()` is hidden, and so is what is reached through
  a renamed or globbed `env`, `net`, `process`, `io` or `thread` module. `tokio::fs` is
  labelled an async runtime and not filesystem. Any name that begins with `now`
  counts as a clock behind a clock type.
* *Predicates.* `all(x, not(x))` is taken for possible (`cfg_pred.rs:53`).
* *Command line.* Under `--advisory` every error still exits 2 (`main.rs:291`); an argument
  that is not Unicode panics with exit code 101, where 0, 1 and 2 are documented;
  with no core crate left, a baseline is not read and its entries are never
  stale (`main.rs:99`); with no core crate, or when updating, `--json` prints nothing on
  stdout.
* *Files and baseline.* Hidden and ignored files are not read (`audit.rs:119`);
  `--update-baseline` may add entries to a file whose header says it may only shrink
  (`main.rs:210`); a second leak with the file, kind and snippet of an accepted one
  passes (`finding.rs:23`).

### Bounds, and why they are enough

* `MCAuditRun`: two packages, because the crates interact only through
  the kernel names and the accumulated outcome; external crates 10 and 20, in the
  taxonomy and not. Two families of workspaces in one instance: for the manifests,
  every role, dependency kind and form of
  `pure-deps`; for the sources, two files of every kind in one crate and three kinds
  of second crate, so that a failure can come before, between and after files and
  crates; baselines that are unreadable, torn, and accept one finding twice made.
  `Paired` gives each family the flags and baselines that matter to it: all valid
  command lines, apart from flags the family cannot tell apart.
* `MCRatchet`: two files with one leak each, so that an edit can fall between them; one that
  needs `--strict`; one torn line. Two runs are enough for every pair of steps to interleave: runs
  meet only in the one file. Of the command lines there are an update, a gate run that skips
  unparseable files, and a strict one that fails on them. Not in this run, for its size: an update with
  `--strict` and leaks that share a signature. `IInv` and the four properties are proved for these too, and `audit`
  has two findings with one signature in it.
* `MCCfgPred`: three levels, so that `not` stands above and below `all` and `any`,
  two children wherever short circuits matter; every flag different, or all the
  same; two attributes. The proof covers all other depths.
* `MCModTree`: two module names and up to five files three directories deep, `x.rs` beside
  `x/mod.rs`, `mod.rs` under `mod.rs`, inline modules, files that do not parse; `#[path]` to a file
  beside, to one a directory below and to another module's `mod.rs`, from `lib.rs`, `a.rs`, `a/mod.rs` and
  inline modules, gated and not; modules called `lib` and `main`, with one root and with two. Depth
  three is where a directory one level off first covers something it should not. The proof
  covers all other trees.
* `MCScan`: constructs nested four deep, every form around every other, gates at each
  level; each form of marker on, above and below the finding; `use` in
  and around modules and functions; one name that means a clock in one place and something else in another.
  `EachConstructOnce` sees a construct that is come to again later, and not an override that descends into it
  twice in one step: `todo` and `found` are sets.
* `MCImports`: 27 things a file may call, at least one per rule of `classify_path` and a
  harmless neighbour for each rule that looks at leaves; every place to divide
  the path; imported by name, by `self`, under another name or by a glob, alone or
  in a group before or after something else. `spelt` marks the
  snippets in which the telltale words stand together in the import or in the call;
  the tool resolves no names, and the others are listed above. `SplitHidesNothing`
  says the same without a meaning given: where the words stand together, dividing a path between
  import and call shows what the whole path would.
* `MCShell`: every line of up to three of 13 words (each flag that is treated in a way
  of its own, a path, a path that does not resolve, a word that is not Unicode), every line of four of
  the seven words whose meaning hangs on their place, and three flags behind a
  baseline: enough for a value to swallow a flag and for a row of two values to
  shift the reading. Findings of four files out of order, twice the same one,
  with and without stale entries, skipped files and inert kernels.

There are no counters to cap: every state space is finite by its inputs.
`CHECK_DEADLOCK` is never switched off: what has ended stutters by a `Done` step.

### Fairness

The liveness properties (`Terminates` of `AuditRun`, `ModTree`, `Scan` and `Shell`, `Decides`)
assume weak fairness of `Next` only: the program is one thread that waits for nobody, so a step that can be taken
is taken. `Imports` needs none, its properties being invariants. `Ratchet` is checked
without fairness: a run may be killed or never
continue, and nothing in the code promises otherwise.

## 4. What is proved

All proofs are for every value of the constants: any number of packages, crates,
files, findings, runs, leaks and predicate nodes.

* **`AuditRunProofs`** assumes `PackagesAssumption` (crate names are ordered; numbers
  here) and `ArgsAssumption` (`parse_args` rejects `--update-baseline` without
  `--baseline`, which `UpdatesNameTheFile` of `ShellProofs` shows). `TypeCorrect`: `Spec => []TypeOK`. `CleanVerdict`:
  `Spec => []CleanVerdictIsEarned`. The invariant is not inductive: at the last
  step one must know that `findings` really is all there was to find. `OutcomeInv`
  says so at every point of the audit (`OutcomeIsExact`): `findings` and `skipped` are *exactly* what the
  policy says of the crates begun and the scanner of the entries yielded so far.
  `PhaseInv` says which phase may have what, `RatchetInv` what was measured
  against the baseline; together they are `IInv`, proved inductive with one lemma
  per action. `PipelineImplementsGate`: `Spec => Contract!GateSpec`, from the same
  invariant: every step before the last is a stutter of the contract, and each of
  the ends is one of its four actions. `BaselineFromCompleteAudit`: only the
  two actions of an update change the file, and the `IInv` of the state they start from
  says that nothing was left to audit. `KernelLayer`: `OutcomeInv` says that all
  manifest findings are in `findings`; a green gate run without accepted debt has none;
  and the policy has a finding for each dependency that opens the layer.
* **`CfgPredProofs`** assumes `ItemsAssumption` (predicates are trees, a node is of one of seven kinds).
  `SkippedOnlyTests`: `Spec => []SkippedIsTestOnly`. The strengthening is `NoIsRight`:
  *a "no" is true of every build without test* (a call that asks "can it be
  true" and got no: it is false in all of them, and dually), with `AskedRight`, that
  a child was asked the question its parent's kind calls for. No
  induction over the predicate is needed: the state machine returns from children
  before parents, so the induction is over steps. `TypeCorrect`: `Spec => []TypeOK`.
  `KeptIsProduction`: `Spec => []KeptIsCompiled`. `KeptInv` says what a "yes" rests on,
  down to the leaves. The build that compiles the item must then be *made*: the leaves are set as they
  were asked to be, which one value per flag allows, and the predicate
  is evaluated. That every choice of leaves has an evaluation (`BuildExists`) is an
  induction over data: of the nodes that no evaluation reaches one would have all its
  children reached, and could be given its value.
  `SomeCallGoesOn`: while a call is open, some call can take a step,
  because one open call has no open call below it (`ItemsAssumption`: in any set of nodes there is one with no
  child in the set), and that one is a leaf, or has a child to ask or an answer to give. The invariant it needs
  (`NestInductive`) is that an open call was made by an open call or for the attribute looked at. That an
  attribute's call returns with nothing left open below it takes `BelowRoot`: each open call is in every set with
  the root that is closed under going to children, so that it cannot belong to another attribute.
* **`RatchetProofs`** assumes nothing of the constants. `TypeCorrect`, `NewDebt`
  (`Spec => NewDebtIsBlocked`) and `FrozenTree` (`Spec => FrozenTreePasses`) follow from
  the inductive `IInv` (`Inductive`): whatever can be read from the file was found by an update
  or is a torn line (`EntriesAccepted`); a run has found whatever lasted in the files
  it is through (`AuditCovers`); a run nobody disturbed has found exactly what is
  there (`AuditExact`), and a frozen file holds exactly that (`FrozenExact`).
  `UndisturbedRunsAreAtomic` (`Spec => UndisturbedIsAtomic`) follows from `AuditExact`: the files read one after
  the other, and the file loaded behind them, count as one look at everything, the single step that `Gate` is.
  `StaleEntriesAreUnseen` (`Spec => StaleIsUnseen`) follows from `AuditCovers` for runs that others do disturb.
* **`ScanProofs`** assumes `FilesAssumption` (constructs are numbered as they begin, so
  each comes after the one around it; what a form may carry; lines count from 1). What a construct *does* is
  `Does`, the reference: its own effect, what it imports, what its signature or its `#[async_trait]` makes it,
  and what its name stands for once names are resolved (`Resolves`: the innermost production `use` in scope).
  No part of it looks at `aliases`, `suppressed` or `todo`.
  `NothingIsHidden` (`Spec => []NothingHidden`): whatever is in `todo` has nothing around it that stops the
  walk; every construct that a walk must reach is behind it, in `todo`, or below something in `todo`; what is behind
  has its effects recorded (`NodesAreVisited`) and its aliases gathered (`UsesAreGathered`). A name that resolves to a module's `use` is
  therefore among the aliases (`NameIsGathered`), and what a construct owes among what is recorded for it (`OwedIsAKind`).
  That a construct with an open way down is below *something* in `todo`
  (`WayDown`, `WayIn`) takes the least construct of its chain that was not yet passed.
  `Owed` is `Does` less what the code misses: async methods that a trait declares, and names whose `use` stands in a function.
  `NothingElseIsInvented` (`Spec => []NothingElseInvented`): every alias gathered is one of some `use` in a module
  that is not test-only (`AliasesAreOfUses`), so a finding through an alias is either what the name means or
  `Borrowed` from that `use` (`RecordedIsDone`). Without `Borrowed` it would be false: the run `scan_alias`.
  `TypeCorrect`: `Spec => []TypeOK`.
  `WalksGoOn`: `Spec => EachConstructOnce`, from `TodoIsApart`: no two constructs in `todo` lie one in the other,
  so that the one taken has nothing waiting around it, and what is put in its place comes to it no more.
* **`ArgumentsProofs`** assumes `LinesAssumption` (lines are sequences of words). `ValueStep`: a
  word is a value, by its place in a row of `--format` and `--baseline`, exactly when the word
  before it takes a value and is none itself, which is how `parse_args` meets them. From there
  `ReadInv`: between two steps the options are what `Usage` reads in the words before
  `index`. Each end of the reading answers what `Usage` answers.
* **`ShellProofs`** assumes `ResultsAssumption` besides (the lists of a result are sequences, and a
  finding has a file and a line).
  `ReadingImplementsUsage`: `Spec => ImplementsUsage`, the refinement, with the audit and the
  printing as stutters. `ShellTypeCorrect`, `OneMeansALeak`, `SkipsAreNamed` and
  `JsonStandsAlone` follow from the inductive `IInv`, `ReadInv` together with what stands in
  `text` at each stage. `JsonStandsAlone` needs that no line of a report goes to stdout, and
  the report is a fold over any number of findings: `RowByRow` and `KindByKind` unfold the folds of
  `Report` one element at a time, by the least length for which that fails. (`Sorted` gives each
  finding its place by counting those before it, because a sort that is given only by
  TLC's own code cannot be reasoned about.)
  `ReportIsWhole`: `Spec => []ReportIsComplete`. Its second invariant `ReportInv` says that from
  the moment the leaks are told the lines hold a report that is `Whole`, and nothing else of that sort.
  That the places of the rows are in order (`Stand`), each row's heading the last before it, goes one row at a time
  over the fold (`OneMoreRow`), and so do the hints (`OneMoreKind`); `SortedIsAnOrder` shows that counting
  those before it gives each finding a place of its own. All counts are
  one-to-one maps between places (`SameCount`).
* **`ModTreeProofs`** assumes `NamesAssumption` and `TreesAssumption` (what a tree is).
  The inductive `IInv` says that the walk meets production only (`MeetsProduction`) and
  that some set of places `visited` is behind it whose gated declarations are recorded and whose others are visited or wait
  (`Behind`): a set the code does not keep, and the invariant asks that one exist.
  `ProductionIsAudited`: `Spec => []NoProductionExcluded`. A position is `Free` if no test-only declaration of
  production covers it. The roots are free, and what a free position declares is free;
  production is the *least* set with the roots that is closed under declaring, so all of it is.
  `TestsAreExcluded`: `Spec => []TestSubtreesExcluded`, with the same argument twice: by `Behind` all of
  production is visited, and then everything compiled with tests is production or covered.
  `WalkTypeCorrect`: `Spec => []TypeOK`.
  `WalkDescends`: `Spec => WalkGoesDeeper`. With no visited set, only the directories keep the walk from going
  round: each pair pushed lies strictly below the pair that was taken, or its file declares nothing.
* **`ImportsProofs`** assumes `ImportedAssumption`. `EveryImportOnce`:
  `Spec => []UseIsReadExactly`, for use trees of any depth. The code has one prefix for the whole
  tree, pushed and popped as it goes. The inductive `IInv` (`FlattenInductive`) gives every node on
  the stack the prefix below which it *will* be met (`Above`), the last one being empty: what the nodes owe
  below these, together with what was gathered, is what the `use` imports, in parts that do not
  meet (`Reaches`). `TopGivesWay` is the step all forms share: the top is replaced by nodes that owe
  what it owed, less what was gathered.
  `NoSplitHidesAnEffect`: `Spec => []SplitHidesNothing`, with `FamilyAssumption` besides (no crate of the network and
  database families is called `io`, `fs`, ...). An import and the call through it share one segment.
  Stripped of roots, the
  import is a prefix of the stripped whole, or it was all roots. That the words a path is known by stand side by side
  (`Together`) puts them all into the import or all into the call, since the two overlap in a word; there the
  rule that classified the whole classifies the half, and no earlier rule of `classify_path` does.
  `RootsMakeNoDifference`: `crate`, `self`, `super`, `std`, `core` and `alloc`, any number of them, before a path
  change nothing.

Only model-checked: liveness (`Terminates`, `Decides`), because the prover has neither
fairness nor `ENABLED`. The halves that are in its reach are proved: the walks of `ModTree` and
`Scan` put something behind with each step and bring nothing back (`WalkDescends`, `WalksGoOn`),
and the calls of `CfgPred` always have a next step (`SomeCallGoesOn`). And `EffectIsWitnessed` and `NothingElseIsFound` of `Imports`: which effect a path has
comes with the snippet, from the libraries' documentation, and a theorem for all snippets would have to assume what it shows.
`SplitHidesNothing` is what can be said for all of them, and is proved.
The library's induction theorems take an operator, which the installed provers cannot
instantiate; where data has to be gone through (a row of words, a fold, a tree of predicates, a chain of constructs),
the proofs take the least counterexample instead (`LeastNat`, in four of the modules) or the least closed set.

## 5. Abstractions

* Names, snippets and paths are values; only equality, the order of crates and
  the prefix relation of directories matter. A line number matters in suppression and in signatures
  (which drop it).
* In `Scan` the taxonomy is data: a construct carries what the classifier answers. `Imports`
  has the classifier itself, for paths; crate families told by a prefix are constants.
* In `Shell` the audit is one step to any result the flags allow; a file is its
  rank in path order, a printed line its stream, its sort and what it is about.
* The lexer of `suppress.rs` and its byte offsets are abstracted to where a marker
  stands: in a comment or in a token.
* What a file holds does not change during one `AuditRun`; in `Ratchet` it does, and the
  audit is reduced to the files it reads.
* `NewDebtIsBlocked` allows the signatures that a cut line reads as: a cut signature
  might by chance equal another one.

## 6. Not modelled, and why

Message wording and layout, among it the census of crates in the verdict line, and
`to_json` beyond its three lists; `..` in `#[path]` (it would need path normalisation,
which the code does not do either); the tables of `effect.rs` for macros, clock methods
and interior mutability (one name each, fields of `Scan`'s constructs); and cargo's and
rustc's own behaviour beyond `ModuleGraph`. Hazards that follow from these are
listed in `PROJECT.json` with a note.

## 7. Plan

Done in this order, most important first: `Workspace`, `Baseline`, `Gate`, `AuditRun` with
its proofs; `Ratchet` with its proofs; `CfgPred` with its proofs; `ModTree`;
`Suppress` and `Scan`; `Usage`, `Arguments`, `Report`, `Shell`; `Effect`, `Imports`.

Then the proofs of `KeptIsCompiled`, `Scan`, `Arguments` and `Shell`, `ModTree`, `Imports`.

Then what the proofs could add to the runs: `UndisturbedIsAtomic`, which ties `Ratchet`'s file-by-file runs to the one
step of `Gate`; `StaleIsUnseen`; `SplitHidesNothing`; and, towards termination, `WalkGoesDeeper`,
`EachConstructOnce`, `SomeCallGoesOn`.

Open: the same for `Shell` and `Arguments`, where each turn of the loop raises `index`; and what a run that *was* disturbed
may report as fresh, which nothing bounds yet but the leaks that were in the tree at some time during it.
