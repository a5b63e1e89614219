------------------------------ MODULE ModTree ------------------------------
(***************************************************************************)
(* modtree.rs: which files of a crate's src/ are reachable only through a  *)
(* test-gated module.  A worklist starts at the crate root and follows mod *)
(* declarations; each test-gated one adds exclusion roots.  There is no    *)
(* visited set, and the order of the worklist does not matter, so it is a  *)
(* set.                                                                    *)
(***************************************************************************)
EXTENDS ModuleGraph

CONSTANTS
    Names,  \* what a directory, a file or a module may be called
    Trees   \* the source trees to choose from (ModuleGraph says what a tree is)

Dirs == Seq(Names)
Files == [dir : Dirs, stem : Names]
Declarations ==
    [within : Dirs, sealed : BOOLEAN, name : Names \ {"mod"}, gated : BOOLEAN, path : Files]

\* A module cannot be called mod, which is a keyword.
ASSUME NamesAssumption == {"lib", "main", "mod"} \subseteq Names
ASSUME TreesAssumption ==
    \A t \in Trees : /\ t.files \subseteq Files /\ t.parses \subseteq t.files
                     /\ \A f \in t.files : t.decls[f] \subseteq Declarations

VARIABLES
    tree,           \* the source tree; nothing changes it
    worklist,       \* <<file, mod_dir>> pairs to visit
    excludedFiles,  \* exclusion roots that are files ...
    excludedDirs,   \* ... and those that are directories
    pc              \* "walk" or "done"

vars == <<tree, worklist, excludedFiles, excludedDirs, pc>>

-----------------------------------------------------------------------------
(* Resolution, as the code does it. Optional results are sets of at most one. *)

\* lib.rs, or else main.rs
CrateRoot ==
    IF File(<<>>, "lib") \in tree.files THEN {File(<<>>, "lib")}
    ELSE {File(<<>>, "main")} \cap tree.files

\* Seeded fault: foo/mod.rs is taken for a module called mod.
SubmoduleDirOfStem(f) == Append(f.dir, f.stem)

\* foo/mod.rs and foo.rs keep their submodules in foo/
SubmoduleDir(f) == IF f.stem = "mod" THEN f.dir ELSE Append(f.dir, f.stem)

\* <dir>/name.rs, or else <dir>/name/mod.rs
ResolveExternalFile(dir, name) ==
    IF File(dir, name) \in tree.files THEN {File(dir, name)}
    ELSE {File(Append(dir, name), "mod")} \cap tree.files

ChildFile(d, mod_dir) ==
    IF d.path = NoPath THEN ResolveExternalFile(mod_dir \o d.within, d.name)
    ELSE {File(mod_dir \o d.within \o d.path.dir, d.path.stem)} \cap tree.files

\* Seeded fault: the directory of a gated module is taken to be its file's.
ChildDirOfFile(d, mod_dir) ==
    IF ChildFile(d, mod_dir) = {} THEN mod_dir \o Append(d.within, d.name)
    ELSE (CHOOSE f \in ChildFile(d, mod_dir) : TRUE).dir

ChildDir(d, mod_dir) ==
    IF ChildFile(d, mod_dir) = {} THEN mod_dir \o Append(d.within, d.name)
    ELSE SubmoduleDir(CHOOSE f \in ChildFile(d, mod_dir) : TRUE)

\* collect does not look inside a test-only inline module; a file that cannot
\* be read or parsed has no declarations.
Collected(f) == IF f \in tree.parses THEN {d \in tree.decls[f] : ~d.sealed} ELSE {}
Gated(f) == {d \in Collected(f) : d.gated}

Queued(f, mod_dir) ==
    UNION {ChildFile(d, mod_dir) \X {ChildDir(d, mod_dir)}
              : d \in Collected(f) \ Gated(f)}

-----------------------------------------------------------------------------
Init ==
    /\ tree \in Trees
    /\ worklist = CrateRoot \X {<<>>}
    /\ excludedFiles = {} /\ excludedDirs = {}
    /\ pc = "walk"

\* Seeded fault: the pair looked at stays on the worklist.
VisitPeeking ==
    /\ pc = "walk"
    /\ \E p \in worklist :
          LET f == p[1]
              mod_dir == p[2]
          IN /\ worklist' = worklist \cup Queued(f, mod_dir)
             /\ excludedFiles' =
                  excludedFiles \cup UNION {ChildFile(d, mod_dir) : d \in Gated(f)}
             /\ excludedDirs' =
                  excludedDirs \cup {ChildDir(d, mod_dir) : d \in Gated(f)}
    /\ UNCHANGED <<tree, pc>>

\* One turn of the loop: pop a pair, collect its file's declarations.
Visit ==
    /\ pc = "walk"
    /\ \E p \in worklist :
          LET f == p[1]
              mod_dir == p[2]
          IN /\ worklist' = (worklist \ {p}) \cup Queued(f, mod_dir)
             /\ excludedFiles' =
                  excludedFiles \cup UNION {ChildFile(d, mod_dir) : d \in Gated(f)}
             /\ excludedDirs' =
                  excludedDirs \cup {ChildDir(d, mod_dir) : d \in Gated(f)}
    /\ UNCHANGED <<tree, pc>>

\* Seeded fault: the walk may end with pairs still to visit.
FinishEarly ==
    /\ pc = "walk"
    /\ pc' = "done"
    /\ UNCHANGED <<tree, worklist, excludedFiles, excludedDirs>>

Finish ==
    /\ pc = "walk"
    /\ worklist = {}
    /\ pc' = "done"
    /\ UNCHANGED <<tree, worklist, excludedFiles, excludedDirs>>

Done == pc = "done" /\ UNCHANGED vars

Next == Visit \/ Finish \/ Done

Spec == Init /\ [][Next]_vars
FairSpec == Spec /\ WF_vars(Next)

\* A candidate file is skipped when a root is a path prefix of it.
IsExcluded(f) ==
    f \in excludedFiles \/ \E dir \in excludedDirs : IsPrefix(dir, f.dir)

-----------------------------------------------------------------------------
(* Properties *)

\* Pairs to visit are files of the tree with a directory, and roots below src/.
TypeOK ==
    /\ tree \in Trees
    /\ pc \in {"walk", "done"}
    /\ \A p \in worklist : p[1] \in tree.files /\ DOMAIN p = {1, 2}
    /\ excludedFiles \subseteq tree.files
    /\ pc = "done" => worklist = {}

\* What the scanner skips, no production build compiles: in a tree that
\* declares each module once and whose test-only modules keep apart from the
\* crate roots and from what has a #[path], no exclusion root covers a file
\* reachable without a test gate (modtree.rs test_gated_roots).
NoProductionExcluded ==
    pc = "done" /\ DeclaredOnce(tree) /\ RootsApart(tree) /\ PathsApart(tree)
          /\ PathsAreLeaves(tree) =>
        \A f \in ProductionFiles(tree) : ~IsExcluded(f)

\* What only a test build compiles, the scanner skips: in a tree with one crate
\* root, files that parse, no `mod x;` inside a test-only inline module, and no
\* declarations behind a #[path] (modtree.rs test_gated_roots, visit_external).
TestSubtreesExcluded ==
    pc = "done" /\ PathsAreLeaves(tree) /\ OneRoot(tree) /\ AllParse(tree)
          /\ NothingSealed(tree) =>
        \A f \in TestOnlyFiles(tree) : IsExcluded(f)

\* Nothing remembers what was visited, so that no step may bring a pair back:
\* one pair goes, and what comes for it lies in a directory below its own, or
\* its file declares nothing (modtree.rs visit_external, `worklist.push`).
WalkGoesDeeper ==
    [][PathsAreLeaves(tree) /\ worklist' # worklist =>
          \E p \in worklist \ worklist' : \A q \in worklist' \ worklist :
              IsStrictPrefix(p[2], q[2]) \/ tree.decls[q[1]] = {}]_vars

\* The walk ends, by what WalkGoesDeeper says of its steps.
Terminates == PathsAreLeaves(tree) ~> pc = "done"

-----------------------------------------------------------------------------
(* What the documentation says of every tree, and the code does not do *)

\* "Resolve which source files are reachable *only* through a test-gated
\* module, so the scanner can skip them" (modtree.rs:1-2).
OnlyTestGatedExcluded ==
    pc = "done" => \A f \in ProductionFiles(tree) : ~IsExcluded(f)

-----------------------------------------------------------------------------
(* The inductive invariant: where no #[path] leads to declarations, what the *)
(* walk has met is production; and what is behind it or before it, together  *)
(* with the recorded roots, is all there is to meet.                         *)

Production == CompiledPositions(tree, FALSE)

\* What the walk takes the places of files to be.
Places == {<<f, SubmoduleDir(f)>> : f \in tree.files} \cup (CrateRoot \X {<<>>})

MeetsProduction ==
    /\ \A p \in worklist :
          p \in Production \/ (p[1] \in ProductionFiles(tree) /\ tree.decls[p[1]] = {})
    /\ \A f \in excludedFiles : \E p \in Production : \E d \in Gated(p[1]) : f \in ChildFile(d, p[2])
    /\ \A dir \in excludedDirs : \E p \in Production : \E d \in Gated(p[1]) : dir = ChildDir(d, p[2])

\* The places behind the walk: their gated declarations are roots, and all
\* others have been visited or wait.
Behind(visited) ==
    /\ CrateRoot \X {<<>>} \subseteq visited \cup worklist
    /\ \A p \in visited :
          /\ Queued(p[1], p[2]) \subseteq visited \cup worklist
          /\ \A d \in Gated(p[1]) : /\ ChildFile(d, p[2]) \subseteq excludedFiles
                                    /\ ChildDir(d, p[2]) \in excludedDirs

IInv ==
    /\ tree \in Trees /\ pc \in {"walk", "done"}
    /\ worklist \subseteq Places /\ excludedFiles \subseteq tree.files
    /\ pc = "done" => worklist = {}
    /\ PathsAreLeaves(tree) => MeetsProduction
    /\ \E visited \in SUBSET Places : Behind(visited)

=============================================================================
