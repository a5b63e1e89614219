---------------------------- MODULE ModuleGraph ----------------------------
(***************************************************************************)
(* What rustc makes of a source tree: which file each `mod` declaration    *)
(* brings in, and so which files a non-test build compiles and which only  *)
(* a test build does.  This is the reference modtree.rs is measured        *)
(* against; none of it is the repository's code.                           *)
(*                                                                         *)
(* A directory is the sequence of its names below src/, a file is          *)
(* [dir, stem].  A tree is [files, parses, decls].  A declaration          *)
(* `mod name;` is [within, sealed, name, gated, path]: the names of the    *)
(* inline modules around it, whether one of those is test-only, its name,  *)
(* whether it is test-only itself, and what its #[path] names, or NoPath.  *)
(***************************************************************************)
EXTENDS Sequences, FiniteSets, SequencesExt

File(dir, stem) == [dir |-> dir, stem |-> stem]
NoPath == File(<<>>, "none")

\* A position is a file with the directory its submodules live in: for mod.rs
\* the file's own, for name.rs the one named after it, and for a crate root src/.
Home(f) == IF f.stem = "mod" THEN f.dir ELSE Append(f.dir, f.stem)

RootFiles(t) == {File(<<>>, "lib"), File(<<>>, "main")} \cap t.files
Roots(t) == {<<f, f.dir>> : f \in RootFiles(t)}

\* The position a declaration d in position p stands for, if its file exists.
\* A #[path] outside inline modules is relative to the declaring file, and the
\* file it names keeps its submodules beside itself, like a mod.rs.
Named(t, p, d) ==
    LET dir == p[2] \o d.within
        flat == File(dir, d.name)
        nested == File(Append(dir, d.name), "mod")
        base == IF d.within = <<>> THEN p[1].dir ELSE dir
        given == File(base \o d.path.dir, d.path.stem)
    IN IF d.path # NoPath THEN {<<f, f.dir>> : f \in {given} \cap t.files}
       ELSE IF flat \in t.files THEN {<<flat, Home(flat)>>}
       ELSE {<<f, Home(f)>> : f \in {nested} \cap t.files}

UsesPath(t) == \E f \in t.files : \E d \in t.decls[f] : d.path # NoPath

Positions(t) ==
    {<<f, Home(f)>> : f \in t.files} \cup Roots(t)
      \cup IF UsesPath(t) THEN {<<f, f.dir>> : f \in t.files} ELSE {}

\* Test-only: gated itself, or inside a test-only inline module.
TestOnly(d) == d.gated \/ d.sealed

\* The sets of positions that hold the roots and what their members declare,
\* the test-only declarations included or not.
ClosedSets(t, withTests) ==
    {S \in SUBSET Positions(t) :
        /\ Roots(t) \subseteq S
        /\ \A p \in S : \A d \in t.decls[p[1]] :
              withTests \/ ~TestOnly(d) => Named(t, p, d) \subseteq S}

\* Reachable: in the least such set.
CompiledPositions(t, withTests) ==
    LET closed == ClosedSets(t, withTests)
    IN {p \in Positions(t) : \A S \in closed : p \in S}

Compiled(t, withTests) == {p[1] : p \in CompiledPositions(t, withTests)}

ProductionFiles(t) == Compiled(t, FALSE)
TestOnlyFiles(t) == Compiled(t, TRUE) \ Compiled(t, FALSE)

-----------------------------------------------------------------------------
(* Shapes of trees *)

OneRoot(t) == ~({File(<<>>, "lib"), File(<<>>, "main")} \subseteq t.files)
AllParse(t) == t.parses = t.files
NothingSealed(t) == \A f \in t.files : \A d \in t.decls[f] : ~d.sealed

ModulePath(p, d) == p[2] \o Append(d.within, d.name)
InlinePaths(p, d) == {p[2] \o SubSeq(d.within, 1, i) : i \in 1..Len(d.within)}

\* No module path is declared twice, as `#[cfg(test)] mod a;` beside
\* `#[cfg(not(test))] mod a;` or an inline `mod a` would.
DeclaredOnce(t) ==
    LET built == CompiledPositions(t, FALSE)
    IN \A p, q \in built : \A d \in t.decls[p[1]], e \in t.decls[q[1]] :
          /\ ModulePath(p, d) = ModulePath(q, e) => p = q /\ d = e
          /\ ModulePath(p, d) \notin InlinePaths(q, e)

\* No test-only declaration brings in a crate root, or a src/mod.rs, to which
\* all of src/ belongs.
RootsApart(t) ==
    \A p \in CompiledPositions(t, FALSE) : \A d \in t.decls[p[1]] :
        TestOnly(d) => \A r \in Named(t, p, d) : r[1] \notin RootFiles(t) /\ Home(r[1]) # <<>>

\* The directory of the module that d declares, be its file there or not.
OwnDirs(t, p, d) ==
    IF Named(t, p, d) = {} THEN {ModulePath(p, d)} ELSE {Home(r[1]) : r \in Named(t, p, d)}

\* Tests and production do not meet where one of them has a #[path]: they name
\* different files, and what production names lies in no directory of the tests.
PathsApart(t) ==
    LET built == CompiledPositions(t, FALSE)
    IN \A p, q \in built : \A d \in t.decls[p[1]], e \in t.decls[q[1]] :
          TestOnly(d) /\ ~TestOnly(e) /\ (d.path # NoPath \/ e.path # NoPath) =>
              \A s \in Named(t, q, e) :
                  /\ \A r \in Named(t, p, d) : r[1] # s[1]
                  /\ \A dir \in OwnDirs(t, p, d) : ~IsPrefix(dir, s[1].dir)

\* Every #[path] stands in a crate root, a mod.rs or an inline module, and the
\* file it names declares nothing.
PathsAreLeaves(t) ==
    \A p \in CompiledPositions(t, TRUE) : \A d \in t.decls[p[1]] :
        d.path # NoPath =>
            /\ d.within # <<>> \/ p[2] = p[1].dir
            /\ \A r \in Named(t, p, d) : t.decls[r[1]] = {}

=============================================================================
