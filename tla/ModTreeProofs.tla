---------------------------- MODULE ModTreeProofs ---------------------------
(***************************************************************************)
(* Proofs about ModTree, for every source tree: what is excluded no        *)
(* production build compiles, and what only tests compile is excluded, as  *)
(* far as the shape of the tree allows.                                    *)
(***************************************************************************)
EXTENDS ModTree, SequenceTheorems, TLAPS

-----------------------------------------------------------------------------
(* Directories and their prefixes                                           *)

LEMMA Below ==
  ASSUME NEW s \in Dirs, NEW t \in Dirs
  PROVE  IsPrefix(s, t) <=> Len(s) <= Len(t) /\ \A i \in 1..Len(s) : s[i] = t[i]
<1>1. Len(s) \in Nat /\ Len(t) \in Nat /\ DOMAIN s = 1..Len(s) /\ DOMAIN t = 1..Len(t)
  BY DEF Dirs
<1>2. CASE Len(s) <= Len(t)
  <2>1. SubSeq(s, 1, Len(s)) = [i \in 1..Len(s) |-> s[i]]
    BY <1>1 DEF Dirs
  <2>2. SubSeq(t, 1, Len(s)) = [i \in 1..Len(s) |-> t[i]]
    BY <1>1, <1>2 DEF Dirs
  <2>3. SubSeq(s, 1, Len(s)) = SubSeq(t, 1, Len(s)) <=> \A i \in 1..Len(s) : s[i] = t[i]
    BY <2>1, <2>2
  <2> QED BY <1>2, <2>3 DEF IsPrefix
<1>3. CASE ~(Len(s) <= Len(t))
  BY <1>3 DEF IsPrefix
<1> QED BY <1>2, <1>3

LEMMA BelowItself ==
  ASSUME NEW s \in Dirs
  PROVE  IsPrefix(s, s)
<1>1. Len(s) \in Nat
  BY DEF Dirs
<1> QED BY <1>1, Below

LEMMA JoinedDirs ==
  ASSUME NEW s \in Dirs, NEW u \in Dirs
  PROVE  /\ s \o u \in Dirs /\ Len(s) \in Nat /\ Len(u) \in Nat
         /\ Len(s \o u) = Len(s) + Len(u)
         /\ \A i \in 1..(Len(s) + Len(u)) : (s \o u)[i] = IF i <= Len(s) THEN s[i] ELSE u[i - Len(s)]
  BY ConcatProperties DEF Dirs

LEMMA JoinedTwice ==
  ASSUME NEW s \in Dirs, NEW u \in Dirs, NEW v \in Dirs
  PROVE  (s \o u) \o v = s \o (u \o v)
  BY ConcatAssociative DEF Dirs

LEMMA BelowJoined ==
  ASSUME NEW m \in Dirs, NEW s \in Dirs, NEW u \in Dirs, IsPrefix(m, s)
  PROVE  IsPrefix(m, s \o u)
<1>1. Len(m) <= Len(s) /\ \A i \in 1..Len(m) : m[i] = s[i]
  BY Below
<1>2. /\ Len(m) \in Nat /\ Len(s) \in Nat /\ Len(u) \in Nat /\ Len(s \o u) = Len(s) + Len(u)
      /\ s \o u \in Dirs
      /\ \A i \in 1..(Len(s) + Len(u)) : (s \o u)[i] = IF i <= Len(s) THEN s[i] ELSE u[i - Len(s)]
  BY JoinedDirs DEF Dirs
<1>3. Len(m) <= Len(s \o u) /\ \A i \in 1..Len(m) : m[i] = (s \o u)[i]
  BY <1>1, <1>2
<1> QED BY <1>2, <1>3, Below

LEMMA BelowEmpty ==
  ASSUME NEW m \in Dirs, NEW s \in Dirs, s = <<>>, IsPrefix(m, s)
  PROVE  m = <<>> /\ Len(m) = 0
<1>1. Len(m) \in Nat /\ Len(s) = 0
  BY LenProperties DEF Dirs
<1>2. Len(m) <= Len(s)
  BY Below
<1>3. Len(m) = 0
  BY <1>1, <1>2
<1> QED BY <1>3, EmptySeq DEF Dirs

\* What lies below a joined directory but not below its first part is the first
\* part with some of the second.
LEMMA BelowSecondPart ==
  ASSUME NEW m \in Dirs, NEW s \in Dirs, NEW u \in Dirs, IsPrefix(m, s \o u), ~IsPrefix(m, s)
  PROVE  \E i \in 1..Len(u) : m = s \o SubSeq(u, 1, i)
<1>1. /\ Len(m) \in Nat /\ Len(s) \in Nat /\ Len(u) \in Nat /\ Len(s \o u) = Len(s) + Len(u)
      /\ s \o u \in Dirs
      /\ \A i \in 1..(Len(s) + Len(u)) : (s \o u)[i] = IF i <= Len(s) THEN s[i] ELSE u[i - Len(s)]
  BY JoinedDirs DEF Dirs
<1>2. Len(m) <= Len(s) + Len(u) /\ \A i \in 1..Len(m) : m[i] = (s \o u)[i]
  BY <1>1, Below
<1>3. Len(m) > Len(s)
  <2>1. SUFFICES ASSUME Len(m) <= Len(s) PROVE FALSE
    BY <1>1
  <2>2. \A i \in 1..Len(m) : m[i] = s[i]
    BY <1>1, <1>2, <2>1
  <2> QED BY <2>1, <2>2, Below
<1> DEFINE k == Len(m) - Len(s)
           v == SubSeq(u, 1, k)
<1>4. k \in 1..Len(u) /\ k \in Nat /\ Len(m) = Len(s) + k
  BY <1>1, <1>2, <1>3
<1> HIDE DEF k
<1>5. v \in Dirs /\ Len(v) = k /\ \A i \in 1..k : v[i] = u[i]
  BY <1>4 DEF Dirs
<1> HIDE DEF v
<1>6. /\ s \o v \in Dirs /\ Len(s \o v) = Len(m)
      /\ \A i \in 1..Len(m) : (s \o v)[i] = IF i <= Len(s) THEN s[i] ELSE v[i - Len(s)]
  BY <1>4, <1>5, JoinedDirs
<1>7. ASSUME NEW i \in 1..Len(m) PROVE m[i] = (s \o v)[i]
  <2>1. i \in 1..(Len(s) + Len(u)) /\ (~(i <= Len(s)) => i - Len(s) \in 1..k)
    BY <1>1, <1>4
  <2> QED BY <1>1, <1>2, <1>5, <1>6, <2>1
<1>8. m = s \o v
  BY <1>6, <1>7, SeqEqual DEF Dirs
<1> QED BY <1>4, <1>8 DEF v

-----------------------------------------------------------------------------
(* Trees, and what is compiled of them                                      *)

LEMMA FileFacts ==
  ASSUME NEW dir, NEW stem
  PROVE  /\ File(dir, stem).dir = dir /\ File(dir, stem).stem = stem
         /\ (dir \in Dirs /\ stem \in Names) => File(dir, stem) \in Files
         /\ \A dir2, stem2 : File(dir, stem) = File(dir2, stem2) => dir = dir2 /\ stem = stem2
<1>1. File(dir, stem).dir = dir /\ File(dir, stem).stem = stem
  BY DEF File
<1>2. \A dir2, stem2 : File(dir2, stem2).dir = dir2 /\ File(dir2, stem2).stem = stem2
  BY DEF File
<1>3. (dir \in Dirs /\ stem \in Names) => File(dir, stem) \in Files
  BY DEF File, Files
<1> QED BY <1>1, <1>2, <1>3

LEMMA TreeFacts ==
  ASSUME NEW t \in Trees
  PROVE  /\ t.parses \subseteq t.files
         /\ \A f \in t.files : f.dir \in Dirs /\ f.stem \in Names /\ f = File(f.dir, f.stem)
         /\ \A f \in t.files : \A d \in t.decls[f] :
               /\ d.within \in Dirs /\ d.name \in Names /\ d.name # "mod"
               /\ d.sealed \in BOOLEAN /\ d.gated \in BOOLEAN
               /\ d.path.dir \in Dirs /\ d.path.stem \in Names
<1>1. /\ t.files \subseteq Files /\ t.parses \subseteq t.files
      /\ \A f \in t.files : t.decls[f] \subseteq Declarations
  BY TreesAssumption
<1>2. \A f \in Files : f.dir \in Dirs /\ f.stem \in Names /\ f = File(f.dir, f.stem)
  BY DEF Files, File
<1>3. \A d \in Declarations :
         /\ d.within \in Dirs /\ d.name \in Names /\ d.name # "mod"
         /\ d.sealed \in BOOLEAN /\ d.gated \in BOOLEAN
         /\ d.path.dir \in Dirs /\ d.path.stem \in Names
  BY DEF Declarations, Files
<1> QED BY <1>1, <1>2, <1>3

LEMMA Appended ==
  ASSUME NEW dir \in Dirs, NEW name \in Names
  PROVE  /\ Append(dir, name) \in Dirs /\ Len(Append(dir, name)) > 0 /\ <<name>> \in Dirs
         /\ Append(dir, name) = dir \o <<name>>
<1>1. Append(dir, name) \in Seq(Names) /\ Len(Append(dir, name)) = Len(dir) + 1 /\ Len(dir) \in Nat
  BY AppendProperties, LenProperties DEF Dirs
<1>2. <<name>> \in Seq(Names)
  OBVIOUS
<1> QED BY <1>1, <1>2, AppendIsConcat DEF Dirs

\* The code's directory of a file's submodules is rustc's.
LEMMA HomeFacts ==
  ASSUME NEW f, f.dir \in Dirs, f.stem \in Names
  PROVE  /\ Home(f) \in Dirs /\ SubmoduleDir(f) = Home(f)
         /\ f.stem = "mod" => Home(f) = f.dir
         /\ f.stem # "mod" => Home(f) = Append(f.dir, f.stem)
<1>1. CASE f.stem = "mod"
  BY <1>1, Zenon DEF Home, SubmoduleDir
<1>2. CASE f.stem # "mod"
  BY <1>2, Appended, Zenon DEF Home, SubmoduleDir
<1> QED BY <1>1, <1>2, Zenon

\* Positions are pairs of a file and a directory.
LEMMA PositionFacts ==
  ASSUME NEW t \in Trees, NEW p \in Positions(t)
  PROVE  p[1] \in t.files /\ p[2] \in Dirs /\ p = <<p[1], p[2]>>
<1>1. \A f \in t.files : f.dir \in Dirs /\ f.stem \in Names /\ Home(f) \in Dirs
  BY TreeFacts, HomeFacts
<1>2. PICK f \in t.files : p = <<f, Home(f)>> \/ p = <<f, f.dir>>
  BY DEF Positions, Roots, RootFiles
<1> QED BY <1>1, <1>2

LEMMA NamedArePositions ==
  ASSUME NEW t \in Trees, NEW p \in Positions(t), NEW d \in t.decls[p[1]]
  PROVE  Named(t, p, d) \subseteq Positions(t)
<1>1. p[1] \in t.files
  BY PositionFacts
<1>2. CASE d.path # NoPath
  <2>1. UsesPath(t)
    BY <1>1, <1>2 DEF UsesPath
  <2>2. \A r \in Named(t, p, d) : \E f \in t.files : r = <<f, f.dir>>
    BY <1>2 DEF Named
  <2> QED BY <2>1, <2>2 DEF Positions
<1>3. CASE d.path = NoPath
  <2>1. \A r \in Named(t, p, d) : \E f \in t.files : r = <<f, Home(f)>>
    BY <1>3 DEF Named
  <2> QED BY <2>1 DEF Positions
<1> QED BY <1>2, <1>3

\* The compiled positions are closed, and they are the least that are.
LEMMA CompiledLeast ==
  ASSUME NEW t \in Trees, NEW withTests \in BOOLEAN
  PROVE  LET built == CompiledPositions(t, withTests)
             Closed(S) == /\ Roots(t) \subseteq S
                          /\ \A p \in S : \A d \in t.decls[p[1]] :
                                withTests \/ ~TestOnly(d) => Named(t, p, d) \subseteq S
         IN /\ built \subseteq Positions(t) /\ Closed(built)
            /\ \A S \in SUBSET Positions(t) : Closed(S) => built \subseteq S
<1> DEFINE built == CompiledPositions(t, withTests)
           Closed(S) == /\ Roots(t) \subseteq S
                        /\ \A p \in S : \A d \in t.decls[p[1]] :
                              withTests \/ ~TestOnly(d) => Named(t, p, d) \subseteq S
<1>1. \A S : S \in ClosedSets(t, withTests) <=> S \in SUBSET Positions(t) /\ Closed(S)
  BY DEF ClosedSets
<1>2. \A p : p \in built <=> p \in Positions(t) /\ \A S \in ClosedSets(t, withTests) : p \in S
  BY DEF CompiledPositions
<1>3. built \subseteq Positions(t)
  BY <1>2
<1>4. \A S \in SUBSET Positions(t) : Closed(S) => built \subseteq S
  BY <1>1, <1>2
<1>5. Roots(t) \subseteq built
  <2>1. Roots(t) \subseteq Positions(t)
    BY DEF Positions
  <2> QED BY <1>1, <1>2, <2>1
<1>6. ASSUME NEW p \in built, NEW d \in t.decls[p[1]], withTests \/ ~TestOnly(d)
      PROVE  Named(t, p, d) \subseteq built
  <2>1. Named(t, p, d) \subseteq Positions(t)
    BY <1>3, NamedArePositions
  <2>2. \A S \in ClosedSets(t, withTests) : Named(t, p, d) \subseteq S
    BY <1>1, <1>2, <1>6
  <2> QED BY <1>2, <2>1, <2>2
<1>7. Closed(built)
  BY <1>5, <1>6
<1> QED BY <1>3, <1>4, <1>7

\* What is compiled without tests is compiled with them.
LEMMA ProductionInTests ==
  ASSUME NEW t \in Trees
  PROVE  CompiledPositions(t, FALSE) \subseteq CompiledPositions(t, TRUE)
<1> DEFINE all == CompiledPositions(t, TRUE)
<1>1. all \subseteq Positions(t) /\ Roots(t) \subseteq all
      /\ \A p \in all : \A d \in t.decls[p[1]] : Named(t, p, d) \subseteq all
  BY CompiledLeast
<1> QED BY <1>1, CompiledLeast

-----------------------------------------------------------------------------
(* The code's resolution and rustc's                                        *)

\* A declaration stands where the code takes it to stand.
Stands(p, d) == d.path # NoPath => d.within # <<>> \/ p[2] = p[1].dir

LEMMA ModulePathFacts ==
  ASSUME tree \in Trees, NEW p \in Positions(tree), NEW d \in tree.decls[p[1]]
  PROVE  /\ p[2] \o d.within \in Dirs /\ ModulePath(p, d) \in Dirs
         /\ ModulePath(p, d) = Append(p[2] \o d.within, d.name)
         /\ Len(ModulePath(p, d)) > 0
<1>1. p[2] \in Dirs /\ d.within \in Dirs /\ d.name \in Names
  BY PositionFacts, TreeFacts
<1>2. Append(d.within, d.name) = d.within \o <<d.name>> /\ <<d.name>> \in Dirs
  BY <1>1, Appended
<1>3. p[2] \o d.within \in Dirs
  BY <1>1, JoinedDirs
<1>4. Append(p[2] \o d.within, d.name) = (p[2] \o d.within) \o <<d.name>>
  BY <1>1, <1>3, Appended
<1>5. (p[2] \o d.within) \o <<d.name>> = p[2] \o (d.within \o <<d.name>>)
  BY <1>1, <1>2, JoinedTwice
<1>6. Append(p[2] \o d.within, d.name) \in Dirs /\ Len(Append(p[2] \o d.within, d.name)) > 0
  BY <1>1, <1>3, Appended
<1> QED BY <1>2, <1>3, <1>4, <1>5, <1>6 DEF ModulePath

LEMMA Resolves ==
  ASSUME tree \in Trees, NEW p \in Positions(tree), NEW d \in tree.decls[p[1]], Stands(p, d)
  PROVE  /\ \A r \in Named(tree, p, d) : r[1] \in ChildFile(d, p[2])
         /\ \A f \in ChildFile(d, p[2]) : \E r \in Named(tree, p, d) : r[1] = f
         /\ ChildFile(d, p[2]) \subseteq tree.files
         /\ ChildDir(d, p[2]) \in OwnDirs(tree, p, d) /\ ChildDir(d, p[2]) \in Dirs
         /\ \A r \in Named(tree, p, d) : SubmoduleDir(r[1]) = ChildDir(d, p[2])
         /\ d.path = NoPath => /\ ChildDir(d, p[2]) = ModulePath(p, d)
                               /\ \A r \in Named(tree, p, d) : r = <<r[1], ModulePath(p, d)>>
<1> DEFINE here == p[2] \o d.within
           flat == File(here, d.name)
           nested == File(Append(here, d.name), "mod")
<1>1. /\ here \in Dirs /\ ModulePath(p, d) \in Dirs /\ ModulePath(p, d) = Append(here, d.name)
      /\ p[2] \in Dirs /\ p[1] \in tree.files
  BY ModulePathFacts, PositionFacts
<1>2. /\ d.within \in Dirs /\ d.name \in Names /\ d.name # "mod"
      /\ \A f \in tree.files : f.dir \in Dirs /\ f.stem \in Names
  BY <1>1, TreeFacts
<1>3. \A f \in tree.files : Home(f) \in Dirs /\ SubmoduleDir(f) = Home(f)
  BY <1>2, HomeFacts
<1>4. Home(flat) = ModulePath(p, d) /\ Home(nested) = ModulePath(p, d)
  <2>1. flat.dir = here /\ flat.stem = d.name
    BY DEF File
  <2>2. nested.dir = ModulePath(p, d) /\ nested.stem = "mod"
    BY <1>1 DEF File
  <2> HIDE DEF flat, nested, here
  <2>3. "mod" \in Names
    BY NamesAssumption
  <2>4. Home(flat) = Append(here, d.name)
    BY <1>1, <1>2, <2>1, HomeFacts
  <2>5. Home(nested) = ModulePath(p, d)
    BY <1>1, <2>2, <2>3, HomeFacts
  <2> QED BY <1>1, <2>4, <2>5
<1> HIDE DEF here
<1>5. CASE d.path = NoPath
  <2> HIDE DEF flat, nested
  <2>1. Named(tree, p, d) = IF flat \in tree.files THEN {<<flat, Home(flat)>>}
                            ELSE {<<f, Home(f)>> : f \in {nested} \cap tree.files}
    BY <1>5 DEF Named, here, flat, nested
  <2>2. ChildFile(d, p[2]) = IF flat \in tree.files THEN {flat} ELSE {nested} \cap tree.files
    BY <1>5 DEF ChildFile, ResolveExternalFile, here, flat, nested
  <2>3. \A r \in Named(tree, p, d) : r = <<r[1], ModulePath(p, d)>> /\ r[1] \in tree.files
                                    /\ Home(r[1]) = ModulePath(p, d)
    BY <1>4, <2>1
  <2>4. /\ \A r \in Named(tree, p, d) : r[1] \in ChildFile(d, p[2])
        /\ \A f \in ChildFile(d, p[2]) : \E r \in Named(tree, p, d) : r[1] = f
    <3>1. \A f \in ChildFile(d, p[2]) : <<f, Home(f)>> \in Named(tree, p, d)
      BY <2>1, <2>2
    <3>2. \A r \in Named(tree, p, d) : r[1] \in ChildFile(d, p[2])
      BY <2>1, <2>2
    <3> QED BY <3>1, <3>2
  <2>5. ChildDir(d, p[2]) = ModulePath(p, d)
    <3>1. CASE ChildFile(d, p[2]) = {}
      BY <3>1 DEF ChildDir, ModulePath
    <3>2. CASE ChildFile(d, p[2]) # {}
      <4> DEFINE f == CHOOSE f \in ChildFile(d, p[2]) : TRUE
      <4>1. f \in ChildFile(d, p[2])
        BY <3>2
      <4>2. ChildDir(d, p[2]) = SubmoduleDir(f)
        BY <3>2 DEF ChildDir
      <4> HIDE DEF f
      <4>3. f \in tree.files /\ Home(f) = ModulePath(p, d)
        BY <2>3, <2>4, <4>1
      <4> QED BY <1>3, <4>2, <4>3
    <3> QED BY <3>1, <3>2
  <2>6. ChildDir(d, p[2]) \in OwnDirs(tree, p, d)
    <3>1. CASE Named(tree, p, d) = {}
      BY <2>5, <3>1 DEF OwnDirs
    <3>2. CASE Named(tree, p, d) # {}
      <4>1. PICK r \in Named(tree, p, d) : TRUE
        BY <3>2
      <4>2. Home(r[1]) = ChildDir(d, p[2])
        BY <2>3, <2>5
      <4> QED BY <3>2, <4>2 DEF OwnDirs
    <3> QED BY <3>1, <3>2
  <2>7. \A r \in Named(tree, p, d) : SubmoduleDir(r[1]) = ChildDir(d, p[2])
    BY <1>3, <2>3, <2>5
  <2> QED BY <1>1, <2>3, <2>4, <2>5, <2>6, <2>7
<1>6. CASE d.path # NoPath
  <2> DEFINE given == File(here \o d.path.dir, d.path.stem)
  <2>1. (IF d.within = <<>> THEN p[1].dir ELSE here) = here
    <3>1. d.within = <<>> => p[1].dir = p[2] /\ here = p[2]
      BY <1>1, <1>6 DEF Stands, here, Dirs
    <3> QED BY <3>1
  <2>2. Named(tree, p, d) = {<<f, f.dir>> : f \in {given} \cap tree.files}
    BY <1>6, <2>1 DEF Named, here
  <2>3. ChildFile(d, p[2]) = {given} \cap tree.files
    BY <1>6 DEF ChildFile, here
  <2> HIDE DEF given
  <2>4. /\ \A r \in Named(tree, p, d) : r[1] \in ChildFile(d, p[2])
        /\ \A f \in ChildFile(d, p[2]) : \E r \in Named(tree, p, d) : r[1] = f
    <3>1. \A f \in ChildFile(d, p[2]) : <<f, f.dir>> \in Named(tree, p, d)
      BY <2>2, <2>3
    <3>2. \A r \in Named(tree, p, d) : r[1] \in ChildFile(d, p[2])
      BY <2>2, <2>3
    <3> QED BY <3>1, <3>2
  <2>5. CASE given \notin tree.files
    <3>1. ChildFile(d, p[2]) = {} /\ Named(tree, p, d) = {}
      BY <2>2, <2>3, <2>5
    <3>2. ChildDir(d, p[2]) = ModulePath(p, d)
      BY <3>1 DEF ChildDir, ModulePath
    <3> QED BY <1>1, <1>6, <2>4, <3>1, <3>2 DEF OwnDirs
  <2>6. CASE given \in tree.files
    <3>1. ChildFile(d, p[2]) = {given} /\ Named(tree, p, d) = {<<given, given.dir>>}
      BY <2>2, <2>3, <2>6
    <3>2. ChildDir(d, p[2]) = SubmoduleDir(given)
      BY <3>1 DEF ChildDir
    <3>3. ChildDir(d, p[2]) \in OwnDirs(tree, p, d)
      BY <1>3, <2>6, <3>1, <3>2 DEF OwnDirs
    <3> QED BY <1>3, <1>6, <2>4, <2>6, <3>1, <3>2, <3>3
  <2> QED BY <2>5, <2>6
<1> QED BY <1>5, <1>6

-----------------------------------------------------------------------------
(* No root of a production declaration covers production                    *)

Apart == DeclaredOnce(tree) /\ RootsApart(tree) /\ PathsApart(tree) /\ PathsAreLeaves(tree)

\* A position that no test-only declaration of production covers, nor, if it
\* declares anything, the path of its module.
Free(g) ==
    \A p \in Production : \A d \in tree.decls[p[1]] :
        TestOnly(d) => /\ g[1] \notin ChildFile(d, p[2])
                       /\ ~IsPrefix(ChildDir(d, p[2]), g[1].dir)
                       /\ tree.decls[g[1]] # {} => ~IsPrefix(ModulePath(p, d), g[2])

LEMMA ProductionFacts ==
  ASSUME tree \in Trees
  PROVE  /\ Production \subseteq Positions(tree)
         /\ Production \subseteq CompiledPositions(tree, TRUE)
         /\ Roots(tree) \subseteq Production
         /\ \A p \in Production : \A d \in tree.decls[p[1]] :
               ~TestOnly(d) => Named(tree, p, d) \subseteq Production
         /\ \A p \in Production : p[1] \in ProductionFiles(tree)
         /\ \A f \in ProductionFiles(tree) : \E p \in Production : p[1] = f
<1>1. /\ Production \subseteq Positions(tree) /\ Roots(tree) \subseteq Production
      /\ \A p \in Production : \A d \in tree.decls[p[1]] :
            ~TestOnly(d) => Named(tree, p, d) \subseteq Production
  BY CompiledLeast DEF Production
<1>2. Production \subseteq CompiledPositions(tree, TRUE)
  BY ProductionInTests DEF Production
<1>3. /\ \A p \in Production : p[1] \in ProductionFiles(tree)
      /\ \A f \in ProductionFiles(tree) : \E p \in Production : p[1] = f
  BY DEF Production, ProductionFiles, Compiled
<1> QED BY <1>1, <1>2, <1>3

\* In production everything stands where the code takes it to stand.
LEMMA ProductionStands ==
  ASSUME tree \in Trees, PathsAreLeaves(tree), NEW p \in Production, NEW d \in tree.decls[p[1]]
  PROVE  Stands(p, d) /\ (d.path # NoPath => \A r \in Named(tree, p, d) : tree.decls[r[1]] = {})
  BY ProductionFacts DEF PathsAreLeaves, Stands

LEMMA RootsAreFree ==
  ASSUME tree \in Trees, Apart, NEW g \in Roots(tree)
  PROVE  Free(g)
<1> SUFFICES ASSUME NEW p \in Production, NEW d \in tree.decls[p[1]], TestOnly(d)
             PROVE  /\ g[1] \notin ChildFile(d, p[2])
                    /\ ~IsPrefix(ChildDir(d, p[2]), g[1].dir)
                    /\ ~IsPrefix(ModulePath(p, d), g[2])
  BY DEF Free
<1>1. g[1] \in RootFiles(tree) /\ g[1].dir = <<>> /\ g[2] = <<>>
  BY DEF Roots, RootFiles, File
<1>2. p \in Positions(tree) /\ Stands(p, d)
  BY ProductionFacts, ProductionStands DEF Apart
<1>3. /\ \A f \in ChildFile(d, p[2]) : \E r \in Named(tree, p, d) : r[1] = f
      /\ ChildDir(d, p[2]) \in OwnDirs(tree, p, d) /\ ChildDir(d, p[2]) \in Dirs
  BY <1>2, Resolves
<1>4. \A r \in Named(tree, p, d) : r[1] \notin RootFiles(tree) /\ Home(r[1]) # <<>>
  BY DEF Apart, RootsApart, Production
<1>5. ModulePath(p, d) \in Dirs /\ Len(ModulePath(p, d)) > 0
  BY <1>2, ModulePathFacts
<1>6. \A m \in Dirs : IsPrefix(m, <<>>) => m = <<>> /\ Len(m) = 0
  <2>1. <<>> \in Dirs
    BY DEF Dirs
  <2> QED BY <2>1, BelowEmpty
<1>7. ChildDir(d, p[2]) # <<>>
  <2>1. CASE Named(tree, p, d) = {}
    <3>1. ChildDir(d, p[2]) = ModulePath(p, d)
      BY <1>3, <2>1 DEF OwnDirs
    <3> QED BY <1>5, <3>1
  <2>2. CASE Named(tree, p, d) # {}
    <3>1. ChildDir(d, p[2]) \in {Home(r[1]) : r \in Named(tree, p, d)}
      BY <1>3, <2>2 DEF OwnDirs
    <3> QED BY <1>4, <3>1
  <2> QED BY <2>1, <2>2
<1>8. g[1] \notin ChildFile(d, p[2])
  BY <1>1, <1>3, <1>4
<1>9. ~IsPrefix(ChildDir(d, p[2]), g[1].dir)
  BY <1>1, <1>3, <1>6, <1>7
<1>10. ~IsPrefix(ModulePath(p, d), g[2])
  BY <1>1, <1>5, <1>6
<1> QED BY <1>8, <1>9, <1>10

\* A module path that is declared once covers no other.
LEMMA PathsDoNotMeet ==
  ASSUME tree \in Trees, Apart,
         NEW p \in Production, NEW d \in tree.decls[p[1]], TestOnly(d),
         NEW q \in Production, NEW e \in tree.decls[q[1]], ~TestOnly(e), Free(q)
  PROVE  ~IsPrefix(ModulePath(p, d), ModulePath(q, e))
<1> DEFINE m == ModulePath(p, d)
           own == Append(e.within, e.name)
<1>1. p \in Positions(tree) /\ q \in Positions(tree)
  BY ProductionFacts
<1>2. q[2] \in Dirs /\ e.within \in Dirs /\ e.name \in Names /\ m \in Dirs
  BY <1>1, PositionFacts, TreeFacts, ModulePathFacts
<1>3. own \in Dirs /\ Len(own) = Len(e.within) + 1 /\ Len(e.within) \in Nat
  BY <1>2 DEF Dirs
<1>4. ~IsPrefix(m, q[2])
  BY DEF Free
<1>5. m # ModulePath(q, e) /\ m \notin InlinePaths(q, e)
  BY ZenonT(30) DEF Apart, DeclaredOnce, Production
<1>6. SUFFICES ASSUME IsPrefix(m, q[2] \o own) PROVE FALSE
  BY DEF ModulePath
<1> HIDE DEF m
<1>7. PICK i \in 1..Len(own) : m = q[2] \o SubSeq(own, 1, i)
  <2> HIDE DEF own
  <2> QED BY <1>2, <1>3, <1>4, <1>6, BelowSecondPart
<1>8. CASE i <= Len(e.within)
  <2>1. SubSeq(own, 1, i) = SubSeq(e.within, 1, i)
    BY <1>2, <1>3, <1>8 DEF Dirs
  <2>2. i \in 1..Len(e.within)
    BY <1>3, <1>8
  <2> QED BY <1>5, <1>7, <2>1, <2>2 DEF InlinePaths
<1>9. CASE i = Len(own)
  <2>1. SubSeq(own, 1, i) = own
    BY <1>2, <1>3, <1>9 DEF Dirs
  <2> QED BY <1>5, <1>7, <2>1 DEF ModulePath
<1> QED BY <1>3, <1>8, <1>9

LEMMA ConventionalAreFree ==
  ASSUME tree \in Trees, Apart, NEW q \in Production, NEW e \in tree.decls[q[1]], ~TestOnly(e),
         e.path = NoPath, Free(q), NEW g \in Named(tree, q, e)
  PROVE  Free(g)
<1> SUFFICES ASSUME NEW p \in Production, NEW d \in tree.decls[p[1]], TestOnly(d)
             PROVE  /\ g[1] \notin ChildFile(d, p[2])
                    /\ ~IsPrefix(ChildDir(d, p[2]), g[1].dir)
                    /\ ~IsPrefix(ModulePath(p, d), g[2])
  BY DEF Free
<1>1. /\ p \in Positions(tree) /\ Stands(p, d) /\ q \in Positions(tree) /\ Stands(q, e)
  BY ProductionFacts, ProductionStands DEF Apart
<1>2. /\ \A f \in ChildFile(d, p[2]) : \E r \in Named(tree, p, d) : r[1] = f
      /\ ChildDir(d, p[2]) \in OwnDirs(tree, p, d) /\ ChildDir(d, p[2]) \in Dirs
      /\ d.path = NoPath => /\ ChildDir(d, p[2]) = ModulePath(p, d)
                            /\ \A r \in Named(tree, p, d) : r = <<r[1], ModulePath(p, d)>>
  BY <1>1, Resolves
<1>3. g = <<g[1], ModulePath(q, e)>> /\ SubmoduleDir(g[1]) = ModulePath(q, e)
  <2>1. g = <<g[1], ModulePath(q, e)>> /\ SubmoduleDir(g[1]) = ChildDir(e, q[2])
        /\ ChildDir(e, q[2]) = ModulePath(q, e)
    BY <1>1, Resolves
  <2> QED BY <2>1
<1>4. /\ g[1] \in tree.files /\ g[1].dir \in Dirs /\ g[1].stem \in Names
      /\ ModulePath(p, d) \in Dirs /\ ModulePath(q, e) \in Dirs
  <2>1. g \in Positions(tree)
    BY <1>1, NamedArePositions
  <2> QED BY <1>1, <2>1, PositionFacts, TreeFacts, ModulePathFacts
<1>5. ~IsPrefix(ModulePath(p, d), ModulePath(q, e))
  BY PathsDoNotMeet
<1>6. ~IsPrefix(ModulePath(p, d), g[2])
  BY <1>3, <1>5
<1>7. ASSUME NEW m \in Dirs, IsPrefix(m, g[1].dir) PROVE IsPrefix(m, ModulePath(q, e))
  <2>1. CASE g[1].stem = "mod"
    BY <1>3, <1>7, <2>1 DEF SubmoduleDir
  <2>2. CASE g[1].stem # "mod"
    <3>1. ModulePath(q, e) = g[1].dir \o <<g[1].stem>> /\ <<g[1].stem>> \in Dirs
      BY <1>3, <1>4, <2>2, Appended DEF SubmoduleDir
    <3> QED BY <1>4, <1>7, <3>1, BelowJoined
  <2> QED BY <2>1, <2>2
<1>8. CASE d.path = NoPath
  <2>1. ~IsPrefix(ChildDir(d, p[2]), g[1].dir)
    BY <1>2, <1>5, <1>7, <1>8
  <2>2. g[1] \notin ChildFile(d, p[2])
    <3>1. SUFFICES ASSUME g[1] \in ChildFile(d, p[2]) PROVE FALSE
      OBVIOUS
    <3>2. PICK r \in Named(tree, p, d) : r[1] = g[1]
      BY <1>2, <3>1
    <3>3. SubmoduleDir(r[1]) = ModulePath(p, d)
      BY <1>1, <1>2, <1>8, Resolves
    <3>4. ModulePath(p, d) = ModulePath(q, e)
      BY <1>3, <3>2, <3>3
    <3> QED BY <1>4, <1>5, <3>4, BelowItself
  <2> QED BY <1>6, <2>1, <2>2
<1>9. CASE d.path # NoPath
  <2>1. /\ \A r \in Named(tree, p, d) : r[1] # g[1]
        /\ \A dir \in OwnDirs(tree, p, d) : ~IsPrefix(dir, g[1].dir)
    BY <1>9 DEF Apart, PathsApart, Production
  <2> QED BY <1>2, <1>6, <2>1
<1> QED BY <1>8, <1>9

LEMMA RelocatedAreFree ==
  ASSUME tree \in Trees, Apart, NEW q \in Production, NEW e \in tree.decls[q[1]], ~TestOnly(e),
         e.path # NoPath, NEW g \in Named(tree, q, e)
  PROVE  Free(g)
<1> SUFFICES ASSUME NEW p \in Production, NEW d \in tree.decls[p[1]], TestOnly(d)
             PROVE  /\ g[1] \notin ChildFile(d, p[2])
                    /\ ~IsPrefix(ChildDir(d, p[2]), g[1].dir)
                    /\ tree.decls[g[1]] = {}
  BY DEF Free
<1>1. p \in Positions(tree) /\ Stands(p, d) /\ tree.decls[g[1]] = {}
  BY ProductionFacts, ProductionStands DEF Apart
<1>2. /\ \A f \in ChildFile(d, p[2]) : \E r \in Named(tree, p, d) : r[1] = f
      /\ ChildDir(d, p[2]) \in OwnDirs(tree, p, d)
  BY <1>1, Resolves
<1>3. /\ \A r \in Named(tree, p, d) : r[1] # g[1]
      /\ \A dir \in OwnDirs(tree, p, d) : ~IsPrefix(dir, g[1].dir)
  BY DEF Apart, PathsApart, Production
<1> QED BY <1>1, <1>2, <1>3

LEMMA ProductionIsFree ==
  ASSUME tree \in Trees, Apart, NEW g \in Production
  PROVE  Free(g)
<1> DEFINE S == {h \in Production : Free(h)}
<1>1. Roots(tree) \subseteq S
  BY ProductionFacts, RootsAreFree
<1>2. ASSUME NEW q \in S, NEW e \in tree.decls[q[1]], ~TestOnly(e), NEW h \in Named(tree, q, e)
      PROVE  h \in S
  <2>1. q \in Production /\ Free(q)
    OBVIOUS
  <2>2. h \in Production
    BY <1>2, <2>1, ProductionFacts
  <2>3. Free(h)
    BY <1>2, <2>1, ConventionalAreFree, RelocatedAreFree
  <2> QED BY <2>2, <2>3
<1>3. S \subseteq Positions(tree)
  BY ProductionFacts
<1>4. Production \subseteq S
  <2> HIDE DEF S
  <2> QED BY <1>1, <1>2, <1>3, CompiledLeast DEF Production
<1> QED BY <1>4

-----------------------------------------------------------------------------
(* The invariant of the walk                                                *)

LEMMA CollectedFacts ==
  ASSUME tree \in Trees, NEW f \in tree.files
  PROVE  /\ Collected(f) \subseteq tree.decls[f] /\ Gated(f) \subseteq Collected(f)
         /\ \A d \in Collected(f) : ~d.sealed
         /\ \A d \in Gated(f) : d.gated /\ TestOnly(d)
         /\ \A d \in Collected(f) \ Gated(f) : ~TestOnly(d)
<1>1. Collected(f) \subseteq tree.decls[f] /\ \A d \in Collected(f) : ~d.sealed
  BY DEF Collected
<1>2. Gated(f) \subseteq Collected(f) /\ \A d \in Collected(f) : d \in Gated(f) <=> d.gated
  BY DEF Gated
<1> QED BY <1>1, <1>2 DEF TestOnly

LEMMA ChildFacts ==
  ASSUME tree \in Trees, NEW d, NEW m
  PROVE  /\ ChildFile(d, m) \subseteq tree.files
         /\ \A f \in ChildFile(d, m) : ChildDir(d, m) = SubmoduleDir(f)
<1>1. PICK only : ChildFile(d, m) \subseteq {only} /\ ChildFile(d, m) \subseteq tree.files
  BY DEF ChildFile, ResolveExternalFile
<1>2. ASSUME NEW f \in ChildFile(d, m) PROVE ChildDir(d, m) = SubmoduleDir(f)
  <2>1. ChildFile(d, m) = {f}
    BY <1>1
  <2>2. (CHOOSE x \in ChildFile(d, m) : TRUE) = f
    BY <2>1
  <2> QED BY <2>1, <2>2 DEF ChildDir
<1> QED BY <1>1, <1>2

LEMMA QueuedFacts ==
  ASSUME tree \in Trees, NEW f, NEW m
  PROVE  /\ \A r \in Queued(f, m) : \E d \in Collected(f) \ Gated(f) :
               /\ r[1] \in ChildFile(d, m) /\ r = <<r[1], ChildDir(d, m)>>
         /\ \A d \in Collected(f) \ Gated(f) : \A g \in ChildFile(d, m) :
               <<g, ChildDir(d, m)>> \in Queued(f, m)
         /\ Queued(f, m) \subseteq Places
<1>1. /\ \A r \in Queued(f, m) : \E d \in Collected(f) \ Gated(f) :
            /\ r[1] \in ChildFile(d, m) /\ r = <<r[1], ChildDir(d, m)>>
      /\ \A d \in Collected(f) \ Gated(f) : \A g \in ChildFile(d, m) :
            <<g, ChildDir(d, m)>> \in Queued(f, m)
  BY DEF Queued
<1>2. Queued(f, m) \subseteq Places
  BY <1>1, ChildFacts DEF Places
<1> QED BY <1>1, <1>2

LEMMA PlacesFacts ==
  ASSUME tree \in Trees
  PROVE  /\ CrateRoot \X {<<>>} \subseteq Roots(tree) /\ CrateRoot \X {<<>>} \subseteq Places
         /\ OneRoot(tree) => Roots(tree) \subseteq CrateRoot \X {<<>>}
         /\ Places \subseteq Positions(tree)
<1>1. CrateRoot \subseteq RootFiles(tree) /\ (OneRoot(tree) => RootFiles(tree) = CrateRoot)
  BY DEF CrateRoot, RootFiles, OneRoot
<1>2. \A f \in RootFiles(tree) : f.dir = <<>> /\ f \in tree.files
  BY DEF RootFiles, File
<1>3. \A f \in tree.files : SubmoduleDir(f) = Home(f)
  BY TreeFacts, HomeFacts
<1>4. CrateRoot \X {<<>>} \subseteq Roots(tree) /\ (OneRoot(tree) => Roots(tree) \subseteq CrateRoot \X {<<>>})
  BY <1>1, <1>2 DEF Roots
<1>5. Places \subseteq Positions(tree)
  BY <1>3, <1>4 DEF Places, Positions
<1> QED BY <1>4, <1>5 DEF Places

\* Nothing but the variables moves with a step.
LEMMA Unmoved ==
  ASSUME tree' = tree
  PROVE  /\ Production' = Production /\ Places' = Places /\ CrateRoot' = CrateRoot
         /\ ProductionFiles(tree)' = ProductionFiles(tree)
         /\ PathsAreLeaves(tree)' <=> PathsAreLeaves(tree)
         /\ \A f : Gated(f)' = Gated(f)
         /\ \A f, m : Queued(f, m)' = Queued(f, m)
         /\ \A d, m : ChildFile(d, m)' = ChildFile(d, m) /\ ChildDir(d, m)' = ChildDir(d, m)
<1>1. CrateRoot' = CrateRoot
  BY DEF CrateRoot
<1>2. Places' = Places
  BY <1>1 DEF Places
<1>3. \A f : Collected(f)' = Collected(f)
  BY DEF Collected
<1>4. \A f : Gated(f)' = Gated(f)
  BY <1>3 DEF Gated
<1>5. \A d, m : ChildFile(d, m)' = ChildFile(d, m)
  BY DEF ChildFile, ResolveExternalFile
<1>6. \A d, m : ChildDir(d, m)' = ChildDir(d, m)
  <2> DEFINE OneOf(S) == CHOOSE f \in S : TRUE
  <2>1. \A d, m : ChildDir(d, m) = IF ChildFile(d, m) = {} THEN m \o Append(d.within, d.name)
                                  ELSE SubmoduleDir(OneOf(ChildFile(d, m)))
    BY DEF ChildDir
  <2>2. \A d, m : ChildDir(d, m)' = IF ChildFile(d, m)' = {} THEN m \o Append(d.within, d.name)
                                   ELSE SubmoduleDir(OneOf(ChildFile(d, m)'))
    BY DEF ChildDir
  <2> HIDE DEF OneOf
  <2> QED BY <1>5, <2>1, <2>2
<1>7. \A f, m : Queued(f, m)' = Queued(f, m)
  BY <1>3, <1>4, <1>5, <1>6 DEF Queued
<1> QED BY <1>1, <1>2, <1>4, <1>5, <1>6, <1>7 DEF Production

LEMMA InitWalks ==
  ASSUME Init
  PROVE  IInv
<1>1. tree \in Trees /\ worklist = CrateRoot \X {<<>>} /\ excludedFiles = {} /\ excludedDirs = {}
      /\ pc = "walk"
  BY DEF Init
<1>2. worklist \subseteq Places /\ worklist \subseteq Production
  BY <1>1, PlacesFacts, ProductionFacts
<1>3. MeetsProduction
  BY <1>1, <1>2 DEF MeetsProduction
<1>4. Behind({}) /\ {} \in SUBSET Places
  BY <1>1 DEF Behind
<1>5. \E visited \in SUBSET Places : Behind(visited)
  BY <1>4
<1> QED BY <1>1, <1>2, <1>3, <1>5 DEF IInv

\* What the walk meets next is production, if what it meets now is.
LEMMA QueuedAreProduction ==
  ASSUME tree \in Trees, PathsAreLeaves(tree), MeetsProduction,
         NEW p \in worklist, NEW r \in Queued(p[1], p[2])
  PROVE  r \in Production \/ (r[1] \in ProductionFiles(tree) /\ tree.decls[r[1]] = {})
<1>1. p \in Production \/ (p[1] \in ProductionFiles(tree) /\ tree.decls[p[1]] = {})
  BY DEF MeetsProduction
<1>2. PICK d \in Collected(p[1]) \ Gated(p[1]) :
        r[1] \in ChildFile(d, p[2]) /\ r = <<r[1], ChildDir(d, p[2])>>
  BY QueuedFacts
<1>3. p[1] \in tree.files
  BY <1>1, ProductionFacts, PositionFacts
<1>4. d \in tree.decls[p[1]] /\ ~TestOnly(d)
  BY <1>2, <1>3, CollectedFacts
<1>5. p \in Production
  BY <1>1, <1>4
<1>6. /\ p \in Positions(tree) /\ Stands(p, d) /\ Named(tree, p, d) \subseteq Production
      /\ d.path # NoPath => \A s \in Named(tree, p, d) : tree.decls[s[1]] = {}
  BY <1>4, <1>5, ProductionFacts, ProductionStands
<1>7. PICK s \in Named(tree, p, d) : s[1] = r[1]
  BY <1>2, <1>4, <1>6, Resolves
<1>8. CASE d.path = NoPath
  <2>1. s = <<s[1], ModulePath(p, d)>> /\ ChildDir(d, p[2]) = ModulePath(p, d)
    BY <1>4, <1>6, <1>8, Resolves
  <2>2. s = r
    BY <1>2, <1>7, <2>1
  <2> QED BY <1>6, <2>2
<1>9. CASE d.path # NoPath
  <2>1. r[1] \in ProductionFiles(tree)
    BY <1>6, <1>7, ProductionFacts
  <2> QED BY <1>6, <1>7, <1>9, <2>1
<1> QED BY <1>8, <1>9

LEMMA VisitWalks ==
  ASSUME IInv, Visit
  PROVE  IInv'
<1>1. PICK p \in worklist :
        /\ worklist' = (worklist \ {p}) \cup Queued(p[1], p[2])
        /\ excludedFiles' = excludedFiles \cup UNION {ChildFile(d, p[2]) : d \in Gated(p[1])}
        /\ excludedDirs' = excludedDirs \cup {ChildDir(d, p[2]) : d \in Gated(p[1])}
  BY DEF Visit
<1>2. tree' = tree /\ pc' = pc /\ pc = "walk" /\ tree \in Trees /\ worklist \subseteq Places
      /\ excludedFiles \subseteq tree.files
  BY DEF Visit, IInv
<1>3. /\ \A f \in excludedFiles' : f \in excludedFiles \/ \E d \in Gated(p[1]) : f \in ChildFile(d, p[2])
      /\ \A dir \in excludedDirs' : dir \in excludedDirs \/ \E d \in Gated(p[1]) : dir = ChildDir(d, p[2])
      /\ excludedFiles \subseteq excludedFiles' /\ excludedDirs \subseteq excludedDirs'
      /\ \A d \in Gated(p[1]) : ChildFile(d, p[2]) \subseteq excludedFiles'
                                /\ ChildDir(d, p[2]) \in excludedDirs'
  BY <1>1
<1>4. worklist' \subseteq Places' /\ excludedFiles' \subseteq tree'.files
  <2>1. worklist' \subseteq Places
    BY <1>1, <1>2, QueuedFacts
  <2>2. excludedFiles' \subseteq tree.files
    BY <1>2, <1>3, ChildFacts
  <2> QED BY <1>2, <2>1, <2>2, Unmoved
<1>5. ASSUME PathsAreLeaves(tree)' PROVE MeetsProduction'
  <2>1. PathsAreLeaves(tree) /\ MeetsProduction
    BY <1>2, <1>5, Unmoved DEF IInv
  <2>2. \A q \in worklist' : q \in Production \/ (q[1] \in ProductionFiles(tree) /\ tree.decls[q[1]] = {})
    <3>1. \A q \in worklist : q \in Production \/ (q[1] \in ProductionFiles(tree) /\ tree.decls[q[1]] = {})
      BY <2>1 DEF MeetsProduction
    <3>2. \A q \in Queued(p[1], p[2]) :
            q \in Production \/ (q[1] \in ProductionFiles(tree) /\ tree.decls[q[1]] = {})
      BY <1>2, <2>1, QueuedAreProduction
    <3> QED BY <1>1, <3>1, <3>2
  <2>3. ASSUME NEW d \in Gated(p[1]) PROVE p \in Production
    <3>1. p \in Production \/ (p[1] \in ProductionFiles(tree) /\ tree.decls[p[1]] = {})
      BY <2>1 DEF MeetsProduction
    <3>2. p[1] \in tree.files
      BY <1>2, <3>1, ProductionFacts, PositionFacts
    <3>3. d \in tree.decls[p[1]]
      BY <1>2, <3>2, CollectedFacts
    <3> QED BY <3>1, <3>3
  <2>4. \A f \in excludedFiles' : \E q \in Production : \E d \in Gated(q[1]) : f \in ChildFile(d, q[2])
    BY <1>3, <2>1, <2>3 DEF MeetsProduction
  <2>5. \A dir \in excludedDirs' : \E q \in Production : \E d \in Gated(q[1]) : dir = ChildDir(d, q[2])
    BY <1>3, <2>1, <2>3 DEF MeetsProduction
  <2>6. /\ Production' = Production /\ ProductionFiles(tree)' = ProductionFiles(tree)
        /\ \A f : Gated(f)' = Gated(f)
        /\ \A d, m : ChildFile(d, m)' = ChildFile(d, m) /\ ChildDir(d, m)' = ChildDir(d, m)
    BY <1>2, Unmoved
  <2> QED BY <1>2, <2>2, <2>4, <2>5, <2>6 DEF MeetsProduction
<1>6. PICK visited \in SUBSET Places : Behind(visited)
  BY DEF IInv
<1> DEFINE further == visited \cup {p}
<1>7. further \in SUBSET Places
  BY <1>2
<1>8. CrateRoot \X {<<>>} \subseteq further \cup worklist'
  BY <1>1, <1>6 DEF Behind
<1>9. ASSUME NEW q \in further
      PROVE  /\ Queued(q[1], q[2]) \subseteq further \cup worklist'
             /\ \A d \in Gated(q[1]) : /\ ChildFile(d, q[2]) \subseteq excludedFiles'
                                       /\ ChildDir(d, q[2]) \in excludedDirs'
  <2>1. CASE q \in visited
    <3>1. /\ Queued(q[1], q[2]) \subseteq visited \cup worklist
          /\ \A d \in Gated(q[1]) : /\ ChildFile(d, q[2]) \subseteq excludedFiles
                                    /\ ChildDir(d, q[2]) \in excludedDirs
      BY <1>6, <2>1 DEF Behind
    <3>2. visited \cup worklist \subseteq further \cup worklist'
      BY <1>1
    <3> HIDE DEF further
    <3> QED BY <1>3, <3>1, <3>2
  <2>2. CASE q = p
    BY <1>1, <1>3, <2>2
  <2> QED BY <2>1, <2>2
<1>10. Behind(further)'
  <2> HIDE DEF further
  <2>1. /\ CrateRoot' = CrateRoot /\ \A f : Gated(f)' = Gated(f)
        /\ \A f, m : Queued(f, m)' = Queued(f, m)
        /\ \A d, m : ChildFile(d, m)' = ChildFile(d, m) /\ ChildDir(d, m)' = ChildDir(d, m)
    BY <1>2, Unmoved
  <2> QED BY <1>8, <1>9, <2>1 DEF Behind
<1>11. \E seen \in SUBSET Places' : Behind(seen)'
  BY <1>2, <1>7, <1>10, Unmoved
<1> QED BY <1>2, <1>4, <1>5, <1>11 DEF IInv

\* The walk ends, or nothing happens.
LEMMA RestWalks ==
  ASSUME IInv, UNCHANGED <<tree, worklist, excludedFiles, excludedDirs>>,
         pc' = pc \/ (pc' = "done" /\ worklist = {})
  PROVE  IInv'
<1>1. /\ Production' = Production /\ Places' = Places /\ CrateRoot' = CrateRoot
      /\ ProductionFiles(tree)' = ProductionFiles(tree)
      /\ PathsAreLeaves(tree)' <=> PathsAreLeaves(tree)
      /\ \A f : Gated(f)' = Gated(f)
      /\ \A f, m : Queued(f, m)' = Queued(f, m)
      /\ \A d, m : ChildFile(d, m)' = ChildFile(d, m) /\ ChildDir(d, m)' = ChildDir(d, m)
  BY Unmoved
<1>2. MeetsProduction' <=> MeetsProduction
  <2>1. tree' = tree /\ worklist' = worklist /\ excludedFiles' = excludedFiles /\ excludedDirs' = excludedDirs
    OBVIOUS
  <2> QED BY <1>1, <2>1 DEF MeetsProduction
<1>3. \A visited : Behind(visited)' <=> Behind(visited)
  BY <1>1 DEF Behind
<1>4. PICK visited \in SUBSET Places : Behind(visited)
  BY DEF IInv
<1>5. \E seen \in SUBSET Places' : Behind(seen)'
  BY <1>1, <1>3, <1>4
<1>6. /\ tree' \in Trees /\ pc' \in {"walk", "done"} /\ worklist' \subseteq Places'
      /\ excludedFiles' \subseteq tree'.files /\ (pc' = "done" => worklist' = {})
  BY <1>1 DEF IInv
<1>7. PathsAreLeaves(tree)' => MeetsProduction'
  BY <1>1, <1>2 DEF IInv
<1> QED BY <1>5, <1>6, <1>7 DEF IInv

\* Where the walk is, what it has recorded and what it still has to visit: the
\* invariant that the two theorems below rest on (modtree.rs test_gated_roots).
THEOREM WalkInductive == Spec => []IInv
<1>1. Init => IInv
  BY InitWalks
<1>2. IInv /\ [Next]_vars => IInv'
  <2> SUFFICES ASSUME IInv, [Next]_vars PROVE IInv'
    OBVIOUS
  <2>1. CASE Visit
    BY <2>1, VisitWalks
  <2>2. CASE Finish
    BY <2>2, RestWalks DEF Finish
  <2>3. CASE UNCHANGED vars
    BY <2>3, RestWalks DEF vars
  <2> QED BY <2>1, <2>2, <2>3 DEF Next, Done
<1> QED BY <1>1, <1>2, PTL DEF Spec

\* Pairs to visit are files of the tree with a directory (modtree.rs
\* test_gated_roots, the worklist).
THEOREM WalkTypeCorrect == Spec => []TypeOK
<1>1. IInv => TypeOK
  <2> SUFFICES ASSUME IInv PROVE TypeOK
    OBVIOUS
  <2>1. tree \in Trees /\ worklist \subseteq Places
    BY DEF IInv
  <2>2. \A f \in CrateRoot : f \in tree.files
    BY DEF CrateRoot
  <2>3. \A p \in Places : \E f \in tree.files : \E m : p = <<f, m>>
    BY <2>2 DEF Places
  <2>4. \A p \in worklist : p[1] \in tree.files /\ DOMAIN p = {1, 2}
    BY <2>1, <2>3
  <2> QED BY <2>4 DEF IInv, TypeOK
<1> QED BY <1>1, WalkInductive, PTL

-----------------------------------------------------------------------------
(* How the walk goes on                                                     *)

\* What a place queues lies below it, or declares nothing.
LEMMA QueuedLieBelow ==
  ASSUME tree \in Trees, PathsAreLeaves(tree), MeetsProduction,
         NEW p \in worklist, NEW r \in Queued(p[1], p[2])
  PROVE  IsStrictPrefix(p[2], r[2]) \/ tree.decls[r[1]] = {}
<1>1. p \in Production \/ (p[1] \in ProductionFiles(tree) /\ tree.decls[p[1]] = {})
  BY DEF MeetsProduction
<1>2. PICK d \in Collected(p[1]) \ Gated(p[1]) :
        r[1] \in ChildFile(d, p[2]) /\ r = <<r[1], ChildDir(d, p[2])>>
  BY QueuedFacts
<1>3. p[1] \in tree.files
  BY <1>1, ProductionFacts, PositionFacts
<1>4. d \in tree.decls[p[1]] /\ ~TestOnly(d)
  BY <1>2, <1>3, CollectedFacts
<1>5. p \in Production
  BY <1>1, <1>4
<1>6. /\ p \in Positions(tree) /\ Stands(p, d)
      /\ d.path # NoPath => \A s \in Named(tree, p, d) : tree.decls[s[1]] = {}
  BY <1>4, <1>5, ProductionFacts, ProductionStands
<1>7. CASE d.path # NoPath
  <2>1. PICK s \in Named(tree, p, d) : s[1] = r[1]
    BY <1>2, <1>4, <1>6, Resolves
  <2> QED BY <1>6, <1>7, <2>1
<1>8. CASE d.path = NoPath
  <2> DEFINE here == p[2] \o d.within
  <2>1. r[2] = ModulePath(p, d)
    BY <1>2, <1>4, <1>6, <1>8, Resolves
  <2>2. /\ p[2] \in Dirs /\ here \in Dirs /\ ModulePath(p, d) = Append(here, d.name)
        /\ d.name \in Names /\ d.within \in Dirs
    BY <1>3, <1>4, <1>6, ModulePathFacts, PositionFacts, TreeFacts
  <2>3. IsPrefix(p[2], here) /\ Len(p[2]) \in Nat /\ Len(here) \in Nat /\ Len(p[2]) <= Len(here)
    <3>1. IsPrefix(p[2], here)
      BY <2>2, BelowItself, BelowJoined
    <3>2. Len(p[2]) \in Nat /\ Len(here) \in Nat
      <4>1. \A m \in Dirs : Len(m) \in Nat
        BY DEF Dirs
      <4> QED BY <2>2, <4>1
    <3>3. Len(p[2]) <= Len(here)
      BY <2>2, <3>1, Below
    <3> QED BY <3>1, <3>2, <3>3
  <2> HIDE DEF here
  <2>4. IsPrefix(p[2], Append(here, d.name))
    BY <2>2, <2>3, Appended, BelowJoined
  <2>5. Len(Append(here, d.name)) = Len(here) + 1
    BY <2>2 DEF Dirs
  <2>6. p[2] # Append(here, d.name)
    BY <2>3, <2>5
  <2> QED BY <2>1, <2>2, <2>4, <2>6 DEF IsStrictPrefix
<1> QED BY <1>7, <1>8

\* No turn of the loop brings back what it took from the worklist: what it
\* queues lies deeper or declares nothing (modtree.rs test_gated_roots,
\* visit_external, which keep no list of what was visited).
THEOREM WalkDescends == Spec => WalkGoesDeeper
<1>1. ASSUME IInv, [Next]_vars, PathsAreLeaves(tree), worklist' # worklist
      PROVE  \E p \in worklist \ worklist' : \A q \in worklist' \ worklist :
                 IsStrictPrefix(p[2], q[2]) \/ tree.decls[q[1]] = {}
  <2>1. Visit
    BY <1>1 DEF Next, Finish, Done, vars
  <2>2. PICK p \in worklist : worklist' = (worklist \ {p}) \cup Queued(p[1], p[2])
    BY <2>1 DEF Visit
  <2>3. tree \in Trees /\ PathsAreLeaves(tree) /\ MeetsProduction
    BY <1>1 DEF IInv
  <2>4. \A q \in Queued(p[1], p[2]) : IsStrictPrefix(p[2], q[2]) \/ tree.decls[q[1]] = {}
    BY <2>3, QueuedLieBelow
  <2>5. p \notin Queued(p[1], p[2])
    <3>1. SUFFICES ASSUME p \in Queued(p[1], p[2]) PROVE FALSE
      OBVIOUS
    <3>2. tree.decls[p[1]] = {}
      BY <2>4, <3>1 DEF IsStrictPrefix
    <3>3. Collected(p[1]) = {}
      BY <3>2 DEF Collected
    <3> QED BY <3>1, <3>3, <2>3, QueuedFacts
  <2>6. p \in worklist \ worklist'
    BY <2>2, <2>5
  <2>7. \A q \in worklist' \ worklist : q \in Queued(p[1], p[2])
    BY <2>2
  <2> QED BY <2>4, <2>6, <2>7
<1> QED BY <1>1, WalkInductive, PTL DEF Spec, WalkGoesDeeper

-----------------------------------------------------------------------------
(* What the finished walk excludes                                          *)

\* What the scanner skips, no production build compiles: for every tree that
\* declares each module once and keeps its tests apart (modtree.rs
\* test_gated_roots).
THEOREM ProductionIsAudited == Spec => []NoProductionExcluded
<1>1. IInv => NoProductionExcluded
  <2> SUFFICES ASSUME IInv, Apart, NEW f \in ProductionFiles(tree), IsExcluded(f) PROVE FALSE
    BY DEF NoProductionExcluded, Apart
  <2>1. tree \in Trees /\ MeetsProduction
    BY DEF IInv, Apart
  <2>2. PICK g \in Production : g[1] = f
    BY <2>1, ProductionFacts
  <2>3. Free(g)
    BY <2>1, ProductionIsFree
  <2>4. \A p \in Production : \A d \in Gated(p[1]) :
          f \notin ChildFile(d, p[2]) /\ ~IsPrefix(ChildDir(d, p[2]), f.dir)
    <3>1. \A p \in Production : p[1] \in tree.files
      BY <2>1, ProductionFacts, PositionFacts
    <3>2. \A p \in Production : \A d \in Gated(p[1]) : d \in tree.decls[p[1]] /\ TestOnly(d)
      BY <2>1, <3>1, CollectedFacts
    <3> QED BY <2>2, <2>3, <3>2 DEF Free
  <2> QED BY <2>1, <2>4 DEF IsExcluded, MeetsProduction
<1> QED BY <1>1, WalkInductive, PTL

\* A declared file lies below the directory it is declared in.
LEMMA ChildrenLieBelow ==
  ASSUME tree \in Trees, NEW p \in Positions(tree), NEW d \in tree.decls[p[1]], Stands(p, d),
         NEW r \in Named(tree, p, d)
  PROVE  /\ r[1].dir \in Dirs
         /\ \A m \in Dirs : IsPrefix(m, p[2]) => IsPrefix(m, r[1].dir)
         /\ \A m \in Dirs : IsPrefix(m, p[2]) => IsPrefix(m, ModulePath(p, d))
<1> DEFINE here == p[2] \o d.within
<1>1. /\ here \in Dirs /\ ModulePath(p, d) = Append(here, d.name) /\ p[1] \in tree.files
      /\ p[2] \in Dirs /\ d.within \in Dirs /\ d.name \in Names /\ d.path.dir \in Dirs
  BY ModulePathFacts, PositionFacts, TreeFacts
<1>2. ModulePath(p, d) = here \o <<d.name>> /\ <<d.name>> \in Dirs
  BY <1>1, Appended
<1>3. \A m \in Dirs : IsPrefix(m, p[2]) => IsPrefix(m, here)
  BY <1>1, BelowJoined
<1> HIDE DEF here
<1>4. \A u \in Dirs : here \o u \in Dirs
                      /\ \A m \in Dirs : IsPrefix(m, p[2]) => IsPrefix(m, here \o u)
  BY <1>1, <1>3, BelowJoined, JoinedDirs
<1>5. r[1].dir = here \/ r[1].dir = ModulePath(p, d) \/ r[1].dir = here \o d.path.dir
  <2> DEFINE flat == File(here, d.name)
             nested == File(Append(here, d.name), "mod")
             given == File(here \o d.path.dir, d.path.stem)
  <2>1. flat.dir = here /\ nested.dir = ModulePath(p, d) /\ given.dir = here \o d.path.dir
    BY <1>1 DEF File
  <2>2. CASE d.path = NoPath
    <3>1. Named(tree, p, d) = IF flat \in tree.files THEN {<<flat, Home(flat)>>}
                              ELSE {<<f, Home(f)>> : f \in {nested} \cap tree.files}
      BY <2>2 DEF Named, here
    <3> HIDE DEF flat, nested, given
    <3>2. r[1] = flat \/ r[1] = nested
      BY <3>1
    <3> QED BY <2>1, <3>2
  <2>3. CASE d.path # NoPath
    <3>1. (IF d.within = <<>> THEN p[1].dir ELSE here) = here
      <4>1. d.within = <<>> => p[1].dir = p[2] /\ here = p[2]
        BY <1>1, <2>3 DEF Stands, here, Dirs
      <4> QED BY <4>1
    <3>2. Named(tree, p, d) = {<<f, f.dir>> : f \in {given} \cap tree.files}
      BY <2>3, <3>1 DEF Named, here
    <3> HIDE DEF flat, nested, given
    <3>3. r[1] = given
      BY <3>2
    <3> QED BY <2>1, <3>3
  <2> QED BY <2>2, <2>3
<1> QED BY <1>1, <1>2, <1>3, <1>4, <1>5

\* A position whose file is excluded, with the directory its declarations
\* stand in.
Covered(p) ==
    /\ IsExcluded(p[1])
    /\ tree.decls[p[1]] = {} \/ \E dir \in excludedDirs : IsPrefix(dir, p[2])

Regular == PathsAreLeaves(tree) /\ OneRoot(tree) /\ AllParse(tree) /\ NothingSealed(tree)

LEMMA AllCollected ==
  ASSUME tree \in Trees, Regular, NEW f \in tree.files
  PROVE  /\ Collected(f) = tree.decls[f]
         /\ \A d \in tree.decls[f] : d \in Gated(f) <=> TestOnly(d)
<1>1. Collected(f) = tree.decls[f] /\ \A d \in tree.decls[f] : ~d.sealed
  BY DEF Regular, AllParse, NothingSealed, Collected
<1> QED BY <1>1 DEF Gated, TestOnly

\* The walk visits every production position that declares something.
LEMMA ProductionIsVisited ==
  ASSUME tree \in Trees, Regular, worklist = {}, NEW visited \in SUBSET Places, Behind(visited),
         NEW g \in Production, tree.decls[g[1]] # {}
  PROVE  g \in visited
<1> DEFINE S == {p \in Production : p \in visited \/ tree.decls[p[1]] = {}}
<1>1. Roots(tree) \subseteq S
  BY PlacesFacts, ProductionFacts DEF Regular, Behind
<1>2. ASSUME NEW p \in S, NEW d \in tree.decls[p[1]], ~TestOnly(d), NEW r \in Named(tree, p, d)
      PROVE  r \in S
  <2>1. p \in Production /\ p \in visited /\ p \in Positions(tree) /\ Stands(p, d) /\ p[1] \in tree.files
    BY ProductionFacts, ProductionStands, PositionFacts DEF Regular
  <2>2. r \in Production
    BY <1>2, <2>1, ProductionFacts
  <2>3. CASE d.path = NoPath
    <3>1. r[1] \in ChildFile(d, p[2]) /\ r = <<r[1], ChildDir(d, p[2])>>
      <4>1. r = <<r[1], ModulePath(p, d)>> /\ ChildDir(d, p[2]) = ModulePath(p, d)
            /\ r[1] \in ChildFile(d, p[2])
        BY <2>1, <2>3, Resolves
      <4> QED BY <4>1
    <3>2. d \in Collected(p[1]) \ Gated(p[1])
      BY <1>2, <2>1, AllCollected
    <3>3. <<r[1], ChildDir(d, p[2])>> \in Queued(p[1], p[2])
      BY <3>1, <3>2, QueuedFacts
    <3>4. r \in visited
      BY <2>1, <3>1, <3>3 DEF Behind
    <3> QED BY <2>2, <3>4
  <2>4. CASE d.path # NoPath
    BY <2>1, <2>2, <2>4, ProductionStands DEF Regular
  <2> QED BY <2>3, <2>4
<1>3. S \subseteq Positions(tree)
  BY ProductionFacts
<1>4. Production \subseteq S
  <2> HIDE DEF S
  <2> QED BY <1>1, <1>2, <1>3, CompiledLeast DEF Production
<1> QED BY <1>4

\* From what is production or covered, only such positions are declared.
LEMMA ChildrenAreCovered ==
  ASSUME tree \in Trees, Regular, MeetsProduction, worklist = {},
         NEW visited \in SUBSET Places, Behind(visited),
         NEW p \in CompiledPositions(tree, TRUE), p \in Production \/ Covered(p),
         NEW d \in tree.decls[p[1]], NEW r \in Named(tree, p, d)
  PROVE  r \in Production \/ Covered(r)
<1>1. p \in Positions(tree) /\ p[1] \in tree.files
  BY CompiledLeast, PositionFacts
<1>2. Stands(p, d) /\ (d.path # NoPath => tree.decls[r[1]] = {})
  BY DEF Regular, PathsAreLeaves, Stands
<1>3. /\ r[1] \in ChildFile(d, p[2]) /\ ChildDir(d, p[2]) \in Dirs
      /\ d.path = NoPath => r[2] = ModulePath(p, d) /\ ChildDir(d, p[2]) = ModulePath(p, d)
  <2>1. /\ r[1] \in ChildFile(d, p[2]) /\ ChildDir(d, p[2]) \in Dirs
        /\ d.path = NoPath => r = <<r[1], ModulePath(p, d)>> /\ ChildDir(d, p[2]) = ModulePath(p, d)
    BY <1>1, <1>2, Resolves
  <2> QED BY <2>1
<1>4. CASE p \in Production /\ ~TestOnly(d)
  BY <1>4, ProductionFacts
<1>5. CASE p \in Production /\ TestOnly(d)
  <2>1. p \in visited
    BY <1>5, ProductionIsVisited
  <2>2. d \in Gated(p[1])
    BY <1>1, <1>5, AllCollected
  <2>3. r[1] \in excludedFiles /\ ChildDir(d, p[2]) \in excludedDirs
    BY <1>3, <2>1, <2>2 DEF Behind
  <2>4. d.path = NoPath => IsPrefix(ChildDir(d, p[2]), r[2])
    BY <1>3, BelowItself
  <2> QED BY <1>2, <2>3, <2>4 DEF Covered, IsExcluded
<1>6. CASE Covered(p)
  <2>1. PICK dir \in excludedDirs : IsPrefix(dir, p[2])
    BY <1>6 DEF Covered
  <2>2. dir \in Dirs
    <3>1. PICK q \in Production : \E e \in Gated(q[1]) : dir = ChildDir(e, q[2])
      BY DEF MeetsProduction
    <3>2. PICK e \in Gated(q[1]) : dir = ChildDir(e, q[2])
      BY <3>1
    <3>3. q \in Positions(tree) /\ q[1] \in tree.files
      BY ProductionFacts, PositionFacts
    <3>4. e \in tree.decls[q[1]]
      BY <3>3, CollectedFacts
    <3>5. Stands(q, e)
      BY <3>4, ProductionStands DEF Regular
    <3> QED BY <3>2, <3>3, <3>4, <3>5, Resolves
  <2>3. IsPrefix(dir, r[1].dir) /\ IsPrefix(dir, ModulePath(p, d))
    BY <1>1, <1>2, <2>1, <2>2, ChildrenLieBelow
  <2> QED BY <1>2, <1>3, <2>3 DEF Covered, IsExcluded
<1> QED BY <1>4, <1>5, <1>6

\* What only a test build compiles, the scanner skips: for every tree with one
\* crate root, files that parse, nothing declared inside a test-only inline
\* module or behind a #[path] (modtree.rs test_gated_roots, visit_external).
THEOREM TestsAreExcluded == Spec => []TestSubtreesExcluded
<1>1. IInv => TestSubtreesExcluded
  <2> SUFFICES ASSUME IInv, pc = "done", Regular, NEW f \in TestOnlyFiles(tree) PROVE IsExcluded(f)
    BY DEF TestSubtreesExcluded, Regular
  <2>1. tree \in Trees /\ MeetsProduction /\ worklist = {}
    BY DEF IInv, Regular
  <2>2. PICK visited \in SUBSET Places : Behind(visited)
    BY DEF IInv
  <2> DEFINE all == CompiledPositions(tree, TRUE)
             T == {p \in all : p \in Production \/ Covered(p)}
  <2>3. Roots(tree) \subseteq T
    BY <2>1, ProductionFacts
  <2>4. /\ all \subseteq Positions(tree)
        /\ \A p \in all : \A d \in tree.decls[p[1]] : Named(tree, p, d) \subseteq all
    BY <2>1, CompiledLeast
  <2>5. ASSUME NEW p \in T, NEW d \in tree.decls[p[1]], NEW r \in Named(tree, p, d)
        PROVE  r \in T
    <3>1. r \in all
      BY <2>4, <2>5
    <3>2. r \in Production \/ Covered(r)
      BY <2>1, <2>2, <2>5, ChildrenAreCovered
    <3> QED BY <3>1, <3>2
  <2>6. all \subseteq T
    <3>1. T \subseteq Positions(tree)
      BY <2>4
    <3> HIDE DEF T
    <3> QED BY <2>1, <2>3, <2>5, <3>1, CompiledLeast
  <2>7. PICK p \in all : p[1] = f
    BY DEF TestOnlyFiles, Compiled
  <2>8. p \notin Production
    BY <2>1, <2>7, ProductionFacts DEF TestOnlyFiles, ProductionFiles
  <2> QED BY <2>6, <2>7, <2>8 DEF Covered
<1> QED BY <1>1, WalkInductive, PTL

=============================================================================
