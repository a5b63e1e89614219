----------------------------- MODULE ScanProofs -----------------------------
(***************************************************************************)
(* Proofs about Scan, for every set of files: of the effects Owed lists    *)
(* none is left out, and but for borrowed names none is made up, however   *)
(* deep it is nested.                                                      *)
(***************************************************************************)
EXTENDS Scan, WellFoundedInduction, TLAPS

SafeInv == file \in Files /\ IInv

-----------------------------------------------------------------------------
(* Every nonempty set of numbers has a least element                        *)

NatLess == OpToRel(<, Nat)

LEMMA NatLessIs == \A x, y \in Nat : x < y => <<x, y>> \in NatLess
  BY Zenon DEF NatLess, OpToRel

LEMMA NatLessWF == IsWellFoundedOn(NatLess, Nat)
  BY NatLessThanWellFounded, Zenon DEF NatLess

LEMMA LeastNat ==
  ASSUME NEW S, S \subseteq Nat, S # {}
  PROVE  \E m \in S : \A k \in S : m <= k
<1>1. PICK m \in S : \A y \in S : ~(<<y, m>> \in NatLess)
  BY NatLessWF, WFMin, Zenon
<1>2. \A k \in S : ~(k < m)
  BY <1>1, NatLessIs, Zenon
<1> QED BY <1>2, SMT

-----------------------------------------------------------------------------
(* The syntax tree: chains, and the way from a construct to one inside it   *)

\* What the assumption says of the file at hand.
LEMMA NodeFacts ==
  ASSUME file \in Files
  PROVE  \A n \in Nodes :
           /\ n \in Nat \ {0}
           /\ Node(n).up \in {0} \cup Nodes /\ Node(n).up < n
           /\ Node(n).chain = {n} \cup IF Node(n).up = 0 THEN {} ELSE Node(Node(n).up).chain
           /\ Node(n).up # 0 => Node(Node(n).up).form # "use"
           /\ WellFormed(Node(n))
  BY FilesAssumption, Zenon DEF Nodes, Node

\* Around a construct stand constructs that begin no later than it does.
LEMMA ChainBelow ==
  ASSUME file \in Files
  PROVE  \A n \in Nodes : n \in Node(n).chain /\ \A m \in Node(n).chain : m \in Nodes /\ m <= n
<1> DEFINE Good(n) == n \in Node(n).chain /\ \A m \in Node(n).chain : m \in Nodes /\ m <= n
           Bad == {n \in Nodes : ~Good(n)}
<1>1. SUFFICES ASSUME Bad # {} PROVE FALSE
  OBVIOUS
<1>2. Bad \subseteq Nat /\ Nodes \subseteq Nat
  BY NodeFacts
<1>3. PICK n \in Bad : \A k \in Bad : n <= k
  BY <1>1, <1>2, LeastNat
<1> HIDE DEF Good
<1>4. \A k \in Nodes : k < n => Good(k)
  BY <1>2, <1>3
<1>5. Good(n)
  <2>1. CASE Node(n).up = 0
    BY <1>3, <2>1, NodeFacts DEF Good
  <2>2. CASE Node(n).up # 0
    <3> DEFINE p == Node(n).up
    <3>1. p \in Nodes /\ p < n /\ Node(n).chain = {n} \cup Node(p).chain
      BY <1>3, <2>2, NodeFacts
    <3> HIDE DEF p
    <3>2. \A m \in Node(p).chain : m \in Nodes /\ m <= p
      BY <3>1, <1>4 DEF Good
    <3>3. p \in Nat /\ n \in Nat /\ \A m \in Nodes : m \in Nat
      BY <1>2, <1>3, <3>1
    <3>4. ASSUME NEW m \in Node(p).chain PROVE m \in Nodes /\ m <= n
      <4>1. m \in Nodes /\ m \in Nat /\ m <= p
        BY <3>2, <3>3
      <4> QED BY <3>1, <3>3, <4>1
    <3> QED BY <3>1, <3>3, <3>4, <1>3 DEF Good
  <2> QED BY <2>1, <2>2
<1> QED BY <1>3, <1>5

\* Around the outermost constructs there is nothing.
LEMMA AroundTop ==
  ASSUME file \in Files, NEW k \in Top
  PROVE  k \in Nodes /\ Around(k) = {} /\ Node(k).chain = {k}
  BY NodeFacts DEF Top, Kids, Around

\* What is around a construct is its parent and what is around that.
LEMMA AroundKid ==
  ASSUME file \in Files, NEW n \in Nodes, NEW k \in Kids(n)
  PROVE  k \in Nodes /\ Around(k) = Node(n).chain /\ Node(n).form # "use"
<1>1. k \in Nodes /\ Node(k).up = n /\ n # 0 /\ n < k /\ Node(k).chain = {k} \cup Node(n).chain
      /\ k \in Nat /\ n \in Nat /\ Node(n).form # "use"
  BY NodeFacts DEF Kids
<1>2. \A m \in Node(n).chain : m \in Nat /\ m <= n
  BY ChainBelow, NodeFacts
<1> QED BY <1>1, <1>2 DEF Around

\* The way down: some child of what is around a construct leads to it ...
LEMMA WayDown ==
  ASSUME file \in Files
  PROVE  \A n \in Nodes : \A m \in Around(n) : \E k \in Kids(m) : k \in Node(n).chain
<1> DEFINE Good(n) == \A m \in Around(n) : \E k \in Kids(m) : k \in Node(n).chain
           Bad == {n \in Nodes : ~Good(n)}
<1>1. SUFFICES ASSUME Bad # {} PROVE FALSE
  OBVIOUS
<1>2. Bad \subseteq Nat /\ Nodes \subseteq Nat
  BY NodeFacts
<1>3. PICK n \in Bad : \A k \in Bad : n <= k
  BY <1>1, <1>2, LeastNat
<1> HIDE DEF Good
<1>4. \A k \in Nodes : k < n => Good(k)
  BY <1>2, <1>3
<1>5. Good(n)
  <2>1. CASE Node(n).up = 0
    BY <1>3, <2>1, NodeFacts DEF Good, Around
  <2>2. CASE Node(n).up # 0
    <3> DEFINE p == Node(n).up
    <3>1. p \in Nodes /\ p < n /\ Node(n).chain = {n} \cup Node(p).chain /\ n \in Kids(p)
      BY <1>3, <2>2, NodeFacts DEF Kids
    <3> HIDE DEF p
    <3>2. Good(p)
      BY <3>1, <1>4
    <3>3. ASSUME NEW m \in Around(n) PROVE \E k \in Kids(m) : k \in Node(n).chain
      <4>1. CASE m = p
        BY <3>1, <4>1
      <4>2. CASE m # p
        <5>1. m \in Around(p)
          BY <3>1, <3>3, <4>2 DEF Around
        <5> QED BY <5>1, <3>1, <3>2 DEF Good
      <4> QED BY <4>1, <4>2
    <3> QED BY <3>3 DEF Good
  <2> QED BY <2>1, <2>2
<1> QED BY <1>3, <1>5

\* ... and it starts at an outermost construct.
LEMMA WayIn ==
  ASSUME file \in Files
  PROVE  \A n \in Nodes : \E k \in Top : k \in Node(n).chain
<1> DEFINE Good(n) == \E k \in Top : k \in Node(n).chain
           Bad == {n \in Nodes : ~Good(n)}
<1>1. SUFFICES ASSUME Bad # {} PROVE FALSE
  OBVIOUS
<1>2. Bad \subseteq Nat /\ Nodes \subseteq Nat
  BY NodeFacts
<1>3. PICK n \in Bad : \A k \in Bad : n <= k
  BY <1>1, <1>2, LeastNat
<1> HIDE DEF Good
<1>4. \A k \in Nodes : k < n => Good(k)
  BY <1>2, <1>3
<1>5. Good(n)
  <2>1. CASE Node(n).up = 0
    BY <1>3, <2>1, NodeFacts DEF Good, Top, Kids
  <2>2. CASE Node(n).up # 0
    <3>1. Node(n).up \in Nodes /\ Node(n).up < n /\ Node(n).chain = {n} \cup Node(Node(n).up).chain
      BY <1>3, <2>2, NodeFacts
    <3> QED BY <3>1, <1>4 DEF Good
  <2> QED BY <2>1, <2>2
<1> QED BY <1>3, <1>5

-----------------------------------------------------------------------------
(* What looking at one construct does to the invariant                      *)

\* A line that is suppressed is excused, and if the file lexes the other way round.
LEMMA SuppressionIsExcused ==
  ASSUME SuppressedIsExcused, NEW line, IsSuppressed(suppressed, line)
  PROVE  Excused(line)
  BY DEF SuppressedIsExcused, IsSuppressed, Excused, Directive

LEMMA ExcuseSuppresses ==
  ASSUME SuppressedIsExcused, pc # "start", file.lexes, NEW line \in Nat \ {0}, Excused(line)
  PROVE  IsSuppressed(suppressed, line)
<1>1. PICK m \in file.markers :
         m.where = "comment" /\ m.reason = "given" /\ m.line \in {line, line - 1}
  BY DEF Excused
<1>2. m.line \in suppressed
  BY <1>1 DEF SuppressedIsExcused, Directive
<1> QED BY <1>1, <1>2 DEF IsSuppressed

\* A name that a `use` of its module gives it is among the aliases gathered.
LEMMA NameIsGathered ==
  ASSUME UsesAreGathered, pc = "done", NEW n \in Nodes, NEW u \in Nodes, AtModuleLevel(u)
  PROVE  /\ Resolves(u, n, "clock") => Node(n).name \in aliases.clock
         /\ Resolves(u, n, "hash") => Node(n).name \in aliases.hash
<1>1. \A type : Resolves(u, n, type) =>
         /\ InProduction(u) /\ Node(u).form = "use"
         /\ \E l \in Node(u).leaves : l.type = type /\ l.alias = Node(n).name /\ l.alias # NoAlias
  BY DEF Resolves, Binds, Renames
<1>2. InProduction(u) /\ Node(u).form = "use" => Gathered(u)
  BY DEF UsesAreGathered
<1> QED BY <1>1, <1>2 DEF Gathered

\* What a construct owes is among the kinds recorded for it.
LEMMA OwedIsAKind ==
  ASSUME file \in Files, UsesAreGathered, pc = "done", NEW n \in Nodes, NEW kind \in Owed(n)
  PROVE  kind \in Kinds(n) \/ (kind = "hash-iteration" /\ IsNowCall(n) /\ "clock" \in Kinds(n))
<1> DEFINE Unnamed == Node(n).effect = "pure"
           Alias(type) == \E u \in Nodes : AtModuleLevel(u) /\ Resolves(u, n, type)
<1>0. WellFormed(Node(n))
  BY NodeFacts
<1>1. CASE kind \in Own(n) /\ (Node(n).form = "trait method" => kind # "async-runtime")
  <2>1. CASE kind = Node(n).effect /\ kind # "pure"
    BY <1>0, <2>1 DEF WellFormed, Kinds, PathKinds
  <2>2. CASE kind # "pure" /\ \E l \in Node(n).leaves : kind = l.effect
    BY <1>0, <2>2 DEF WellFormed, Kinds, LeafKinds
  <2>3. CASE kind = "async-runtime" /\ strict /\ Node(n).async
    BY <1>0, <1>1, <2>3 DEF WellFormed, Kinds
  <2> QED BY <1>1, <2>1, <2>2, <2>3 DEF Own
<1>2. CASE kind = "clock" /\ Unnamed /\ IsNowCall(n) /\ Alias("clock")
  <2>1. Node(n).name \in aliases.clock
    BY <1>2, NameIsGathered
  <2> QED BY <1>2, <2>1 DEF IsNowCall, Kinds, PathKinds
<1>3. CASE kind = "hash-iteration" /\ strict
             /\ \E l \in Node(n).leaves : l.effect = "pure" /\ l.type = "hash"
  <2>1. PICK l \in Node(n).leaves : l.effect = "pure" /\ l.type = "hash"
    BY <1>3
  <2>2. kind \in LeafKinds(l)
    BY <1>3, <2>1 DEF LeafKinds
  <2>3. Node(n).form = "use"
    BY <1>0, <2>1 DEF WellFormed
  <2>4. Kinds(n) = UNION {LeafKinds(leaf) : leaf \in Node(n).leaves}
    BY <2>3 DEF Kinds
  <2> QED BY <2>1, <2>2, <2>4
<1>4. CASE kind = "hash-iteration" /\ Unnamed /\ MayNameHash(n) /\ (Node(n).hash \/ Alias("hash"))
  <2>1. Node(n).hash \/ Node(n).name \in aliases.hash
    BY <1>4, NameIsGathered
  <2>2. CASE Node(n).form = "type"
    BY <1>4, <2>1, <2>2 DEF MayNameHash, Kinds, TypeKinds
  <2>3. CASE Node(n).form = "path"
    BY <1>4, <2>1, <2>3 DEF MayNameHash, IsNowCall, Kinds, PathKinds
  <2> QED BY <1>4, <2>2, <2>3 DEF MayNameHash
<1> QED BY <1>1, <1>2, <1>3, <1>4 DEF Owed

\* What is recorded for a construct, the construct does, or its name is borrowed;
\* and its line is not suppressed.
LEMMA RecordedIsDone ==
  ASSUME file \in Files, AliasesAreOfUses, NEW n \in Nodes, NEW f \in Recorded(n)
  PROVE  /\ f.node = n /\ f.line \in Nat \ {0} /\ ~IsSuppressed(suppressed, f.line)
         /\ Does(n, f.kind, f.line) \/ (Borrowed(n, f.kind) /\ f.line = Node(n).line)
<1>0. {Node(n).line} \cup Node(n).boxed \subseteq Nat \ {0}
  BY NodeFacts DEF WellFormed
<1>1. CASE \E kind \in Kinds(n) : f = Finding(kind, Node(n).line, n)
  <2>1. PICK kind \in Kinds(n) : f = Finding(kind, Node(n).line, n)
    BY <1>1
  <2>2. f.node = n /\ f.kind = kind /\ f.line = Node(n).line
    BY <2>1 DEF Finding
  <2>3. kind \in Own(n) \/ (kind = "hash-iteration" /\ NamesHash(n)) \/ Borrowed(n, kind)
    <3>1. CASE Node(n).form = "use"
      BY <2>1, <3>1 DEF Kinds, LeafKinds, Own, NamesHash
    <3>2. CASE Node(n).form = "path"
      BY <2>1, <3>2 DEF Kinds, PathKinds, Own, NamesHash, MayNameHash, IsNowCall, Borrowed,
                        AliasesAreOfUses
    <3>3. CASE Node(n).form = "type"
      BY <2>1, <3>3 DEF Kinds, TypeKinds, NamesHash, MayNameHash, Borrowed, AliasesAreOfUses
    <3>4. CASE Node(n).form \notin {"use", "path", "type"}
      BY <2>1, <3>4 DEF Kinds, Own
    <3> QED BY <3>1, <3>2, <3>3, <3>4
  <2>4. Does(n, kind, Node(n).line) \/ Borrowed(n, kind)
    BY <2>3 DEF Does
  <2> QED BY <1>0, <2>2, <2>4 DEF Recorded
<1>2. CASE \E line \in Node(n).boxed : f = Finding("mandated-boxing", line, n)
  <2>1. f.node = n /\ f.kind = "mandated-boxing" /\ f.line \in Node(n).boxed
    BY <1>2 DEF Finding
  <2> QED BY <1>0, <2>1 DEF Does, Recorded
<1> QED BY <1>1, <1>2 DEF Recorded

\* What a construct does is a matter of the file and of --strict alone.
LEMMA ReferenceFixed ==
  ASSUME UNCHANGED <<file, strict>>, NEW n, NEW kind, NEW line
  PROVE  /\ Does(n, kind, line)' <=> Does(n, kind, line)
         /\ Borrowed(n, kind)' <=> Borrowed(n, kind)
         /\ Sealed(n)' <=> Sealed(n)
         /\ Excused(line)' <=> Excused(line)
<1>1. \A u, type : Resolves(u, n, type)' <=> Resolves(u, n, type)
  BY DEF Resolves, Binds, InProduction, InScope, Renames, Around, Nodes, Node
<1>2. \A type : IsAlias(Node(n).name, type)' <=> IsAlias(Node(n).name, type)
  BY DEF IsAlias, Renames, AtModuleLevel, Ungated, Around, Nodes, Node
<1>3. Own(n)' = Own(n) /\ (NamesHash(n)' <=> NamesHash(n))
      /\ (MayNameHash(n)' <=> MayNameHash(n)) /\ (IsNowCall(n)' <=> IsNowCall(n))
  BY DEF Own, NamesHash, MayNameHash, IsNowCall, Node
<1>4. Does(n, kind, line)' <=> Does(n, kind, line)
  BY <1>1, <1>3 DEF Does, Nodes, Node
<1>5. Borrowed(n, kind)' <=> Borrowed(n, kind)
  BY <1>2, <1>3 DEF Borrowed
<1> QED BY <1>4, <1>5 DEF Sealed, Excused, Around, Node

-----------------------------------------------------------------------------
(* Type correctness and the ways the walks go                               *)

LEMMA InitSafe == Init => SafeInv
  BY DEF Init, SafeInv, IInv, TypeOK, TodoIsLawful, AliasesAreOfUses, SuppressedIsExcused,
         NothingElseInvented, UsesAreGathered, NodesAreVisited

\* Looking at something else leaves what is ahead ahead.
LEMMA StillAhead ==
  ASSUME UNCHANGED file, NEW n, Ahead(n), NEW m, todo \ {m} \subseteq todo', m \notin Node(n).chain
  PROVE  Ahead(n)'
  BY DEF Ahead, Node

\* Opening what is around a construct leaves it ahead.
LEMMA AheadInside ==
  ASSUME file \in Files, UNCHANGED file, NEW n \in Nodes, NEW m \in Around(n), Kids(m) \subseteq todo'
  PROVE  Ahead(n)'
<1>1. PICK k \in Kids(m) : k \in Node(n).chain
  BY WayDown
<1> QED BY <1>1 DEF Ahead, Node

\* What a construct records depends on neither the walk nor the findings.
LEMMA RecordedStays ==
  ASSUME UNCHANGED <<file, strict, suppressed, aliases>>, NEW n
  PROVE  Recorded(n)' = Recorded(n)
<1>1. Kinds(n)' = Kinds(n)
  BY DEF Kinds, LeafKinds, PathKinds, TypeKinds, Node
<1> QED BY <1>1 DEF Recorded, Node

\* The walks start with every construct ahead.
LEMMA AllAhead ==
  ASSUME file \in Files, UNCHANGED file, todo' = Top, NEW n \in Nodes
  PROVE  Ahead(n)'
<1>1. PICK k \in Top : k \in Node(n).chain
  BY WayIn
<1> QED BY <1>1 DEF Ahead, Node

\* What does not depend on the walk's progress.
LEMMA FixedParts ==
  ASSUME SafeInv, UNCHANGED <<file, strict>>
  PROVE  /\ (file \in Files)'
         /\ UNCHANGED found => NothingElseInvented'
         /\ UNCHANGED suppressed /\ (pc' # "start" => pc # "start") => SuppressedIsExcused'
         /\ UNCHANGED aliases => AliasesAreOfUses'
<1> USE DEF SafeInv, IInv
<1>1. UNCHANGED suppressed /\ (pc' # "start" => pc # "start") => SuppressedIsExcused'
  BY DEF SuppressedIsExcused
<1>2. UNCHANGED aliases => AliasesAreOfUses'
  BY DEF AliasesAreOfUses, IsAlias, Renames, AtModuleLevel, Ungated, Around, Nodes, Node
<1>3. UNCHANGED found => NothingElseInvented'
  BY ReferenceFixed DEF NothingElseInvented, Node
<1> QED BY <1>1, <1>2, <1>3

LEMMA ReadMarkersSafe == SafeInv /\ ReadMarkers => SafeInv'
<1> SUFFICES ASSUME SafeInv, ReadMarkers PROVE SafeInv'
  OBVIOUS
<1> USE DEF SafeInv, IInv
<1>1. UNCHANGED <<file, strict, aliases, found>> /\ todo' = Top /\ pc' = "aliases"
  BY DEF ReadMarkers
<1>2. TypeOK'
  BY <1>1 DEF TypeOK, Top, Kids, Nodes
<1>3. TodoIsLawful'
  BY <1>1, AroundTop DEF TodoIsLawful, AtModuleLevel, Ungated, Around, Node
<1>4. SuppressedIsExcused'
  BY DEF ReadMarkers, SuppressedIsExcused, SuppressedLines
<1>5. AliasesAreOfUses' /\ NothingElseInvented'
  BY <1>1, FixedParts
<1>6. UsesAreGathered'
  BY <1>1, AllAhead DEF UsesAreGathered, Nodes
<1>7. NodesAreVisited'
  BY <1>1 DEF NodesAreVisited
<1> QED BY <1>1, <1>2, <1>3, <1>4, <1>5, <1>6, <1>7

LEMMA GatherUseSafe == ASSUME SafeInv, NEW n \in Nodes, GatherUse(n) PROVE SafeInv'
<1> USE DEF SafeInv, IInv
<1>1. /\ UNCHANGED <<file, strict, pc, suppressed, found>>
      /\ pc = "aliases" /\ n \in todo /\ todo' = todo \ {n} /\ Node(n).form = "use"
  BY DEF GatherUse
<1> DEFINE Renamed(type) ==
             {l.alias : l \in {k \in Node(n).leaves : k.type = type /\ k.alias # NoAlias}}
<1>2. aliases' = [clock |-> aliases.clock \cup Renamed("clock"),
                  hash |-> aliases.hash \cup Renamed("hash")]
  BY DEF GatherUse
<1>3. /\ aliases.clock \subseteq aliases'.clock /\ aliases.hash \subseteq aliases'.hash
      /\ aliases'.clock = aliases.clock \cup Renamed("clock")
      /\ aliases'.hash = aliases.hash \cup Renamed("hash")
  BY <1>2
<1>4. TypeOK'
  BY <1>1 DEF TypeOK, Nodes
<1>5. TodoIsLawful'
  BY <1>1 DEF TodoIsLawful, AtModuleLevel, Ungated, Around, Node
<1>6. AliasesAreOfUses'
  <2>1. AtModuleLevel(n) /\ Ungated(n)
    BY <1>1 DEF TodoIsLawful
  <2>2. \A type : \A name \in Renamed(type) : Renames(n, type, name)
    BY <1>1 DEF Renames
  <2> HIDE DEF Renamed
  <2>3. /\ \A name \in aliases'.clock : IsAlias(name, "clock")
        /\ \A name \in aliases'.hash : IsAlias(name, "hash")
    BY <1>3, <2>1, <2>2 DEF AliasesAreOfUses, IsAlias
  <2> QED BY <2>3, <1>1 DEF AliasesAreOfUses, IsAlias, Renames, AtModuleLevel, Ungated, Around,
                            Nodes, Node
<1>7. UsesAreGathered'
  <2> SUFFICES ASSUME NEW u \in Nodes, Node(u).form = "use", AtModuleLevel(u), InProduction(u)
               PROVE  Ahead(u)' \/ Gathered(u)'
    BY <1>1 DEF UsesAreGathered, Nodes, Node, AtModuleLevel, Around, InProduction
  <2>1. CASE u = n
    <3>1. \A l \in Node(u).leaves : l.alias # NoAlias => l.alias \in Renamed(l.type)
      BY <2>1
    <3> HIDE DEF Renamed
    <3> QED BY <3>1, <1>1, <1>3 DEF Gathered, Node
  <2>2. CASE u # n
    <3>1. n \notin Node(u).chain
      BY <1>1, <2>2 DEF AtModuleLevel, Around
    <3>2. Ahead(u) => Ahead(u)'
      BY <3>1, <1>1, StillAhead
    <3>3. Gathered(u) => Gathered(u)'
      BY <1>1, <1>3 DEF Gathered, Node
    <3>4. Ahead(u) \/ Gathered(u)
      BY <1>1 DEF UsesAreGathered
    <3> QED BY <3>2, <3>3, <3>4
  <2> QED BY <2>1, <2>2
<1>8. NodesAreVisited'
  BY <1>1 DEF NodesAreVisited
<1> QED BY <1>1, <1>4, <1>5, <1>6, <1>7, <1>8, FixedParts

LEMMA GatherModSafe == ASSUME SafeInv, NEW n \in Nodes, GatherMod(n) PROVE SafeInv'
<1> USE DEF SafeInv, IInv
<1>1. /\ UNCHANGED <<file, strict, pc, suppressed, aliases, found>>
      /\ pc = "aliases" /\ n \in todo /\ todo' = (todo \ {n}) \cup Kids(n)
      /\ Node(n).form = "mod" /\ ~Node(n).gated
  BY DEF GatherMod
<1>2. TypeOK'
  BY <1>1 DEF TypeOK, Nodes, Kids
<1>3. TodoIsLawful'
  <2>1. \A k \in Kids(n) : AtModuleLevel(k) /\ Ungated(k)
    <3>1. AtModuleLevel(n) /\ Ungated(n) /\ Node(n).form = "mod" /\ ~Node(n).gated
      BY <1>1 DEF TodoIsLawful
    <3> QED BY <3>1, AroundKid DEF AtModuleLevel, Ungated, Around
  <2>2. \A k \in todo' : AtModuleLevel(k) /\ Ungated(k)
    BY <1>1, <2>1 DEF TodoIsLawful
  <2> QED BY <1>1, <2>2 DEF TodoIsLawful, AtModuleLevel, Ungated, Around, Node
<1>4. UsesAreGathered'
  <2> SUFFICES ASSUME NEW u \in Nodes, Node(u).form = "use", AtModuleLevel(u), InProduction(u)
               PROVE  Ahead(u)' \/ Gathered(u)'
    BY <1>1 DEF UsesAreGathered, Nodes, Node, AtModuleLevel, Around, InProduction
  <2>1. CASE n \in Node(u).chain
    BY <1>1, <2>1, AheadInside DEF Around
  <2>2. CASE n \notin Node(u).chain
    <3>1. Ahead(u) => Ahead(u)'
      BY <2>2, <1>1, StillAhead
    <3> QED BY <3>1, <1>1 DEF UsesAreGathered, Gathered, Node
  <2> QED BY <2>1, <2>2
<1>5. NodesAreVisited'
  BY <1>1 DEF NodesAreVisited
<1> QED BY <1>1, <1>2, <1>3, <1>4, <1>5, FixedParts

LEMMA GatherNothingSafe == ASSUME SafeInv, NEW n \in Nodes, GatherNothing(n) PROVE SafeInv'
<1> USE DEF SafeInv, IInv
<1>1. /\ UNCHANGED <<file, strict, pc, suppressed, aliases, found>>
      /\ pc = "aliases" /\ n \in todo /\ todo' = todo \ {n}
      /\ Node(n).form # "use" /\ (Node(n).form = "mod" => Node(n).gated)
  BY DEF GatherNothing
<1>2. TypeOK'
  BY <1>1 DEF TypeOK, Nodes
<1>3. TodoIsLawful'
  BY <1>1 DEF TodoIsLawful, AtModuleLevel, Ungated, Around, Node
<1>4. UsesAreGathered'
  <2> SUFFICES ASSUME NEW u \in Nodes, Node(u).form = "use", AtModuleLevel(u), InProduction(u)
               PROVE  Ahead(u)' \/ Gathered(u)'
    BY <1>1 DEF UsesAreGathered, Nodes, Node, AtModuleLevel, Around, InProduction
  <2>1. n \notin Node(u).chain
    BY <1>1 DEF AtModuleLevel, Around, InProduction
  <2>2. Ahead(u) => Ahead(u)'
    BY <2>1, <1>1, StillAhead
  <2> QED BY <2>2, <1>1 DEF UsesAreGathered, Gathered, Node
<1>5. NodesAreVisited'
  BY <1>1 DEF NodesAreVisited
<1> QED BY <1>1, <1>2, <1>3, <1>4, <1>5, FixedParts

LEMMA StartVisitSafe == SafeInv /\ StartVisit => SafeInv'
<1> SUFFICES ASSUME SafeInv, StartVisit PROVE SafeInv'
  OBVIOUS
<1> USE DEF SafeInv, IInv
<1>1. /\ UNCHANGED <<file, strict, suppressed, aliases, found>>
      /\ pc = "aliases" /\ todo = {} /\ pc' = "visit" /\ todo' = Top
  BY DEF StartVisit
<1>2. TypeOK'
  BY <1>1 DEF TypeOK, Nodes, Top, Kids
<1>3. TodoIsLawful'
  BY <1>1, AroundTop DEF TodoIsLawful, Sealed, Around, Node
<1>4. UsesAreGathered'
  BY <1>1 DEF UsesAreGathered, Ahead, Gathered, Nodes, Node, AtModuleLevel, Around, InProduction
<1>5. NodesAreVisited'
  BY <1>1, AllAhead DEF NodesAreVisited, Nodes
<1> QED BY <1>1, <1>2, <1>3, <1>4, <1>5, FixedParts

LEMMA VisitTestOnlySafe == ASSUME SafeInv, NEW n \in Nodes, VisitTestOnly(n) PROVE SafeInv'
<1> USE DEF SafeInv, IInv
<1>1. /\ UNCHANGED <<file, strict, pc, suppressed, aliases, found>>
      /\ pc = "visit" /\ n \in todo /\ todo' = todo \ {n} /\ Node(n).gated
  BY DEF VisitTestOnly, TestOnly
<1>2. TypeOK'
  BY <1>1 DEF TypeOK, Nodes
<1>3. TodoIsLawful'
  BY <1>1 DEF TodoIsLawful, Sealed, TestOnly, Around, Node
<1>4. UsesAreGathered'
  BY <1>1 DEF UsesAreGathered, Gathered, Nodes, Node, AtModuleLevel, Around, InProduction
<1>5. NodesAreVisited'
  <2> SUFFICES ASSUME NEW u \in Nodes, InProduction(u), ~Sealed(u)
               PROVE  Ahead(u)' \/ (Recorded(u) \subseteq found)'
    BY <1>1 DEF NodesAreVisited, Nodes, Node, Around, InProduction, Sealed
  <2>1. n \notin Node(u).chain
    BY <1>1 DEF InProduction
  <2>2. Ahead(u) => Ahead(u)'
    BY <2>1, <1>1, StillAhead
  <2>3. Recorded(u)' = Recorded(u)
    BY <1>1, RecordedStays
  <2> QED BY <2>2, <2>3, <1>1 DEF NodesAreVisited
<1> QED BY <1>1, <1>2, <1>3, <1>4, <1>5, FixedParts

LEMMA VisitSafe == ASSUME SafeInv, NEW n \in Nodes, Visit(n) PROVE SafeInv'
<1> USE DEF SafeInv, IInv
<1>1. /\ UNCHANGED <<file, strict, pc, suppressed, aliases>>
      /\ pc = "visit" /\ n \in todo /\ todo' = (todo \ {n}) \cup Opened(n) /\ ~TestOnly(n)
      /\ found' = found \cup Recorded(n)
  BY DEF Visit
<1>2. \A k \in Opened(n) : k \in Kids(n) /\ (Node(n).form = "macro" => Node(n).args)
  BY DEF Opened
<1>3. ~Sealed(n) /\ \A m \in Node(n).chain : ~TestOnly(m)
  BY <1>1 DEF TodoIsLawful, Around
<1>4. TypeOK'
  <2>1. \A f \in Recorded(n) : f.node \in Nodes
    BY RecordedIsDone
  <2> QED BY <2>1, <1>1, <1>2 DEF TypeOK, Nodes, Kids
<1>5. TodoIsLawful'
  <2>1. ASSUME NEW k \in Opened(n) PROVE ~Sealed(k) /\ \A m \in Around(k) : ~TestOnly(m)
    <3>1. Around(k) = Node(n).chain
      BY <1>2, AroundKid
    <3> QED BY <3>1, <1>2, <1>3 DEF Sealed, Around
  <2>2. \A k \in todo' : ~Sealed(k) /\ \A m \in Around(k) : ~TestOnly(m)
    BY <1>1, <2>1 DEF TodoIsLawful
  <2> QED BY <1>1, <2>2 DEF TodoIsLawful, Sealed, TestOnly, Around, Node
<1>6. NothingElseInvented'
  <2>1. \A m \in Node(n).chain : Node(m).form \in ItemForms \cup {"method"} => ~Node(m).gated
    BY <1>3 DEF TestOnly
  <2>2. \A f \in Recorded(n) :
          /\ f.node = n /\ f.line \in Nat \ {0} /\ ~IsSuppressed(suppressed, f.line)
          /\ Does(n, f.kind, f.line) \/ (Borrowed(n, f.kind) /\ f.line = Node(n).line)
    BY RecordedIsDone
  <2>3. \A f \in Recorded(n) : file.lexes => ~Excused(f.line)
    BY <1>1, <2>2, ExcuseSuppresses
  <2>4. \A f \in found' :
          /\ \A m \in Node(f.node).chain : Node(m).form \in ItemForms \cup {"method"} => ~Node(m).gated
          /\ ~Sealed(f.node)
          /\ file.lexes => ~Excused(f.line)
          /\ Does(f.node, f.kind, f.line) \/ (Borrowed(f.node, f.kind) /\ f.line = Node(f.node).line)
    BY <1>1, <1>3, <2>1, <2>2, <2>3 DEF NothingElseInvented
  <2> QED BY <1>1, <2>4, ReferenceFixed DEF NothingElseInvented, Node
<1>7. UsesAreGathered'
  BY <1>1 DEF UsesAreGathered, Gathered, Nodes, Node, AtModuleLevel, Around, InProduction
<1>8. NodesAreVisited'
  <2> SUFFICES ASSUME NEW u \in Nodes, InProduction(u), ~Sealed(u)
               PROVE  Ahead(u)' \/ (Recorded(u) \subseteq found)'
    BY <1>1 DEF NodesAreVisited, Nodes, Node, Around, InProduction, Sealed
  <2>1. Recorded(u)' = Recorded(u)
    BY <1>1, RecordedStays
  <2>2. CASE u = n
    BY <2>1, <2>2, <1>1
  <2>3. CASE u # n /\ n \in Node(u).chain
    <3>1. n \in Around(u) /\ (Node(n).form = "macro" => Node(n).args)
      BY <2>3 DEF Around, Sealed
    <3>2. PICK k \in Kids(n) : k \in Node(u).chain
      BY <3>1, WayDown
    <3>3. Node(n).form # "use"
      BY <3>2, AroundKid
    <3>4. Kids(n) \subseteq todo'
      BY <1>1, <3>1, <3>3 DEF Opened
    <3> QED BY <1>1, <3>1, <3>4, AheadInside
  <2>4. CASE n \notin Node(u).chain
    <3>1. Ahead(u) => Ahead(u)'
      BY <2>4, <1>1, StillAhead
    <3> QED BY <3>1, <2>1, <1>1 DEF NodesAreVisited
  <2> QED BY <2>2, <2>3, <2>4
<1> QED BY <1>1, <1>4, <1>5, <1>6, <1>7, <1>8, FixedParts

LEMMA FinishSafe == SafeInv /\ Finish => SafeInv'
<1> SUFFICES ASSUME SafeInv, Finish PROVE SafeInv'
  OBVIOUS
<1> USE DEF SafeInv, IInv
<1>1. /\ UNCHANGED <<file, strict, todo, suppressed, aliases, found>>
      /\ pc = "visit" /\ todo = {} /\ pc' = "done"
  BY DEF Finish
<1>2. TypeOK' /\ TodoIsLawful'
  BY <1>1 DEF TypeOK, Nodes, TodoIsLawful
<1>3. UsesAreGathered'
  BY <1>1 DEF UsesAreGathered, Gathered, Nodes, Node, AtModuleLevel, Around, InProduction
<1>4. NodesAreVisited'
  <2>1. \A u \in Nodes : Recorded(u)' = Recorded(u)
    BY <1>1, RecordedStays
  <2>2. \A u \in Nodes : InProduction(u) /\ ~Sealed(u) => Recorded(u) \subseteq found
    BY <1>1 DEF NodesAreVisited, Ahead
  <2> QED BY <1>1, <2>1, <2>2 DEF NodesAreVisited, Nodes, Node, Around, InProduction, Sealed
<1> QED BY <1>1, <1>2, <1>3, <1>4, FixedParts

LEMMA StutterSafe == SafeInv /\ UNCHANGED vars => SafeInv'
<1> SUFFICES ASSUME SafeInv, UNCHANGED vars PROVE SafeInv'
  OBVIOUS
<1> USE DEF SafeInv, IInv, vars
<1>1. TypeOK' /\ TodoIsLawful'
  BY DEF TypeOK, TodoIsLawful, Sealed, TestOnly, AtModuleLevel, Ungated, Around, Nodes, Node
<1>2. UsesAreGathered'
  BY DEF UsesAreGathered, Ahead, Gathered, Nodes, Node, AtModuleLevel, Around, InProduction
<1>3. NodesAreVisited'
  <2>1. \A u \in Nodes : Recorded(u)' = Recorded(u)
    BY RecordedStays
  <2> QED BY <2>1 DEF NodesAreVisited, Ahead, Nodes, Node, Around, InProduction, Sealed
<1> QED BY <1>1, <1>2, <1>3, FixedParts

-----------------------------------------------------------------------------
(* A walk comes to each construct once                                      *)

\* What is around a construct around n is around n.
LEMMA ChainInChain ==
  ASSUME file \in Files
  PROVE  \A n \in Nodes : \A m \in Node(n).chain : Node(m).chain \subseteq Node(n).chain
<1> DEFINE Good(n) == \A m \in Node(n).chain : Node(m).chain \subseteq Node(n).chain
           Bad == {n \in Nodes : ~Good(n)}
<1>1. SUFFICES ASSUME Bad # {} PROVE FALSE
  OBVIOUS
<1>2. Bad \subseteq Nat /\ Nodes \subseteq Nat
  BY NodeFacts
<1>3. PICK n \in Bad : \A k \in Bad : n <= k
  BY <1>1, <1>2, LeastNat
<1> HIDE DEF Good
<1>4. \A k \in Nodes : k < n => Good(k)
  BY <1>2, <1>3
<1>5. Good(n)
  <2>1. CASE Node(n).up = 0
    BY <1>3, <2>1, NodeFacts DEF Good
  <2>2. CASE Node(n).up # 0
    <3>1. Node(n).up \in Nodes /\ Node(n).up < n /\ Node(n).chain = {n} \cup Node(Node(n).up).chain
      BY <1>3, <2>2, NodeFacts
    <3>2. Good(Node(n).up)
      BY <3>1, <1>4
    <3> QED BY <3>1, <3>2 DEF Good
  <2> QED BY <2>1, <2>2
<1> QED BY <1>3, <1>5

\* A step of a walk takes one construct and may open it.
TakesOne(n, opened) ==
    /\ n \in todo /\ opened \subseteq Kids(n)
    /\ todo' = (todo \ {n}) \cup opened
    /\ UNCHANGED <<file, pc>>

LEMMA WalkTakesOne ==
  ASSUME Walk PROVE \E n \in Nodes : \E opened \in SUBSET Kids(n) : TakesOne(n, opened)
<1>1. PICK n \in Nodes : GatherUse(n) \/ GatherMod(n) \/ GatherNothing(n)
                           \/ VisitTestOnly(n) \/ Visit(n)
  BY DEF Walk
<1>2. CASE GatherUse(n) \/ GatherNothing(n) \/ VisitTestOnly(n)
  <2>1. TakesOne(n, {})
    BY <1>2 DEF GatherUse, GatherNothing, VisitTestOnly, TakesOne
  <2> QED BY <2>1
<1>3. CASE GatherMod(n)
  <2>1. TakesOne(n, Kids(n))
    BY <1>3 DEF GatherMod, TakesOne
  <2> QED BY <2>1
<1>4. CASE Visit(n)
  <2>1. Opened(n) \subseteq Kids(n)
    BY DEF Opened
  <2>2. TakesOne(n, Opened(n))
    BY <1>4, <2>1 DEF Visit, TakesOne
  <2> QED BY <2>1, <2>2
<1> QED BY <1>1, <1>2, <1>3, <1>4

\* Nothing left to do lies around the construct taken, or around what it opens.
LEMMA TakenIsBehind ==
  ASSUME SafeInv, TodoIsApart, NEW n \in Nodes, NEW opened, TakesOne(n, opened)
  PROVE  \A m \in Node(n).chain : m \notin todo'
<1> SUFFICES ASSUME NEW m \in Node(n).chain, m \in todo' PROVE FALSE
  OBVIOUS
<1>1. file \in Files /\ m \in Nodes /\ m <= n
  BY ChainBelow DEF SafeInv
<1>2. m \notin todo \ {n}
  BY DEF TodoIsApart, Around, TakesOne
<1>3. m \in Kids(n)
  BY <1>2 DEF TakesOne
<1>4. n < m /\ n \in Nat /\ m \in Nat
  BY <1>1, <1>3, NodeFacts DEF Kids
<1> QED BY <1>1, <1>4

\* Whatever is left to do was to be done before.
LEMMA NothingComesBack ==
  ASSUME SafeInv, NEW n \in Nodes, NEW opened, TakesOne(n, opened),
         NEW k \in Nodes, NEW m \in Node(k).chain, m \in todo'
  PROVE  m \in todo \/ (m \in opened /\ n \in Node(k).chain)
<1> SUFFICES ASSUME m \in opened PROVE n \in Node(k).chain
  BY DEF TakesOne
<1>1. file \in Files /\ m \in Kids(n)
  BY DEF SafeInv, TakesOne
<1>2. Around(m) = Node(n).chain /\ m \in Nodes
  BY <1>1, AroundKid
<1>3. n \in Node(m).chain
  BY <1>1, <1>2, ChainBelow DEF Around
<1> QED BY <1>1, <1>3, ChainInChain

LEMMA ApartStep == SafeInv /\ TodoIsApart /\ [Next]_vars => TodoIsApart'
<1> SUFFICES ASSUME SafeInv, TodoIsApart, [Next]_vars PROVE TodoIsApart'
  OBVIOUS
<1>0. file \in Files /\ todo \subseteq Nodes
  BY DEF SafeInv, IInv, TypeOK
<1>1. CASE ReadMarkers \/ StartVisit
  <2>1. todo' = Top /\ file' = file
    BY <1>1 DEF ReadMarkers, StartVisit
  <2>2. \A n \in Top : Around(n) = {}
    BY <1>0, AroundTop
  <2> QED BY <2>1, <2>2 DEF TodoIsApart, Around, Node
<1>2. CASE Walk
  <2>1. PICK n \in Nodes : \E opened \in SUBSET Kids(n) : TakesOne(n, opened)
    BY <1>2, WalkTakesOne
  <2>2. PICK opened \in SUBSET Kids(n) : TakesOne(n, opened)
    BY <2>1
  <2>3. ASSUME NEW k \in todo', NEW m \in Around(k), m \in todo' PROVE FALSE
    <3>1. CASE k \in opened
      <4>1. Around(k) = Node(n).chain
        BY <1>0, <2>2, <3>1, AroundKid
      <4> QED BY <2>2, <2>3, <4>1, TakenIsBehind
    <3>2. CASE k \in todo /\ k # n
      <4>1. k \in Nodes /\ m \in Node(k).chain
        BY <1>0, <2>3, <3>2 DEF Around
      <4>2. m \in todo \/ n \in Node(k).chain
        BY <2>2, <2>3, <4>1, NothingComesBack
      <4>3. n \in todo
        BY <2>2 DEF TakesOne
      <4> QED BY <2>3, <3>2, <4>2, <4>3 DEF TodoIsApart, Around
    <3> QED BY <2>2, <2>3, <3>1, <3>2 DEF TakesOne
  <2>4. file' = file
    BY <2>2 DEF TakesOne
  <2> QED BY <2>3, <2>4 DEF TodoIsApart, Around, Node
<1>3. CASE Finish \/ UNCHANGED vars
  <2>1. UNCHANGED <<file, todo>>
    BY <1>3 DEF Finish, vars
  <2> QED BY <2>1 DEF TodoIsApart, Around, Node
<1> QED BY <1>1, <1>2, <1>3 DEF Next, Done

-----------------------------------------------------------------------------
(* The theorems                                                             *)

\* The invariant of the walks holds of every scan of every file: what is still
\* to be found of production code has something still to do on the way to it,
\* and what is found was reached past no test gate and no sealed macro.
THEOREM SafeInductive == Spec => []SafeInv
<1>1. SafeInv /\ [Next]_vars => SafeInv'
  BY ReadMarkersSafe, GatherUseSafe, GatherModSafe, GatherNothingSafe, StartVisitSafe,
     VisitTestOnlySafe, VisitSafe, FinishSafe, StutterSafe DEF Next, Walk, Done
<1> QED BY InitSafe, <1>1, PTL DEF Spec

\* Every state of a scan is well-formed.
THEOREM TypeCorrect == Spec => []TypeOK
<1>1. SafeInv => TypeOK
  BY DEF SafeInv, IInv
<1> QED BY SafeInductive, <1>1, PTL

\* Names apart that a `use` elsewhere renames, no effect is made up, in any file:
\* what scan.rs records was reached past no test gate on an item, stands on no
\* excused line, and is what the construct does there.
THEOREM NothingElseIsInvented == Spec => []NothingElseInvented
<1>1. SafeInv => NothingElseInvented
  BY DEF SafeInv, IInv
<1> QED BY SafeInductive, <1>1, PTL

\* None of the effects Owed lists goes unreported, in any file: when the visitor
\* is done, what production code does outright, imports, boxes, or names by a
\* module's renamed import, is a finding, however deep it is nested.
THEOREM NothingIsHidden == Spec => []NothingHidden
<1>1. SafeInv => NothingHidden
  <2> SUFFICES ASSUME SafeInv, pc = "done", NEW n \in Nodes, InProduction(n), ~Sealed(n)
               PROVE  /\ ~Excused(Node(n).line) => \A kind \in Owed(n) : IsReported(n, kind)
                      /\ \A line \in Node(n).boxed :
                            ~Excused(line) => Finding("mandated-boxing", line, n) \in found
    BY DEF NothingHidden
  <2> USE DEF SafeInv, IInv
  <2>1. Recorded(n) \subseteq found
    BY DEF NodesAreVisited
  <2>2. ASSUME ~Excused(Node(n).line), NEW kind \in Owed(n) PROVE IsReported(n, kind)
    <3>1. ~IsSuppressed(suppressed, Node(n).line)
      BY <2>2, SuppressionIsExcused
    <3>2. \A k \in Kinds(n) : Finding(k, Node(n).line, n) \in found
      BY <2>1, <3>1 DEF Recorded, Finding
    <3> QED BY <2>2, <3>2, OwedIsAKind DEF IsReported
  <2>3. ASSUME NEW line \in Node(n).boxed, ~Excused(line)
        PROVE  Finding("mandated-boxing", line, n) \in found
    <3>1. ~IsSuppressed(suppressed, line)
      BY <2>3, SuppressionIsExcused
    <3> QED BY <2>1, <2>3, <3>1 DEF Recorded, Finding
  <2> QED BY <2>2, <2>3
<1> QED BY SafeInductive, <1>1, PTL

\* What a walk has left to do never lies one in the other.
THEOREM ApartInductive == Spec => []TodoIsApart
<1>1. Init => TodoIsApart
  BY DEF Init, TodoIsApart
<1> QED BY <1>1, ApartStep, SafeInductive, PTL DEF Spec

\* The walks come to each construct of any file once, so that they end and
\* report nothing twice: a step puts one behind and brings none back.
THEOREM WalksGoOn == Spec => EachConstructOnce
<1>1. SafeInv /\ TodoIsApart /\ [Next]_vars =>
         [pc' = pc =>
             /\ \A n \in Nodes : Ahead(n)' => Ahead(n)
             /\ \E n \in Nodes : Ahead(n) /\ ~Ahead(n)']_vars
  <2>0. SUFFICES ASSUME SafeInv, TodoIsApart, [Next]_vars, vars' # vars, pc' = pc
                 PROVE  /\ \A k \in Nodes : Ahead(k)' => Ahead(k)
                        /\ \E k \in Nodes : Ahead(k) /\ ~Ahead(k)'
    OBVIOUS
  <2>1. Walk
    BY <2>0 DEF Next, ReadMarkers, StartVisit, Finish, Done
  <2>2. PICK n \in Nodes : \E opened \in SUBSET Kids(n) : TakesOne(n, opened)
    BY <2>1, WalkTakesOne
  <2>3. PICK opened \in SUBSET Kids(n) : TakesOne(n, opened)
    BY <2>2
  <2>4. file' = file /\ n \in todo
    BY <2>3 DEF TakesOne
  <2>5. ASSUME NEW k \in Nodes, Ahead(k)' PROVE Ahead(k)
    <3>1. PICK m \in Node(k).chain : m \in todo'
      BY <2>4, <2>5 DEF Ahead, Node
    <3> QED BY <2>0, <2>3, <2>4, <3>1, NothingComesBack DEF Ahead
  <2>6. Ahead(n) /\ ~Ahead(n)'
    <3>1. n \in Node(n).chain
      BY <2>0, ChainBelow DEF SafeInv
    <3>2. \A m \in Node(n).chain : m \notin todo'
      BY <2>0, <2>3, TakenIsBehind
    <3> QED BY <2>4, <3>1, <3>2 DEF Ahead, Node
  <2> QED BY <2>5, <2>6
<1> QED BY <1>1, SafeInductive, ApartInductive, PTL DEF Spec, EachConstructOnce

=============================================================================
