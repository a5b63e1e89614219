-------------------------------- MODULE Scan --------------------------------
(***************************************************************************)
(* scan.rs: scan_file over one file that parses.  The lines with an        *)
(* fc-allow directive are read first, then the aliases that `use` gives    *)
(* clock and hash types at module level, then the visitor walks the whole  *)
(* syntax tree.  A walk is a set of nodes still to look at: the order in   *)
(* which syn visits them changes nothing but the order of the findings.    *)
(* The taxonomy (effect.rs) and the cfg evaluation (cfg_pred.rs, CfgPred)  *)
(* are data here: a node says what they answer.                            *)
(*                                                                         *)
(* A file is [lexes, markers, nodes]; markers are those of Suppress, nodes *)
(* is a sequence of constructs, each a record:                             *)
(*   up, chain   the node around it (0: the file), it and all around it    *)
(*   form        "use", "mod", "fn", "impl", "item" (any other item),      *)
(*               "static"; "method" (of an impl), "trait method"; "field"; *)
(*               "path", "type", "method call", "async block", "macro"     *)
(*               (one in item position is the "macro" of an "item")        *)
(*   gated       its attributes make it test-only                          *)
(*   line        where it stands                                           *)
(*   effect      what the classifiers say of its own name, or "pure"       *)
(*   async       its signature says async                                  *)
(*   boxed       the lines of its #[async_trait] attributes                *)
(*   name, now   the identifier an alias may stand for (a path's head, a   *)
(*               type's leaf), and whether a segment starts with `now`     *)
(*   hash        its path names a hash type                                *)
(*   leaves      of a `use`: [effect, type, alias], type being "clock",    *)
(*               "hash" or "other", and alias the name after `as` or       *)
(*               NoAlias                                                   *)
(*   args        of a macro: whether its tokens are evaluated arguments    *)
(*               that parse as expressions                                 *)
(***************************************************************************)
EXTENDS Suppress, Sequences

CONSTANTS
    Files,      \* the files to choose from
    NoAlias     \* what `use a::B;` has where `use a::B as C;` has C

ItemForms == {"use", "mod", "fn", "impl", "item", "static"}

\* What a construct may have of its own goes with its form; lines count from 1.
WellFormed(node) ==
    /\ node.effect # "pure" => node.form \in {"path", "method call", "macro", "static", "field"}
    /\ node.async => node.form \in {"fn", "method", "trait method", "async block"}
    /\ node.leaves # {} => node.form = "use"
    /\ node.boxed # {} => node.form \in ItemForms
    /\ {node.line} \cup node.boxed \subseteq Nat \ {0}

\* The constructs of a file are numbered as they begin, so a construct comes
\* after the one around it; no `use` holds another construct.
ASSUME FilesAssumption ==
    \A f \in Files : \A n \in DOMAIN f.nodes :
        LET node == f.nodes[n]
        IN /\ n \in Nat \ {0}
           /\ node.up \in {0} \cup DOMAIN f.nodes /\ node.up < n
           /\ node.chain = {n} \cup IF node.up = 0 THEN {} ELSE f.nodes[node.up].chain
           /\ node.up # 0 => f.nodes[node.up].form # "use"
           /\ WellFormed(node)

VARIABLES
    file, strict,   \* what scan_file is given
    pc,             \* "start", "aliases", "visit" or "done"
    todo,           \* the nodes of the walk still to look at
    suppressed,     \* the lines with a directive
    aliases,        \* [clock, hash]: the names renamed to
    found           \* the findings, [kind, line, node]

vars == <<file, strict, pc, todo, suppressed, aliases, found>>

Nodes == DOMAIN file.nodes
Node(n) == file.nodes[n]
Kids(n) == {k \in Nodes : Node(k).up = n}
Top == Kids(0)

-----------------------------------------------------------------------------
(* What visiting a node records *)

\* Seeded fault: an import is looked at for effects by name only.
LeafKindsByName(leaf) == {leaf.effect} \ {"pure"}

LeafKinds(leaf) ==
    IF leaf.effect # "pure" THEN {leaf.effect}
    ELSE {k \in {"hash-iteration"} : strict /\ leaf.type = "hash"}

\* A path is an effect by name, or else a clock by alias, or else a hash type.
PathKinds(p) ==
    IF p.effect # "pure" THEN {p.effect}
    ELSE IF p.now /\ p.name \in aliases.clock THEN {"clock"}
    ELSE {k \in {"hash-iteration"} : strict /\ (p.hash \/ p.name \in aliases.hash)}

TypeKinds(t) ==
    {k \in {"hash-iteration"} : strict /\ (t.hash \/ t.name \in aliases.hash)}

Kinds(n) ==
    LET node == Node(n)
    IN CASE node.form = "use" -> UNION {LeafKinds(leaf) : leaf \in node.leaves}
         [] node.form = "path" -> PathKinds(node)
         [] node.form = "type" -> TypeKinds(node)
         [] node.form \in {"fn", "method", "async block"} ->
              {k \in {"async-runtime"} : strict /\ node.async}
         [] OTHER -> {node.effect} \ {"pure"}

Finding(kind, line, n) == [kind |-> kind, line |-> line, node |-> n]

\* Seeded fault: the attributes of an item are not looked at.
RecordedInside(n) ==
    {f \in {Finding(kind, Node(n).line, n) : kind \in Kinds(n)} : ~IsSuppressed(suppressed, f.line)}

\* record: nothing on a suppressed line.
Recorded(n) ==
    {f \in {Finding(kind, Node(n).line, n) : kind \in Kinds(n)}
              \cup {Finding("mandated-boxing", line, n) : line \in Node(n).boxed}
        : ~IsSuppressed(suppressed, f.line)}

\* Seeded fault: only functions are looked at for a test gate.
TestOnlyFn(n) == Node(n).form = "fn" /\ Node(n).gated

\* The gate is looked at on every item and on the methods of an impl.
TestOnly(n) == Node(n).form \in ItemForms \cup {"method"} /\ Node(n).gated

\* A `use` is not descended into, a macro only as evaluated arguments.
Opened(n) ==
    IF Node(n).form = "use" \/ (Node(n).form = "macro" /\ ~Node(n).args) THEN {} ELSE Kids(n)

-----------------------------------------------------------------------------
Init ==
    /\ file \in Files
    /\ strict \in BOOLEAN
    /\ pc = "start"
    /\ todo = {}
    /\ suppressed = {}
    /\ aliases = [clock |-> {}, hash |-> {}]
    /\ found = {}

ReadMarkers ==
    /\ pc = "start"
    /\ suppressed' = SuppressedLines(file.lexes, file.markers)
    /\ pc' = "aliases"
    /\ todo' = Top
    /\ UNCHANGED <<file, strict, aliases, found>>

\* collect_clock_aliases and collect_hash_aliases, which walk alike and read
\* nothing of each other: a `use` at module level ...
GatherUse(n) ==
    /\ pc = "aliases" /\ n \in todo
    /\ Node(n).form = "use"
    /\ LET Renamed(type) ==
               {l.alias : l \in {k \in Node(n).leaves : k.type = type /\ k.alias # NoAlias}}
       IN aliases' = [clock |-> aliases.clock \cup Renamed("clock"),
                      hash |-> aliases.hash \cup Renamed("hash")]
    /\ todo' = todo \ {n}
    /\ UNCHANGED <<file, strict, pc, suppressed, found>>

\* ... an inline module that is not test-only ...
GatherMod(n) ==
    /\ pc = "aliases" /\ n \in todo
    /\ Node(n).form = "mod" /\ ~Node(n).gated
    /\ todo' = (todo \ {n}) \cup Kids(n)
    /\ UNCHANGED <<file, strict, pc, suppressed, aliases, found>>

\* ... and nothing else.
GatherNothing(n) ==
    /\ pc = "aliases" /\ n \in todo
    /\ Node(n).form # "use"
    /\ Node(n).form = "mod" => Node(n).gated
    /\ todo' = todo \ {n}
    /\ UNCHANGED <<file, strict, pc, suppressed, aliases, found>>

\* Seeded fault: every construct is listed, and come to from around it as well.
StartVisitFlat ==
    /\ pc = "aliases" /\ todo = {}
    /\ pc' = "visit"
    /\ todo' = Nodes
    /\ UNCHANGED <<file, strict, suppressed, aliases, found>>

StartVisit ==
    /\ pc = "aliases" /\ todo = {}
    /\ pc' = "visit"
    /\ todo' = Top
    /\ UNCHANGED <<file, strict, suppressed, aliases, found>>

\* Seeded fault: a test-only item is come back to.
VisitTestOnlyAgain(n) ==
    /\ pc = "visit" /\ n \in todo
    /\ TestOnly(n)
    /\ UNCHANGED vars

VisitTestOnly(n) ==
    /\ pc = "visit" /\ n \in todo
    /\ TestOnly(n)
    /\ todo' = todo \ {n}
    /\ UNCHANGED <<file, strict, pc, suppressed, aliases, found>>

Visit(n) ==
    /\ pc = "visit" /\ n \in todo
    /\ ~TestOnly(n)
    /\ found' = found \cup Recorded(n)
    /\ todo' = (todo \ {n}) \cup Opened(n)
    /\ UNCHANGED <<file, strict, pc, suppressed, aliases>>

\* Seeded fault: the walk may stop anywhere.
FinishEarly ==
    /\ pc = "visit"
    /\ pc' = "done"
    /\ UNCHANGED <<file, strict, todo, suppressed, aliases, found>>

Finish ==
    /\ pc = "visit" /\ todo = {}
    /\ pc' = "done"
    /\ UNCHANGED <<file, strict, todo, suppressed, aliases, found>>

Done == pc = "done" /\ UNCHANGED vars

Walk ==
    \E n \in Nodes :
        \/ GatherUse(n) \/ GatherMod(n) \/ GatherNothing(n)
        \/ VisitTestOnly(n) \/ Visit(n)

Next == ReadMarkers \/ Walk \/ StartVisit \/ Finish \/ Done

Spec == Init /\ [][Next]_vars
FairSpec == Spec /\ WF_vars(Next)

-----------------------------------------------------------------------------
(* The reference: what a file does when it is compiled without test, its    *)
(* names resolved.                                                          *)

Around(n) == Node(n).chain \ {n}

\* In the production build: no gate on it or around it.
InProduction(n) == \A m \in Node(n).chain : ~Node(m).gated

\* A token of a macro that is not known to evaluate it: nobody can tell.
Sealed(n) == \E m \in Around(n) : Node(m).form = "macro" /\ ~Node(m).args

\* A name that `use` declares holds in the module or block the `use` stands in,
\* and not in the modules below.
InScope(u, n) ==
    /\ Around(u) \subseteq Around(n)
    /\ \A m \in Around(n) \ Around(u) : Node(m).form # "mod"

AtModuleLevel(u) == \A m \in Around(u) : Node(m).form = "mod"
Ungated(u) == \A m \in Around(u) : ~Node(m).gated

Renames(u, type, name) ==
    /\ Node(u).form = "use"
    /\ \E l \in Node(u).leaves : l.type = type /\ l.alias = name /\ name # NoAlias

\* `use` u gives n's name a meaning at n; and it is the meaning of it, no other
\* standing further in.
Binds(u, n) ==
    /\ InProduction(u) /\ InScope(u, n)
    /\ \E type \in {"clock", "hash", "other"} : Renames(u, type, Node(n).name)

Resolves(u, n, type) ==
    /\ Binds(u, n) /\ Renames(u, type, Node(n).name)
    /\ \A v \in Nodes : Binds(v, n) => Around(v) \subseteq Around(u)

\* A human wrote a reason for it, in a comment on its line or the line above.
Excused(line) ==
    \E m \in file.markers :
        m.where = "comment" /\ m.reason = "given" /\ m.line \in {line, line - 1}

\* The effects n has by its own name, the names it imports, or its signature.
Own(n) ==
    (({Node(n).effect} \cup {l.effect : l \in Node(n).leaves}) \ {"pure"})
      \cup {k \in {"async-runtime"} : strict /\ Node(n).async}

\* A call that reads a clock if its first name is one, a name that is a hash
\* type if it stands for one, and what names a hash type outright.
IsNowCall(n) == Node(n).form = "path" /\ Node(n).now
MayNameHash(n) == strict /\ Node(n).form \in {"path", "type"}
NamesHash(n) ==
    \/ MayNameHash(n) /\ Node(n).hash
    \/ strict /\ \E l \in Node(n).leaves : l.type = "hash"

\* Construct n does, at line, what kind says.
Does(n, kind, line) ==
    \/ kind = "mandated-boxing" /\ line \in Node(n).boxed
    \/ /\ line = Node(n).line
       /\ \/ kind \in Own(n)
          \/ kind = "hash-iteration" /\ NamesHash(n)
          \/ kind = "clock" /\ IsNowCall(n) /\ \E u \in Nodes : Resolves(u, n, "clock")
          \/ kind = "hash-iteration" /\ MayNameHash(n) /\ \E u \in Nodes : Resolves(u, n, "hash")

-----------------------------------------------------------------------------
(* Properties *)

\* The state is well-formed: nothing is left to look at before the walks and
\* after them, and a finding is of a construct of this file.
TypeOK ==
    /\ strict \in BOOLEAN
    /\ pc \in {"start", "aliases", "visit", "done"}
    /\ todo \subseteq Nodes
    /\ pc \in {"start", "done"} => todo = {}
    /\ \A f \in found : f.node \in Nodes

\* What must be reported of n at its own line. A name that is an effect outright
\* is that effect and nothing besides. Left out: the methods a trait declares,
\* async as they may be (scan.rs overrides no visit_trait_item_fn), and names
\* whose `use` stands in a function (the aliases are gathered in modules).
Owed(n) ==
    LET LeafHash == strict /\ \E l \in Node(n).leaves : l.effect = "pure" /\ l.type = "hash"
        Alias(type) == \E u \in Nodes : AtModuleLevel(u) /\ Resolves(u, n, type)
        Unnamed == Node(n).effect = "pure"
    IN {k \in Own(n) : Node(n).form = "trait method" => k # "async-runtime"}
         \cup {k \in {"clock"} : Unnamed /\ IsNowCall(n) /\ Alias("clock")}
         \cup {k \in {"hash-iteration"} :
                 LeafHash \/ (Unnamed /\ MayNameHash(n) /\ (Node(n).hash \/ Alias("hash")))}

\* It is among the findings; a `now` call on a hash type may be there as a clock,
\* if another module gives a clock that name.
IsReported(n, kind) ==
    \/ Finding(kind, Node(n).line, n) \in found
    \/ kind = "hash-iteration" /\ IsNowCall(n) /\ Finding("clock", Node(n).line, n) \in found

\* No effect goes unreported but those Owed leaves out: what production code
\* does outright, imports, boxes by #[async_trait], or names by a module's
\* renamed import, is a finding at its line, whatever it is nested in, unless a
\* comment beside it gives a reason; what a sealed macro holds cannot be told
\* (scan.rs visit_item: "so a new Item variant can never silently re-open the
\* hole").
NothingHidden ==
    pc = "done" =>
        \A n \in Nodes : InProduction(n) /\ ~Sealed(n) =>
            /\ ~Excused(Node(n).line) => \A kind \in Owed(n) : IsReported(n, kind)
            /\ \A line \in Node(n).boxed :
                  ~Excused(line) => Finding("mandated-boxing", line, n) \in found

\* Some module that is not test-only renames that type so: which need not be what
\* the name means elsewhere (NothingInvented below).
IsAlias(name, type) == \E u \in Nodes : Renames(u, type, name) /\ AtModuleLevel(u) /\ Ungated(u)

Borrowed(n, kind) ==
    \/ kind = "clock" /\ IsNowCall(n) /\ IsAlias(Node(n).name, "clock")
    \/ kind = "hash-iteration" /\ MayNameHash(n) /\ IsAlias(Node(n).name, "hash")

\* Names apart that a `use` elsewhere in the file renames, no effect is made up:
\* a finding is of a construct that does, at that line, what the finding says;
\* it stands under no test gate of an item or of a method of an impl, in no
\* sealed macro, and on no line a human excused (scan.rs visit_item, record).
NothingElseInvented ==
    \A f \in found :
        /\ \A m \in Node(f.node).chain : Node(m).form \in ItemForms \cup {"method"} => ~Node(m).gated
        /\ ~Sealed(f.node)
        /\ file.lexes => ~Excused(f.line)
        /\ Does(f.node, f.kind, f.line) \/ (Borrowed(f.node, f.kind) /\ f.line = Node(f.node).line)

\* A walk still has to come to n, or to something around it.
Ahead(n) == \E m \in Node(n).chain : m \in todo

\* A walk comes to each construct once: a step puts one behind and brings none
\* back, so that nothing is reported twice, whichever of the visitor's
\* overrides record and descend themselves, and no walk goes round (scan.rs
\* visit_item, visit_macro; a second finding is printed and counted).
EachConstructOnce ==
    [][pc' = pc =>
          /\ \A n \in Nodes : Ahead(n)' => Ahead(n)
          /\ \E n \in Nodes : Ahead(n) /\ ~Ahead(n)']_vars

\* Every scan ends.
Terminates == <>(pc = "done")

-----------------------------------------------------------------------------
(* The inductive invariants: what the walks have left to look at is reached  *)
(* lawfully, what they looked at is of this file, ...                        *)

TodoIsLawful ==
    \A n \in todo :
        /\ pc = "aliases" => AtModuleLevel(n) /\ Ungated(n)
        /\ pc = "visit" => ~Sealed(n) /\ \A m \in Around(n) : ~TestOnly(m)

AliasesAreOfUses ==
    /\ \A name \in aliases.clock : IsAlias(name, "clock")
    /\ \A name \in aliases.hash : IsAlias(name, "hash")

\* The lines that suppress are those of the directives, once they are read.
SuppressedIsExcused ==
    /\ \A l \in suppressed : \E m \in file.markers : Directive(m) /\ m.line = l
    /\ pc # "start" /\ file.lexes =>
          \A m \in file.markers : Directive(m) => m.line \in suppressed

\* ... no two of it lie one in the other, and what can be reached still has
\* something to do on the way to it, or has been looked at.
TodoIsApart == \A n \in todo : \A m \in Around(n) : m \notin todo

Gathered(u) ==
    \A l \in Node(u).leaves : l.alias # NoAlias =>
        (l.type = "clock" => l.alias \in aliases.clock) /\ (l.type = "hash" => l.alias \in aliases.hash)

UsesAreGathered ==
    \A u \in Nodes : Node(u).form = "use" /\ AtModuleLevel(u) /\ InProduction(u) =>
        CASE pc = "start" -> TRUE
          [] pc = "aliases" -> Ahead(u) \/ Gathered(u)
          [] OTHER -> Gathered(u)

NodesAreVisited ==
    \A n \in Nodes : InProduction(n) /\ ~Sealed(n) =>
        /\ pc = "visit" => Ahead(n) \/ Recorded(n) \subseteq found
        /\ pc = "done" => Recorded(n) \subseteq found

IInv ==
    /\ TypeOK
    /\ TodoIsLawful /\ AliasesAreOfUses /\ SuppressedIsExcused /\ NothingElseInvented
    /\ UsesAreGathered /\ NodesAreVisited

-----------------------------------------------------------------------------
(* What the documentation says, and the code does not do *)

\* "Test code. `#[cfg(test)]` / `#[test]` items ... are excluded" (README:279):
\* a gated method of a trait, or a gated field, is reported all the same.
TestCodeIsExcluded == \A f \in found : InProduction(f.node)

\* "Sound by omission -- it never invents a violation" (README:181): an alias
\* counts in the whole file, in modules that give the name to something else and
\* when its own `use` is test-only.
NothingInvented ==
    \A f \in found : InProduction(f.node) => Does(f.node, f.kind, f.line)

=============================================================================
