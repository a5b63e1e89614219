------------------------------- MODULE Imports ------------------------------
(***************************************************************************)
(* scan.rs: one `use` item and one call that reaches something through it. *)
(* The tool resolves no names: the import is classified by the paths it    *)
(* spells, the call by the path it spells, and a few renamed types are     *)
(* remembered.  What the two together amount to is a property.             *)
(*                                                                         *)
(* A use tree is a record by its form: "path" [ident, tree], "name"        *)
(* [ident], "rename" [ident, alias], "glob", "group" [items]; the walks    *)
(* over it keep the subtrees still to visit on a stack, as the recursion   *)
(* does.                                                                   *)
(*                                                                         *)
(* A snippet is [tree, call, imports, kind, spelt]: the `use`, the path    *)
(* called, and what they mean: the paths the `use` imports, the kind of    *)
(* effect the call has ("pure": none), and whether the words by which that *)
(* effect is known stand together in the import or in the call.            *)
(***************************************************************************)
EXTENDS Effect

CONSTANTS
    Snippets,       \* the snippets to choose from
    UseTrees,       \* their use trees, with the trees in them
    Imported        \* the paths that each of these imports, from where it stands

WithIdent == {"path", "name", "rename"}
Words == {t.ident : t \in {u \in UseTrees : u.form \in WithIdent}}
             \cup UNION {Range(s.call) : s \in Snippets}

\* A path has a segment. What a `use` means, and that it imports no path twice.
ASSUME ImportedAssumption ==
    /\ Imported \in [UseTrees -> SUBSET Seq(Words)]
    /\ \A s \in Snippets :
          /\ s.tree \in UseTrees /\ s.imports = Imported[s.tree]
          /\ s.call \in Seq(Words) /\ s.call # <<>>
    /\ \A t \in UseTrees :
          \/ /\ t.form = "path" /\ t.tree \in UseTrees
             /\ Imported[t] = {<<t.ident>> \o p : p \in Imported[t.tree]}
          \/ t.form \in {"name", "rename"} /\ Imported[t] = {<<t.ident>>}
          \/ t.form = "glob" /\ Imported[t] = {<<>>}
          \/ /\ t.form = "group" /\ t.items \in Seq(UseTrees)
             /\ Imported[t] = UNION {Imported[t.items[i]] : i \in DOMAIN t.items}
             /\ \A i, j \in DOMAIN t.items :
                   i # j => Imported[t.items[i]] \cap Imported[t.items[j]] = {}

VARIABLES
    snippet, strict,    \* what is scanned
    pass,               \* "gather", "flatten", "call" or "done"
    stack,              \* the subtrees still to visit, the next one first
    prefix,             \* flatten_use_tree: the segments above
    paths,              \* flatten_use_tree: the paths gathered
    aliases,            \* [clock, hash]: the names such types were renamed to
    found               \* the findings, [kind, at]

vars == <<snippet, strict, pass, stack, prefix, paths, aliases, found>>
given == <<snippet, strict>>

Top == Head(stack)
Visiting(thisPass, forms) == pass = thisPass /\ stack # <<>> /\ Top.form \in forms
Unwind == [form |-> "pop"]  \* behind a subtree: its segment is done with

Init ==
    /\ snippet \in Snippets
    /\ strict \in BOOLEAN
    /\ pass = "gather"
    /\ stack = <<snippet.tree>>
    /\ prefix = <<>> /\ paths = <<>>
    /\ aliases = [clock |-> {}, hash |-> {}]
    /\ found = {}

-----------------------------------------------------------------------------
(* collect_clock_aliases_in_tree and collect_hash_aliases_in_tree *)

GatherPath ==
    /\ Visiting("gather", {"path"})
    /\ stack' = <<Top.tree>> \o Tail(stack)
    /\ UNCHANGED <<given, pass, prefix, paths, aliases, found>>

GatherGroup ==
    /\ Visiting("gather", {"group"})
    /\ stack' = Top.items \o Tail(stack)
    /\ UNCHANGED <<given, pass, prefix, paths, aliases, found>>

\* Seeded fault: the type's own name is remembered, not the new one.
GatherRenameOriginal ==
    /\ Visiting("gather", {"rename"})
    /\ LET If(types) == IF Top.ident \in types THEN {Top.ident} ELSE {}
       IN aliases' = [clock |-> aliases.clock \cup If(ClockTypes),
                      hash |-> aliases.hash \cup If(HashTypes)]
    /\ stack' = Tail(stack)
    /\ UNCHANGED <<given, pass, prefix, paths, found>>

GatherRename ==
    /\ Visiting("gather", {"rename"})
    /\ LET If(types) == IF Top.ident \in types THEN {Top.alias} ELSE {}
       IN aliases' = [clock |-> aliases.clock \cup If(ClockTypes),
                      hash |-> aliases.hash \cup If(HashTypes)]
    /\ stack' = Tail(stack)
    /\ UNCHANGED <<given, pass, prefix, paths, found>>

GatherNothing ==
    /\ Visiting("gather", {"name", "glob"})
    /\ stack' = Tail(stack)
    /\ UNCHANGED <<given, pass, prefix, paths, aliases, found>>

Gathered ==
    /\ pass = "gather" /\ stack = <<>>
    /\ pass' = "flatten"
    /\ stack' = <<snippet.tree>>
    /\ UNCHANGED <<given, prefix, paths, aliases, found>>

-----------------------------------------------------------------------------
(* flatten_use_tree *)

FlattenPath ==
    /\ Visiting("flatten", {"path"})
    /\ prefix' = Append(prefix, Top.ident)
    /\ stack' = <<Top.tree, Unwind>> \o Tail(stack)
    /\ UNCHANGED <<given, pass, paths, aliases, found>>

\* Seeded fault: the segment stays on the prefix.
FlattenPopKeeps ==
    /\ Visiting("flatten", {"pop"})
    /\ stack' = Tail(stack)
    /\ UNCHANGED <<given, pass, prefix, paths, aliases, found>>

FlattenPop ==
    /\ Visiting("flatten", {"pop"})
    /\ prefix' = Front(prefix)
    /\ stack' = Tail(stack)
    /\ UNCHANGED <<given, pass, paths, aliases, found>>

\* A renamed import is read by its original name.
FlattenName ==
    /\ Visiting("flatten", {"name", "rename"})
    /\ paths' = Append(paths, Append(prefix, Top.ident))
    /\ stack' = Tail(stack)
    /\ UNCHANGED <<given, pass, prefix, aliases, found>>

FlattenGlob ==
    /\ Visiting("flatten", {"glob"})
    /\ paths' = Append(paths, prefix)
    /\ stack' = Tail(stack)
    /\ UNCHANGED <<given, pass, prefix, aliases, found>>

FlattenGroup ==
    /\ Visiting("flatten", {"group"})
    /\ stack' = Top.items \o Tail(stack)
    /\ UNCHANGED <<given, pass, prefix, paths, aliases, found>>

-----------------------------------------------------------------------------
(* visit_item_use, visit_expr_path *)

HashKind(isHash) == IF strict /\ isHash THEN "hash-iteration" ELSE "pure"

ImportKind(path) ==
    IF ClassifyPath(path) # "pure" THEN ClassifyPath(path)
    ELSE HashKind(path # <<>> /\ Last(path) \in HashTypes)

IsAliasedClock(path) == Head(path) \in aliases.clock /\ Names(path, NowNames)

CallKind(path) ==
    IF ClassifyPath(path) # "pure" THEN ClassifyPath(path)
    ELSE IF IsAliasedClock(path) THEN "clock"
    ELSE HashKind(Names(path, HashTypes) \/ Head(path) \in aliases.hash)

Recorded(at, kinds) == {[kind |-> k, at |-> at] : k \in kinds \ {"pure"}}

\* Seeded fault: an import that spells no effect by its last two segments is
\* passed over.
VisitUseShort ==
    /\ pass = "flatten" /\ stack = <<>>
    /\ LET short(path) == SubSeq(path, IF Len(path) < 2 THEN 1 ELSE Len(path) - 1, Len(path))
       IN found' = found \cup Recorded("use", {ImportKind(short(paths[i])) : i \in DOMAIN paths})
    /\ pass' = "call"
    /\ UNCHANGED <<given, stack, prefix, paths, aliases>>

VisitUse ==
    /\ pass = "flatten" /\ stack = <<>>
    /\ found' = found \cup Recorded("use", {ImportKind(paths[i]) : i \in DOMAIN paths})
    /\ pass' = "call"
    /\ UNCHANGED <<given, stack, prefix, paths, aliases>>

VisitCall ==
    /\ pass = "call"
    /\ found' = found \cup Recorded("call", {CallKind(snippet.call)})
    /\ pass' = "done"
    /\ UNCHANGED <<given, stack, prefix, paths, aliases>>

Done == pass = "done" /\ UNCHANGED vars

Next ==
    \/ GatherPath \/ GatherGroup \/ GatherRename \/ GatherNothing \/ Gathered
    \/ FlattenPath \/ FlattenPop \/ FlattenName \/ FlattenGlob \/ FlattenGroup
    \/ VisitUse \/ VisitCall
    \/ Done

Spec == Init /\ [][Next]_vars

-----------------------------------------------------------------------------
(* Properties *)

\* Whatever groups, globs and renamings a `use` is made of, what is classified
\* is exactly what it imports, each path once with all that stands before it
\* and nothing left over from the tree beside it (scan.rs flatten_use_tree).
UseIsReadExactly ==
    pass \in {"call", "done"} =>
        /\ {paths[i] : i \in DOMAIN paths} = snippet.imports
        /\ Len(paths) = Cardinality(snippet.imports)
        /\ prefix = <<>>

\* An effect is found, and named for what it is, however its path is divided
\* between the import and the call, as long as one of the two spells the words
\* it is known by, or a clock or hash type was renamed (effect.rs
\* classify_path; scan.rs visit_item_use, visit_expr_path, is_aliased_clock).
EffectIsWitnessed ==
    pass = "done" /\ snippet.kind # "pure" /\ snippet.spelt
      /\ (snippet.kind = "hash-iteration" => strict) =>
        \E f \in found : f.kind = snippet.kind

\* The words an effect is known by are next to one another, so that no import
\* by name parts them.
Together(segs) ==
    /\ \A i \in 1..(Len(segs) - 1) : segs[i] # "thread_rng"
    /\ Names(segs, UuidNames) /\ Names(segs, UuidMakers) =>
          \E i \in 1..(Len(segs) - 1) : segs[i] \in UuidNames /\ segs[i + 1] \in UuidMakers
    /\ StdKind(segs) # "pure" =>
          \A n \in 2..Len(segs) : StdKind(SubSeq(segs, 1, n)) # "pure"

\* The whole path of a call whose first segment the `use` imports by name.
Whole(path) == Front(path) \o snippet.call

\* Whatever path is called through whatever import: if the path written out
\* would be classified, it is found and given that very kind, wherever it is
\* divided, unless the import parts the words it is known by.  No name is
\* resolved for that (effect.rs classify_path; scan.rs visit_item_use,
\* visit_expr_path).
SplitHidesNothing ==
    pass = "done" =>
        \A path \in snippet.imports :
            /\ path # <<>> /\ Last(path) = Head(snippet.call)
            /\ ClassifyPath(Whole(path)) # "pure" /\ Together(StripRoots(Whole(path)))
            => \E f \in found : f.kind = ClassifyPath(Whole(path))

\* Nothing but that effect is found: a value of a module that also has effects
\* is reported in no spelling, and no import lends its effect to what is
\* imported beside it (README.md:181, "never invents a violation").
NothingElseIsFound ==
    \A f \in found : f.kind = snippet.kind

=============================================================================
