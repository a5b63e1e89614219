------------------------------- MODULE MCScan -------------------------------
(* Small files for Scan, of up to five constructs.                         *)
EXTENDS Scan, SequencesExt

MCNoAlias == "no alias"

\* A construct that does nothing; line and chain are filled in below.
Plain(up, form) ==
    [up |-> up, form |-> form, gated |-> FALSE, line |-> 0, effect |-> "pure",
     async |-> FALSE, boxed |-> {}, name |-> "x", now |-> FALSE, hash |-> FALSE,
     leaves |-> {}, args |-> FALSE, chain |-> {}]

Gated(c) == [c EXCEPT !.gated = TRUE]
Effectful(c) == [c EXCEPT !.effect = "console-io"]
Calls(up, name) == [Plain(up, "path") EXCEPT !.name = name, !.now = TRUE]
Hash(c) == [c EXCEPT !.hash = TRUE]
Async(c) == [c EXCEPT !.async = TRUE]
Macro(up, args) == [Plain(up, "macro") EXCEPT !.args = args]
Leaf(effect, type, alias) == [effect |-> effect, type |-> type, alias |-> alias]
Use(up, leaves) == [Plain(up, "use") EXCEPT !.leaves = leaves]
Boxed(c, line) == [c EXCEPT !.boxed = {line}]

MaybeGated(c) == {c, Gated(c)}

\* Constructs on the given lines, each with the chain of what is around it.
RECURSIVE ChainOf(_, _)
ChainOf(nodes, n) ==
    {n} \cup IF nodes[n].up = 0 THEN {} ELSE ChainOf(nodes, nodes[n].up)

Laid(nodes, lines) ==
    [n \in DOMAIN nodes |-> [nodes[n] EXCEPT !.line = lines[n], !.chain = ChainOf(nodes, n)]]

Marker(line, where, reason) == [line |-> line, where |-> where, reason |-> reason]
File(lexes, markers, nodes) == [lexes |-> lexes, markers |-> markers, nodes |-> nodes]

-----------------------------------------------------------------------------
(* Nesting: an item, something inside it, and something inside that, beside *)
(* a macro around a call; gates and effects anywhere.                       *)

Outer == UNION {MaybeGated(Plain(0, f)) : f \in {"mod", "fn", "impl", "item"}}
           \cup {Boxed(Plain(0, "item"), 1), Async(Plain(0, "fn"))}

Middle == UNION {MaybeGated(c) :
                    c \in {Async(Plain(1, "method")), Async(Plain(1, "fn")),
                           Plain(1, "item"), Boxed(Plain(1, "impl"), 3),
                           Effectful(Plain(1, "static"))}}
            \cup {Effectful(Plain(1, "field")), Async(Plain(1, "async block")),
                  Effectful(Plain(1, "method call"))}

Inner ==
    {<<Effectful(Plain(2, "path"))>>, <<Hash(Plain(2, "type"))>>,
     <<Effectful(Macro(2, FALSE)), Effectful(Plain(3, "path"))>>,
     <<Effectful(Macro(2, TRUE)), Effectful(Plain(3, "path"))>>,
     <<Gated(Plain(2, "mod")), Effectful(Plain(3, "path"))>>,
     <<Use(2, {Leaf("file", "other", MCNoAlias), Leaf("pure", "hash", MCNoAlias)})>>}

NestedFiles ==
    {File(TRUE, m, Laid(<<o, i>> \o rest, <<1, 2, 3, 4>>))
        : o \in Outer, i \in Middle, rest \in Inner,
          m \in {{}, {Marker(3, "comment", "given")}}}

-----------------------------------------------------------------------------
(* Markers: none, a directive on line 2, and what only looks like one;      *)
(* constructs one to a line, two to a line, and below the marker's line.    *)

Markers ==
    {{}, {Marker(2, "comment", "given")}, {Marker(2, "token", "given")},
     {Marker(2, "comment", "noColon"), Marker(3, "comment", "empty")}}

Lines == {<<1, 2, 3, 4>>, <<1, 1, 2, 2>>, <<2, 2, 3, 3>>, <<1, 3, 3, 4>>}

MarkedFiles ==
    {File(lexes, m, Laid(<<o, Effectful(Plain(1, "method call")), i, Hash(Plain(1, "type"))>>, l))
        : lexes \in BOOLEAN, m \in Markers, l \in Lines,
          o \in {Async(Plain(0, "fn")), Boxed(Plain(0, "impl"), 2)},
          i \in {Effectful(Plain(1, "field")), Effectful(Macro(1, FALSE))}}

-----------------------------------------------------------------------------
(* Aliases: `use` at the top, in a module, or in a function, gated or not;  *)
(* calls through the alias at the top and in the module; and, further in,   *)
(* another `use` that gives the name to something else.                     *)

Renaming(up) ==
    UNION {MaybeGated(Use(up, leaves)) :
        leaves \in {{Leaf("pure", "clock", "I")},
                    {Leaf("pure", "hash", "M"), Leaf("pure", "clock", MCNoAlias)}}}

AliasFiles ==
    {File(lexes, m, Laid(<<o, u, Calls(1, "I"), c>>, <<1, 2, 3, 4>>))
        : o \in UNION {MaybeGated(Plain(0, f)) : f \in {"mod", "fn"}},
          u \in UNION {Renaming(up) : up \in {0, 1}},
          c \in {Calls(0, "I"), [Plain(0, "type") EXCEPT !.name = "M"],
                 Effectful(Calls(0, "I")), Gated(Plain(1, "mod")),
                 [Calls(1, "M") EXCEPT !.now = FALSE], [Calls(1, "I") EXCEPT !.now = FALSE],
                 Hash(Calls(1, "I")), Use(1, {Leaf("pure", "other", "I")})},
          m \in {{}, {Marker(3, "comment", "given")}},
          lexes \in BOOLEAN}

\* One name, a clock in one place and something else in another, where it is
\* called: in two modules, in a module and a function, with and without test.
Clock(up) == Use(up, {Leaf("pure", "clock", "I")})
Other(up) == Use(up, {Leaf("pure", "other", "I")})

ClashingFiles ==
    {File(TRUE, {}, Laid(nodes, <<1, 2, 3, 4, 5>>))
        : nodes \in {<<Clock(0), Plain(0, "mod"), Other(2), Plain(2, "fn"), Calls(4, "I")>>,
                     <<Plain(0, "mod"), Clock(1), Other(0), Plain(0, "fn"), Calls(4, "I")>>,
                     <<Clock(0), Plain(0, "fn"), Other(2), Calls(2, "I"), Calls(0, "x")>>,
                     <<Gated(Clock(0)), Other(0), Plain(0, "fn"), Calls(3, "I"), Calls(3, "x")>>}}

MCFiles == NestedFiles \cup MarkedFiles \cup AliasFiles \cup ClashingFiles

-----------------------------------------------------------------------------
(* Files on which the documentation's claims and the code part ways.        *)

\* A trait with a method, a struct with a field.
GatedFiles ==
    {File(TRUE, {}, Laid(<<Plain(0, "item"), c, Effectful(Plain(2, "path"))>>, <<1, 2, 3>>))
        : c \in UNION {MaybeGated(Plain(1, f)) : f \in {"method", "trait method", "field"}}}

=============================================================================
