----------------------------- MODULE MCModTree -----------------------------
(* Small source trees for ModTree, over the module names a and b.          *)
EXTENDS ModTree

MCNames == {"a", "b", "c", "lib", "main", "mod", "none"}

Lib == File(<<>>, "lib")
Main == File(<<>>, "main")
A == File(<<>>, "a")
B == File(<<>>, "b")
AMod == File(<<"a">>, "mod")
AB == File(<<"a">>, "b")
ABMod == File(<<"a", "b">>, "mod")
ABA == File(<<"a", "b">>, "a")
Mod == File(<<>>, "mod")

AtMost(n, S) == {s \in SUBSET S : Cardinality(s) <= n}

Decl(within, sealed, name, gated, path) ==
    [within |-> within, sealed |-> sealed, name |-> name, gated |-> gated, path |-> path]

Tree(files, parses, decls) == [files |-> files, parses |-> parses, decls |-> decls]

Plain(name, gated) == Decl(<<>>, FALSE, name, gated, NoPath)
InA(name, sealed, gated) == Decl(<<"a">>, sealed, name, gated, NoPath)

-----------------------------------------------------------------------------
(* Trees without #[path]: up to two declarations in any file, among them     *)
(* pairs that declare one module twice, and declarations inside inline       *)
(* modules; files that all parse, or all but a.rs.                           *)

DeclSets ==
    {{}, {Plain("a", FALSE)}, {Plain("a", TRUE)}, {Plain("b", TRUE)},
     {Plain("a", FALSE), Plain("b", TRUE)}, {Plain("a", TRUE), Plain("b", FALSE)},
     {InA("b", FALSE, FALSE)}, {InA("b", FALSE, TRUE), Plain("b", FALSE)},
     {InA("b", TRUE, FALSE)}, {Plain("a", TRUE), InA("b", FALSE, FALSE)}}

FileSets == {{Lib, A, B}, {Lib, A, AB}, {Main, AMod, AB}, {A, B}}

\* a/b/mod.rs and a/b/a.rs below a/mod.rs, and a.rs hiding an a/mod.rs
DeepFileSets == {{Lib, AMod, ABMod, ABA}, {Lib, A, AMod, AB}}
FewDeclSets ==
    {{}, {Plain("a", FALSE)}, {Plain("b", TRUE)}, {Plain("a", TRUE), Plain("b", FALSE)}}

TreesOver(files, declSets) ==
    [files : {files}, parses : {files, files \ {A}}, decls : [files -> declSets]]

ConventionalTrees ==
    UNION {TreesOver(files, DeclSets) : files \in FileSets}
      \cup UNION {TreesOver(files, FewDeclSets) : files \in DeepFileSets}

-----------------------------------------------------------------------------
(* Trees with #[path]: `#[path = "b.rs"] mod c;` or `#[path = "a/b.rs"] mod c;` *)
(* in lib.rs, a.rs, a/mod.rs or an inline module, which lib.rs may declare.  *)

PathDecl(within, gated, file) == Decl(within, FALSE, "c", gated, file)
PathDecls ==
    {PathDecl(w, g, f) : w \in {<<>>, <<"a">>}, g \in BOOLEAN, f \in {B, AB}}

PathTrees ==
    {Tree(files, files, [f \in files |-> CASE f = Lib -> l
                                          [] f \in {A, AMod} -> m
                                          [] OTHER -> n])
        : files \in {{Lib, A, B, AB}, {Lib, AMod, B, AB}},
          l \in SUBSET {Plain("a", FALSE), Plain("a", TRUE), Plain("b", FALSE)}
                \cup {{d} : d \in PathDecls}
                \cup {{d, Plain("a", g)} : d \in PathDecls, g \in BOOLEAN},
          m \in {{}, {Plain("b", FALSE)}} \cup {{d} : d \in PathDecls},
          n \in {{}, {Plain("a", TRUE)}}}

-----------------------------------------------------------------------------
(* Trees in which what is brought in is a crate root, or a mod.rs by its     *)
(* #[path], a.rs or a/b.rs standing beside it.                               *)

RootTrees ==
    {Tree({Lib, Main, Mod, AMod, AB}, {Lib, Main, Mod, AMod, AB},
          [f \in {Lib, Main, Mod, AMod, AB} |-> CASE f = Lib -> l [] f = Main -> m [] OTHER -> {}])
        : l \in AtMost(2, {Plain("main", TRUE), Plain("main", FALSE), InA("b", FALSE, FALSE),
                           Plain("a", FALSE), Plain("a", TRUE)}
                          \cup {PathDecl(<<>>, g, f) : g \in BOOLEAN, f \in {Main, Mod, AMod}}),
          m \in AtMost(1, {Plain("a", FALSE), Plain("a", TRUE), InA("b", FALSE, FALSE)})}

MCTrees == ConventionalTrees \cup PathTrees \cup RootTrees

-----------------------------------------------------------------------------
(* Trees on which the documentation's claims and the code part ways.         *)

\* lib.rs declares a and b, each gated, not gated, both or not at all:
\* `#[cfg(test)] pub mod a;` beside `#[cfg(not(test))] mod a;`.
TwiceDeclaredTrees ==
    {Tree({Lib, A, B}, {Lib, A, B}, (Lib :> l) @@ [f \in {A, B} |-> {}])
        : l \in AtMost(2, {Plain(n, g) : n \in {"a", "b"}, g \in BOOLEAN})}

=============================================================================
