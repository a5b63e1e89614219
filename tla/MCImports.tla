----------------------------- MODULE MCImports ------------------------------
(* Snippets for Imports: things a file may call, each by a path of the     *)
(* given importable length, imported in every way. What a thing is comes   *)
(* from the libraries' documentation, not from effect.rs.                  *)
EXTENDS Imports

MCNowNames == {"now", "now_utc", "now_local"}
MCNetworkFamily == {"aws_sdk_s3"}
MCDatabaseFamily == {"deadpool_postgres"}

\* A thing: its path, how much of it `use` can name, what kind of effect it
\* has, and from and to which segment go the words the effect is known by.
Thing(path, named, kind, from, to) ==
    [path |-> path, named |-> named, kind |-> kind, from |-> from, to |-> to]
Value(path, named) == Thing(path, named, "pure", 0, 0)

Things ==
    {Thing(<<"std", "time", "Instant", "now">>, 3, "clock", 3, 4),
     Thing(<<"chrono", "Utc", "now">>, 2, "clock", 2, 3),
     Thing(<<"time", "OffsetDateTime", "now_utc">>, 2, "clock", 2, 3),
     Thing(<<"rand", "thread_rng">>, 2, "random", 1, 1),
     Thing(<<"uuid", "Uuid", "new_v4">>, 2, "random", 2, 3),
     Thing(<<"std", "fs", "read">>, 3, "filesystem", 2, 2),
     Thing(<<"std", "net", "TcpStream", "connect">>, 3, "network", 2, 3),
     Thing(<<"std", "process", "exit">>, 3, "process", 2, 3),
     Thing(<<"std", "process", "Command", "new">>, 3, "process", 2, 3),
     Thing(<<"std", "env", "var">>, 3, "environment", 2, 3),
     Thing(<<"std", "io", "stdout">>, 3, "console-io", 2, 3),
     Thing(<<"std", "thread", "spawn">>, 3, "concurrency", 2, 3),
     Thing(<<"tokio", "task", "spawn">>, 3, "async-runtime", 1, 1),
     Thing(<<"sqlx", "query">>, 2, "database", 1, 1),
     Thing(<<"deadpool_postgres", "Pool", "get">>, 2, "database", 1, 1),
     Thing(<<"aws_sdk_s3", "Client", "new">>, 2, "network", 1, 1),
     Thing(<<"std", "collections", "HashMap", "new">>, 3, "hash-iteration", 3, 3),
     Value(<<"std", "time", "Duration", "from_secs">>, 3),
     Value(<<"chrono", "Utc", "timestamp_opt">>, 2),
     Value(<<"uuid", "Uuid", "nil">>, 2),
     Value(<<"std", "net", "Ipv4Addr", "new">>, 3),
     Value(<<"std", "process", "ExitStatus", "success">>, 3),
     Value(<<"std", "env", "consts", "ARCH">>, 4),
     Value(<<"std", "io", "Error", "other">>, 3),
     Value(<<"std", "collections", "BTreeMap", "new">>, 3),
     Value(<<"crate", "order", "Order", "total">>, 3),
     Value(<<"super", "spawn">>, 2)}

-----------------------------------------------------------------------------
Name(ident) == [form |-> "name", ident |-> ident]
Rename(ident, alias) == [form |-> "rename", ident |-> ident, alias |-> alias]
Glob == [form |-> "glob"]
Group(items) == [form |-> "group", items |-> items]

RECURSIVE Under(_, _)
Under(path, tree) ==
    IF path = <<>> THEN tree
    ELSE [form |-> "path", ident |-> path[1], tree |-> Under(Tail(path), tree)]

Upto(thing, k) == SubSeq(thing.path, 1, k)
From(thing, k) == SubSeq(thing.path, k, Len(thing.path))

\* The words stand together in the first k segments, or from segment j on.
Spelt(thing, k, j) == thing.to <= k \/ thing.from >= j

Snippet(thing, tree, imports, call, spelt) ==
    [tree |-> tree, imports |-> imports, call |-> call, kind |-> thing.kind, spelt |-> spelt]

\* Something harmless, imported in the same breath.
Beside == <<"serde", "de", "Error">>
BesideTree == Under(<<"serde", "de">>, Name("Error"))
With(path, tree) ==
    {[tree |-> Under(path, tree), more |-> {}],
     [tree |-> Group(<<BesideTree, Under(path, tree)>>), more |-> {Beside}],
     [tree |-> Group(<<Under(path, Group(<<tree>>)), BesideTree>>), more |-> {Beside}]}

\* Not imported; and imported up to segment k by name, with `self`, under
\* another name, or along with everything beside it.
Unimported(t) == {Snippet(t, BesideTree, {Beside}, t.path, TRUE)}

Named(t, k) ==
    {Snippet(t, w.tree, {Upto(t, k)} \cup w.more, From(t, k), Spelt(t, k, k))
        : w \in With(Upto(t, k - 1), Name(t.path[k]))}

BySelf(t, k) ==
    {Snippet(t, w.tree, {Append(Upto(t, k), "self")} \cup w.more, From(t, k), Spelt(t, k, k))
        : w \in With(Upto(t, k), Group(<<Name("self")>>))}

\* A type is known wherever it stands, a module only at the head of the path,
\* where the new name now is; clock and hash types are known by the new name.
Renamed(t, k) ==
    {Snippet(t, w.tree, {Upto(t, k)} \cup w.more, <<"Renamed">> \o From(t, k + 1),
             \/ t.to <= k
             \/ t.from > k /\ t.kind \in {"clock", "random", "hash-iteration"}
             \/ t.from = k /\ t.kind \in {"clock", "hash-iteration"})
        : w \in With(Upto(t, k - 1), Rename(t.path[k], "Renamed"))}

Globbed(t, k) ==
    {Snippet(t, w.tree, {Upto(t, k)} \cup w.more, From(t, k + 1), Spelt(t, k, k + 1))
        : w \in With(Upto(t, k), Glob)}

MCSnippets ==
    UNION {Unimported(t)
             \cup UNION {Named(t, k) \cup Renamed(t, k) : k \in 1..t.named}
             \cup UNION {BySelf(t, k) \cup Globbed(t, k) : k \in 1..(t.named - 1)} : t \in Things}

\* What a tree is made of, and what it imports.
RECURSIVE TreesIn(_), ImportedBy(_)
TreesIn(tree) ==
    {tree} \cup CASE tree.form = "path" -> TreesIn(tree.tree)
                 [] tree.form = "group" -> UNION {TreesIn(tree.items[i]) : i \in DOMAIN tree.items}
                 [] OTHER -> {}

ImportedBy(tree) ==
    CASE tree.form = "path" -> {<<tree.ident>> \o path : path \in ImportedBy(tree.tree)}
      [] tree.form = "group" -> UNION {ImportedBy(tree.items[i]) : i \in DOMAIN tree.items}
      [] tree.form = "glob" -> {<<>>}
      [] OTHER -> {<<tree.ident>>}

MCUseTrees == UNION {TreesIn(s.tree) : s \in MCSnippets}
MCImported == [t \in MCUseTrees |-> ImportedBy(t)]

=============================================================================
