------------------------------ MODULE MCShell -------------------------------
(* Command lines of up to five words, and what an audit may come to.       *)
EXTENDS Shell, TLC

MCNone == "no option"
Path == "src"
Lost == "gone"          \* a path that does not resolve
Garbled == "garbled"    \* a word that is not Unicode

Words == {"--advisory", "--require-domain", "--skip-unparseable", "--update-baseline",
          "--json", "--format", "json", "--baseline", "--help", "-x", Path, Lost, Garbled}

\* Words whose meaning hangs on their place.
Placed == {"--update-baseline", "--json", "--format", "human", "json", "--baseline", "-h"}

\* Runs against a baseline, with every way to judge and to print.
Ways == {"--advisory", "--skip-unparseable", "--update-baseline", "--json"}

MCLines ==
    UNION {[1..n -> Words] : n \in 0..3}
      \cup [1..4 -> Placed]
      \cup {<<"--baseline", Path>> \o ways : ways \in [1..3 -> Ways]}
MCDashed == Known \cup {"-x"}
MCUnicode == MCDashed \cup Formats \cup {Path, Lost}
MCResolves == {".", Path, "human", "json"}

Finding(file, fline, kind) == [file |-> file, line |-> fline, kind |-> kind]

\* Files 2 and 1 in the order they were walked, lines in the order they were
\* visited; the same kind twice on one line; a manifest and a source file.
FreshChoices ==
    {<<>>,
     <<Finding(2, 3, "clock"), Finding(1, 5, "clock"), Finding(1, 4, "random")>>,
     <<Finding(1, 4, "clock"), Finding(1, 4, "clock")>>,
     <<Finding(3, 0, "network"), Finding(4, 7, "network")>>}

Result(end, inert, findings, stale, skipped) ==
    [end |-> end, inert |-> inert, findings |-> findings, stale |-> stale, skipped |-> skipped]

MCResults ==
    {Result("outcome", i, f, s, k)
        : i \in {<<>>, <<7>>}, f \in FreshChoices,
          s \in {<<>>, <<"gone leak">>}, k \in {<<>>, <<5, 6>>}}
      \cup {Result("failed", i, <<>>, <<>>, <<>>) : i \in {<<>>, <<7>>}}
      \cup {Result(end, <<>>, <<>>, <<>>, <<>>) : end \in {"no core crate", "no such role"}}

=============================================================================
