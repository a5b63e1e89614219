------------------------------- MODULE Report -------------------------------
(***************************************************************************)
(* report.rs: what the human report says of a sequence of findings, as a   *)
(* sequence of printed lines.  A finding is [file, line, kind], a file is  *)
(* its rank in path order, and a printed line is [to, say, of]: the        *)
(* stream, what sort of line it is and what it is about.  Wording, hints'  *)
(* text and layout are left out.                                           *)
(***************************************************************************)
EXTENDS Integers, Sequences, SequencesExt, FiniteSets

Out(say, of) == [to |-> "stdout", say |-> say, of |-> of]
Err(say, of) == [to |-> "stderr", say |-> say, of |-> of]

DistinctFiles(findings) == Cardinality({findings[i].file : i \in DOMAIN findings})

\* By file, then by line; the sort is stable: a finding comes at the place that
\* leaves room for those that precede it.
Precedes(findings, i, j) ==
    LET f == findings[i]  g == findings[j]
    IN \/ f.file < g.file
       \/ f.file = g.file /\ f.line < g.line
       \/ f.file = g.file /\ f.line = g.line /\ i < j
Sorted(findings) ==
    LET Before(i) == {j \in DOMAIN findings : Precedes(findings, j, i)}
    IN [k \in DOMAIN findings |->
          findings[CHOOSE i \in DOMAIN findings : Cardinality(Before(i)) = k - 1]]

NoHeading == 0  \* no file has this rank

\* Seeded fault: the heading just printed is not remembered.
WithRowForgetful(report, f) ==
    [text |-> report.text
                \o (IF report.heading = f.file THEN <<>> ELSE <<Err("heading", f.file)>>)
                \o <<Err("finding", f)>>,
     heading |-> report.heading]

\* A finding, under a heading if the finding before it is of another file.
WithRow(report, f) ==
    [text |-> report.text
                \o (IF report.heading = f.file THEN <<>> ELSE <<Err("heading", f.file)>>)
                \o <<Err("finding", f)>>,
     heading |-> f.file]

\* The kinds of the findings, each once, in the order they are met.
DistinctKinds(findings) ==
    FoldLeft(LAMBDA seen, f : IF Contains(seen, f.kind) THEN seen ELSE Append(seen, f.kind),
             <<>>, findings)

\* render
Rendered(findings) ==
    LET sorted == Sorted(findings)
        rows == FoldLeft(WithRow, [text |-> <<>>, heading |-> NoHeading], sorted)
        kinds == DistinctKinds(sorted)
    IN rows.text \o [k \in DOMAIN kinds |-> Err("hint", kinds[k])]

=============================================================================
