------------------------------ MODULE Baseline ------------------------------
(***************************************************************************)
(* The baseline file of accepted findings (baseline.rs, finding.rs): its   *)
(* text, how it is read, how findings are measured against it, and how it  *)
(* is rewritten.  A file is [state, lines]: "absent", "text", or           *)
(* "unreadable" (it exists but cannot be read).  Text is the set of its    *)
(* lines: parsing yields a set, so neither order nor repetition matters.   *)
(***************************************************************************)

CONSTANT
    TornLines   \* what a line of which only a part was written reads as

Comment == [text |-> "comment"]
Blank   == [text |-> "blank"]
Entry(sig) == [text |-> "entry", sig |-> sig]

AbsentFile == [state |-> "absent", lines |-> {}]
TextFile(lines) == [state |-> "text", lines |-> lines]

\* The identity of a finding in the ratchet: the line number is left out.
Signature(finding) ==
    [file |-> finding.file, kind |-> finding.kind, snippet |-> finding.snippet]

Signatures(findings) == {Signature(x) : x \in findings}

\* Blank lines and comments are dropped; every other line is a signature.
Parse(lines) == {l.sig : l \in {m \in lines : m.text = "entry"}}

\* A missing file accepts nothing. Loading an unreadable one is an error.
Load(file) == IF file.state = "absent" THEN {} ELSE Parse(file.lines)

\* Seeded fault: no entry is ever noted as matched.
StaleUnmatched(findings, baseline) == baseline

\* apply: findings the baseline does not hold, and entries no finding matched.
Fresh(findings, baseline) == {x \in findings : Signature(x) \notin baseline}
Stale(findings, baseline) == baseline \ Signatures(findings)

Render(findings) == {Comment} \cup {Entry(s) : s \in Signatures(findings)}

\* fs::write truncates, then writes: a failure in between leaves some of the
\* new lines, and possibly one that was cut short.
Cuts == {{}} \cup {{l} : l \in TornLines}
TornWrites(findings) ==
    UNION {{TextFile(some \cup cut) : some \in SUBSET Render(findings)} : cut \in Cuts}

=============================================================================
