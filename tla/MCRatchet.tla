----------------------------- MODULE MCRatchet -----------------------------
(* Two source files: a.rs, with an async fn that only --strict reports, and *)
(* b.rs, where the same file is read twice, on two lines. Runs p and q.     *)
EXTENDS Ratchet, TLC

CONSTANTS p, q

Leak(file, line, kind, snippet) ==
    [file |-> file, line |-> line, kind |-> kind, snippet |-> snippet]

Async == Leak("a.rs", 3, "async", "fn f")
Read == Leak("b.rs", 1, "file", "read")
SameRead == Leak("b.rs", 2, "file", "read")

MCStrictKinds == {"async"}
Job(update, strict, skip) == [update |-> update, strict |-> strict, skip |-> skip]

\* The beginning of a line, which is no finding's signature.
MCTornLines == {Entry([file |-> "b.rs", kind |-> "file", snippet |-> "re"])}

\* Two runs on one file: an update and a lenient gate, which go past a file that
\* does not parse, and a strict gate, which fails on it.
Two == {p, q}
Swap == Permutations(Two)
TwoLeaks == {Async, Read}
TwoJobs == {Job(TRUE, FALSE, TRUE), Job(FALSE, FALSE, TRUE), Job(FALSE, TRUE, FALSE)}

\* One run at a time; --strict and --skip-unparseable bear on different files.
One == {p}
OneLeaks == {Async, Read, SameRead}
OneJobs == {j \in [update : BOOLEAN, strict : BOOLEAN, skip : BOOLEAN] : ~(j.strict /\ j.skip)}

=============================================================================
