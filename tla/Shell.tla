------------------------------- MODULE Shell --------------------------------
(***************************************************************************)
(* effect-audit as its user meets it: main.rs from the command line        *)
(* (Arguments) to what is printed (Report) and the exit code.  What the    *)
(* audit between the two comes to is any result the flags allow; AuditRun  *)
(* says how it is reached.                                                 *)
(*                                                                         *)
(* A result is [end, inert, findings, stale, skipped]; end is "outcome",   *)
(* or "failed" (run() returned an error), "no core crate" or "no such      *)
(* role" (a --require flag names a role that no crate has).  inert are the *)
(* kernels whose pure-deps mean nothing, findings are the fresh ones, or   *)
(* all of them when the baseline is to be rewritten.                       *)
(***************************************************************************)
EXTENDS Arguments, Report

CONSTANT Results    \* what an audit may come to

\* The four lists are lists, and a finding is in some file, at some line.
ASSUME ResultsAssumption ==
    \A r \in Results :
        /\ r.end \in {"outcome", "failed", "no core crate", "no such role"}
        /\ r.inert \in Seq(Range(r.inert)) /\ r.findings \in Seq(Range(r.findings))
        /\ r.stale \in Seq(Range(r.stale)) /\ r.skipped \in Seq(Range(r.skipped))
        /\ \A f \in Range(r.findings) : f.file \in Nat \ {NoHeading} /\ f.line \in Nat

Pending ==
    [end |-> "pending", inert |-> <<>>, findings |-> <<>>, stale |-> <<>>, skipped |-> <<>>]

VARIABLES
    result,     \* what the audit came to, or Pending
    stage,      \* how far main has got behind it
    text,       \* the lines printed
    exit        \* Running, or the exit code

Running == -1
vars == <<line, index, opts, status, result, stage, text, exit>>

Init ==
    /\ ParseInit
    /\ result = Pending
    /\ stage = "parse"
    /\ text = <<>>
    /\ exit = Running

On(switch) == switch \in opts.switches
Json == opts.format = "json"
Go(newStage, lines) ==
    stage' = newStage /\ text' = text \o lines /\ UNCHANGED <<parsing, result, exit>>
Exit(code, lines) ==
    exit' = code /\ text' = text \o lines /\ stage' = "done" /\ UNCHANGED <<parsing, result>>

-----------------------------------------------------------------------------
(* main and run, up to the audit's result *)

Parse == stage = "parse" /\ ParseNext /\ UNCHANGED <<result, stage, text, exit>>

AnswerHelp == stage = "parse" /\ status = "help" /\ Exit(0, <<Out("help", "")>>)
AnswerMistake == stage = "parse" /\ status = "usage error" /\ Exit(2, <<Err("error", "")>>)
AnswerPanic == stage = "parse" /\ status = "panic" /\ Exit(101, <<Err("panic", "")>>)

\* A stale entry takes a baseline to be compared with, a skipped file the flag
\* that tolerates it, and a role is missed only when it was required.
Allowed(r) ==
    /\ r.stale # <<>> => opts.baseline # None /\ ~On("--update-baseline")
    /\ r.skipped # <<>> => On("--skip-unparseable")
    /\ r.inert # <<>> => r.end \in {"outcome", "failed"}
    /\ r.end = "no such role" => On("--require-domain") \/ On("--require-kernel")

\* warn_inert_vouching speaks before the files are audited.
Audit ==
    /\ stage = "parse" /\ status = "accepted"
    /\ result' \in {r \in Results : Allowed(r)}
    /\ stage' = result'.end
    /\ text' = [k \in DOMAIN result'.inert |-> Err("inert", result'.inert[k])]
    /\ UNCHANGED <<parsing, exit>>

AuditFails == stage = "failed" /\ Exit(2, <<Err("error", "")>>)

NoCoreCrates ==
    /\ stage = "no core crate"
    /\ Exit(IF On("--require-domain") \/ On("--require-kernel") THEN 2 ELSE 0,
            <<Err("audited nothing", "")>>)

MissingRole == stage = "no such role" /\ Exit(2, <<Err("no such role", "")>>)

-----------------------------------------------------------------------------
(* update_baseline and emit *)

SkippedLines == [k \in DOMAIN result.skipped |-> Err("skipped", result.skipped[k])]
StaleLines == [k \in DOMAIN result.stale |-> Err("stale", result.stale[k])]
\* render_json: the three lists, the findings as they came.
Object == [findings |-> result.findings, stale |-> result.stale, skipped |-> result.skipped]
Clean == result.findings = <<>> /\ result.stale = <<>>

\* Seeded fault: an update does not say which files it did not read.
AnnounceUpdateOnly ==
    /\ stage = "outcome" /\ On("--update-baseline")
    /\ Exit(0, <<Err("wrote", Len(result.findings))>>)

AnnounceUpdate ==
    /\ stage = "outcome" /\ On("--update-baseline")
    /\ Exit(0, <<Err("wrote", Len(result.findings))>> \o SkippedLines)

\* Seeded fault: the JSON object is followed by the report.
EmitJsonToo ==
    /\ stage = "outcome" /\ ~On("--update-baseline") /\ Json
    /\ Go("leaks", <<Out("json", Object)>>)

EmitJson ==
    /\ stage = "outcome" /\ ~On("--update-baseline") /\ Json
    /\ Go("exit", <<Out("json", Object)>>)

\* The claim that the core holds is withheld when a file was skipped.
EmitVerdict ==
    /\ stage = "outcome" /\ ~On("--update-baseline") /\ ~Json /\ Clean
    /\ Go("exit", <<Out(IF result.skipped = <<>> THEN "holds" ELSE "withheld", "")>>
                    \o SkippedLines)

StartReport ==
    /\ stage = "outcome" /\ ~On("--update-baseline") /\ ~Json /\ ~Clean
    /\ Go("leaks", <<>>)

EmitLeaks ==
    /\ stage = "leaks"
    /\ LET leaked == [effects |-> Len(result.findings), files |-> DistinctFiles(result.findings)]
       IN Go("stale", IF result.findings = <<>> THEN <<>>
                      ELSE Rendered(result.findings) \o <<Err("leaked", leaked)>>)

EmitStale == stage = "stale" /\ Go("notes", StaleLines)

EmitNotes ==
    /\ stage = "notes"
    /\ Go("exit", SkippedLines \o IF On("--advisory") THEN <<Err("advisory", "")>> ELSE <<>>)

\* Seeded fault: entries that are stale do not fail the run.
ExitCodeFreshOnly == IF result.findings = <<>> \/ On("--advisory") THEN 0 ELSE 1

\* exit_code
ExitCode == IF Clean \/ On("--advisory") THEN 0 ELSE 1

Leaving == stage = "exit" /\ Exit(ExitCode, <<>>)

Done == stage = "done" /\ UNCHANGED vars

Next ==
    \/ Parse
    \/ AnswerHelp \/ AnswerMistake \/ AnswerPanic
    \/ Audit \/ AuditFails \/ NoCoreCrates \/ MissingRole
    \/ AnnounceUpdate \/ EmitJson \/ EmitVerdict
    \/ StartReport \/ EmitLeaks \/ EmitStale \/ EmitNotes
    \/ Leaving
    \/ Done

Spec == Init /\ [][Next]_vars

\* One thread, which nothing holds up for ever.
FairSpec == Spec /\ WF_vars(Next)

-----------------------------------------------------------------------------
(* Properties *)

Ended == exit # Running
Judged == Ended /\ result.end = "outcome" /\ ~On("--update-baseline")
Saying(say) == {i \in DOMAIN text : text[i].say = say}
Times(seq, x) == Cardinality({i \in DOMAIN seq : seq[i] = x})

\* The heading a printed finding stands under.
Above(i) == CHOOSE h \in Saying("heading") :
               h < i /\ \A g \in Saying("heading") : g < i => g <= h

\* parse_args reads at most the words there are; only a line that is accepted
\* is audited, and there is an exit code exactly when nothing is left to do
\* (main.rs main, run).
TypeOK ==
    /\ index \in 1..(Len(line) + 1)
    /\ status \in {"collect", "read", "accepted", "help", "usage error", "panic"}
    /\ opts.switches \subseteq Switches /\ opts.format \in Formats
    /\ result # Pending => status = "accepted"
    /\ exit \in {Running, 0, 1, 2, 101}
    /\ Ended <=> stage = "done"

\* The human report tells every fresh finding as often as there is one, in line
\* order under the one heading of its file; it gives the hint of every kind
\* once, and its closing line counts what stands above it (report.rs render,
\* distinct_files; main.rs emit).
ReportIsComplete ==
    Judged /\ ~Json /\ result.findings # <<>> =>
        LET found == result.findings
            rows == Saying("finding")
            headings == Saying("heading")
            hints == Saying("hint")
        IN /\ Cardinality(rows) = Len(found)
           /\ \A i \in rows : Times(text, text[i]) = Times(found, text[i].of)
           /\ \A i \in rows : /\ \E h \in headings : h < i
                              /\ text[Above(i)].of = text[i].of.file
           /\ \A i, j \in rows : i < j /\ Above(i) = Above(j) => text[i].of.line <= text[j].of.line
           /\ \A g, h \in headings : text[g] = text[h] => g = h
           /\ \A k \in {found[i].kind : i \in DOMAIN found} : Times(text, Err("hint", k)) = 1
           /\ Cardinality(hints) = Cardinality({found[i].kind : i \in DOMAIN found})
           /\ \E i \in Saying("leaked") :
                 text[i].of = [effects |-> Cardinality(rows), files |-> Cardinality(headings)]

\* A file that was skipped is named in whatever the run prints, if the run got
\* to an outcome: clean or leaking, updating or gating, human or JSON, and
\* advisory or not (main.rs warn_skipped, report.rs render_json).
SkipsAreNeverSilent ==
    Ended /\ result.end = "outcome" =>
        \A k \in DOMAIN result.skipped :
            \/ Err("skipped", result.skipped[k]) \in {text[i] : i \in Saying("skipped")}
            \/ \E i \in Saying("json") : text[i].of.skipped = result.skipped

\* Where the last --json or --format of the line asks for JSON, a judged run
\* prints one object with all three lists on stdout and says nothing of them on
\* stderr; where it does not, stdout gets the verdict at most (main.rs emit).
JsonIsAlone ==
    Judged => LET onStdout == {i \in DOMAIN text : text[i].to = "stdout"}
                  onStderr == {i \in DOMAIN text : text[i].to = "stderr"}
              IN IF Contract!Json
                   THEN /\ \E i \in onStdout : onStdout = {i} /\ text[i] = Out("json", Object)
                        /\ \A i \in onStderr : text[i].say = "inert"
                   ELSE \A i \in onStdout : text[i].say \in {"holds", "withheld"}

\* The exit code tells a leak from everything else: 1 exactly when a run judged
\* something fresh or stale and nobody said --advisory on the line, the value
\* of another flag not counting as saying it (main.rs exit_code, README exit codes).
OneMeansLeak ==
    Ended => (exit = 1 <=> /\ Judged
                           /\ result.findings # <<>> \/ result.stale # <<>>
                           /\ ~Contract!Says("--advisory"))

\* Every run answers, whatever is on its command line.
Terminates == <>Ended

-----------------------------------------------------------------------------
(* The inductive invariant: how far main has got, and what it has said       *)

Judging == result.end = "outcome" /\ ~On("--update-baseline")

StagesAgree ==
    /\ stage \in {"parse", "outcome", "failed", "no core crate", "no such role",
                  "leaks", "stale", "notes", "exit", "done"}
    /\ result = Pending \/ (result \in Results /\ Allowed(result) /\ status = "accepted")
    /\ stage = "parse" => result = Pending /\ text = <<>>
    /\ stage \in {"outcome", "failed", "no core crate", "no such role"} => result.end = stage
    /\ stage \in {"leaks", "stale", "notes"} => Judging /\ ~Json
    /\ stage = "exit" => Judging

ExitAgrees ==
    /\ exit \in {Running, 0, 1, 2, 101}
    /\ Ended <=> stage = "done"
    /\ Ended => (exit = 1 <=> Judging /\ ~Clean /\ ~On("--advisory"))

SaidSoFar ==
    /\ text \in Seq(Range(text))
    /\ stage \notin {"exit", "done"} => \A l \in Range(text) : l.to = "stderr"
    /\ stage = "outcome" => \A l \in Range(text) : l.say = "inert"

OneObject ==
    /\ \E i \in DOMAIN text : /\ {j \in DOMAIN text : text[j].to = "stdout"} = {i}
                              /\ text[i] = Out("json", Object)
    /\ \A l \in Range(text) : l.to = "stderr" => l.say = "inert"

SaidAtTheEnd ==
    /\ stage = "exit" \/ (Ended /\ Judging) =>
         IF Json THEN OneObject
         ELSE \A l \in Range(text) : l.to = "stdout" => l.say \in {"holds", "withheld"}
    /\ stage = "exit" \/ (Ended /\ result.end = "outcome") =>
         \/ Range(SkippedLines) \subseteq Range(text)
         \/ \E l \in Range(text) : l.say = "json" /\ l.of = Object

IInv == ReadInv /\ StagesAgree /\ ExitAgrees /\ SaidSoFar /\ SaidAtTheEnd

=============================================================================
