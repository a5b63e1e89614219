------------------------------ MODULE Ratchet ------------------------------
(***************************************************************************)
(* The baseline ratchet over many runs: developers edit the tree while     *)
(* gate runs (effect-audit --baseline F) and update runs (... with         *)
(* --update-baseline) work on the one baseline file, each in several steps *)
(* and none with a lock.  A run audits the files one by one, so it may see *)
(* one file before an edit and another after it; an update truncates the   *)
(* file and then writes it, so another run may read or write in between;   *)
(* and any run may be killed at any step.  AuditRun has the steps of one   *)
(* run in full: here an audit is reduced to the files it reads.            *)
(***************************************************************************)
EXTENDS Baseline

CONSTANTS
    Leaks,          \* the findings the code may come to have
    StrictKinds,    \* the effect kinds that need --strict
    Jobs,           \* command lines, [update, strict, skip]
    Procs           \* runs that may be under way at once

VARIABLES
    leaks,      \* the leaks in the tree now
    broken,     \* the files that do not parse now
    baseline,   \* the baseline file
    pc,         \* run -> "idle", "audit" or "write"
    job,        \* run -> its command line
    todo,       \* run -> files it has not come to yet
    found,      \* run -> AuditOutcome.findings
    said,       \* run -> [verdict, stale]: what it reported when it ended
    accepted,   \* history: the leaks in what update runs started to write
    lasting,    \* history: run -> the leaks in the tree ever since it began
    readable,   \* history: run -> the files that parsed ever since it began
    calm,       \* history: run -> nothing happened since it began that could disturb it
    frozen      \* history: the settings of --strict under which the file holds
                \* exactly what the tree has

tree == <<leaks, broken>>
state == <<pc, job, todo, found, said>>
history == <<accepted, lasting, readable, calm, frozen>>
vars == <<tree, baseline, state, history>>

NoJob == [update |-> FALSE, strict |-> FALSE, skip |-> FALSE]

Files == {l.file : l \in Leaks}
NothingSaid == [verdict |-> "none", stale |-> {}]

\* What scan_file reports under a command line: some kinds only under --strict.
Visible(l, strict) == strict \/ l.kind \notin StrictKinds
Shown(S, j) == {l \in S : Visible(l, j.strict)}

Init ==
    /\ leaks \in SUBSET Leaks
    /\ broken = {}
    /\ baseline = AbsentFile
    /\ pc = [p \in Procs |-> "idle"]
    /\ job = [p \in Procs |-> NoJob]
    /\ todo = [p \in Procs |-> {}]
    /\ found = [p \in Procs |-> {}]
    /\ said = [p \in Procs |-> NothingSaid]
    /\ accepted = {}
    /\ lasting = [p \in Procs |-> {}]
    /\ readable = [p \in Procs |-> {}]
    /\ calm = [p \in Procs |-> FALSE]
    /\ frozen = {}

-----------------------------------------------------------------------------
(* The developers *)

\* Any edit ends the calm and the freeze.
Edited ==
    /\ calm' = [p \in Procs |-> FALSE]
    /\ frozen' = {}
    /\ UNCHANGED <<baseline, state, accepted>>

Introduce(l) ==
    /\ l \notin leaks
    /\ leaks' = leaks \cup {l}
    /\ Edited /\ UNCHANGED <<broken, lasting, readable>>

Fix(l) ==
    /\ l \in leaks
    /\ leaks' = leaks \ {l}
    /\ lasting' = [p \in Procs |-> lasting[p] \ {l}]
    /\ Edited /\ UNCHANGED <<broken, readable>>

\* A file stops parsing, with whatever leaks it has.
Break(f) ==
    /\ f \notin broken
    /\ broken' = broken \cup {f}
    /\ readable' = [p \in Procs |-> readable[p] \ {f}]
    /\ Edited /\ UNCHANGED <<leaks, lasting>>

Mend(f) ==
    /\ f \in broken
    /\ broken' = broken \ {f}
    /\ Edited /\ UNCHANGED <<leaks, lasting, readable>>

-----------------------------------------------------------------------------
(* A run *)

\* The process is gone and all it held in memory; its report remains.
End(p, verdict, stale) ==
    /\ pc' = [pc EXCEPT ![p] = "idle"]
    /\ said' = [said EXCEPT ![p] = [verdict |-> verdict, stale |-> stale]]
    /\ job' = [job EXCEPT ![p] = NoJob]
    /\ todo' = [todo EXCEPT ![p] = {}]
    /\ found' = [found EXCEPT ![p] = {}]
    /\ lasting' = [lasting EXCEPT ![p] = {}]
    /\ readable' = [readable EXCEPT ![p] = {}]

Start(p, j) ==
    /\ pc[p] = "idle"
    /\ pc' = [pc EXCEPT ![p] = "audit"]
    /\ job' = [job EXCEPT ![p] = j]
    /\ todo' = [todo EXCEPT ![p] = Files]
    /\ found' = [found EXCEPT ![p] = {}]
    /\ said' = [said EXCEPT ![p] = NothingSaid]
    /\ lasting' = [lasting EXCEPT ![p] = leaks]
    /\ readable' = [readable EXCEPT ![p] = Files \ broken]
    /\ calm' = [calm EXCEPT ![p] = TRUE]
    /\ UNCHANGED <<tree, baseline, accepted, frozen>>

\* Seeded fault: a file's findings replace those of the files before it.
ScanFileReplacing(p, f) ==
    /\ pc[p] = "audit" /\ f \in todo[p] \ broken
    /\ todo' = [todo EXCEPT ![p] = @ \ {f}]
    /\ found' = [found EXCEPT ![p] = Shown({l \in leaks : l.file = f}, job[p])]
    /\ UNCHANGED <<tree, baseline, pc, job, said, history>>

\* scan_one_file on a file that parses.
ScanFile(p, f) ==
    /\ pc[p] = "audit" /\ f \in todo[p] \ broken
    /\ todo' = [todo EXCEPT ![p] = @ \ {f}]
    /\ found' = [found EXCEPT ![p] = @ \cup Shown({l \in leaks : l.file = f}, job[p])]
    /\ UNCHANGED <<tree, baseline, pc, job, said, history>>

\* ... on one that does not, under --skip-unparseable ...
SkipFile(p, f) ==
    /\ pc[p] = "audit" /\ f \in todo[p] \cap broken
    /\ job[p].skip
    /\ todo' = [todo EXCEPT ![p] = @ \ {f}]
    /\ UNCHANGED <<tree, baseline, pc, job, found, said, history>>

\* ... and without it.
AuditFails(p, f) ==
    /\ pc[p] = "audit" /\ f \in todo[p] \cap broken
    /\ ~job[p].skip
    /\ End(p, "error", {})
    /\ UNCHANGED <<tree, baseline, accepted, calm, frozen>>

\* Seeded fault: stale entries do not fail the run.
GateToleratingStale(p) ==
    /\ pc[p] = "audit" /\ todo[p] = {} /\ ~job[p].update
    /\ LET fresh == Fresh(found[p], Load(baseline))
       IN End(p, IF fresh = {} THEN "green" ELSE "red", Stale(found[p], Load(baseline)))
    /\ UNCHANGED <<tree, baseline, accepted, calm, frozen>>

\* A gate run: baseline::load, apply, and the exit code.
Gate(p) ==
    /\ pc[p] = "audit" /\ todo[p] = {} /\ ~job[p].update
    /\ LET fresh == Fresh(found[p], Load(baseline))
           stale == Stale(found[p], Load(baseline))
       IN End(p, IF fresh = {} /\ stale = {} THEN "green" ELSE "red", stale)
    /\ UNCHANGED <<tree, baseline, accepted, calm, frozen>>

\* An update run: fs::write opens the file, which empties it ...
OpenBaseline(p) ==
    /\ pc[p] = "audit" /\ todo[p] = {} /\ job[p].update
    /\ baseline' = TextFile({})
    /\ pc' = [pc EXCEPT ![p] = "write"]
    /\ accepted' = accepted \cup found[p]
    /\ calm' = [q \in Procs |-> q = p /\ calm[p]]
    /\ frozen' = {}
    /\ UNCHANGED <<tree, job, todo, found, said, lasting, readable>>

\* Written from its beginning: what another update wrote meanwhile is replaced
\* only as far as this text goes, the lines beyond stay, the first of them cut.
Overwritten(lines) ==
    UNION {{TextFile(lines \cup rest \cup cut) : rest \in SUBSET baseline.lines} : cut \in Cuts}

Exact(p) == calm[p] /\ baseline.lines = {}

Written(p) ==
    /\ End(p, "updated", {})
    /\ calm' = [q \in Procs |-> FALSE]
    /\ frozen' = IF Exact(p) THEN {job[p].strict} ELSE {}
    /\ UNCHANGED <<tree, accepted>>

\* ... and writes it.
WriteBaseline(p) ==
    /\ pc[p] = "write"
    /\ IF baseline.lines = {} THEN baseline' = TextFile(Render(found[p]))
       ELSE baseline' \in Overwritten(Render(found[p]))
    /\ Written(p)

\* Killed before it writes: nothing is left of it.
Crash(p) ==
    /\ pc[p] = "audit"
    /\ End(p, "crashed", {})
    /\ UNCHANGED <<tree, baseline, accepted, calm, frozen>>

\* Killed, or out of disk, in the middle of writing.
CrashWriting(p) ==
    /\ pc[p] = "write"
    /\ \E torn \in TornWrites(found[p]) : baseline' \in Overwritten(torn.lines)
    /\ End(p, "crashed", {})
    /\ calm' = [q \in Procs |-> FALSE]
    /\ frozen' = {}
    /\ UNCHANGED <<tree, accepted>>

-----------------------------------------------------------------------------
Edit ==
    \/ \E l \in Leaks : Introduce(l) \/ Fix(l)
    \/ \E f \in Files : Break(f) \/ Mend(f)

Step(p) ==
    \/ \E f \in Files : ScanFile(p, f) \/ SkipFile(p, f) \/ AuditFails(p, f)
    \/ Gate(p) \/ OpenBaseline(p) \/ WriteBaseline(p)
    \/ Crash(p) \/ CrashWriting(p)

Next == Edit \/ \E p \in Procs : Step(p) \/ \E j \in Jobs : Start(p, j)

Spec == Init /\ [][Next]_vars

-----------------------------------------------------------------------------
(* Properties *)

\* The state is well-formed: a run holds findings of leaks there are, and one
\* that writes the baseline has been through every file.
TypeOK ==
    /\ leaks \subseteq Leaks /\ broken \subseteq Files
    /\ pc \in [Procs -> {"idle", "audit", "write"}]
    /\ job \in [Procs -> Jobs \cup {NoJob}]
    /\ todo \in [Procs -> SUBSET Files]
    /\ found \in [Procs -> SUBSET Leaks] /\ DOMAIN said = Procs
    /\ accepted \subseteq Leaks /\ calm \in [Procs -> BOOLEAN]
    /\ lasting \in [Procs -> SUBSET Leaks] /\ readable \in [Procs -> SUBSET Files]
    /\ \A p \in Procs : pc[p] = "write" => todo[p] = {}

\* The signatures an update run ever started to write, and those a cut line
\* happens to read as.
TornSignatures == Parse(TornLines)
Acceptable == Signatures(accepted) \cup TornSignatures

\* The leaks a run cannot have missed.
Seen(p) == {l \in Shown(lasting[p], job[p]) : l.file \in readable[p]}

\* The step with which run p ends and reports verdict.
Reports(p, verdict) == pc[p] # "idle" /\ pc'[p] = "idle" /\ said'[p].verdict = verdict

\* New debt is blocked: when a gate run passes, every leak that was in the tree
\* all the while, in a file that parsed, has a signature some update run found
\* before. No edit in the middle of the audit, no half-written baseline, no
\* second update and no crash lets an unaccepted one through (baseline.rs:3-6).
NewDebtIsBlocked ==
    [][\A p \in Procs : Reports(p, "green") => Signatures(Seen(p)) \subseteq Acceptable]_vars

\* Freezing works: once an update has finished undisturbed, a gate run with the
\* same setting of --strict passes, and goes on passing until something is
\* edited or the file is rewritten: its entries are neither too few nor stale
\* (baseline.rs:3-10).
FrozenTreePasses ==
    [][\A p \in Procs :
          calm[p] /\ job[p].strict \in frozen => ~Reports(p, "red")]_vars

\* A run that reads file after file without a lock, and that nothing disturbed,
\* answers what one look at the whole tree and the baseline would: the same
\* verdict and the same stale entries, so that its steps are as good as the one
\* step of Gate (audit.rs audit, baseline.rs apply).
UndisturbedIsAtomic ==
    [][\A p \in Procs, verdict \in {"green", "red"} :
          calm[p] /\ Reports(p, verdict) =>
              LET now == {l \in Shown(leaks, job[p]) : l.file \notin broken}
                  stale == Stale(now, Load(baseline))
              IN /\ verdict = "green" <=> Fresh(now, Load(baseline)) = {} /\ stale = {}
                 /\ said'[p].stale = stale]_vars

\* An entry is reported as stale only if its leaks were gone at some time during
\* the run, or out of the run's sight: in a file it skipped, or of a kind it was
\* not asked for. Nobody is told to drop an entry for a leak the run has seen
\* (main.rs emit; StaleMeansGone below is what it says without the exceptions).
StaleIsUnseen ==
    [][\A p \in Procs :
          Reports(p, "red") => said'[p].stale \cap Signatures(Seen(p)) = {}]_vars

\* The invariant behind NewDebtIsBlocked: whatever a gate run may load was found
\* by an update run, and a run has found what lasted in the files it is through.
EntriesAccepted == Parse(baseline.lines) \subseteq Acceptable

AuditCovers ==
    \A p \in Procs :
        /\ lasting[p] \subseteq leaks
        /\ readable[p] \cap broken = {}
        /\ pc[p] = "audit" => {l \in Seen(p) : l.file \notin todo[p]} \subseteq found[p]

UpdateAccepts == \A p \in Procs : pc[p] = "write" => found[p] \subseteq accepted

\* The invariant behind FrozenTreePasses and UndisturbedIsAtomic: an undisturbed run has found exactly
\* what the files it is through show, and a frozen file holds exactly that.
AuditExact ==
    \A p \in Procs :
        pc[p] # "idle" /\ calm[p] =>
            found[p] = {l \in Shown(leaks, job[p]) : l.file \notin todo[p] \cup broken}

FrozenExact ==
    \A strict \in frozen :
        Load(baseline) =
            Signatures({l \in leaks : Visible(l, strict) /\ l.file \notin broken})

\* The inductive invariant: all of these together.
IInv ==
    /\ TypeOK
    /\ EntriesAccepted /\ AuditCovers /\ UpdateAccepts
    /\ AuditExact /\ FrozenExact

-----------------------------------------------------------------------------
(* What the documentation says, and the code does not do *)

\* "N stale baseline entr(y/ies) -- the leak is gone" (main.rs:259).
StaleMeansGone ==
    [][\A p \in Procs :
          Reports(p, "red") => said'[p].stale \cap Signatures(lasting[p]) = {}]_vars

=============================================================================
