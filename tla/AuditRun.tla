------------------------------ MODULE AuditRun ------------------------------
(***************************************************************************)
(* One run of effect-audit, step by step: main.rs drives discovery, the    *)
(* audit (audit.rs: for each core crate in name order its manifest, then   *)
(* the entries of its src/ directory, in the order the directory walker    *)
(* happens to yield them), the baseline and the report.  Any step may      *)
(* abandon the run with exit code 2, and nothing done so far is undone.    *)
(*                                                                         *)
(* scanned is a history variable: the files that were parsed and scanned.  *)
(***************************************************************************)
EXTENDS Workspace, Baseline

CONSTANTS
    Workspaces,     \* the workspaces a run may meet
    ArgSets,        \* the command lines parse_args accepts
    BaselineFiles   \* the baseline files a run may find

\* parse_args refuses --update-baseline without --baseline.
ASSUME ArgsAssumption == \A a \in ArgSets : a.updateBaseline => a.baseline

VARIABLES
    ws, args, baseline,     \* what the run is given
    exit, out,              \* what it answers
    pc,                     \* the step of main.rs it is at
    todo,                   \* core crates not yet fully audited
    walk,                   \* entries of the current crate not yet yielded
    findings, skipped,      \* AuditOutcome
    ratchet,                \* Ratchet: the fresh findings and stale entries
    scanned                 \* history: <<crate, file>> pairs that were scanned

vars == <<ws, args, baseline, exit, out, pc, todo, walk, findings, skipped,
          ratchet, scanned>>
given == <<ws, args>>
audit == <<todo, walk, findings, skipped, scanned>>

Contract == INSTANCE Gate

Running == "running"   \* no exit code yet
Says(verdict, fresh, stale, skip) ==
    [verdict |-> verdict, fresh |-> fresh, stale |-> stale, skipped |-> skip]

Init ==
    /\ ws \in Workspaces
    /\ args \in ArgSets
    /\ baseline \in BaselineFiles
    /\ exit = Running
    /\ out = Says("none", {}, {}, {})
    /\ pc = "discover"
    /\ todo = {} /\ walk = {}
    /\ findings = {} /\ skipped = {} /\ scanned = {}
    /\ ratchet = [fresh |-> {}, stale |-> {}]

Exit(code) == exit' = code /\ pc' = "done"

-----------------------------------------------------------------------------
(* main.rs run(), up to the audit *)

\* Seeded fault: every package is taken for a core crate.
DiscoverEveryPackage ==
    /\ pc = "discover"
    /\ ws.resolves
    /\ todo' = Packages
    /\ pc' = "check roles"
    /\ UNCHANGED <<given, baseline, exit, out, walk, findings, skipped, ratchet, scanned>>

\* core_crates: cargo metadata, then the packages that declare a core role.
Discover ==
    /\ pc = "discover"
    /\ ws.resolves
    /\ todo' = CoreCrates(ws)
    /\ pc' = "check roles"
    /\ UNCHANGED <<given, baseline, exit, out, walk, findings, skipped, ratchet, scanned>>

\* cargo metadata failed.
DiscoveryFails ==
    /\ pc = "discover"
    /\ ~ws.resolves
    /\ Exit("TOOL_ERROR")
    /\ UNCHANGED <<given, baseline, out, audit, ratchet>>

\* handle_no_core_crates: a warning, and a failure only if a role is required.
NoCoreCrates ==
    /\ pc = "check roles"
    /\ todo = {}
    /\ IF args.requireDomain \/ args.requireKernel
         THEN Exit("TOOL_ERROR") /\ UNCHANGED out
         ELSE Exit("SUCCESS") /\ out' = Says("audited nothing", {}, {}, {})
    /\ UNCHANGED <<given, baseline, audit, ratchet>>

RequiredRoleMissing ==
    \/ args.requireKernel /\ ~HasRole(ws, "kernel")
    \/ args.requireDomain /\ ~HasRole(ws, "domain")

MissingRequiredRole ==
    /\ pc = "check roles"
    /\ todo # {}
    /\ RequiredRoleMissing
    /\ Exit("TOOL_ERROR")
    /\ UNCHANGED <<given, baseline, out, audit, ratchet>>

StartAudit ==
    /\ pc = "check roles"
    /\ todo # {}
    /\ ~RequiredRoleMissing
    /\ pc' = "crate"
    /\ UNCHANGED <<given, baseline, exit, out, audit, ratchet>>

-----------------------------------------------------------------------------
(* audit.rs *)

\* crates are sorted by name: the current one is the least not yet audited.
Current(c) == c \in todo /\ \A d \in todo : c <= d

\* Seeded fault: a crate's findings replace those of the crates before it.
AuditManifestReplacing ==
    /\ pc = "crate"
    /\ \E c \in todo :
          /\ Current(c)
          /\ findings' = ManifestFindings(ws, c, args.strict)
          /\ walk' = Walked(ws.pkgs[c])
    /\ pc' = "walk"
    /\ UNCHANGED <<given, baseline, exit, out, todo, skipped, ratchet, scanned>>

\* manifest_findings, then source_findings gets as far as starting the walk.
AuditManifest ==
    /\ pc = "crate"
    /\ \E c \in todo :
          /\ Current(c)
          /\ findings' = findings \cup ManifestFindings(ws, c, args.strict)
          /\ walk' = Walked(ws.pkgs[c])
    /\ pc' = "walk"
    /\ UNCHANGED <<given, baseline, exit, out, todo, skipped, ratchet, scanned>>

\* An entry that is no .rs file, or lies under an exclusion root.
PassOver ==
    /\ pc = "walk"
    /\ \E f \in walk :
          /\ ~IsProduction(f)
          /\ walk' = walk \ {f}
    /\ UNCHANGED <<given, baseline, exit, out, pc, todo, findings, skipped, ratchet, scanned>>

\* scan_one_file, the file parses.
ScanFile ==
    /\ pc = "walk"
    /\ \E c \in todo, f \in walk :
          /\ Current(c)
          /\ IsProduction(f) /\ f.status = "parses"
          /\ findings' = findings \cup FileFindings(c, f, args.strict)
          /\ scanned' = scanned \cup {<<c, f>>}
          /\ walk' = walk \ {f}
    /\ UNCHANGED <<given, baseline, exit, out, pc, todo, skipped, ratchet>>

\* Seeded fault: the skipped file is not recorded.
SkipFileSilently ==
    /\ pc = "walk"
    /\ \E f \in walk :
          /\ IsProduction(f) /\ f.status = "unparseable" /\ args.skipUnparseable
          /\ walk' = walk \ {f}
    /\ UNCHANGED <<given, baseline, exit, out, pc, todo, findings, skipped, ratchet, scanned>>

\* scan_one_file, the file does not parse and --skip-unparseable is set.
SkipFile ==
    /\ pc = "walk"
    /\ \E c \in todo, f \in walk :
          /\ Current(c)
          /\ IsProduction(f) /\ f.status = "unparseable" /\ args.skipUnparseable
          /\ skipped' = skipped \cup {<<c, f.tail>>}
          /\ walk' = walk \ {f}
    /\ UNCHANGED <<given, baseline, exit, out, pc, todo, findings, ratchet, scanned>>

\* Seeded fault: an unreadable file is passed over instead of failing the run.
FileFailsQuietly ==
    /\ pc = "walk"
    /\ \E f \in walk :
          /\ IsProduction(f)
          /\ \/ f.status = "unreadable"
             \/ f.status = "unparseable" /\ ~args.skipUnparseable
          /\ walk' = walk \ {f}
    /\ UNCHANGED <<given, baseline, exit, out, pc, todo, findings, skipped, ratchet, scanned>>

\* scan_one_file fails: the file cannot be read, or it does not parse and
\* that is not tolerated.
FileFails ==
    /\ pc = "walk"
    /\ \E f \in walk :
          /\ IsProduction(f)
          /\ \/ f.status = "unreadable"
             \/ f.status = "unparseable" /\ ~args.skipUnparseable
    /\ Exit("TOOL_ERROR")
    /\ UNCHANGED <<given, baseline, out, audit, ratchet>>

\* The walker yields an error instead of an entry, somewhere during the walk.
WalkFails ==
    /\ pc = "walk"
    /\ \E c \in todo : Current(c) /\ ws.pkgs[c].src = "broken"
    /\ Exit("TOOL_ERROR")
    /\ UNCHANGED <<given, baseline, out, audit, ratchet>>

\* Seeded fault: the crate just audited stays the current one.
FinishCrateStuck ==
    /\ pc = "walk"
    /\ walk = {}
    /\ pc' = "crate"
    /\ UNCHANGED <<given, baseline, exit, out, todo, walk, findings, skipped, ratchet, scanned>>

FinishCrate ==
    /\ pc = "walk"
    /\ walk = {}
    /\ \E c \in todo :
          /\ Current(c)
          /\ ws.pkgs[c].src # "broken"
          /\ todo' = todo \ {c}
    /\ pc' = "crate"
    /\ UNCHANGED <<given, baseline, exit, out, walk, findings, skipped, ratchet, scanned>>

FinishAudit ==
    /\ pc = "crate"
    /\ todo = {}
    /\ pc' = "outcome"
    /\ UNCHANGED <<given, baseline, exit, out, audit, ratchet>>

-----------------------------------------------------------------------------
(* main.rs run(), from the outcome on *)

\* update_baseline: the file is written whole, then the count is announced.
WriteBaseline ==
    /\ pc = "outcome"
    /\ args.updateBaseline
    /\ baseline' = TextFile(Render(findings))
    /\ out' = Says("updated", {}, {}, skipped)
    /\ Exit("SUCCESS")
    /\ UNCHANGED <<given, audit, ratchet>>

\* The file cannot be opened, or the write stops part of the way.
WriteFails ==
    /\ pc = "outcome"
    /\ args.updateBaseline
    /\ baseline' \in {baseline} \cup TornWrites(findings)
    /\ Exit("TOOL_ERROR")
    /\ UNCHANGED <<given, out, audit, ratchet>>

\* baseline::load and apply; with no baseline every finding is fresh.
ApplyBaseline ==
    /\ pc = "outcome"
    /\ ~args.updateBaseline
    /\ args.baseline => baseline.state # "unreadable"
    /\ ratchet' = IF args.baseline
                    THEN [fresh |-> Fresh(findings, Load(baseline)),
                          stale |-> Stale(findings, Load(baseline))]
                    ELSE [fresh |-> findings, stale |-> {}]
    /\ pc' = "emit"
    /\ UNCHANGED <<given, baseline, exit, out, audit>>

LoadFails ==
    /\ pc = "outcome"
    /\ ~args.updateBaseline
    /\ args.baseline /\ baseline.state = "unreadable"
    /\ Exit("TOOL_ERROR")
    /\ UNCHANGED <<given, baseline, out, audit, ratchet>>

Violated == ratchet.fresh # {} \/ ratchet.stale # {}

\* emit's verdict: the claim that the core holds is withheld if a file was skipped.
Verdict ==
    IF args.json THEN "json"
    ELSE IF Violated THEN "leaked"
    ELSE IF skipped = {} THEN "holds" ELSE "withheld"

\* Seeded fault: stale entries are reported but do not fail the run.
ExitCodeIgnoresStale ==
    IF ratchet.fresh = {} \/ args.advisory THEN "SUCCESS" ELSE "VIOLATION"

\* exit_code
ExitCode == IF ~Violated \/ args.advisory THEN "SUCCESS" ELSE "VIOLATION"

Emit ==
    /\ pc = "emit"
    /\ out' = Says(Verdict, ratchet.fresh, ratchet.stale, skipped)
    /\ Exit(ExitCode)
    /\ UNCHANGED <<given, baseline, audit, ratchet>>

-----------------------------------------------------------------------------
Done == pc = "done" /\ UNCHANGED vars

Next ==
    \/ Discover \/ DiscoveryFails
    \/ NoCoreCrates \/ MissingRequiredRole \/ StartAudit
    \/ AuditManifest
    \/ PassOver \/ ScanFile \/ SkipFile \/ FileFails \/ WalkFails
    \/ FinishCrate \/ FinishAudit
    \/ WriteBaseline \/ WriteFails \/ ApplyBaseline \/ LoadFails
    \/ Emit
    \/ Done

Spec == Init /\ [][Next]_vars

\* The program is one thread that nothing can hold up for ever.
FairSpec == Spec /\ WF_vars(Next)

-----------------------------------------------------------------------------
(* Properties *)

Phases == {"discover", "check roles", "crate", "walk", "outcome", "emit", "done"}

\* Core crates are audited only among those discovered, an outcome is answered
\* exactly when the program stops, and only the four documented verdict lines,
\* the two notices and JSON are ever printed (main.rs).
TypeOK ==
    /\ ws \in Workspaces /\ args \in ArgSets
    /\ pc \in Phases
    /\ exit \in {Running, "SUCCESS", "VIOLATION", "TOOL_ERROR"}
    /\ exit = Running <=> pc # "done"
    /\ todo \subseteq CoreCrates(ws)
    /\ out.verdict \in {"none", "audited nothing", "updated", "json", "leaked", "holds", "withheld"}

\* "functional core holds" is printed only when every production file of every
\* core crate has been parsed and scanned in this run, and every finding in
\* them and in the manifests is one the baseline accepted (main.rs emit,
\* audit.rs scan_one_file: the false green the tool exists to prevent).
CleanVerdictIsEarned ==
    out.verdict = "holds" =>
        LET Accepted(found) ==
                \A x \in found : args.baseline /\ Signature(x) \in Load(baseline)
        IN \A c \in CoreCrates(ws) :
              /\ Accepted(ManifestFindings(ws, c, args.strict))
              /\ \A f \in Walked(ws.pkgs[c]) : IsProduction(f) =>
                    <<c, f>> \in scanned /\ Accepted(FileFindings(c, f, args.strict))

\* A green run that accepted nothing leaves the kernel layer closed: no kernel
\* has a normal dependency outside the kernels, whatever it vouches for
\* (audit.rs classify, Role::Kernel).
KernelLayerIsClosed ==
    exit = "SUCCESS" /\ ~args.advisory /\ ~args.baseline =>
        \A c \in KernelNames(ws) : \A d \in ws.pkgs[c].deps :
            d.kind = "normal" /\ ~d.optional => d.name \in KernelNames(ws)

\* The baseline is written once at most, as the run's last step, and only by a
\* run that got to every production file of every core crate: no abandoned
\* audit ever leaves a baseline made of half the findings (main.rs run,
\* update_baseline).
BaselineOnlyFromCompleteAudit ==
    [][baseline' # baseline =>
         /\ args.updateBaseline /\ pc' = "done"
         /\ \A c \in CoreCrates(ws) : \A f \in Walked(ws.pkgs[c]) :
               IsProduction(f) => <<c, f>> \in scanned \/ <<c, f.tail>> \in skipped]_vars

\* The pipeline answers what the one-step contract allows: exit code, verdict,
\* lists and baseline file.
ImplementsGate == Contract!GateSpec

\* Every run ends, however many crates and files there are.
Terminates == <>(pc = "done")

-----------------------------------------------------------------------------
(* The inductive invariant behind CleanVerdictIsEarned and ImplementsGate: *)
(* what the run has accumulated is exactly what the crates begun and the   *)
(* entries yielded so far amount to.                                       *)

Begun(c) == c \notin todo \/ (pc = "walk" /\ Current(c))
Yielded(c) == IF c \in todo THEN Walked(ws.pkgs[c]) \ walk ELSE Walked(ws.pkgs[c])
YieldedProduction(c) == {f \in Yielded(c) : IsProduction(f)}
ScannedOf(c) == {f \in YieldedProduction(c) : f.status = "parses"}
SkippedOf(c) == YieldedProduction(c) \ ScannedOf(c)
BegunCrates == {c \in CoreCrates(ws) : Begun(c)}

Auditing == pc \in {"crate", "walk", "outcome", "emit"}

PhaseInv ==
    /\ pc \notin {"discover", "done"} => ws.resolves
    /\ pc \in {"discover", "check roles"} => findings = {} /\ skipped = {}
    /\ pc = "check roles" => todo = CoreCrates(ws)
    /\ Auditing => CoreCrates(ws) # {} /\ ~RequiredRoleMissing
    /\ pc = "walk" => \E c \in todo : Current(c)
    /\ pc \in {"outcome", "emit"} => todo = {}
    /\ pc = "emit" => ~args.updateBaseline
    /\ pc # "done" => out = Says("none", {}, {}, {})

\* What findings and skipped hold, and why none of it was left out: after any
\* step of the audit they are exactly the manifest policy's answer for the
\* crates begun and the scanner's for the production entries yielded so far
\* (audit.rs audit, source_findings, scan_one_file).
FoundIn(c) ==
    ManifestFindings(ws, c, args.strict)
      \cup UNION {FileFindings(c, f, args.strict) : f \in ScannedOf(c)}
SkippedIn(c) == {<<c, f.tail>> : f \in SkippedOf(c)}

Accumulated ==
    /\ findings = UNION {FoundIn(c) : c \in BegunCrates}
    /\ skipped = UNION {SkippedIn(c) : c \in BegunCrates}
    /\ \A c \in BegunCrates :
          /\ \A f \in ScannedOf(c) : <<c, f>> \in scanned
          /\ \A f \in SkippedOf(c) : f.status = "unparseable" /\ args.skipUnparseable

OutcomeInv ==
    Auditing =>
        /\ Accumulated
        /\ \A c \in CoreCrates(ws) \ todo : ws.pkgs[c].src # "broken"
        /\ pc = "walk" => \A c \in todo : Current(c) => walk \subseteq Walked(ws.pkgs[c])

\* What was measured against the baseline.
RatchetInv ==
    pc = "emit" =>
        /\ args.baseline => baseline.state # "unreadable"
        /\ ratchet = IF args.baseline
                       THEN [fresh |-> Fresh(findings, Load(baseline)),
                             stale |-> Stale(findings, Load(baseline))]
                       ELSE [fresh |-> findings, stale |-> {}]

\* All of it.
IInv == TypeOK /\ PhaseInv /\ OutcomeInv /\ RatchetInv /\ CleanVerdictIsEarned

=============================================================================
