-------------------------------- MODULE Gate --------------------------------
(***************************************************************************)
(* The contract of one run of effect-audit, as a single step from a        *)
(* workspace, a command line and a baseline file to an exit code, what is  *)
(* printed, and the baseline file left behind.  Nothing here says in which *)
(* order crates and files are visited or where a run is abandoned:         *)
(* AuditRun says that, and implements this.                                *)
(***************************************************************************)
EXTENDS Workspace, Baseline

CONSTANTS
    Workspaces,     \* the workspaces a run may meet
    ArgSets,        \* the command lines parse_args accepts
    BaselineFiles   \* the baseline files a run may find

VARIABLES
    ws,         \* the workspace; it does not change during a run
    args,       \* the command line
    baseline,   \* the baseline file on disk
    exit,       \* Running, or the exit code: 0 SUCCESS, 1 VIOLATION, 2 TOOL_ERROR
    out         \* what was printed: a verdict and the lists named with it

gateVars == <<ws, args, baseline, exit, out>>

Running == "running"   \* no exit code yet
NotVerdict(verdict) == [verdict |-> verdict, fresh |-> {}, stale |-> {}, skipped |-> {}]
Silent == NotVerdict("none")

GateInit ==
    /\ ws \in Workspaces
    /\ args \in ArgSets
    /\ baseline \in BaselineFiles
    /\ exit = Running
    /\ out = Silent

-----------------------------------------------------------------------------
\* The entries of core crate c that must be read, and those it could not parse.
Production(c) == {f \in Walked(ws.pkgs[c]) : IsProduction(f)}
Parsed(c) == {f \in Production(c) : f.status = "parses"}

\* Everything that must be read could be, or may be skipped.
Auditable ==
    \A c \in CoreCrates(ws) :
        /\ ws.pkgs[c].src # "broken"
        /\ \A f \in Production(c) :
              f.status = "parses" \/ (f.status = "unparseable" /\ args.skipUnparseable)

Findings ==
    UNION {ManifestFindings(ws, c, args.strict)
              \cup UNION {FileFindings(c, f, args.strict) : f \in Parsed(c)}
                : c \in CoreCrates(ws)}

Skipped ==
    UNION {{<<c, f.tail>> : f \in Production(c) \ Parsed(c)} : c \in CoreCrates(ws)}

Demanded == \* the roles --require-kernel and --require-domain insist on
    {r \in {"kernel", "domain"} :
        IF r = "kernel" THEN args.requireKernel ELSE args.requireDomain}

Ready == \* the run gets as far as an outcome
    /\ ws.resolves
    /\ CoreCrates(ws) # {}
    /\ \A r \in Demanded : HasRole(ws, r)
    /\ Auditable

\* Exit 2: nothing is judged, and the baseline is left as it was.
Refuse ==
    /\ \/ ~ws.resolves
       \/ \E r \in Demanded : ~HasRole(ws, r)
       \/ CoreCrates(ws) # {} /\ ~Auditable
       \/ Ready /\ ~args.updateBaseline /\ args.baseline /\ baseline.state = "unreadable"
    /\ exit' = "TOOL_ERROR"
    /\ UNCHANGED <<ws, args, baseline, out>>

\* No core crate and none demanded: exit 0 with a warning.
PassEmpty ==
    /\ ws.resolves /\ CoreCrates(ws) = {} /\ Demanded = {}
    /\ exit' = "SUCCESS"
    /\ out' = NotVerdict("audited nothing")
    /\ UNCHANGED <<ws, args, baseline>>

\* --update-baseline: the file becomes exactly the current findings, or the
\* write fails and leaves part of them.
Rewrite ==
    /\ Ready /\ args.updateBaseline
    /\ \/ /\ baseline' = TextFile(Render(Findings))
          /\ exit' = "SUCCESS"
          /\ out' = [NotVerdict("updated") EXCEPT !.skipped = Skipped]
       \/ /\ baseline' \in {baseline} \cup TornWrites(Findings)
          /\ exit' = "TOOL_ERROR"
          /\ UNCHANGED out
    /\ UNCHANGED <<ws, args>>

\* Exit 1 exactly when a finding is not accepted or an accepted one is gone,
\* unless advisory; the core is said to hold only over files that were all read.
Judge ==
    /\ Ready /\ ~args.updateBaseline
    /\ args.baseline => baseline.state # "unreadable"
    /\ LET accepted == IF args.baseline THEN Load(baseline) ELSE {}
       IN /\ out'.fresh = {x \in Findings : Signature(x) \notin accepted}
          /\ out'.stale = {s \in accepted : \A x \in Findings : Signature(x) # s}
    /\ out'.skipped = Skipped
    /\ out' = [verdict |-> out'.verdict, fresh |-> out'.fresh,
               stale |-> out'.stale, skipped |-> out'.skipped]
    /\ out'.verdict \in {"json", "leaked", "holds", "withheld"}
    /\ out'.verdict = "json" <=> args.json
    /\ out'.verdict = "holds" =>
          out'.fresh = {} /\ out'.stale = {} /\ out'.skipped = {}
    /\ out'.verdict = "withheld" =>
          out'.fresh = {} /\ out'.stale = {} /\ out'.skipped # {}
    /\ out'.verdict = "leaked" => out'.fresh # {} \/ out'.stale # {}
    /\ exit' \in {"SUCCESS", "VIOLATION"}
    /\ exit' = "VIOLATION" <=> (out'.fresh # {} \/ out'.stale # {}) /\ ~args.advisory
    /\ UNCHANGED <<ws, args, baseline>>

GateNext == exit = Running /\ (Refuse \/ PassEmpty \/ Rewrite \/ Judge)

GateSpec == GateInit /\ [][GateNext]_gateVars

=============================================================================
