----------------------------- MODULE MCAuditRun -----------------------------
(* Small workspaces for AuditRun: two packages, named 1 and 2 (1 first in  *)
(* name order), and external crates 10 (in the taxonomy) and 20 (not).     *)
EXTENDS AuditRun, FiniteSets, TLC

MCPackages == {1, 2}
MCTaxonomy == 10 :> "async runtime"

AllArgs ==
    {a \in [advisory : BOOLEAN, strict : BOOLEAN, requireDomain : BOOLEAN,
            requireKernel : BOOLEAN, skipUnparseable : BOOLEAN, json : BOOLEAN,
            baseline : BOOLEAN, updateBaseline : BOOLEAN]
        : a.updateBaseline => a.baseline}

Dep(name, kind, optional) == [name |-> name, kind |-> kind, optional |-> optional]
Pure(form, names) == [form |-> form, names |-> names]
Effect(kind, line, snippet, strictOnly) ==
    [kind |-> kind, line |-> line, snippet |-> snippet, strictOnly |-> strictOnly]
File(tail, rs, walked, gated, status, effects) ==
    [tail |-> tail, rs |-> rs, walked |-> walked, gated |-> gated,
     status |-> status, effects |-> effects]
Package(role, deps, pure, src, files) ==
    [role |-> role, deps |-> deps, pure |-> pure, src |-> src, files |-> files]

-----------------------------------------------------------------------------
(* Manifests: every role, dependencies on the other package, on a known and *)
(* an unknown crate, of every kind; one ordinary source file each.          *)

DepChoices ==
    {{}, {Dep(20, "normal", FALSE)}, {Dep(10, "normal", TRUE)},
     {Dep(1, "normal", FALSE)}, {Dep(2, "normal", FALSE), Dep(10, "dev", FALSE)}}

PureChoices ==
    {Pure("absent", {}), Pure("notArray", {}), Pure("array", {}), Pure("array", {1, 20})}

PlainFile == File("lib.rs", TRUE, TRUE, FALSE, "parses", {})

ManifestPackages ==
    {Package(role, deps, pure, "dir", {PlainFile})
        : role \in {"kernel", "domain", "adapter"}, deps \in DepChoices, pure \in PureChoices}

ManifestWorkspaces ==
    {w \in [resolves : BOOLEAN, pkgs : [MCPackages -> ManifestPackages]]
        : (~w.resolves => \A c \in MCPackages : w.pkgs[c].role = "adapter"
                                              /\ w.pkgs[c].deps = {}
                                              /\ w.pkgs[c].pure.form = "absent")
          /\ \A c \in MCPackages : \A d \in w.pkgs[c].deps : d.name # c}

ManifestArgs ==
    {a \in AllArgs : ~a.skipUnparseable /\ ~a.json /\ ~a.advisory
                       /\ ~a.updateBaseline}

ManifestBaselines ==
    {AbsentFile,
     TextFile({Comment, Entry([file |-> <<1, "Cargo.toml">>,
                               kind |-> "unvetted dependency", snippet |-> 20])})}

-----------------------------------------------------------------------------
(* Sources: one crate with up to two files of every kind, a second crate    *)
(* that is absent, clean, or cannot be audited.                             *)

Clock(line) == Effect("clock", line, 7, FALSE)
EffectChoices == {{}, {Clock(1), Clock(2)}, {Effect("async", 3, 8, TRUE)}}

FileChoices(tail) ==
    {File(tail, TRUE, TRUE, FALSE, "parses", e) : e \in EffectChoices}
      \cup {File(tail, TRUE, TRUE, FALSE, s, {}) : s \in {"unparseable", "unreadable"}}
      \cup {File(tail, TRUE, TRUE, TRUE, s, {Clock(1)}) : s \in {"parses", "unparseable"}}
      \cup {File(tail, TRUE, FALSE, FALSE, "parses", {Clock(1)}),
            File(tail, FALSE, TRUE, FALSE, "unparseable", {})}

SecondFiles ==
    {File("b.rs", TRUE, TRUE, FALSE, "parses", {Effect("async", 3, 8, TRUE)}),
     File("b.rs", TRUE, TRUE, FALSE, "unparseable", {}),
     File("b.rs", TRUE, TRUE, TRUE, "parses", {Clock(1)}),
     File("b.rs", FALSE, TRUE, FALSE, "unparseable", {})}

DomainCrate(src, files) == Package("domain", {}, Pure("absent", {}), src, files)

SourcePackages ==
    {DomainCrate("dir", {a, b}) : a \in FileChoices("a.rs"), b \in SecondFiles}
      \cup {DomainCrate("absent", {PlainFile})}
      \cup {DomainCrate("broken", {a}) : a \in FileChoices("a.rs")}

OtherPackages ==
    {Package("adapter", {}, Pure("absent", {}), "dir", {}),
     Package("kernel", {}, Pure("absent", {}), "dir",
             {File("lib.rs", TRUE, TRUE, FALSE, "unparseable", {})}),
     Package("kernel", {}, Pure("absent", {}), "dir",
             {File("lib.rs", TRUE, TRUE, FALSE, "parses", {Clock(1)})})}

SourceWorkspaces ==
    {[resolves |-> TRUE, pkgs |-> 1 :> p @@ 2 :> q]
        : p \in SourcePackages, q \in OtherPackages}

SourceArgs ==
    {a \in AllArgs : ~a.requireDomain /\ ~a.requireKernel /\ ~(a.json /\ a.advisory)}

ClockEntry == Entry([file |-> <<1, "a.rs">>, kind |-> "clock", snippet |-> 7])
\* The beginning of a signature that no finding has.
TornLine == Entry([file |-> <<0, "">>, kind |-> "torn", snippet |-> 0])
MCTornLines == {TornLine}

SourceBaselines ==
    {[state |-> "unreadable", lines |-> {}],
     TextFile({Comment, Blank, ClockEntry}), TextFile({Comment, TornLine})}

-----------------------------------------------------------------------------
(* Both families in one instance, each with its own flags and baselines:    *)
(* only the second package of a manifest workspace has the plain file.      *)

MCWorkspaces == ManifestWorkspaces \cup SourceWorkspaces
MCArgSets == ManifestArgs \cup SourceArgs
MCBaselineFiles == ManifestBaselines \cup SourceBaselines

Paired ==
    IF ws.pkgs[2].files = {PlainFile}
      THEN args \in ManifestArgs /\ baseline \in ManifestBaselines
      ELSE args \in SourceArgs /\ baseline \in SourceBaselines

MCInit == Init /\ Paired
MCSpec == MCInit /\ [][Next]_vars /\ WF_vars(Next)

=============================================================================
