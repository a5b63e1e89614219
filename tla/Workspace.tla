----------------------------- MODULE Workspace -----------------------------
(***************************************************************************)
(* What one audit reads of a cargo workspace, and the policy that turns it *)
(* into findings: discovery.rs (which crates are core, which dependencies  *)
(* count), audit.rs (the manifest policy, which files are scanned) and the *)
(* dependency rules of effect.rs.  Pure operators, shared by the one-step  *)
(* contract (Gate) and by the pipeline that implements it (AuditRun).      *)
(*                                                                         *)
(* A workspace is a record                                                 *)
(*   resolves  cargo metadata succeeds at the root                         *)
(*   pkgs      a function from Packages to what is read of each package:   *)
(*     role    the `[package.metadata.hex-arch] role` string               *)
(*     deps    a set of [name, kind, optional]                             *)
(*     pure    [form, names]: the `pure-deps` key, "absent", "notArray" or *)
(*             "array"                                                     *)
(*     src     "absent", "dir", or "broken" (walking it yields an error)   *)
(*     files   a set of [tail, rs, walked, gated, status, effects], where  *)
(*             walked = the directory walker yields it (not hidden, not    *)
(*             ignored), gated = modtree puts it under an exclusion root,  *)
(*             and effects is what scan_file reports when it parses        *)
(***************************************************************************)
EXTENDS Integers

CONSTANTS
    Packages,   \* the packages of the workspace; a crate's name is its rank
                \* in alphabetical order, a natural number
    Taxonomy    \* crate name -> effect kind, for the names is_effectful_crate knows

ASSUME PackagesAssumption == Packages \subseteq Nat

-----------------------------------------------------------------------------
(* discovery.rs *)

RoleOf(p) == IF p.role \in {"kernel", "domain"} THEN p.role ELSE "none"

\* Only a normal dependency counts, and an optional one only under --strict.
Deps(p, strict) ==
    {d.name : d \in {e \in p.deps : e.kind = "normal" /\ (strict \/ ~e.optional)}}

\* A `pure-deps` key that is not an array is read as if it were not there.
DeclaresPureDeps(p) == p.pure.form = "array"

CoreCrates(ws) == {c \in Packages : RoleOf(ws.pkgs[c]) # "none"}

HasRole(ws, role) == \E c \in CoreCrates(ws) : RoleOf(ws.pkgs[c]) = role

-----------------------------------------------------------------------------
(* audit.rs and effect.rs: the manifest policy *)

KernelNames(ws) == {c \in CoreCrates(ws) : RoleOf(ws.pkgs[c]) = "kernel"}

UnvettedOrKnown(name) ==
    IF name \in DOMAIN Taxonomy THEN Taxonomy[name] ELSE "unvetted dependency"

\* A domain crate with an allowlist vouches by name; without one only the
\* names the taxonomy knows are findings.
Vouched(p, name) ==
    IF DeclaresPureDeps(p) THEN name \in p.pure.names
                           ELSE name \notin DOMAIN Taxonomy

\* Seeded fault: a kernel may vouch for a dependency like any domain crate.
ToleratedByVouching(ws, c, name) == Vouched(ws.pkgs[c], name)

\* classify returns None: kernels tolerate only kernels, whatever they list.
Tolerated(ws, c, name) ==
    IF RoleOf(ws.pkgs[c]) = "kernel" THEN name \in KernelNames(ws)
                                     ELSE Vouched(ws.pkgs[c], name)

ManifestFindings(ws, c, strict) ==
    {[kind |-> UnvettedOrKnown(n), file |-> <<c, "Cargo.toml">>,
      line |-> 0, snippet |-> n]
        : n \in {m \in Deps(ws.pkgs[c], strict) : ~Tolerated(ws, c, m)}}

-----------------------------------------------------------------------------
(* audit.rs: the source files *)

\* What WalkBuilder yields under src/; nothing at all when src/ is no directory.
Walked(p) == IF p.src = "absent" THEN {} ELSE {f \in p.files : f.walked}

\* The entries that reach scan_one_file.
IsProduction(f) == f.rs /\ ~f.gated

\* scan_file over a file that parses; async and hash effects need --strict.
FileFindings(c, f, strict) ==
    {[kind |-> e.kind, file |-> <<c, f.tail>>, line |-> e.line, snippet |-> e.snippet]
        : e \in {x \in f.effects : strict \/ ~x.strictOnly}}

=============================================================================
