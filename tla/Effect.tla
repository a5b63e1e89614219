------------------------------- MODULE Effect -------------------------------
(***************************************************************************)
(* effect.rs: what the taxonomy answers for a path, given as the sequence  *)
(* of its identifiers.  The tables are those of the source; where it asks  *)
(* how an identifier begins, the constants say which ones do.              *)
(***************************************************************************)
EXTENDS Integers, Sequences, FiniteSets, SequencesExt

CONSTANTS
    NowNames,           \* identifiers that begin with `now`
    NetworkFamily,      \* crates that begin with aws-sdk-, google-cloud and the like
    DatabaseFamily      \* crates that begin with deadpool

\* No effectful crate has the name of a module of std.
ASSUME FamilyAssumption ==
    (NetworkFamily \cup DatabaseFamily) \cap {"io", "thread", "net", "process", "env", "fs"} = {}

Roots == {"crate", "self", "super", "std", "core", "alloc"}
ClockTypes == {"SystemTime", "Instant", "Utc", "Local", "OffsetDateTime"}
HashTypes == {"HashMap", "HashSet"}
UuidNames == {"Uuid", "uuid"}
UuidMakers == {"new_v4", "now_v7", "now_v6", "now_v1"}

\* The crates known by their exact name.
AsyncCrates == {"tokio", "async-std", "async_std", "smol", "async-global-executor"}
BoxingCrates == {"async-trait", "async_trait"}
DatabaseCrates == {"sqlx", "rusqlite", "diesel", "sea-orm", "sea_orm", "redis", "mongodb",
                   "postgres", "tokio-postgres", "mysql", "mysql_async", "sled", "r2d2"}
NetworkCrates == {"reqwest", "hyper", "ureq", "isahc", "surf", "curl", "tonic", "axum",
                  "actix-web", "actix", "warp", "rocket", "tide", "poem", "salvo"}

CrateKind(name) ==
    CASE name \in AsyncCrates -> "async-runtime"
      [] name \in BoxingCrates -> "mandated-boxing"
      [] name \in DatabaseCrates \cup DatabaseFamily -> "database"
      [] name \in NetworkCrates \cup NetworkFamily -> "network"
      [] OTHER -> "pure"

\* The effects of a std module, which any segment of the path may name ...
NetLeaves == {"TcpStream", "TcpListener", "UdpSocket", "ToSocketAddrs"}
ProcessLeaves == {"Command", "exit", "abort"}
EnvLeaves == {"var", "vars", "var_os", "vars_os", "set_var", "remove_var", "current_dir",
              "set_current_dir", "current_exe", "temp_dir", "args", "args_os"}
\* ... or only the last.
IoLeaves == {"stdin", "stdout", "stderr"}
ThreadLeaves == {"spawn", "scope", "sleep"}

Names(segs, idents) == \E i \in DOMAIN segs : segs[i] \in idents

\* strip_roots: what is left behind the leading roots.
StripRoots(path) ==
    LET kept == {i \in DOMAIN path : \E j \in 1..i : path[j] \notin Roots}
    IN SubSeq(path, Len(path) - Cardinality(kept) + 1, Len(path))

IsClock(segs) ==
    \E i \in 1..(Len(segs) - 1) : segs[i] \in ClockTypes /\ segs[i + 1] \in NowNames

IsRandom(segs) ==
    \/ Head(segs) \in {"rand", "fastrand", "getrandom"}
    \/ Last(segs) = "thread_rng"
    \/ Names(segs, UuidNames) /\ Names(segs, UuidMakers)

\* Seeded fault: net, env and process are matched by the module's name alone.
StdKindBlanket(segs) ==
    CASE Head(segs) = "fs" -> "filesystem"
      [] Head(segs) = "net" -> "network"
      [] Head(segs) = "process" -> "process"
      [] Head(segs) = "env" -> "environment"
      [] Head(segs) = "io" /\ Last(segs) \in IoLeaves -> "console-io"
      [] Head(segs) = "thread" /\ Last(segs) \in ThreadLeaves -> "concurrency"
      [] OTHER -> "pure"

StdKind(segs) ==
    CASE Head(segs) = "fs" -> "filesystem"
      [] Head(segs) = "net" /\ Names(segs, NetLeaves) -> "network"
      [] Head(segs) = "process" /\ Names(segs, ProcessLeaves) -> "process"
      [] Head(segs) = "env" /\ Names(segs, EnvLeaves) -> "environment"
      [] Head(segs) = "io" /\ Last(segs) \in IoLeaves -> "console-io"
      [] Head(segs) = "thread" /\ Last(segs) \in ThreadLeaves -> "concurrency"
      [] OTHER -> "pure"

ClassifyPath(path) ==
    LET segs == StripRoots(path)
    IN IF segs = <<>> THEN "pure"
       ELSE IF IsClock(segs) THEN "clock"
       ELSE IF IsRandom(segs) THEN "random"
       ELSE IF StdKind(segs) # "pure" THEN StdKind(segs)
       ELSE CrateKind(Head(segs))

=============================================================================
