SPECIFICATION Spec
CONSTANTS
    p = p
    q = q
    Procs <- One
    Leaks <- OneLeaks
    Jobs <- OneJobs
    StrictKinds <- MCStrictKinds
    TornLines <- MCTornLines
PROPERTY
    StaleMeansGone
