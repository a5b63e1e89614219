SPECIFICATION Spec
CONSTANTS
    p = p
    q = q
    Procs <- Two
    Leaks <- TwoLeaks
    Jobs <- TwoJobs
    StrictKinds <- MCStrictKinds
    TornLines <- MCTornLines
SYMMETRY Swap
INVARIANT
    IInv
PROPERTIES
    NewDebtIsBlocked
    FrozenTreePasses
    UndisturbedIsAtomic
    StaleIsUnseen
