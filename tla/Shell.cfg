SPECIFICATION FairSpec
CONSTANTS
    Lines <- MCLines
    Dashed <- MCDashed
    Unicode <- MCUnicode
    Resolves <- MCResolves
    None <- MCNone
    Results <- MCResults
INVARIANTS
    TypeOK
    ReportIsComplete
    SkipsAreNeverSilent
    JsonIsAlone
    OneMeansLeak
PROPERTIES
    ImplementsUsage
    Terminates
