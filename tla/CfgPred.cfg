SPECIFICATION FairSpec
CONSTANTS
    Nodes <- MCNodes
    Items <- MCItems
INVARIANTS
    TypeOK
    SkippedIsTestOnly
    KeptIsCompiled
PROPERTY
    Decides
