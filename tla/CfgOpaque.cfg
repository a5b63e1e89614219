SPECIFICATION FairSpec
CONSTANTS
    Nodes <- MCNodes
    Items <- OpaqueItems
INVARIANT
    SkippedIsNeverBuilt
