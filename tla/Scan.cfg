SPECIFICATION FairSpec
CONSTANTS
    Files <- MCFiles
    NoAlias <- MCNoAlias
INVARIANTS
    TypeOK
    NothingHidden
    NothingElseInvented
PROPERTIES
    EachConstructOnce
    Terminates
