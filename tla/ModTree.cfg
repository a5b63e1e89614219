SPECIFICATION FairSpec
CONSTANTS
    Names <- MCNames
    Trees <- MCTrees
INVARIANTS
    TypeOK
    NoProductionExcluded
    TestSubtreesExcluded
PROPERTIES
    WalkGoesDeeper
    Terminates
