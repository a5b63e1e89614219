SPECIFICATION Spec
CONSTANTS
    NowNames <- MCNowNames
    NetworkFamily <- MCNetworkFamily
    DatabaseFamily <- MCDatabaseFamily
    Snippets <- MCSnippets
    UseTrees <- MCUseTrees
    Imported <- MCImported
INVARIANTS
    UseIsReadExactly
    EffectIsWitnessed
    SplitHidesNothing
    NothingElseIsFound
