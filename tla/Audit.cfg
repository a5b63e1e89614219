SPECIFICATION MCSpec
CONSTANTS
    Packages <- MCPackages
    Taxonomy <- MCTaxonomy
    Workspaces <- MCWorkspaces
    ArgSets <- MCArgSets
    TornLines <- MCTornLines
    BaselineFiles <- MCBaselineFiles
INVARIANTS
    TypeOK
    CleanVerdictIsEarned
    OutcomeInv
    KernelLayerIsClosed
PROPERTIES
    BaselineOnlyFromCompleteAudit
    ImplementsGate
    Terminates
