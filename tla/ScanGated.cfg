SPECIFICATION Spec
CONSTANTS
    Files <- GatedFiles
    NoAlias <- MCNoAlias
INVARIANT
    TestCodeIsExcluded
