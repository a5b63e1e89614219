SPECIFICATION Spec
CONSTANTS
    Files <- ClashingFiles
    NoAlias <- MCNoAlias
INVARIANT
    NothingInvented
