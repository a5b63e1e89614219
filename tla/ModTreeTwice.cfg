SPECIFICATION Spec
CONSTANTS
    Names <- MCNames
    Trees <- TwiceDeclaredTrees
INVARIANT
    OnlyTestGatedExcluded
