CONSTANTS
    Gates <- MCGates
    NullGates <- MCNullGates
    AnchorPos <- MCAnchorPos
    PreProps <- MCPreProps
    MaxPasses = 2
    MaxFailures = 0

SPECIFICATION Spec

INVARIANT NoDuplicateProps
