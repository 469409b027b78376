CONSTANTS
    Gates <- MCGates
    NullGates <- MCNullGates
    AnchorPos <- MCAnchorPos
    PreProps <- MCPreProps
    MaxPasses = 2
    MaxFailures = 1

SPECIFICATION Spec

INVARIANT TypeOK
INVARIANT LayoutComplete
