CONSTANTS
    Buckets <- MCBuckets
    RngDraw <- MCRngDraw
    Gates <- MCGates
    Belts <- MCBelts
    AnchorPos <- MCAnchorPos
    PreProps <- MCPreProps
    GateTypeID = 29624
    BeltTypeID = 15
    MaxPasses = 2
    typeID_Billboard = 11136
    minOffsetMeters = 15
    maxOffsetMeters = 30
    dupRadiusMeters = 40
    enablePatrols = TRUE
    typeID_Patrol = 11125
    patrolsPerGate = 1
    patrolSpawnOffset = 22
    enableBeltPatrols = TRUE
    typeID_BeltPatrol = 11125
    patrolsPerBelt = 1
    beltSpawnOffset = 18
    maxBeltPatrolsPerSystem = 8
    patrolDupeRadius = 30

SPECIFICATION Spec

INVARIANT PatrolPlacementStable
