SPECIFICATION RoundsSpec
CONSTANTS
    MaxBytes = 5
    MaxPool = 3
    Capacities = {2, 3, 4}
    Margins <- MCMargins
    Shuffles <- TwoSeeds
    Slices <- MCSlices
    Drifting <- MCDrifting
    DriftScores = {0, 8}
INVARIANTS
    NoTierInversion
    EvictionOrder
    WithinCapacity
    SmallestFirst
    AgreesWithMayDisplace
    PassesSettle
    DriftWithinMarginHolds
PROPERTY
    ObjectiveSpec
