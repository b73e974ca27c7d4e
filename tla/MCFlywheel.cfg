SPECIFICATION FairSpec
CONSTANTS
    Capsules <- MCCapsules
    Capacity = 1
    Readers = {r1}
    NoLookup = NoLookup
    NoView = NoView
    MaxPending = 2
INVARIANTS
    OnePullPerCapsule
    FollowsCache
PROPERTIES
    NoGenerationStranded
    RepairsDrift
