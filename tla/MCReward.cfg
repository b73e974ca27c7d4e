SPECIFICATION FairSpec
CONSTANTS
    RewardClaim <- MCClaims
    MaxAmount = 3
    NoView = NoView
    MaxObserved = 3
INVARIANTS
    Corroborated
    NeverOverCounts
PROPERTY
    IncomeIsRecovered
