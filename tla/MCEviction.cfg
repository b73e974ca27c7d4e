SPECIFICATION EvictionSpec
CHECK_DEADLOCK FALSE
CONSTANTS
    speculation = speculation
    demand = demand
    Sources = {speculation, demand}
    Stores <- MCStores
    Scores = {1, 4, 1000}
    Claimings <- MCClaimings
    Revisable = 4
    MaxBytes = 9
    MaxPool = 4
    Capacities = {4}
    Margins = {0, 4}
    Shuffles <- Identity
    Listings <- EitherWay
    Slices <- NoSlices
    EntrySizes = {1, 2}
    Callers = {"asks", "admits"}
INVARIANTS
    SeamAgrees
    RoomForIncoming
    NoNeedlessVictim
    AskingNeverDemotesProfit
PROPERTY
    ClaimsCompose
