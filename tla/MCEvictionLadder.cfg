SPECIFICATION EvictionSpec
CHECK_DEADLOCK FALSE
CONSTANTS
    speculation = speculation
    demand = demand
    Sources = {speculation, demand}
    Stores <- MCStores
    Scores = {1, 4, 1000}
    Claimings <- MCClaimings
    Revisable = 0
    MaxBytes = 9
    MaxPool = 3
    Capacities = {4}
    Margins = {0}
    Shuffles <- Identity
    Listings <- Identity
    Slices <- NoSlices
    EntrySizes = {1, 2, 3}
    Callers = {"asks"}
INVARIANT
    LowerTiersGoFirst
