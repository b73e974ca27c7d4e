SPECIFICATION FairSpec
CHECK_DEADLOCK FALSE
CONSTANTS
    p1 = p1
    p2 = p2
    p3 = p3
    Peers <- MCPeers
    Ticket <- MCTickets
    Units = {1, 2}
    global_ceiling = 3
    per_peer_share = 2
    relay_ceiling = 2
    max_tracked_peers = 2
    max_request_units = 1
INVARIANTS
    Accounts
    WorkWithinLimits
    RefusalsEarned
PROPERTIES
    LoadIsShedForAWhile
    FaultsAreContained
