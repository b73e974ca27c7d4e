SPECIFICATION FairSpec
CONSTANTS
    p1 = p1
    p2 = p2
    p3 = p3
    Peers <- MCPeers
    Visitors = {p2}
    Tiebreak <- MCTiebreak
    Capacities = {0, 2, 3}
    FanOut = 2
    LATENCY_SCALE_TICKS = 4
    Latencies = {8}
    MaxU32 = 2
    MaxU64 = 12
    Faded = 2
    Halvings <- MCHalvings
INVARIANTS
    SlateKeepsASlot
    PromptAnswersBeatSilence
PROPERTIES
    SharesFade
    EveryoneIsHeard
