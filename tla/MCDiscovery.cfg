SPECIFICATION FairSpec
CHECK_DEADLOCK FALSE
CONSTANTS
    a = a
    b = b
    c = c
    d = d
    h = h
    x = x
    Nodes = {a, b, c, d}
    Client = client
    Answers = {h, x}
    Networks <- MCNetworks
    fan_out = 2
    hop_cap = 2
    max_hearsay_answers = 2
    MaxU64 = 1000
INVARIANTS
    ReachIsGeometric
    ReachIsLimited
    HearsayStaysHearsay
    NearHolderIsHeard
PROPERTY
    ClientIsAnswered
