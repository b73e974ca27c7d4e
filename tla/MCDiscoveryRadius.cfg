SPECIFICATION Spec
CHECK_DEADLOCK FALSE
CONSTANTS
    a = a
    b = b
    c = c
    d = d
    e = e
    f = f
    g = g
    Nodes = {a, b, c, d, e, f, g}
    Client = client
    Answers = {}
    Networks <- MCNetworks
    fan_out = 2
    hop_cap = 2
    max_hearsay_answers = 2
    MaxU64 = 1000
INVARIANT
    RadiusAsDocumented
