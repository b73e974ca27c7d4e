SPECIFICATION Spec
CONSTANTS
    s1 = s1
    s2 = s2
    Stores = {s1, s2}
    Distances <- MCDistances
    Reports = {0, 16, 100000}
    Batch = 12
    MaxReads = 24
    MaxAge = 3
    Margins = {1488, 18600}
INVARIANT
    SweepsSettle
PROPERTY
    DisplacementIsEarned
