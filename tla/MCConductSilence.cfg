SPECIFICATION Spec
CONSTANTS
    NON_PERFORMANCE_CEILING = 3
    NON_PERFORMANCE_DECAY_TICKS = 3
    MaxCount = 4
    MaxTicks = 24
INVARIANT
    SilenceNeverPays
