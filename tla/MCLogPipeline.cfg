\* Two emitters, a cleanup called twice, a buffer the emitters can fill.
CONSTANTS
    Emitters = {e1, e2}
    Closers = {c1, c2}
    BufferSize = 1
    MaxEmits = 2
SPECIFICATION FairSpec
INVARIANTS
    NoChannelPanic
    CleanupDrains
PROPERTIES
    SpoolSpec
    CallsReturn
CHECK_DEADLOCK FALSE
