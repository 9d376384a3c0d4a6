\* Two calls over local and remote connections, two attempts, a bucket of one token.
CONSTANTS
    Methods = {"GetThing", "PostThing", "WatchThings"}
    Streams = {"WatchThings"}
    Get = {"GetThing"}
    Services <- MCServices
    None = None
    Conns = {"k1", "k2"}
    Calls = {"c1", "c2"}
    Requests <- MCRequests
    Assignments <- MCAssignments
    MaxRefills = 1
SPECIFICATION Spec
INVARIANTS
    RetriesJustified
    SuccessIsReal
    CountedOnce
    PaidAttempts
    OneRequestID
CHECK_DEADLOCK FALSE
