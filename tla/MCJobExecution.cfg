\* Both modes of the locker, leases that may be lost, two instances, two executions.
CONSTANTS
    Jobs = {j1, j2}
    Instances = {i1, i2}
    Runs = {r1, r2}
    None = None
    MayLose = TRUE
SPECIFICATION FairSpec
INVARIANTS
    OverlapOnlyAfterLoss
    LogsFollowGrants
PROPERTIES
    LeaseEnds
CHECK_DEADLOCK FALSE
