SPECIFICATION ServerSpec
CONSTANTS
    Id = {r1}
    Kind = {"agent", "team", "task", "fault", "hmas", "brief"}
    kMaxRetries = 2
    PageSize = 1
    MaxClock = 3
    MaxTrouble = 3
    MaxHooks = 2
    MaxWrites = 3
    Client = {c1, c2}
    Unit = 3
    Rate = 2
    Burst = 5
    kEvictAfter = 3
    kEvictCheckInterval = 2
    MaxNow = 5
CONSTRAINT
    Inside
INVARIANT Converged
INVARIANT Sustained
INVARIANT RetrySuffices
 
PROPERTY CatchesUp
PROPERTY EvictionInvisible
CHECK_DEADLOCK FALSE
