SPECIFICATION RuntimeSpec
CONSTANTS
    Work <- Message
    Idle = Idle
    NumWorkers = 2
    MaxStarts = 2
    ModuleLeads <- MCModuleLeads
    TaskAgents <- MCTaskAgents
    Plans <- MCPlans
    Parcel = {p1, p2, p3}
    Nothing = Nothing
    NumPullers = 2
    Timed = {1}
    Letter <- MCLetter
    Empty = Empty
    Sender = {s1, s2}
    Reader = {r1}
    priority <- MCPriority
    MaxQueueSize = 1
    LowWatermark = 1
    Interval = 1
    MaxTime = 2
    OutsideThread = outside
    PoolThread = {w1, w2}
    MaxChain = 3
INVARIANT Conserved
INVARIANT OnlyLateLeft
 
INVARIANT OneLossEach
 
INVARIANT Delivered
INVARIANT ResumedSuspended
 
PROPERTY ShutdownReturns
PROPERTY Served
PROPERTY ModuleSettles
PROPERTY EveryLetterRead
PROPERTY TasksComplete
CHECK_DEADLOCK FALSE
