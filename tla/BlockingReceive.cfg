SPECIFICATION FairSysSpec
CONSTANTS
    MaxTasks = 2
    Prios = {1}
    StackArgs = {0}
    DsCap = 1
    RsCap = 1
    DepthMod = 2
    CountMod = 1
    TickMod = 4
    Delays = {}
    UsedStacks = {}
    Platform = "none"
    TickLimit = 5
    NestLimit = 0
    QSize = 1
    Broadcast = 2
    MaxType = 0
    MaxSends = 1
    Timeouts = {0, 2}
    PollDelay = 1
    MaxLag = 1
INVARIANT
    InTime
PROPERTIES
    NotEarly
    LoneReceivesOwn
    WaitEnds
