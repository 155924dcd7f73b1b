SPECIFICATION FairSpec
CONSTANTS
    MaxTasks = 3
    Prios = {1}
    StackArgs = {0}
    DsCap = 2
    RsCap = 1
    DepthMod = 2
    CountMod = 2
    TickMod = 8
    Delays = {1}
    UsedStacks = {}
    Platform = "flag"
    TickLimit = 1
    NestLimit = 2

    
PROPERTIES
    RoundRobin
    SleepersWake
