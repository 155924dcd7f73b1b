SPECIFICATION Spec
CONSTANTS
    MaxTasks = 2
    Prios = {1, 2}
    StackArgs = {0}
    DsCap = 2
    RsCap = 1
    DepthMod = 2
    CountMod = 2
    TickMod = 8
    Delays = {1}
    UsedStacks = {"DS"}
    Platform = "none"
    TickLimit = 1
    NestLimit = 0
INVARIANTS
    TypeOK
    OneRunner
    DeadOwnNothing
    
    SleepsOut
PROPERTIES
    
    LeaversYield
