SPECIFICATION IsrSpec
CONSTANTS
    MaxTasks = 3
    MaxPrio = 2
    MaxTick = 1
    Versions = 2
    Guarded = TRUE
INVARIANTS LoopComputesPolicy 
