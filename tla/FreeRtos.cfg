SPECIFICATION Spec
CONSTANTS
    MaxTasks = 2
    QSize = 2
    Broadcast = 3
    MaxType = 0
    CountMod = 2
    Handles = {h1, h2}
    Owner = owner
    Hosts = {owner}
    Null = Null
SYMMETRY HandleSymmetry
INVARIANTS OneWriter SlotsAccounted CleanupStops CountExact
 
CHECK_DEADLOCK FALSE
