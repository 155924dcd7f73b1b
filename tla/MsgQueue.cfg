SPECIFICATION Spec
CONSTANTS
    QSize = 2
    MaxTasks = 2
    Broadcast = 2
    MaxType = 1
    MaxSends = 4
INVARIANT
    NoPhantom
PROPERTIES
    OthersUndisturbed
    FifoInSync
