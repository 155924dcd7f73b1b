SPECIFICATION Spec
CONSTANTS
    QSize = 3
    MaxTasks = 2
    Broadcast = 3
    MaxType = 1
    MaxSends = 3
INVARIANT
    DeliveredOnce
