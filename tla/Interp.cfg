SPECIFICATION Spec
CONSTANTS
    Cells = {0, 1}
    DsCap = 3
    RsCap = 2
    DepthMod = 3
    Shown = 2
    Locals = {0, 1}
    Saved <- SavedStacks
    Null = Null
    CallLimit = 2
INVARIANTS TypeOK FrameOnlyInCall CallerIntact 
PROPERTIES FailurePopsOnly ErrorEnds
