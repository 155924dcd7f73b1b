SPECIFICATION Spec
CONSTANTS
    NPorts = 3
    HandlesFor <- OwnHandles
    Null = Null
    MaxLen = 1
INVARIANTS FreshWorks NoCrossTalk
