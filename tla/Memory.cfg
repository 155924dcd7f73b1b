SPECIFICATION Spec
CONSTANTS
    MemSize = 6
    Addrs = {0, 1, 4, 5, 8}
    Vals = {0, 6, 13}
    ByteMod = 2
    Windows <- SomeWindows
    MaxMmio = 2
INVARIANT TypeOK
PROPERTIES StoreLoads WindowsStay
