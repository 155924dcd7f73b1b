SPECIFICATION Spec
CONSTANTS
    Size = 8
    Base = 8
    SizeMod = 32
    Requests = {0, 1, 3}
    Aligns = {1, 3, 4}
    Names = {"a", "bc"}
    NameLen <- ShortNames
    MaxWords = 3
    MaxSerial = 5
INVARIANTS TypeOK FindsNewest HeapOwned BlocksApart 
