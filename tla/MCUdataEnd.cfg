SPECIFICATION Spec
CONSTANTS
    Byte = 8
    Sizes <- MCSizes
    Values <- MCValues
    Raw = {}
    LeafType = 1
    NestType = 2
    MaxEnd = 13
    Careful = FALSE
INVARIANT
    EndWithinSize
