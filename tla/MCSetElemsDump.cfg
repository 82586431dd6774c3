SPECIFICATION DumpSpec
CONSTANTS
    Elems <- MCElems
    Size <- MCSize
    NestHdr = 2
    MaxNest = 10
    e1 = e1
    e2 = e2
    e3 = e3
    e4 = e4
    e5 = e5
    e6 = e6
    e7 = e7
    ListHead = ListHead
    NULL = NULL
INVARIANTS
    TypeOK
    NestFits
    DumpExact
PROPERTIES
    DumpComplete
    OversizeStalls
    ImplementsElemStream
