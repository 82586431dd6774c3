SPECIFICATION Spec
CONSTANTS
    Chains = {c1, c2, c3}
    Names <- MCNames
    Buckets <- MCBuckets
    Hash <- MCHash
    n1 = n1
    n2 = n2
    n3 = n3
    b1 = b1
    b2 = b2
    List = List
    NULL = NULL
    POISON1 = POISON1
    POISON2 = POISON2
SYMMETRY Interchangeable
INVARIANTS
    IndexIntegrity
PROPERTY
    LookupExact
