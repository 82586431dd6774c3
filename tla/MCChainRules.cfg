SPECIFICATION Spec
CONSTANTS
    Chains = {c1, c2}
    Rules = {r1, r2, r3}
    Walkers = {w1, w2}
    NULL = NULL
    POISON1 = POISON1
    POISON2 = POISON2
SYMMETRY Interchangeable
INVARIANTS
    TypeOK
    RingIntegrity
    ListHoldsRules
    NoDanglingWalk
    WalkExact
PROPERTY
    ImplementsRuleSeqs
