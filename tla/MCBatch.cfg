SPECIFICATION Spec
CONSTANTS
    Msgs <- MCMsgs
    Size <- MCSize
    page_size = 5
    page_overrun_size = 6
    MaxPages = 4
    m1 = m1
    m2 = m2
    m3 = m3
    m4 = m4
    m5 = m5
    NULL = NULL
INVARIANTS
    TypeOK
    NoOverrun
    PagesSplitLog
PROPERTY
    ImplementsMessageLog
