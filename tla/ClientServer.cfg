SPECIFICATION FairSpec
CONSTANTS
    c1 = c1
    t1 = t1
    t2 = t2
    empty = empty
    conn = c1
    OutText <- MCOutText
    Empty = empty
    MaxSends = 2
    MaxTyped = 3
INVARIANTS
    TypeOK
    ShownInOrder
    PendingWritesPinned
    WrittenInOrder
PROPERTIES
    SentIsShown
    ServerGoneIsNoticed
    ClientGoneIsNoticed
\* Both ends may be gone for good.
CHECK_DEADLOCK FALSE
