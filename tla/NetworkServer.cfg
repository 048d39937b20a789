SPECIFICATION FairSpec
CONSTANTS
    c1 = c1
    c2 = c2
    t1 = t1
    t2 = t2
    empty = empty
    Connection <- MCConnection
    InText <- MCInText
    OutText <- MCOutText
    Empty = empty
    Stalled <- MCStalled
    MaxLives = 2
    MaxSends = 3
    MaxIncoming = 1
INVARIANTS
    TypeOK
    OneWriteAtATime
    BufferPinned
    NoStrandedOutput
    FifoDelivery
    RegisteredIsReading
PROPERTIES
    ChannelReclaimed
    ImplementsDelivery
\* ServerImplDeleter ends the server for good.
CHECK_DEADLOCK FALSE
