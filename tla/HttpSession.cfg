SPECIFICATION Spec
CONSTANTS
    s1 = s1
    s2 = s2
    none = none
    Session <- TwoSessions
    Request <- SupportedRequests
    NoRequest = none
    MaxRequests = 2
INVARIANTS
    TypeOK
    OneOperation
    AlwaysListening
    AnsweredOnce
PROPERTY
    CloseIsHonoured
\* The sessions of the instance come to an end, and an exception ends them all.
CHECK_DEADLOCK FALSE
