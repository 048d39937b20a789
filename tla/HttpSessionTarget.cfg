SPECIFICATION Spec
CONSTANTS
    s1 = s1
    s2 = s2
    none = none
    Session <- OneSession
    Request <- AnyTarget
    NoRequest = none
    MaxRequests = 1
INVARIANT PageOnlyForIndex
CHECK_DEADLOCK FALSE
