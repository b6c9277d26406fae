CONSTANTS
    t1 = t1
    t2 = t2
    t3 = t3
    s = s
    Threads <- MCThreads
    Services <- MCServices
    NoService = NoService
    MaxRequests = 4
SPECIFICATION Spec
INVARIANTS
    OneRefresher
    NoLostWakeup
    CacheIsCurrent
PROPERTIES
    AdmittedVerified
    CallsEnd
CHECK_DEADLOCK FALSE
