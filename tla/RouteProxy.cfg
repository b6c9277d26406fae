\* Three connections for two slots, two sessions for one status entry.
CONSTANTS
    r1 = r1
    r2 = r2
    r3 = r3
    s1 = s1
    s2 = s2
    m = m
    Requests = {r1, r2, r3}
    Sessions = {s1, s2}
    Models = {m}
    NoSession = NoSession
    NoModel = NoModel
    Traffic <- MCTraffic
    MaxConcurrent = 2
    MaxEntries = 1
SYMMETRY Symmetry
SPECIFICATION Spec
INVARIANTS
    SlotsAccounted
    OneFallback
    StatusTruthful
    StaleOnlyByRetry
PROPERTY NoReplay
\* Every connection is served once and the server then stops.
CHECK_DEADLOCK FALSE
