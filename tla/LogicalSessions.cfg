CONSTANTS
    p1 = p1
    p2 = p2
    s1 = s1
    s2 = s2
    n1 = n1
    n2 = n2
    c1 = c1
    c2 = c2
    Procs = {p1, p2}
    Ids = {s1, s2}
    Controllers = {n1, n2}
    Ports = {c1, c2}
    Absent = Absent
    None = None
    NoLease = NoLease
    Partial = Partial
    MaxErrors = 1
    MaxKills = 1
SYMMETRY Symmetry
SPECIFICATION Spec
INVARIANTS
    RunningResumable
    LeasesHeld
PROPERTIES
    UpdatesSerialized
    ParentsLast
\* The ids of the model run out.
CHECK_DEADLOCK FALSE
