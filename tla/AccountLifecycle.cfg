\* Two accounts and two credentials, one change by others, late patch
\* or interrupted save of the stack store.
CONSTANTS
    p = p
    a1 = a1
    a2 = a2
    k1 = k1
    k2 = k2
    c = c
    own = own
    Procs = {p}
    Accounts = {a1, a2}
    Credentials = {k1, k2}
    Candidates = {c}
    Priorities <- MCPriorities
    UserPrefixes = {own}
    Found <- MCFound
    Unset = Unset
    NoOwner = NoOwner
    NotLoaded = NotLoaded
    NoJournal = NoJournal
    MaxDisturbances = 1
SYMMETRY Symmetry
SPECIFICATION Spec
INVARIANTS
    ActiveIsPublished
    NoStrayRoute
PROPERTIES
    RemovalRestores
    BindingsKept
