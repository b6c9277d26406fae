CONSTANTS
    p1 = p1
    p2 = p2
    m1 = m1
    m2 = m2
    Accounts <- MCAccounts
    Models = {m1, m2}
    Providers = {"A", "B"}
    Roles <- MCRoles
    Pools <- MCPools
    PoolOf <- MCPoolOf
    ProviderOf <- MCProviderOf
    Rank <- MCRank
    Serves <- MCServes
    Anyone = Anyone
    NoRoute = NoRoute
    NoBinding = NoBinding
    NoPlan = NoPlan
    Procs = {p1, p2}
    Ids = {1, 2}
    Versions <- MCVersions
    Priorities = {0, 1}
    Ordinals = {0, 1}
    NoSession = NoSession
    NoRun = NoRun
    NoView = NoView
    None = None
    Unpublished = Unpublished
    Suspended = {{3}, {1, 3}}
    MaxLaunches = 2
    MaxTrouble = 1
SYMMETRY Symmetry
SPECIFICATION Spec
INVARIANT LocksRespected
PROPERTIES
    CalmSessionsKept
    SavedIsPrepared
\* Commands run out.
CHECK_DEADLOCK FALSE
