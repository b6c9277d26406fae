CONSTANTS
    s = s
    t = t
    p = p
    q = q
    f = f
    g = g
    a = a
    b = b
    m = m
    n = n
    u = u
    w = w
    Order <- MCOrder
    Names = {s, t}
    Default = s
    Accounts = {a, b}
    Provider <- MCProvider
    Choices <- MCChoices
    Offered <- MCOffered
    Installed <- MCInstalled
    Automatic = Automatic
    NoSource = NoSource
    NoDraft = NoDraft
    NoProposal = NoProposal
    MaxPicks = 2
    MaxChanges = 2
SPECIFICATION Spec
PROPERTIES
    SavedAsReviewed
    OthersUntouched
CHECK_DEADLOCK FALSE
