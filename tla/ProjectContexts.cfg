CONSTANTS
    p1 = p1
    p2 = p2
    outer = outer
    inner = inner
    s1 = s1
    s2 = s2
    Procs = {p1, p2}
    Roots = {outer, inner}
    Normal = normal
    Overlapping <- MCOverlapping
    Stacks = {s1, s2}
    Inherit = Inherit
    Unmapped = Unmapped
    NoCopy = NoCopy
    NoOwner = NoOwner
    NoTask = NoTask
    Settled = Settled
    MaxErrors = 1
    MaxCrashes = 1
SYMMETRY Symmetry
SPECIFICATION Spec
INVARIANTS
    WritesAtomic
    RootsDisjoint
PROPERTY ReferencesKept
