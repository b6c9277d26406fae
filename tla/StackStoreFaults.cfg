CONSTANTS
    p = p
    q = q
    m1 = m1
    m2 = m2
    none = none
    b = b
    Procs <- MCProcs
    Stacks <- MCStacks
    Bindings <- MCBindings
    EmptyBindings = none
    Compatible <- MCCompatible
    Absent = Absent
    NoSnapshot = NoSnapshot
    NoOwner = NoOwner
    Rollbacks <- MCRollbacks
    OrderedMetadata = TRUE
    MaxFailures = 3
SYMMETRY Symmetry
SPECIFICATION FaultSpec
INVARIANTS
    FailedSaveIsUndone
    OneFailureRecovers
