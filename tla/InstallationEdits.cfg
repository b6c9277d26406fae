CONSTANTS
    v1 = v1
    v2 = v2
    default = default
    old = old
    edit = edit
    Dirs = {"data", "config"}
    Releases = {v1, v2}
    NoRelease = NoRelease
    NoJournal = NoJournal
    NoManifest = NoManifest
    NoState = NoState
    Damaged = Damaged
    Contents <- MCContents
    Normal <- MCNormal
    Absent = Absent
    Torn = Torn
    Default = default
    Edit = edit
    MaxStrays = 1
    MaxInstalls = 2
    MaxFailures = 1
    MaxKills = 1
    MaxEdits = 1
SYMMETRY Symmetry
SPECIFICATION Spec
CHECK_DEADLOCK FALSE
INVARIANT PreservesEdits
