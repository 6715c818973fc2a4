SPECIFICATION Spec
CONSTANTS
    Callers = {a, b}
    Inodes = {d1, d2, d3, d4}
    NoDir = NoDir
    Requests <- MCRequests
    MaxEdits = 1
    MaxCrashes = 1
SYMMETRY MCSymmetry
CHECK_DEADLOCK FALSE
INVARIANTS
    TypeOK
    TargetWhole
    EditsKept
PROPERTIES
    AppNeverLost
    ReturnsItsApp
