SPECIFICATION Spec
CONSTANTS
  Slots = {a, b}
  Procs = {p, q}
  Plans = {v1, v2}
  MaxCalls = 2
  MaxFaults = 3
  MaxKeys = 2
  Absent = Absent
  Empty = Empty
SYMMETRY Symmetric
CHECK_DEADLOCK FALSE
INVARIANTS
  TypeOK
  SpentOnce
  TrailWhole
PROPERTIES
  MissionKept
  ApprovalHonoured
