SPECIFICATION Spec
CONSTANTS
  Procs = {p, q}
  Gates = {g, h}
  Tasks = {t}
  g = g
  h = h
  t = t
  Plan <- OneTask
  OldKeys <- Used
  Answers <- Some
  MaxCommands = 2
  MaxFaults = 1
  None = None
  Torn = Torn
SYMMETRY Symmetric
CHECK_DEADLOCK FALSE
INVARIANTS
  TypeOK
  RecordHolds
  BriefsChange
  TriesBounded
PROPERTIES
  AttemptsKept
  ReturnsAreFresh
