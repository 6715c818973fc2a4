CONSTANTS
  Procs = {p1, p2}
  Shards = {codex, claude}
  NoProc = NoProc
  NoSeq = NoSeq
  NoMark = NoMark
  MaxLegacy = 1
  MaxAppends = 3
  MaxCrashes = 1
  MaxFaults = 1
  Overlap = FALSE
SPECIFICATION Spec
INVARIANTS TypeOK ChainIntact MarksTrail NoFalseAlarm LossReported
PROPERTIES LogSpec
SYMMETRY Symmetry
