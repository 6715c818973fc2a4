CONSTANTS
  Procs = {p1, p2}
  Shards = {codex}
  NoProc = NoProc
  NoSeq = NoSeq
  NoMark = NoMark
  MaxLegacy = 0
  MaxAppends = 2
  MaxCrashes = 0
  MaxFaults = 0
  Overlap = TRUE
SPECIFICATION Spec
INVARIANT VerifyNeverSeesHalf
