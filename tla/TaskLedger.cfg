CONSTANTS
  alice = alice
  bob = bob
  packet = packet
  other = other
  codex = codex
  Claimants = {alice, bob}
  Lanes = {codex, any}
  AnyLane = any
  Packets = {packet}
  Deps = {other, self}
  Self = self
  Unset = Unset
  StaleAfter = 1
  Procs = {p1, p2}
  NoProc = NoProc
  Tasks = {t1, t2}
  Existing = {t1}
  Shards = {shard}
  Requests <- WriteRequests
  MaxCommands = 3
  MaxCrashes = 1
  MaxClock = 1
SPECIFICATION Spec
INVARIANTS EveryRevAccounted LintNeverStrands
PROPERTIES StoreSpec CasSeesNoChange
SYMMETRY Symmetry
CHECK_DEADLOCK FALSE
