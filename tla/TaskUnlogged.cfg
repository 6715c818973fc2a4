CONSTANTS
  alice = alice
  bob = bob
  packet = packet
  other = other
  codex = codex
  Claimants = {alice, bob}
  Lanes = {codex, any}
  AnyLane = any
  Packets = {packet}
  Deps = {other, self}
  Self = self
  Unset = Unset
  StaleAfter = 1
  Procs = {p1, p2}
  NoProc = NoProc
  Tasks = {t1}
  Existing = {t1}
  Shards = {shard}
  Requests <- NoteRequests
  MaxCommands = 2
  MaxCrashes = 1
  MaxClock = 0
SPECIFICATION Spec
INVARIANT WritesAreLogged
CHECK_DEADLOCK FALSE
