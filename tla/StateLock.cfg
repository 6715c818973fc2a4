CONSTANTS
  Procs = {p1, p2}
  TaskLocks = {}
  ShardLocks = {shard}
  RegistryLock = registry
  Serials = {1, 2, 3}
  NoInode = NoInode
  NoPath = NoPath
  NoProc = NoProc
SPECIFICATION FairSpec
INVARIANTS ExclusionUnlessLate
PROPERTIES HeldLockNotReaped OperationsEnd
