CONSTANTS
  Procs = {p1, p2}
  TaskLocks = {task}
  ShardLocks = {}
  RegistryLock = registry
  Serials = {1, 2, 3}
  NoInode = NoInode
  NoPath = NoPath
  NoProc = NoProc
SPECIFICATION Spec
INVARIANT MutualExclusion
