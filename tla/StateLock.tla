------------------------------ MODULE StateLock ------------------------------
(***************************************************************************)
(* The advisory lock files under .tess/state/locks.  A writer of a task    *)
(* takes one lock (task-<id>.lock); an append to the accountability ledger *)
(* takes two, nested (ledger-<shard>.lock, then ledger-registry.lock).     *)
(* Before it opens a lock file every writer first reaps the lock files     *)
(* that look leaked (_prune_stale_locks).                                  *)
(*                                                                         *)
(* flock(2) belongs to an open file, not to a path: a lock file that is    *)
(* unlinked and created again is a different inode, and two inodes never   *)
(* exclude each other.  So the directory, the inodes, the open files and   *)
(* the locks are kept apart here.                                          *)
(***************************************************************************)
EXTENDS Naturals, Sequences

CONSTANTS
  Procs,         \* tessctl processes
  TaskLocks,     \* locks/task-<id>.lock, one per task
  ShardLocks,    \* locks/ledger-<shard>.lock, one per ledger shard
  RegistryLock,  \* locks/ledger-registry.lock
  Serials,       \* tell apart the files that bear one path one after the other
  NoInode,       \* no such directory entry, no open file
  NoPath,        \* the reaper is looking at no lock file
  NoProc         \* nobody holds the flock

ASSUME StateLockAssumption ==
  /\ NoProc \notin Procs
  /\ RegistryLock \notin TaskLocks \cup ShardLocks
  /\ NoPath \notin TaskLocks \cup ShardLocks \cup {RegistryLock}

Paths == TaskLocks \cup ShardLocks \cup {RegistryLock}

\* A lock file's inode.  Its identity is free again once no directory entry and
\* no open file refers to it.
Inodes == Paths \X Serials

ASSUME NoInodeAssumption == NoInode \notin Inodes

\* Mutant: an append may also take the registry's lock first.
PlansUnordered == {<<t>> : t \in TaskLocks} \cup {<<s, RegistryLock>> : s \in ShardLocks}
                    \cup {<<RegistryLock, s>> : s \in ShardLocks}

\* The locks one operation takes, in the order it takes them: a task write
\* takes its task's lock, an append takes its shard's and then the registry's.
Plans == {<<t>> : t \in TaskLocks} \cup {<<s, RegistryLock>> : s \in ShardLocks}

VARIABLES
  dirent,  \* dirent[q]: the inode the path q names, or NoInode
  aged,    \* paths whose file's mtime is more than LOCK_STALE_SECONDS ago
  flock,   \* flock[i]: the process holding the flock of inode i, or NoProc
  pc,      \* where each process is
  plan,    \* plan[p]: the locks p has still to take
  todo,    \* todo[p]: the lock files p's reaper has still to look at
  probe,   \* probe[p]: the lock file p's reaper is looking at, or NoPath
  fd,      \* fd[p]: the inode of the file p has open and has not flocked for writing
  held,    \* held[p][q]: the inode p has flocked as lock q, or NoInode
  late     \* late[p]: locks of p whose path no longer named the inode at flock

vars == <<dirent, aged, flock, pc, plan, todo, probe, fd, held, late>>

Reaping == {"reap_check", "reap_unlink", "reap_close"}
Locations == {"idle", "prune", "reap_open", "reap_lock", "wait", "cs"} \cup Reaping

\* The type invariant; an operation that has ended leaves no file open.
TypeOK ==
  /\ dirent \in [Paths -> Inodes \cup {NoInode}]
  /\ aged \in SUBSET Paths
  /\ flock \in [Inodes -> Procs \cup {NoProc}]
  /\ pc \in [Procs -> Locations]
  /\ plan \in [Procs -> Seq(Paths)]
  /\ todo \in [Procs -> SUBSET Paths]
  /\ probe \in [Procs -> Paths \cup {NoPath}]
  /\ fd \in [Procs -> Inodes \cup {NoInode}]
  /\ held \in [Procs -> [Paths -> Inodes \cup {NoInode}]]
  /\ late \in [Procs -> SUBSET Paths]
  /\ \A p \in Procs : pc[p] = "idle" =>
       fd[p] = NoInode /\ \A q \in Paths : held[p][q] = NoInode

Init ==
  /\ dirent = [q \in Paths |-> NoInode]
  /\ aged = {}
  /\ flock = [i \in Inodes |-> NoProc]
  /\ pc = [p \in Procs |-> "idle"]
  /\ plan = [p \in Procs |-> <<>>]
  /\ todo = [p \in Procs |-> {}]
  /\ probe = [p \in Procs |-> NoPath]
  /\ fd = [p \in Procs |-> NoInode]
  /\ held = [p \in Procs |-> [q \in Paths |-> NoInode]]
  /\ late = [p \in Procs |-> {}]

-----------------------------------------------------------------------------
(* Opening a lock file creates it when the path names nothing.             *)

Glob == {q \in Paths : dirent[q] # NoInode}

Unused(q) == {i \in {q} \X Serials : /\ dirent[q] # i
                                    /\ \A p \in Procs : fd[p] # i /\ held[p][q] # i}

OpenExisting(p, q) ==
  /\ dirent[q] # NoInode
  /\ fd' = [fd EXCEPT ![p] = dirent[q]]
  /\ UNCHANGED <<dirent, aged>>

\* A new file is young.  Which identity it gets makes no difference.
OpenCreate(p, q) ==
  /\ dirent[q] = NoInode
  /\ Unused(q) # {}
  /\ LET i == CHOOSE i \in Unused(q) : TRUE
     IN  /\ dirent' = [dirent EXCEPT ![q] = i]
         /\ fd' = [fd EXCEPT ![p] = i]
  /\ UNCHANGED aged

OpenLock(p, q) == OpenExisting(p, q) \/ OpenCreate(p, q)

-----------------------------------------------------------------------------
(* _prune_stale_locks: one candidate at a time, in directory order, which  *)
(* is any order.                                                           *)

Start(p) ==
  /\ pc[p] = "idle"
  /\ \E s \in Plans : plan' = [plan EXCEPT ![p] = s]
  /\ todo' = [todo EXCEPT ![p] = Glob]
  /\ pc' = [pc EXCEPT ![p] = "prune"]
  /\ UNCHANGED <<dirent, aged, flock, probe, fd, held, late>>

\* Too young, or already gone.
PruneSkip(p) ==
  /\ pc[p] = "prune"
  /\ \E q \in todo[p] : /\ q \notin aged
                        /\ todo' = [todo EXCEPT ![p] = @ \ {q}]
  /\ UNCHANGED <<dirent, aged, flock, pc, plan, probe, fd, held, late>>

PruneTry(p) ==
  /\ pc[p] = "prune"
  /\ \E q \in todo[p] : /\ q \in aged
                        /\ probe' = [probe EXCEPT ![p] = q]
                        /\ todo' = [todo EXCEPT ![p] = @ \ {q}]
  /\ pc' = [pc EXCEPT ![p] = "reap_open"]
  /\ UNCHANGED <<dirent, aged, flock, plan, fd, held, late>>

\* os.open(..., O_RDWR | O_CREAT): recreates a file reaped since the stat.
ReapOpen(p) ==
  /\ pc[p] = "reap_open"
  /\ OpenLock(p, probe[p])
  /\ pc' = [pc EXCEPT ![p] = "reap_lock"]
  /\ UNCHANGED <<flock, plan, todo, probe, held, late>>

\* Mutant: a reaper that does not ask for the candidate's flock.
ReapLockBlind(p) ==
  /\ pc[p] = "reap_lock"
  /\ pc' = [pc EXCEPT ![p] = "reap_check"]
  /\ UNCHANGED <<dirent, aged, flock, plan, todo, probe, fd, held, late>>

\* Gate 2: the candidate's own flock, without waiting.
ReapLock(p) ==
  /\ pc[p] = "reap_lock"
  /\ flock[fd[p]] = NoProc
  /\ flock' = [flock EXCEPT ![fd[p]] = p]
  /\ pc' = [pc EXCEPT ![p] = "reap_check"]
  /\ UNCHANGED <<dirent, aged, plan, todo, probe, fd, held, late>>

\* Somebody holds it, this process itself included: leave it.
ReapBusy(p) ==
  /\ pc[p] = "reap_lock"
  /\ flock[fd[p]] # NoProc
  /\ fd' = [fd EXCEPT ![p] = NoInode]
  /\ probe' = [probe EXCEPT ![p] = NoPath]
  /\ pc' = [pc EXCEPT ![p] = "prune"]
  /\ UNCHANGED <<dirent, aged, flock, plan, todo, held, late>>

\* Mutant: a reaper that does not look again at what the path names.
ReapCheckTrusting(p) ==
  /\ pc[p] = "reap_check"
  /\ pc' = [pc EXCEPT ![p] = "reap_unlink"]
  /\ UNCHANGED <<dirent, aged, flock, plan, todo, probe, fd, held, late>>

\* Gate 3: the path still names the inode that was locked.
ReapCheck(p) ==
  /\ pc[p] = "reap_check"
  /\ pc' = [pc EXCEPT ![p] = IF dirent[probe[p]] = fd[p] THEN "reap_unlink"
                                                         ELSE "reap_close"]
  /\ UNCHANGED <<dirent, aged, flock, plan, todo, probe, fd, held, late>>

\* unlink() removes whatever the path names now.
ReapUnlink(p) ==
  /\ pc[p] = "reap_unlink"
  /\ dirent' = [dirent EXCEPT ![probe[p]] = NoInode]
  /\ aged' = aged \ {probe[p]}
  /\ pc' = [pc EXCEPT ![p] = "reap_close"]
  /\ UNCHANGED <<flock, plan, todo, probe, fd, held, late>>

ReapClose(p) ==
  /\ pc[p] = "reap_close"
  /\ flock' = [flock EXCEPT ![fd[p]] = NoProc]
  /\ fd' = [fd EXCEPT ![p] = NoInode]
  /\ probe' = [probe EXCEPT ![p] = NoPath]
  /\ pc' = [pc EXCEPT ![p] = "prune"]
  /\ UNCHANGED <<dirent, aged, plan, todo, held, late>>

-----------------------------------------------------------------------------
(* Taking and leaving the locks of the plan.                               *)

\* open(lock_path, "a+"): the file is open, nothing is locked yet.
Open(p) ==
  /\ pc[p] = "prune"
  /\ todo[p] = {}
  /\ OpenLock(p, Head(plan[p]))
  /\ pc' = [pc EXCEPT ![p] = "wait"]
  /\ UNCHANGED <<flock, plan, todo, probe, held, late>>

\* flock(LOCK_EX) returns; the next lock of the plan starts with a reap.
Acquire(p) ==
  /\ pc[p] = "wait"
  /\ flock[fd[p]] = NoProc
  /\ LET q == Head(plan[p])
     IN  /\ held' = [held EXCEPT ![p][q] = fd[p]]
         /\ late' = [late EXCEPT ![p] = IF dirent[q] = fd[p] THEN @ ELSE @ \cup {q}]
  /\ flock' = [flock EXCEPT ![fd[p]] = p]
  /\ fd' = [fd EXCEPT ![p] = NoInode]
  /\ plan' = [plan EXCEPT ![p] = Tail(@)]
  /\ todo' = [todo EXCEPT ![p] = IF Tail(plan[p]) = <<>> THEN {} ELSE Glob]
  /\ pc' = [pc EXCEPT ![p] = IF Tail(plan[p]) = <<>> THEN "cs" ELSE "prune"]
  /\ UNCHANGED <<dirent, aged, probe>>

\* The registry's lock is the inner one: it is left first.
Release(p) ==
  /\ pc[p] = "cs"
  /\ \E q \in Paths :
       /\ held[p][q] # NoInode
       /\ held[p][RegistryLock] # NoInode => q = RegistryLock
       /\ flock' = [flock EXCEPT ![held[p][q]] = NoProc]
       /\ held' = [held EXCEPT ![p][q] = NoInode]
       /\ late' = [late EXCEPT ![p] = @ \ {q}]
  /\ UNCHANGED <<dirent, aged, pc, plan, todo, probe, fd>>

Finish(p) ==
  /\ pc[p] = "cs"
  /\ \A q \in Paths : held[p][q] = NoInode
  /\ pc' = [pc EXCEPT ![p] = "idle"]
  /\ UNCHANGED <<dirent, aged, flock, plan, todo, probe, fd, held, late>>

\* A killed process leaves its lock files behind; the kernel drops its flocks.
Crash(p) ==
  /\ pc[p] # "idle"
  /\ flock' = [i \in Inodes |-> IF flock[i] = p THEN NoProc ELSE flock[i]]
  /\ pc' = [pc EXCEPT ![p] = "idle"]
  /\ plan' = [plan EXCEPT ![p] = <<>>]
  /\ todo' = [todo EXCEPT ![p] = {}]
  /\ probe' = [probe EXCEPT ![p] = NoPath]
  /\ fd' = [fd EXCEPT ![p] = NoInode]
  /\ held' = [held EXCEPT ![p] = [q \in Paths |-> NoInode]]
  /\ late' = [late EXCEPT ![p] = {}]
  /\ UNCHANGED <<dirent, aged>>

\* Nothing ever refreshes the mtime of a lock file: "a+" writes nothing.
Age ==
  /\ \E q \in Glob : aged' = aged \cup {q}
  /\ UNCHANGED <<dirent, flock, pc, plan, todo, probe, fd, held, late>>

-----------------------------------------------------------------------------
Reap(p) == PruneSkip(p) \/ PruneTry(p) \/ ReapOpen(p) \/ ReapLock(p) \/ ReapBusy(p)
             \/ ReapCheck(p) \/ ReapUnlink(p) \/ ReapClose(p)

Step(p) == Reap(p) \/ Open(p) \/ Release(p) \/ Finish(p)

Next == Age \/ \E p \in Procs : Start(p) \/ Step(p) \/ Acquire(p) \/ Crash(p)

Spec == Init /\ [][Next]_vars

\* The scheduler runs every process that can run; the kernel keeps the waiters
\* of a flock in a queue, so one that is released again and again is granted.
Fairness == \A p \in Procs : WF_vars(Step(p)) /\ SF_vars(Acquire(p))

FairSpec == Spec /\ Fairness

-----------------------------------------------------------------------------
(* Properties.                                                             *)

\* Two processes are never both inside the critical section of one lock.
\* The reaper's comment promises it; the code does not keep it (see README).
MutualExclusion ==
  \A p, r \in Procs : \A q \in Paths :
    held[p][q] # NoInode /\ held[r][q] # NoInode => p = r

\* What the code does keep: two holders of one lock need one of them to have
\* opened the file before a reaper unlinked it and flocked it afterwards.
ExclusionUnlessLate ==
  \A p, r \in Procs : \A q \in Paths :
    /\ held[p][q] # NoInode /\ q \notin late[p]
    /\ held[r][q] # NoInode /\ q \notin late[r]
    => p = r

\* The reaper never unlinks the file through which a process holds its lock,
\* however old that file is.
HeldLockNotReaped ==
  [][\A p \in Procs, q \in Paths :
       held[p][q] # NoInode /\ held[p][q] = dirent[q] => dirent'[q] = dirent[q]]_vars

\* Every operation ends: the fixed order shard, then registry, and a reaper
\* that never waits, leave no cycle of processes waiting for each other.
OperationsEnd == \A p \in Procs : pc[p] # "idle" ~> pc[p] = "idle"
=============================================================================
