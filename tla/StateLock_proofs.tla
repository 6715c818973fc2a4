-------------------------- MODULE StateLock_proofs --------------------------
(***************************************************************************)
(* Proofs about the lock files: the exclusion the reaper leaves intact and *)
(* the one thing it never does, for any number of processes and locks.     *)
(***************************************************************************)
EXTENDS StateLock, SequenceTheorems, TLAPS

\* The identities a file that bears the path q can have.
Of(q) == {q} \X Serials

\* Every inode stays with its path.
PathInv ==
  /\ \A q \in Paths : dirent[q] # NoInode => dirent[q] \in Of(q)
  /\ \A p \in Procs, q \in Paths : held[p][q] # NoInode => held[p][q] \in Of(q)
  /\ \A p \in Procs :
       /\ pc[p] \in {"prune", "reap_open", "reap_lock", "wait"} \cup Reaping
            => plan[p] # <<>>
       /\ pc[p] \in {"reap_open", "reap_lock"} \cup Reaping => probe[p] \in Paths
       /\ pc[p] \in {"reap_lock"} \cup Reaping => fd[p] \in Of(probe[p])
       /\ pc[p] = "wait" => fd[p] \in Of(Head(plan[p]))
       /\ pc[p] = "cs" => fd[p] = NoInode

\* Who the flocks belong to: a writer's is recorded in held, a reaper's is on
\* the file it has open, and the two are never the same inode.
FlockInv ==
  /\ \A p \in Procs, q \in Paths : held[p][q] # NoInode => flock[held[p][q]] = p
  /\ \A p \in Procs : pc[p] \in Reaping =>
       /\ flock[fd[p]] = p
       /\ held[p][probe[p]] # fd[p]

\* What the path still names: the inode a reaper is about to unlink, and the
\* inode of every lock that was not taken late.
NameInv ==
  /\ \A p \in Procs : pc[p] = "reap_unlink" => dirent[probe[p]] = fd[p]
  /\ \A p \in Procs, q \in Paths :
       held[p][q] # NoInode /\ q \notin late[p] => dirent[q] = held[p][q]

IInv == TypeOK /\ PathInv /\ FlockInv /\ NameInv

-----------------------------------------------------------------------------
LEMMA OfInodes == \A q \in Paths : Of(q) \subseteq Inodes /\ NoInode \notin Of(q)
  BY NoInodeAssumption DEF Of, Inodes

LEMMA OfDisjoint == \A q, u \in Paths : \A i : i \in Of(q) /\ i \in Of(u) => q = u
  BY DEF Of

LEMMA PlansAreSequences == \A s \in Plans : s \in Seq(Paths) /\ s # <<>>
  <1>1. ASSUME NEW t \in TaskLocks PROVE <<t>> \in Seq(Paths) /\ <<t>> # <<>>
    BY DEF Paths
  <1>2. ASSUME NEW t \in ShardLocks
        PROVE  <<t, RegistryLock>> \in Seq(Paths) /\ <<t, RegistryLock>> # <<>>
    BY DEF Paths
  <1>3. QED  BY <1>1, <1>2 DEF Plans

\* Opening a lock file yields the inode the path names afterwards, and gives a
\* path an inode only when it had none.
LEMMA OpenFacts ==
  ASSUME TypeOK, PathInv, NEW p \in Procs, NEW q \in Paths, OpenLock(p, q)
  PROVE  /\ \E i \in Of(q) : /\ fd' = [fd EXCEPT ![p] = i]
                             /\ dirent' = [dirent EXCEPT ![q] = i]
         /\ dirent[q] # NoInode => dirent' = dirent
         /\ aged' = aged
  <1>1. CASE OpenExisting(p, q)
    <2>1. dirent[q] \in Of(q) /\ dirent' = dirent /\ fd' = [fd EXCEPT ![p] = dirent[q]]
      BY <1>1 DEF OpenExisting, PathInv
    <2>2. dirent = [dirent EXCEPT ![q] = dirent[q]]
      BY DEF TypeOK
    <2>3. QED  BY <1>1, <2>1, <2>2 DEF OpenExisting
  <1>2. CASE OpenCreate(p, q)
    <2>1. PICK i : i \in Unused(q) /\ dirent' = [dirent EXCEPT ![q] = i]
                                  /\ fd' = [fd EXCEPT ![p] = i]
      BY <1>2 DEF OpenCreate
    <2>2. i \in Of(q)
      BY <2>1 DEF Unused, Of
    <2>3. QED  BY <1>2, <2>1, <2>2 DEF OpenCreate
  <1>3. QED  BY <1>1, <1>2 DEF OpenLock

-----------------------------------------------------------------------------
LEMMA InitIInv == Init => IInv
  <1> SUFFICES ASSUME Init PROVE IInv
    OBVIOUS
  <1>1. TypeOK
    BY EmptySeq DEF Init, TypeOK, Locations, Reaping
  <1>2. PathInv /\ FlockInv /\ NameInv
    BY DEF Init, PathInv, FlockInv, NameInv, Reaping
  <1>3. QED  BY <1>1, <1>2 DEF IInv

-----------------------------------------------------------------------------
(* One lemma per action, each by the four parts of the invariant.          *)

LEMMA StartIInv == ASSUME IInv, NEW p \in Procs, Start(p) PROVE IInv'
  <1> USE DEF IInv, Start, Reaping
  <1>1. TypeOK'
    BY PlansAreSequences DEF TypeOK, Locations, Glob, PathInv
  <1>2. PathInv'
    BY PlansAreSequences DEF TypeOK, PathInv, Locations
  <1>3. FlockInv'
    BY PlansAreSequences DEF TypeOK, PathInv, FlockInv, Locations
  <1>4. NameInv'
    BY PlansAreSequences DEF TypeOK, PathInv, FlockInv, NameInv, Locations
  <1>5. QED  BY <1>1, <1>2, <1>3, <1>4

LEMMA PruneSkipIInv == ASSUME IInv, NEW p \in Procs, PruneSkip(p) PROVE IInv'
  <1> USE DEF IInv, PruneSkip, Reaping
  <1>1. TypeOK'
    BY DEF TypeOK, Locations, Glob, PathInv
  <1>2. PathInv'
    BY DEF TypeOK, PathInv, Locations
  <1>3. FlockInv'
    BY DEF TypeOK, PathInv, FlockInv, Locations
  <1>4. NameInv'
    BY DEF TypeOK, PathInv, FlockInv, NameInv, Locations
  <1>5. QED  BY <1>1, <1>2, <1>3, <1>4

LEMMA PruneTryIInv == ASSUME IInv, NEW p \in Procs, PruneTry(p) PROVE IInv'
  <1> USE DEF IInv, PruneTry, Reaping
  <1>1. TypeOK'
    BY DEF TypeOK, Locations, Glob, PathInv
  <1>2. PathInv'
    BY DEF TypeOK, PathInv, Locations
  <1>3. FlockInv'
    BY DEF TypeOK, PathInv, FlockInv, Locations
  <1>4. NameInv'
    BY DEF TypeOK, PathInv, FlockInv, NameInv, Locations
  <1>5. QED  BY <1>1, <1>2, <1>3, <1>4

LEMMA ReapOpenIInv == ASSUME IInv, NEW p \in Procs, ReapOpen(p) PROVE IInv'
  <1> USE DEF IInv, ReapOpen, Reaping
  <1>0. probe[p] \in Paths
    BY DEF TypeOK, PathInv
  <1>a. PICK i \in Of(probe[p]) :
          /\ fd' = [fd EXCEPT ![p] = i]
          /\ dirent' = [dirent EXCEPT ![probe[p]] = i]
          /\ dirent[probe[p]] # NoInode => dirent' = dirent
          /\ aged' = aged
    BY <1>0, OpenFacts
  <1>b. i \in Inodes /\ i # NoInode
    BY <1>0, OfInodes
  <1> HIDE DEF ReapOpen
  <1>c. /\ pc[p] = "reap_open"
        /\ pc' = [pc EXCEPT ![p] = "reap_lock"]
        /\ UNCHANGED <<flock, plan, todo, probe, held, late>>
    BY DEF ReapOpen
  <1>1. TypeOK'
    BY <1>0, <1>a, <1>b, <1>c DEF TypeOK, Locations
  <1>2. PathInv'
    BY <1>0, <1>a, <1>b, <1>c DEF TypeOK, PathInv, Locations
  <1>3. FlockInv'
    BY <1>a, <1>b, <1>c DEF TypeOK, PathInv, FlockInv, Locations
  <1>4. NameInv'
    BY <1>0, <1>a, <1>b, <1>c, OfInodes DEF TypeOK, PathInv, FlockInv, NameInv, Locations
  <1>5. QED  BY <1>1, <1>2, <1>3, <1>4

LEMMA ReapLockIInv == ASSUME IInv, NEW p \in Procs, ReapLock(p) PROVE IInv'
  <1> USE DEF IInv, ReapLock, Reaping
  <1>0. probe[p] \in Paths /\ fd[p] \in Inodes /\ fd[p] # NoInode
    BY OfInodes DEF PathInv
  <1>1. TypeOK'
    BY <1>0 DEF TypeOK, Locations
  <1>2. PathInv'
    BY DEF TypeOK, PathInv, Locations
  <1>3. FlockInv'
    <2>1. \A r \in Procs, q \in Paths : held[r][q] # fd[p]
      BY <1>0, StateLockAssumption DEF TypeOK, FlockInv
    <2>2. \A r \in Procs, q \in Paths : held[r][q] # NoInode => flock'[held[r][q]] = r
      BY <2>1, <1>0 DEF TypeOK, FlockInv
    <2>3. \A r \in Procs : r # p /\ pc[r] \in Reaping => flock'[fd[r]] = r
      BY <1>0, StateLockAssumption, OfInodes DEF TypeOK, FlockInv, PathInv
    <2>4. QED  BY <1>0, <2>1, <2>2, <2>3 DEF TypeOK, FlockInv, Locations
  <1>4. NameInv'
    BY <1>0 DEF TypeOK, PathInv, FlockInv, NameInv, Locations
  <1>5. QED  BY <1>1, <1>2, <1>3, <1>4

LEMMA ReapBusyIInv == ASSUME IInv, NEW p \in Procs, ReapBusy(p) PROVE IInv'
  <1> USE DEF IInv, ReapBusy, Reaping
  <1>1. TypeOK'
    BY DEF TypeOK, Locations, Glob, PathInv
  <1>2. PathInv'
    BY DEF TypeOK, PathInv, Locations
  <1>3. FlockInv'
    BY DEF TypeOK, PathInv, FlockInv, Locations
  <1>4. NameInv'
    BY DEF TypeOK, PathInv, FlockInv, NameInv, Locations
  <1>5. QED  BY <1>1, <1>2, <1>3, <1>4

LEMMA ReapCheckIInv == ASSUME IInv, NEW p \in Procs, ReapCheck(p) PROVE IInv'
  <1> USE DEF IInv, ReapCheck, Reaping
  <1>1. TypeOK'
    BY DEF TypeOK, Locations, Glob, PathInv
  <1>2. PathInv'
    BY DEF TypeOK, PathInv, Locations
  <1>3. FlockInv'
    BY DEF TypeOK, PathInv, FlockInv, Locations
  <1>4. NameInv'
    BY DEF TypeOK, PathInv, FlockInv, NameInv, Locations
  <1>5. QED  BY <1>1, <1>2, <1>3, <1>4

LEMMA ReapUnlinkIInv == ASSUME IInv, NEW p \in Procs, ReapUnlink(p) PROVE IInv'
  <1> USE DEF IInv, ReapUnlink, Reaping
  <1>1. TypeOK'
    BY OfInodes, OfDisjoint DEF TypeOK, Locations, Glob, PathInv
  <1>2. PathInv'
    BY OfInodes, OfDisjoint DEF TypeOK, PathInv, Locations
  <1>3. FlockInv'
    BY OfInodes, OfDisjoint DEF TypeOK, PathInv, FlockInv, Locations
  <1>4. NameInv'
    BY OfInodes, OfDisjoint DEF TypeOK, PathInv, FlockInv, NameInv, Locations
  <1>5. QED  BY <1>1, <1>2, <1>3, <1>4

LEMMA ReapCloseIInv == ASSUME IInv, NEW p \in Procs, ReapClose(p) PROVE IInv'
  <1> USE DEF IInv, ReapClose, Reaping
  <1>1. TypeOK'
    BY OfInodes, OfDisjoint DEF TypeOK, Locations, Glob, PathInv
  <1>2. PathInv'
    BY OfInodes, OfDisjoint DEF TypeOK, PathInv, Locations
  <1>3. FlockInv'
    BY OfInodes, OfDisjoint DEF TypeOK, PathInv, FlockInv, Locations
  <1>4. NameInv'
    BY OfInodes, OfDisjoint DEF TypeOK, PathInv, FlockInv, NameInv, Locations
  <1>5. QED  BY <1>1, <1>2, <1>3, <1>4

LEMMA OpenIInv == ASSUME IInv, NEW p \in Procs, Open(p) PROVE IInv'
  <1> USE DEF IInv, Open, Reaping
  <1>0. Head(plan[p]) \in Paths
    BY HeadTailProperties DEF TypeOK, PathInv
  <1>a. PICK i \in Of(Head(plan[p])) :
          /\ fd' = [fd EXCEPT ![p] = i]
          /\ dirent' = [dirent EXCEPT ![Head(plan[p])] = i]
          /\ dirent[Head(plan[p])] # NoInode => dirent' = dirent
          /\ aged' = aged
    BY <1>0, OpenFacts
  <1>b. i \in Inodes /\ i # NoInode
    BY <1>0, OfInodes
  <1> HIDE DEF Open
  <1>c. /\ pc[p] = "prune"
        /\ pc' = [pc EXCEPT ![p] = "wait"]
        /\ UNCHANGED <<flock, plan, todo, probe, held, late>>
    BY DEF Open
  <1>1. TypeOK'
    BY <1>0, <1>a, <1>b, <1>c DEF TypeOK, Locations
  <1>2. PathInv'
    BY <1>0, <1>a, <1>b, <1>c DEF TypeOK, PathInv, Locations
  <1>3. FlockInv'
    BY <1>a, <1>b, <1>c DEF TypeOK, PathInv, FlockInv, Locations
  <1>4. NameInv'
    BY <1>0, <1>a, <1>b, <1>c, OfInodes DEF TypeOK, PathInv, FlockInv, NameInv, Locations
  <1>5. QED  BY <1>1, <1>2, <1>3, <1>4

LEMMA AcquireIInv == ASSUME IInv, NEW p \in Procs, Acquire(p) PROVE IInv'
  <1> USE DEF IInv, Acquire, Reaping
  <1>0. /\ Head(plan[p]) \in Paths
        /\ Tail(plan[p]) \in Seq(Paths)
        /\ fd[p] \in Of(Head(plan[p]))
        /\ fd[p] \in Inodes /\ fd[p] # NoInode
    BY OfInodes, HeadTailProperties DEF TypeOK, PathInv
  <1>1. TypeOK'
    BY <1>0 DEF TypeOK, Locations, Glob
  <1>2. PathInv'
    BY <1>0 DEF TypeOK, PathInv, Locations
  <1>3. FlockInv'
    <2>1. \A r \in Procs, q \in Paths : held[r][q] # fd[p]
      BY <1>0, StateLockAssumption DEF TypeOK, FlockInv
    <2>2. \A r \in Procs, q \in Paths : held'[r][q] # NoInode => flock'[held'[r][q]] = r
      BY <1>0, <2>1 DEF TypeOK, FlockInv
    <2>3. \A r \in Procs : pc'[r] \in Reaping => /\ r # p
                                               /\ flock'[fd'[r]] = r
                                               /\ held'[r][probe'[r]] # fd'[r]
      BY <1>0, <2>1, StateLockAssumption, OfInodes DEF TypeOK, FlockInv, PathInv, Locations
    <2>4. QED  BY <2>2, <2>3 DEF FlockInv
  <1>4. NameInv'
    BY <1>0 DEF TypeOK, PathInv, FlockInv, NameInv, Locations
  <1>5. QED  BY <1>1, <1>2, <1>3, <1>4

LEMMA ReleaseIInv == ASSUME IInv, NEW p \in Procs, Release(p) PROVE IInv'
  <1> USE DEF IInv, Release, Reaping
  <1>1. TypeOK'
    BY OfInodes, OfDisjoint DEF TypeOK, Locations, Glob, PathInv
  <1>2. PathInv'
    BY OfInodes, OfDisjoint DEF TypeOK, PathInv, Locations
  <1>3. FlockInv'
    BY OfInodes, OfDisjoint DEF TypeOK, PathInv, FlockInv, Locations
  <1>4. NameInv'
    BY OfInodes, OfDisjoint DEF TypeOK, PathInv, FlockInv, NameInv, Locations
  <1>5. QED  BY <1>1, <1>2, <1>3, <1>4

LEMMA FinishIInv == ASSUME IInv, NEW p \in Procs, Finish(p) PROVE IInv'
  <1> USE DEF IInv, Finish, Reaping
  <1>1. TypeOK'
    BY DEF TypeOK, Locations, Glob, PathInv
  <1>2. PathInv'
    BY DEF TypeOK, PathInv, Locations
  <1>3. FlockInv'
    BY DEF TypeOK, PathInv, FlockInv, Locations
  <1>4. NameInv'
    BY DEF TypeOK, PathInv, FlockInv, NameInv, Locations
  <1>5. QED  BY <1>1, <1>2, <1>3, <1>4

LEMMA CrashIInv == ASSUME IInv, NEW p \in Procs, Crash(p) PROVE IInv'
  <1> USE DEF IInv, Crash, Reaping
  <1>1. TypeOK'
    BY OfInodes, EmptySeq DEF TypeOK, Locations, Glob, PathInv
  <1>2. PathInv'
    BY OfInodes, EmptySeq DEF TypeOK, PathInv, Locations
  <1>3. FlockInv'
    BY OfInodes, EmptySeq DEF TypeOK, PathInv, FlockInv, Locations
  <1>4. NameInv'
    BY OfInodes, EmptySeq DEF TypeOK, PathInv, FlockInv, NameInv, Locations
  <1>5. QED  BY <1>1, <1>2, <1>3, <1>4

LEMMA AgeIInv == ASSUME IInv, Age PROVE IInv'
  <1> USE DEF IInv, Age, Glob
  <1>1. TypeOK'
    BY DEF TypeOK
  <1>2. PathInv' /\ FlockInv' /\ NameInv'
    BY DEF PathInv, FlockInv, NameInv
  <1>3. QED  BY <1>1, <1>2

LEMMA StutterIInv == ASSUME IInv, UNCHANGED vars PROVE IInv'
  BY DEF IInv, TypeOK, PathInv, FlockInv, NameInv, vars

-----------------------------------------------------------------------------
\* The inductive invariant: whose every flock is, and which paths still name
\* the inodes that are locked (_prune_stale_locks against the two writers).
THEOREM Inductive == Spec => []IInv
  <1>1. IInv /\ [Next]_vars => IInv'
    <2> SUFFICES ASSUME IInv, [Next]_vars PROVE IInv'
      OBVIOUS
    <2>1. CASE Age
      BY <2>1, AgeIInv
    <2>2. ASSUME NEW p \in Procs, Start(p) \/ Finish(p) \/ Acquire(p) \/ Crash(p) \/ Release(p) \/ Open(p)
          PROVE  IInv'
      BY <2>2, StartIInv, FinishIInv, AcquireIInv, CrashIInv, ReleaseIInv, OpenIInv
    <2>3. ASSUME NEW p \in Procs, Reap(p)
          PROVE  IInv'
      BY <2>3, PruneSkipIInv, PruneTryIInv, ReapOpenIInv, ReapLockIInv, ReapBusyIInv,
         ReapCheckIInv, ReapUnlinkIInv, ReapCloseIInv DEF Reap
    <2>4. CASE UNCHANGED vars
      BY <2>4, StutterIInv
    <2>5. QED  BY <2>1, <2>2, <2>3, <2>4 DEF Next, Step
  <1>2. QED  BY InitIInv, <1>1, PTL DEF Spec

\* The lock state is well formed, and a finished operation leaves no file open.
THEOREM TypeCorrect == Spec => []TypeOK
  <1>1. IInv => TypeOK
    BY DEF IInv
  <1>2. QED  BY <1>1, Inductive, PTL

\* Two holders of one lock need one of them to have flocked a file that a
\* reaper unlinked between that writer's open() and its flock().
THEOREM Exclusion == Spec => []ExclusionUnlessLate
  <1>1. IInv => ExclusionUnlessLate
    BY DEF IInv, FlockInv, NameInv, ExclusionUnlessLate
  <1>2. QED  BY <1>1, Inductive, PTL

\* However old a lock file is, the reaper does not unlink it while a process
\* holds its lock through it.
THEOREM HeldLocksSurvive == Spec => HeldLockNotReaped
  <1>1. ASSUME IInv, [Next]_vars, NEW p \in Procs, NEW q \in Paths,
               held[p][q] # NoInode, held[p][q] = dirent[q]
        PROVE  dirent'[q] = dirent[q]
    <2>1. ASSUME NEW r \in Procs, ReapUnlink(r)
          PROVE  dirent'[q] = dirent[q]
      <3>1. q # probe[r]
        BY <1>1, <2>1 DEF IInv, FlockInv, NameInv, ReapUnlink, Reaping, TypeOK
      <3>2. QED  BY <2>1, <3>1 DEF ReapUnlink, IInv, TypeOK
    <2>2. ASSUME NEW r \in Procs, ReapOpen(r)
          PROVE  dirent'[q] = dirent[q]
      BY <1>1, <2>2 DEF ReapOpen, OpenLock, OpenExisting, OpenCreate, IInv, TypeOK
    <2>3. ASSUME NEW r \in Procs, Open(r)
          PROVE  dirent'[q] = dirent[q]
      BY <1>1, <2>3 DEF Open, OpenLock, OpenExisting, OpenCreate, IInv, TypeOK
    <2>4. QED
      BY <1>1, <2>1, <2>2, <2>3
      DEF Next, vars, Age, Start, Step, Reap, PruneSkip, PruneTry, ReapLock, ReapBusy,
          ReapCheck, ReapClose, Acquire, Release, Finish, Crash
  <1>2. IInv /\ [Next]_vars =>
          [\A p \in Procs, q \in Paths :
             held[p][q] # NoInode /\ held[p][q] = dirent[q] => dirent'[q] = dirent[q]]_vars
    BY <1>1
  <1>3. QED  BY <1>2, Inductive, PTL DEF Spec, HeldLockNotReaped
=============================================================================
