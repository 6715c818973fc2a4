----------------------------- MODULE TaskLedger -----------------------------
(***************************************************************************)
(* The task store and the ledger together: how a `tessctl tasks` command   *)
(* runs.  It waits for its task's lock, reads the record, changes a copy,  *)
(* checks the copy, replaces the file, leaves the lock, and then appends   *)
(* its events to the ledger, with nothing held between write and event.    *)
(*                                                                         *)
(* An append is one step of EventLog, which Ledger implements.  The flock  *)
(* is taken to exclude (StateLock says when it does).                      *)
(***************************************************************************)
EXTENDS TaskRecord, Sequences, SequencesExt

CONSTANTS
  Procs, NoProc,
  Tasks,       \* task ids
  Existing,    \* tasks that are there at the start, at rev 1
  Shards,      \* ledger shards
  Requests,    \* bound: the commands that are issued
  MaxCommands, \* bound: how many are issued
  MaxCrashes,  \* bound: how many are cut short
  MaxClock     \* bound: seconds that pass

ASSUME TaskLedgerAssumption ==
  /\ NoProc \notin Procs
  /\ Existing \subseteq Tasks
  /\ Requests \subseteq {c \in Command : WellFormed(c)}
  /\ MaxCommands \in Nat /\ MaxCrashes \in Nat /\ MaxClock \in Nat

\* A command as it is running.
Job == [cmd : Command, task : Tasks, shard : Shards, number : 1..MaxCommands,
        now : Optional(0..MaxClock), basis : Optional(Record), next : Optional(Record),
        events : Seq(LEDGER_EVENTS), owing : BOOLEAN]

ASSUME NoJobAssumption == Unset \notin Job

\* A ledger event, with the revision the record had; records says whether it is
\* the event of that very write.
LogEvents == [task : Tasks, rev : Nat, event : LEDGER_EVENTS, number : 1..MaxCommands,
              records : BOOLEAN]

VARIABLES
  task,      \* task[t]: the record in <t>.json, or Unset
  taskLock,  \* taskLock[t]: holder of locks/task-<t>.lock
  clock,     \* seconds
  pc, job,   \* where each process is, and its command
  log,       \* log[s]: the events of ledger shard s
  refusing,  \* shards an unfinished append has left unusable
  unended,   \* shards whose last event an unfinished append left without its end
  lost,      \* revisions whose event was lost with a process, or swallowed
  refused,   \* revisions whose event the ledger refused
  issued, crashes

store == <<task, taskLock>>
ledger == <<log, refusing, unended>>
ghosts == <<lost, refused>>
vars == <<store, clock, pc, job, ledger, ghosts, issued, crashes>>

E == INSTANCE EventLog WITH Events <- LogEvents, damaged <- {}

FirstRecord == [status |-> "backlog", lane |-> AnyLane, claim |-> Unset, blocked |-> Unset,
                depends |-> {}, notes |-> 0, rev |-> 1]

Init ==
  /\ task = [t \in Tasks |-> IF t \in Existing THEN FirstRecord ELSE Unset]
  /\ taskLock = [t \in Tasks |-> NoProc]
  /\ clock = 0
  /\ pc = [p \in Procs |-> "idle"]
  /\ job = [p \in Procs |-> Unset]
  /\ log = [s \in Shards |-> <<>>]
  /\ refusing = {} /\ unended = {} /\ lost = {} /\ refused = {}
  /\ issued = 0 /\ crashes = 0

-----------------------------------------------------------------------------
(* What a process is about to do.                                          *)

Cmd(p) == job[p].cmd
Current(p) == task[job[p].task]
Candidate(p) == Effect(Current(p), Cmd(p), job[p].now, clock)
Revision(p) == <<job[p].task, job[p].next.rev>>

\* Mutant: --expected-rev is not looked at.
RevIgnored(p) == TRUE

\* --expected-rev is the rev the caller saw when it put the command together.
RevHolds(p) == Cmd(p).cas => Current(p).rev = job[p].basis.rev

Unlock(p) == taskLock' = [taskLock EXCEPT ![job[p].task] = NoProc]
Leave(p) ==
  /\ pc' = [pc EXCEPT ![p] = "idle"]
  /\ job' = [job EXCEPT ![p] = Unset]

Issue(p, at, t, c) ==
  /\ pc[p] = "idle"
  /\ issued < MaxCommands
  /\ issued' = issued + 1
  /\ \E s \in Shards :
       job' = [job EXCEPT ![p] = [cmd |-> c, task |-> t, shard |-> s, number |-> issued + 1,
                                  now |-> IF c.op \in {"claim", "block"} THEN clock ELSE Unset,
                                  basis |-> IF c.cas THEN task[t] ELSE Unset, next |-> Unset,
                                  events |-> <<>>, owing |-> FALSE]]
  /\ pc' = [pc EXCEPT ![p] = at]
  /\ UNCHANGED <<store, clock, ledger, ghosts, crashes>>

-----------------------------------------------------------------------------
(* tasks new: no lock; the id is free when it is drawn.  The four random   *)
(* hex digits of two ids drawn at the same time are taken to differ, and   *)
(* nobody names an id that is not drawn yet.                               *)

BeingCreated == {job[p].task : p \in {r \in Procs : pc[r] = "create"}}

BeginNew(p) ==
  \E t \in Tasks \ BeingCreated, c \in Requests :
    /\ c.op = "new" /\ c.dep # Self
    /\ task[t] = Unset
    /\ Issue(p, "create", t, c)

Create(p) ==
  /\ pc[p] = "create"
  /\ task' = [task EXCEPT ![job[p].task] = NewRecord(Cmd(p))]
  /\ job' = [job EXCEPT ![p].next = NewRecord(Cmd(p)), ![p].events = NewEvents(Cmd(p)),
                        ![p].owing = TRUE]
  /\ pc' = [pc EXCEPT ![p] = "log"]
  /\ UNCHANGED <<taskLock, clock, ledger, ghosts, issued, crashes>>

-----------------------------------------------------------------------------
(* _tasks_write_locked, for every other command.                           *)

BeginChange(p) ==
  \E t \in Tasks, c \in Requests :
    /\ c.op # "new"
    /\ task[t] # Unset
    /\ Issue(p, "lock", t, c)

Lock(p) ==
  /\ pc[p] = "lock"
  /\ taskLock[job[p].task] = NoProc
  /\ taskLock' = [taskLock EXCEPT ![job[p].task] = p]
  /\ pc' = [pc EXCEPT ![p] = "read"]
  /\ UNCHANGED <<task, clock, job, ledger, ghosts, issued, crashes>>

\* Mutant: a refusal that keeps the lock.
RejectHolding(p) ==
  /\ pc[p] = "read"
  /\ ~RevHolds(p) \/ Refuses(Current(p), Cmd(p), clock)
  /\ Leave(p)
  /\ UNCHANGED <<store, clock, ledger, ghosts, issued, crashes>>

\* TASK_CAS_CONFLICT, a claim in the way, no claim to act on, a failed lint.
Reject(p) ==
  /\ pc[p] = "read"
  /\ \/ ~RevHolds(p)
     \/ Refuses(Current(p), Cmd(p), clock)
     \/ /\ Permits(Current(p), Cmd(p), clock)
        /\ Candidate(p) # Current(p) /\ ~Lint(Candidate(p))
  /\ Unlock(p)
  /\ Leave(p)
  /\ UNCHANGED <<task, clock, ledger, ghosts, issued, crashes>>

Accepts(p) == RevHolds(p) /\ Permits(Current(p), Cmd(p), clock)

\* The record comes out as it was: no write, and yet there may be an event.
NoChange(p) ==
  /\ pc[p] = "read"
  /\ Accepts(p) /\ Candidate(p) = Current(p)
  /\ job' = [job EXCEPT ![p].next = Current(p), ![p].events = EventsOf(Current(p), Cmd(p))]
  /\ Unlock(p)
  /\ pc' = [pc EXCEPT ![p] = "log"]
  /\ UNCHANGED <<task, clock, ledger, ghosts, issued, crashes>>

\* Mutant: the file is replaced after the lock was left.
StageUnlocking(p) ==
  /\ pc[p] = "read"
  /\ Accepts(p) /\ Candidate(p) # Current(p) /\ Lint(Candidate(p))
  /\ job' = [job EXCEPT ![p].next = [Candidate(p) EXCEPT !.rev = Current(p).rev + 1],
                        ![p].events = EventsOf(Current(p), Cmd(p))]
  /\ Unlock(p)
  /\ pc' = [pc EXCEPT ![p] = "write"]
  /\ UNCHANGED <<task, clock, ledger, ghosts, issued, crashes>>

Stage(p) ==
  /\ pc[p] = "read"
  /\ Accepts(p) /\ Candidate(p) # Current(p) /\ Lint(Candidate(p))
  /\ job' = [job EXCEPT ![p].next = [Candidate(p) EXCEPT !.rev = Current(p).rev + 1],
                        ![p].events = EventsOf(Current(p), Cmd(p))]
  /\ pc' = [pc EXCEPT ![p] = "write"]
  /\ UNCHANGED <<store, clock, ledger, ghosts, issued, crashes>>

\* The file is replaced in one rename; then the lock is left.
Commit(p) ==
  /\ pc[p] = "write"
  /\ task' = [task EXCEPT ![job[p].task] = job[p].next]
  /\ job' = [job EXCEPT ![p].owing = TRUE]
  /\ Unlock(p)
  /\ pc' = [pc EXCEPT ![p] = "log"]
  /\ UNCHANGED <<clock, ledger, ghosts, issued, crashes>>

-----------------------------------------------------------------------------
(* _ledger_auto_log, once per event.                                       *)

Logging(p) == pc[p] = "log" /\ job[p].events # <<>>
Logged(p) == job' = [job EXCEPT ![p].events = Tail(@), ![p].owing = FALSE]

Entry(p) == [task |-> job[p].task, rev |-> job[p].next.rev, event |-> Head(job[p].events),
             number |-> job[p].number, records |-> job[p].owing]

Log(p) ==
  /\ Logging(p)
  /\ E!Write(job[p].shard, Entry(p))
  /\ Logged(p)
  /\ UNCHANGED <<store, clock, pc, ghosts, issued, crashes>>

Owed(p) == IF job[p].owing THEN {Revision(p)} ELSE {}
Recorded == {<<e.task, e.rev>> : e \in {f \in UNION {ToSet(log[s]) : s \in Shards} : f.records}}

\* Revisions of which no record is left when p has gone on.
Lost(p) == (Owed(p) \cup Recorded) \ Recorded'

\* The event is appended to one without an end; nobody is told.
LogSwallowed(p) ==
  /\ Logging(p)
  /\ E!Swallow(job[p].shard)
  /\ lost' = lost \cup Lost(p)
  /\ Logged(p)
  /\ UNCHANGED <<store, clock, pc, refused, issued, crashes>>

\* LedgerError: the command fails, its write stays.
LogRefused(p) ==
  /\ Logging(p)
  /\ job[p].shard \in refusing
  /\ refused' = refused \cup Owed(p)
  /\ Leave(p)
  /\ UNCHANGED <<store, clock, ledger, lost, issued, crashes>>

Return(p) ==
  /\ pc[p] = "log"
  /\ job[p].events = <<>>
  /\ Leave(p)
  /\ UNCHANGED <<store, clock, ledger, ghosts, issued, crashes>>

\* A killed process loses its flock; killed inside an append it may leave half
\* a line, or a line without its end.
Crash(p) ==
  /\ pc[p] # "idle"
  /\ crashes < MaxCrashes
  /\ crashes' = crashes + 1
  /\ taskLock' = [t \in Tasks |-> IF taskLock[t] = p THEN NoProc ELSE taskLock[t]]
  /\ \/ UNCHANGED ledger
     \/ /\ Logging(p)
        /\ \/ E!Tear(job[p].shard) \/ E!Swallow(job[p].shard)
           \/ E!WriteUnended(job[p].shard, Entry(p))
  /\ lost' = lost \cup Lost(p)
  /\ Leave(p)
  /\ UNCHANGED <<task, clock, refused, issued>>

Tick ==
  /\ clock < MaxClock
  /\ clock' = clock + 1
  /\ UNCHANGED <<store, pc, job, ledger, ghosts, issued, crashes>>

-----------------------------------------------------------------------------
Step(p) == Create(p) \/ Reject(p) \/ NoChange(p) \/ Stage(p) \/ Commit(p) \/ Log(p)
             \/ LogSwallowed(p) \/ LogRefused(p) \/ Return(p)

Next == Tick \/ \E p \in Procs : BeginNew(p) \/ BeginChange(p) \/ Lock(p) \/ Step(p) \/ Crash(p)

Spec == Init /\ [][Next]_vars

\* A process that can run does; a waiter of a flock is granted it in the end.
Fairness == \A p \in Procs : WF_vars(Step(p)) /\ SF_vars(Lock(p))

FairSpec == Spec /\ Fairness

-----------------------------------------------------------------------------
(* Properties.                                                             *)

Locations == {"idle", "create", "lock", "read", "write", "log"}

\* The type invariant; whoever reads or writes a record holds its lock.
TypeOK ==
  /\ task \in [Tasks -> Optional(Record)]
  /\ taskLock \in [Tasks -> Procs \cup {NoProc}]
  /\ clock \in 0..MaxClock
  /\ pc \in [Procs -> Locations]
  /\ job \in [Procs -> Optional(Job)]
  /\ log \in [Shards -> Seq(LogEvents)]
  /\ refusing \in SUBSET Shards /\ unended \in SUBSET Shards
  /\ lost \in SUBSET (Tasks \X Nat) /\ refused \in SUBSET (Tasks \X Nat)
  /\ issued \in 0..MaxCommands /\ crashes \in 0..MaxCrashes
  /\ \A p \in Procs : pc[p] \in {"read", "write"} => taskLock[job[p].task] = p

\* Every record changes as if each command ran alone on the record as it is: no
\* update is lost, no rev is given out twice, no live claim changes hands.
Store == INSTANCE TaskStore
StoreSpec == Store!Spec

\* A write that --expected-rev let through replaces the very record the caller
\* had seen: between the two nothing of it changed, not even there and back.
CasSeesNoChange ==
  [][\A p \in Procs :
       pc[p] = "write" /\ pc'[p] = "log" /\ Cmd(p).cas => Current(p) = job[p].basis]_vars

\* A live claim is nobody else's to end: it leaves its holder only through the
\* holder, through --force, or when its heartbeat is StaleAfter seconds old.
LeaseHolds ==
  [][\A p \in Procs :
       /\ pc[p] = "write" /\ pc'[p] = "log"
       /\ Current(p).claim # Unset
       /\ ~(task'[job[p].task].claim # Unset /\ SameClaimant(Current(p), task'[job[p].task].claim))
       => \/ SameClaimant(Current(p), Cmd(p)) \/ Cmd(p).force
          \/ clock >= Current(p).claim.beat + StaleAfter]_vars

Pending == {Revision(p) : p \in {r \in Procs : job[r] # Unset /\ job[r].owing}}

Revisions ==
  UNION {{t} \X ((IF t \in Existing THEN 2 ELSE 1)..task[t].rev) : t \in {u \in Tasks : task[u] # Unset}}

\* Every revision is accounted for exactly once: its event is in the ledger, or
\* a live process still owes it, or it was lost with a process that died (with
\* it, or in the append that followed what it left), or the ledger refused it;
\* and no event is about a write that did not happen.
EveryRevAccounted ==
  /\ Recorded \cup Pending \cup lost \cup refused = Revisions
  /\ Recorded \cap (Pending \cup lost \cup refused) = {}
  /\ Pending \cap (lost \cup refused) = {} /\ lost \cap refused = {}
  /\ \A s, r \in Shards : \A i \in DOMAIN log[s], j \in DOMAIN log[r] :
       /\ log[s][i].records /\ log[r][j].records
       /\ log[s][i].task = log[r][j].task /\ log[s][i].rev = log[r][j].rev
       => s = r /\ i = j

\* Whatever commands came before, the lint stands in nobody's way: a command
\* that does not name the task as its own dependency never fails it, because a
\* packet always leaves with the status it belongs to.
LintNeverStrands ==
  \A t \in Tasks, c \in Requests :
    /\ task[t] # Unset /\ c.op # "new" /\ c.dep # Self
    /\ Permits(task[t], c, clock)
    => Lint(Effect(task[t], c, clock, clock))

\* docs/STATE_LAYER.md: an event is logged on every real write.  Said here of
\* the writes whose event was not lost to a process that was killed.
WritesAreLogged == Revisions \ (Pending \cup lost) \subseteq Recorded

\* Every command ends, with its lock given back whatever became of it.
CommandsEnd == \A p \in Procs : pc[p] # "idle" ~> pc[p] = "idle"
=============================================================================
