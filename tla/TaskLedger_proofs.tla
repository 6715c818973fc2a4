-------------------------- MODULE TaskLedger_proofs --------------------------
(***************************************************************************)
(* Proofs about the task store, for any number of processes, tasks,        *)
(* commands, crashes and seconds: it implements TaskStore, respects live   *)
(* claims and --expected-rev, its lint never stands in the way, and every  *)
(* revision of a record has its event in the ledger, or is owed one, or is *)
(* known to have lost it.                                                  *)
(***************************************************************************)
EXTENDS TaskLedger, SequenceTheorems, TLAPS

-----------------------------------------------------------------------------
(* Records and what commands make of them.                                 *)

LEMMA NewRecordFacts ==
  ASSUME NEW c \in Command
  PROVE  /\ NewRecord(c) \in Record
         /\ NewRecord(c).rev = 1
         /\ c.dep # Self => Lint(NewRecord(c))
  BY TaskRecordAssumption, UnsetAssumption
  DEF Command, NewRecord, Given, Record, Optional, TASK_STATUSES, Lint

LEMMA MovedFacts ==
  ASSUME NEW r \in Record, NEW c \in Command
  PROVE  /\ Moved(r, c) \in Record
         /\ Moved(r, c).rev = r.rev
         /\ Moved(r, c).claim = r.claim
         /\ Lint(r) => Lint(Moved(r, c))
  BY UnsetAssumption
  DEF Command, Moved, Departed, Given, Record, Optional, Lint, TASK_STATUSES

LEMMA SetFacts ==
  ASSUME NEW r \in Record, NEW c \in Command, NEW k \in Nat,
         c.heartbeat => r.claim # Unset
  PROVE  /\ SetEffect(r, c, k) \in Record
         /\ SetEffect(r, c, k).rev = r.rev
         /\ Lint(r) /\ c.dep # Self => Lint(SetEffect(r, c, k))
         /\ r.claim # Unset => SetEffect(r, c, k).claim # Unset
                               /\ SetEffect(r, c, k).claim.who = r.claim.who
  <1> DEFINE m == Moved(r, c)
             b == IF c.heartbeat THEN [m.claim EXCEPT !.beat = k] ELSE m.claim
  <1>1. /\ m \in Record /\ m.rev = r.rev /\ m.claim = r.claim
        /\ Lint(r) => Lint(m)
    BY MovedFacts
  <1>2. b \in Optional(Claim) /\ (r.claim # Unset => b # Unset /\ b.who = r.claim.who)
    BY <1>1, UnsetAssumption DEF Record, Optional, Claim
  <1> HIDE DEF m, b
  <1>3. SetEffect(r, c, k) =
          [m EXCEPT !.lane = Given(c.lane, @),
                    !.depends = IF c.dep = Unset THEN @ ELSE @ \cup {c.dep},
                    !.notes = IF c.note THEN @ + 1 ELSE @, !.claim = b]
    BY <1>1 DEF SetEffect, m, b
  <1> DEFINE l == Given(c.lane, m.lane)
             d == IF c.dep = Unset THEN m.depends ELSE m.depends \cup {c.dep}
             n == IF c.note THEN m.notes + 1 ELSE m.notes
  <1>4. /\ l \in Lanes /\ d \in SUBSET Deps /\ n \in Nat
        /\ Lint(m) /\ c.dep # Self => Self \notin d
    BY <1>1 DEF Record, Command, Optional, Given, Lint
  <1>5. SetEffect(r, c, k) =
          [m EXCEPT !.lane = l, !.depends = d, !.notes = n, !.claim = b]
    BY <1>1, <1>3 DEF Record
  <1> HIDE DEF l, d, n
  <1>6. SetEffect(r, c, k) \in Record
    BY <1>1, <1>2, <1>4, <1>5 DEF Record
  <1>7. /\ SetEffect(r, c, k).rev = r.rev /\ SetEffect(r, c, k).claim = b
        /\ SetEffect(r, c, k).depends = d
        /\ SetEffect(r, c, k).status = m.status /\ SetEffect(r, c, k).blocked = m.blocked
    BY <1>1, <1>5 DEF Record
  <1>8. Lint(r) /\ c.dep # Self => Lint(SetEffect(r, c, k))
    BY <1>1, <1>4, <1>7 DEF Lint
  <1>9. QED
    BY <1>2, <1>6, <1>7, <1>8

LEMMA ClaimFacts ==
  ASSUME NEW r \in Record, NEW c \in Command, NEW now \in Nat, c.who \in Claimants
  PROVE  /\ ClaimEffect(r, c, now) \in Record
         /\ ClaimEffect(r, c, now).rev = r.rev
         /\ ClaimEffect(r, c, now).claim \in Claim
         /\ ClaimEffect(r, c, now).claim.who = c.who
         /\ Lint(r) => Lint(ClaimEffect(r, c, now))
  <1> DEFINE b == [who |-> c.who, since |-> IF SameClaimant(r, c) THEN r.claim.since ELSE now,
                   beat |-> now]
  <1>1. b \in Claim /\ b.who = c.who
    BY DEF Record, Optional, Claim, SameClaimant
  <1> HIDE DEF b
  <1>2. ClaimEffect(r, c, now) =
          [r EXCEPT !.claim = b,
                    !.status = IF @ \in CLAIM_AUTO_ADVANCE_FROM THEN "in_progress" ELSE @]
    BY DEF ClaimEffect, b
  <1>3. QED
    BY <1>1, <1>2 DEF Record, Optional, Lint, CLAIM_AUTO_ADVANCE_FROM, TASK_STATUSES

LEMMA ReleaseFacts ==
  ASSUME NEW r \in Record, NEW c \in Command
  PROVE  /\ ReleaseEffect(r, c) \in Record
         /\ ReleaseEffect(r, c).rev = r.rev
         /\ Lint(r) => Lint(ReleaseEffect(r, c))
  <1>1. /\ Moved(r, c) \in Record /\ Moved(r, c).rev = r.rev
        /\ Lint(r) => Lint(Moved(r, c))
    BY MovedFacts
  <1>2. QED  BY <1>1 DEF ReleaseEffect, Record, Optional, Lint

LEMMA BlockFacts ==
  ASSUME NEW r \in Record, NEW c \in Command, NEW now \in Nat, c.about \in Packets
  PROVE  /\ BlockEffect(r, c, now) \in Record
         /\ BlockEffect(r, c, now).rev = r.rev
         /\ BlockEffect(r, c, now).claim = r.claim
         /\ Lint(r) => Lint(BlockEffect(r, c, now))
  <1> DEFINE b == [about |-> c.about, at |-> now]
  <1>1. b \in Packet
    BY DEF Packet
  <1> HIDE DEF b
  <1>2. BlockEffect(r, c, now) = [r EXCEPT !.status = "blocked", !.blocked = b]
    BY DEF BlockEffect, b
  <1>3. QED  BY <1>1, <1>2 DEF Record, Optional, Lint, TASK_STATUSES

LEMMA HandoffFacts ==
  ASSUME NEW r \in Record, NEW c \in Command, c.lane \in Lanes
  PROVE  /\ HandoffEffect(r, c) \in Record
         /\ HandoffEffect(r, c).rev = r.rev
         /\ HandoffEffect(r, c).claim = r.claim
         /\ Lint(r) => Lint(HandoffEffect(r, c))
  BY DEF HandoffEffect, Record, Optional, Lint

\* The times a command may bear, and the one time that stands for both.
Timely(c, now, k) == k \in Nat /\ (c.op \in {"claim", "block"} => now \in Nat)

At(c, now, k) == IF c.op \in {"claim", "block"} THEN now ELSE k

LEMMA OneTime ==
  ASSUME NEW r, NEW c \in Command, NEW now, NEW k, c.op # "new"
  PROVE  Effect(r, c, now, k) = Effect(r, c, At(c, now, k), At(c, now, k))
  <1>1. c.op \in {"set", "claim", "release", "block", "handoff"}
    BY DEF Command
  <1>2. QED  BY <1>1 DEF Effect, At

\* Whatever a permitted command makes of a record is a record, at the same rev,
\* and passes the lint if the old one did.
LEMMA EffectFacts ==
  ASSUME NEW r \in Record, NEW c \in Command, WellFormed(c), c.op # "new",
         NEW now, NEW k, Timely(c, now, k), NEW clk, Permits(r, c, clk)
  PROVE  /\ Effect(r, c, now, k) \in Record
         /\ Effect(r, c, now, k).rev = r.rev
         /\ Lint(r) /\ c.dep # Self => Lint(Effect(r, c, now, k))
  <1>1. CASE c.op = "set"
    <2>1. c.heartbeat => r.claim # Unset
      BY DEF Permits
    <2>2. Effect(r, c, now, k) = SetEffect(r, c, k) /\ k \in Nat
      BY <1>1 DEF Effect, Timely
    <2>3. QED  BY <2>1, <2>2, SetFacts
  <1>2. CASE c.op = "claim"
    <2>1. Effect(r, c, now, k) = ClaimEffect(r, c, now) /\ now \in Nat /\ c.who \in Claimants
      BY <1>2 DEF Effect, Timely, WellFormed
    <2>2. QED  BY <2>1, ClaimFacts
  <1>3. CASE c.op = "release"
    <2>1. Effect(r, c, now, k) = ReleaseEffect(r, c)
      BY <1>3 DEF Effect
    <2>2. QED  BY <2>1, ReleaseFacts
  <1>4. CASE c.op = "block"
    <2>1. Effect(r, c, now, k) = BlockEffect(r, c, now) /\ now \in Nat /\ c.about \in Packets
      BY <1>4 DEF Effect, Timely, WellFormed
    <2>2. QED  BY <2>1, BlockFacts
  <1>5. CASE c.op = "handoff"
    <2>1. Effect(r, c, now, k) = HandoffEffect(r, c) /\ c.lane \in Lanes
      BY <1>5 DEF Effect, WellFormed
    <2>2. QED  BY <2>1, HandoffFacts
  <1>6. QED  BY <1>1, <1>2, <1>3, <1>4, <1>5 DEF Command

\* A claim changes hands only by its holder, by force, or when it is stale.
LEMMA LeaseFacts ==
  ASSUME NEW r \in Record, NEW c \in Command, WellFormed(c), c.op # "new",
         NEW now, NEW k, Timely(c, now, k), NEW clk, Permits(r, c, clk), r.claim # Unset,
         c.who # r.claim.who, ~c.force, ~MayBeStale(r.claim, clk)
  PROVE  /\ Effect(r, c, now, k).claim # Unset
         /\ Effect(r, c, now, k).claim.who = r.claim.who
  <1>0. c.op # "claim" /\ c.op # "release"
    BY DEF Permits, Stranger, SameClaimant
  <1>1. CASE c.op = "set"
    <2>1. Effect(r, c, now, k) = SetEffect(r, c, k) /\ k \in Nat
      BY <1>1 DEF Effect, Timely
    <2>2. QED  BY <2>1, SetFacts
  <1>2. CASE c.op = "block"
    <2>1. Effect(r, c, now, k) = BlockEffect(r, c, now) /\ now \in Nat /\ c.about \in Packets
      BY <1>2 DEF Effect, Timely, WellFormed
    <2>2. QED  BY <2>1, BlockFacts
  <1>3. CASE c.op = "handoff"
    <2>1. Effect(r, c, now, k) = HandoffEffect(r, c) /\ c.lane \in Lanes
      BY <1>3 DEF Effect, WellFormed
    <2>2. QED  BY <2>1, HandoffFacts
  <1>4. QED  BY <1>0, <1>1, <1>2, <1>3 DEF Command

-----------------------------------------------------------------------------
(* The inductive invariant.                                                *)

\* What a running command carries is well formed, and its times are past.
JobOK(p) ==
  pc[p] # "idle" =>
    /\ job[p] \in Job /\ job[p].cmd \in Requests
    /\ job[p].cmd.op \in {"claim", "block"} => job[p].now \in 0..clock
    /\ job[p].owing \/ pc[p] = "log" => job[p].next \in Record

\* The id that `tasks new` drew is still free.
CreateOK(p) ==
  pc[p] = "create" =>
    /\ job[p].cmd.op = "new" /\ job[p].cmd.dep # Self
    /\ task[job[p].task] = Unset

\* What the caller saw is the record as it is, or an earlier rev of it.
ChangeOK(p) ==
  pc[p] \in {"lock", "read", "write"} =>
    /\ job[p].cmd.op # "new" /\ task[job[p].task] # Unset
    /\ job[p].cmd.cas =>
         /\ job[p].basis \in Record
         /\ job[p].basis.rev <= task[job[p].task].rev
         /\ job[p].basis.rev = task[job[p].task].rev => job[p].basis = task[job[p].task]

\* The new record is what the command, run at one moment, makes of the old one.
Outcome(r, c, at, next) ==
  /\ Effect(r, c, at, at) # r /\ Lint(Effect(r, c, at, at))
  /\ next = [Effect(r, c, at, at) EXCEPT !.rev = @ + 1]

\* What was checked under the lock still holds when the file is replaced.
WriteOK(p) ==
  pc[p] = "write" =>
    /\ Permits(task[job[p].task], job[p].cmd, clock)
    /\ job[p].cmd.cas => task[job[p].task].rev = job[p].basis.rev
    /\ \E at \in 0..clock : Outcome(task[job[p].task], job[p].cmd, at, job[p].next)

Good(p) == JobOK(p) /\ CreateOK(p) /\ ChangeOK(p) /\ WriteOK(p)

TasksLinted == \A t \in Tasks : task[t] # Unset => Lint(task[t])

CreatorsApart ==
  \A p, q \in Procs : pc[p] = "create" /\ pc[q] = "create" /\ p # q => job[p].task # job[q].task

IInv == TypeOK /\ TasksLinted /\ CreatorsApart /\ \A p \in Procs : Good(p)

-----------------------------------------------------------------------------
LEMMA CommandFacts == \A c \in Requests : c \in Command /\ WellFormed(c)
  BY TaskLedgerAssumption

LEMMA UnsetFacts == Unset \notin Record
  BY UnsetAssumption

LEMMA FirstRecordFacts == FirstRecord \in Record /\ FirstRecord.rev = 1 /\ Lint(FirstRecord)
  BY TaskRecordAssumption DEF FirstRecord, Record, Optional, TASK_STATUSES, Lint

LEMMA EventsFacts ==
  ASSUME NEW r \in Record, NEW c \in Command
  PROVE  /\ NewEvents(c) \in Seq(LEDGER_EVENTS)
         /\ c.op # "new" => EventsOf(r, c) \in Seq(LEDGER_EVENTS)
  <1>1. /\ <<>> \in Seq(LEDGER_EVENTS)
        /\ \A e \in LEDGER_EVENTS : <<e>> \in Seq(LEDGER_EVENTS)
        /\ \A e, f \in LEDGER_EVENTS : <<e, f>> \in Seq(LEDGER_EVENTS)
    OBVIOUS
  <1>2. NewEvents(c) \in Seq(LEDGER_EVENTS)
    BY <1>1 DEF NewEvents, LEDGER_EVENTS
  <1>3. ClaimEvents(r, c) \in Seq(LEDGER_EVENTS) /\ SetEvents(r, c) \in Seq(LEDGER_EVENTS)
    BY <1>1 DEF SetEvents, ClaimEvents, LEDGER_EVENTS
  <1>4. ASSUME c.op # "new" PROVE EventsOf(r, c) \in Seq(LEDGER_EVENTS)
    BY <1>1, <1>3, <1>4 DEF EventsOf, LEDGER_EVENTS, Command
  <1>5. QED  BY <1>2, <1>4

\* The other processes notice nothing but a change to their own task.
LEMMA OthersGood ==
  ASSUME NEW q \in Procs, Good(q), pc'[q] = pc[q], job'[q] = job[q], clock' = clock,
         pc[q] \in {"create", "lock", "read", "write"} =>
           task'[job[q].task] = task[job[q].task]
  PROVE  Good(q)'
  <1>1. JobOK(q)'
    BY DEF Good, JobOK
  <1>2. CreateOK(q)'
    BY DEF Good, CreateOK
  <1>3. ChangeOK(q)'
    BY DEF Good, ChangeOK
  <1>4. WriteOK(q)'
    BY DEF Good, WriteOK
  <1>5. QED  BY <1>1, <1>2, <1>3, <1>4 DEF Good

LEMMA InitIInv == Init => IInv
  <1> SUFFICES ASSUME Init PROVE IInv
    OBVIOUS
  <1>1. TypeOK
    BY TaskLedgerAssumption, FirstRecordFacts DEF Init, TypeOK, Locations, Optional
  <1>2. TasksLinted
    BY FirstRecordFacts DEF Init, TasksLinted
  <1>3. CreatorsApart
    BY DEF Init, CreatorsApart
  <1>4. \A p \in Procs : Good(p)
    BY DEF Init, Good, JobOK, CreateOK, ChangeOK, WriteOK
  <1>5. QED  BY <1>1, <1>2, <1>3, <1>4 DEF IInv

-----------------------------------------------------------------------------
(* One lemma per action.                                                   *)

\* A new command is well formed, and nobody else notices it.
LEMMA IssueFacts ==
  ASSUME IInv, NEW p \in Procs, NEW at \in {"create", "lock"}, NEW t \in Tasks,
         NEW c \in Requests, Issue(p, at, t, c)
  PROVE  /\ TypeOK' /\ TasksLinted'
         /\ pc'[p] = at
         /\ job'[p] \in Job /\ job'[p].cmd = c /\ job'[p].task = t
         /\ ~job'[p].owing
         /\ c.op \in {"claim", "block"} => job'[p].now = clock
         /\ c.cas => job'[p].basis = task[t]
         /\ \A q \in Procs \ {p} : pc'[q] = pc[q] /\ job'[q] = job[q] /\ Good(q)'
  <1>1. PICK s \in Shards :
          job' = [job EXCEPT ![p] = [cmd |-> c, task |-> t, shard |-> s, number |-> issued + 1,
                                  now |-> IF c.op \in {"claim", "block"} THEN clock ELSE Unset,
                                  basis |-> IF c.cas THEN task[t] ELSE Unset, next |-> Unset,
                                  events |-> <<>>, owing |-> FALSE]]
    BY DEF Issue
  <1> DEFINE j == [cmd |-> c, task |-> t, shard |-> s, number |-> issued + 1,
                   now |-> IF c.op \in {"claim", "block"} THEN clock ELSE Unset,
                   basis |-> IF c.cas THEN task[t] ELSE Unset, next |-> Unset,
                   events |-> <<>>, owing |-> FALSE]
  <1>2. j \in Job
    <2>1. issued + 1 \in 1..MaxCommands
      BY TaskLedgerAssumption DEF Issue, IInv, TypeOK
    <2>2. clock \in 0..MaxClock /\ task[t] \in Optional(Record) /\ c \in Command
      BY CommandFacts DEF IInv, TypeOK
    <2>3. <<>> \in Seq(LEDGER_EVENTS)
      OBVIOUS
    <2>4. QED  BY <2>1, <2>2, <2>3 DEF Job, Optional
  <1>3. /\ j.cmd = c /\ j.task = t /\ ~j.owing
        /\ c.op \in {"claim", "block"} => j.now = clock
        /\ c.cas => j.basis = task[t]
    OBVIOUS
  <1>4. job' = [job EXCEPT ![p] = j]
    BY <1>1
  <1> HIDE DEF j
  <1>a. /\ pc' = [pc EXCEPT ![p] = at] /\ issued' = issued + 1 /\ issued < MaxCommands
        /\ UNCHANGED <<store, clock, ledger, ghosts, crashes>>
    BY DEF Issue
  <1>b. /\ job \in [Procs -> Optional(Job)] /\ pc \in [Procs -> Locations]
        /\ issued \in 0..MaxCommands
    BY DEF IInv, TypeOK
  <1>5. /\ job'[p] = j /\ pc'[p] = at
        /\ \A q \in Procs \ {p} : job'[q] = job[q] /\ pc'[q] = pc[q]
    BY <1>4, <1>a, <1>b
  <1>c. /\ job' \in [Procs -> Optional(Job)] /\ pc' \in [Procs -> Locations]
        /\ issued' \in 0..MaxCommands
    BY <1>2, <1>4, <1>a, <1>b, TaskLedgerAssumption DEF Optional, Locations
  <1>6. TypeOK'
    <2>1. \A q \in Procs : pc'[q] \in {"read", "write"} => taskLock'[job'[q].task] = q
      BY <1>5, <1>a DEF IInv, TypeOK, store
    <2>2. QED  BY <1>a, <1>c, <2>1 DEF IInv, TypeOK, store, ledger, ghosts
  <1>7. TasksLinted'
    BY <1>a DEF IInv, TasksLinted, store
  <1>8. \A q \in Procs \ {p} : Good(q)'
    BY <1>5, <1>a, OthersGood DEF IInv, store
  <1>9. QED  BY <1>2, <1>3, <1>5, <1>6, <1>7, <1>8

LEMMA BeginNewIInv == ASSUME IInv, NEW p \in Procs, BeginNew(p) PROVE IInv'
  <1>1. PICK t \in Tasks \ BeingCreated, c \in Requests :
          c.op = "new" /\ c.dep # Self /\ task[t] = Unset /\ Issue(p, "create", t, c)
    BY DEF BeginNew
  <1>3. /\ TypeOK' /\ TasksLinted'
        /\ pc'[p] = "create"
        /\ job'[p] \in Job /\ job'[p].cmd = c /\ job'[p].task = t
        /\ ~job'[p].owing
        /\ \A q \in Procs \ {p} : pc'[q] = pc[q] /\ job'[q] = job[q] /\ Good(q)'
    BY <1>1, IssueFacts
  <1>4. CreatorsApart'
    BY <1>1, <1>3 DEF IInv, CreatorsApart, BeingCreated
  <1>5. task' = task
    BY <1>1 DEF Issue, store
  <1>6. Good(p)'
    BY <1>1, <1>3, <1>5 DEF Good, JobOK, CreateOK, ChangeOK, WriteOK
  <1>7. QED  BY <1>3, <1>4, <1>6 DEF IInv

LEMMA BeginChangeIInv == ASSUME IInv, NEW p \in Procs, BeginChange(p) PROVE IInv'
  <1>1. PICK t \in Tasks, c \in Requests :
          c.op # "new" /\ task[t] # Unset /\ Issue(p, "lock", t, c)
    BY DEF BeginChange
  <1>3. /\ TypeOK' /\ TasksLinted'
        /\ pc'[p] = "lock"
        /\ job'[p] \in Job /\ job'[p].cmd = c /\ job'[p].task = t
        /\ ~job'[p].owing
        /\ c.op \in {"claim", "block"} => job'[p].now = clock
        /\ c.cas => job'[p].basis = task[t]
        /\ \A q \in Procs \ {p} : pc'[q] = pc[q] /\ job'[q] = job[q] /\ Good(q)'
    BY <1>1, IssueFacts
  <1>4. CreatorsApart'
    BY <1>3 DEF IInv, CreatorsApart
  <1>5. task' = task /\ clock' = clock /\ clock \in Nat
    BY <1>1 DEF Issue, store, IInv, TypeOK
  <1>6. task[t] \in Record /\ task[t].rev \in Nat
    BY <1>1 DEF IInv, TypeOK, Optional, Record
  <1>7. Good(p)'
    BY <1>1, <1>3, <1>5, <1>6 DEF Good, JobOK, CreateOK, ChangeOK, WriteOK
  <1>8. QED  BY <1>3, <1>4, <1>7 DEF IInv

\* A step of p that touches no record leaves everything but p as it should be.
LEMMA OwnStep ==
  ASSUME IInv, NEW p \in Procs, NEW at \in Locations \ {"create"}, NEW j \in Optional(Job),
         pc' = [pc EXCEPT ![p] = at], job' = [job EXCEPT ![p] = j],
         task' = task, clock' = clock
  PROVE  /\ pc' \in [Procs -> Locations] /\ job' \in [Procs -> Optional(Job)]
         /\ pc'[p] = at /\ job'[p] = j
         /\ \A q \in Procs \ {p} : pc'[q] = pc[q] /\ job'[q] = job[q] /\ Good(q)'
         /\ TasksLinted' /\ CreatorsApart'
  <1>1. job \in [Procs -> Optional(Job)] /\ pc \in [Procs -> Locations]
    BY DEF IInv, TypeOK
  <1>2. /\ pc' \in [Procs -> Locations] /\ job' \in [Procs -> Optional(Job)]
        /\ pc'[p] = at /\ job'[p] = j
        /\ \A q \in Procs \ {p} : pc'[q] = pc[q] /\ job'[q] = job[q]
    BY <1>1
  <1>3. \A q \in Procs \ {p} : Good(q)'
    BY <1>2, OthersGood DEF IInv
  <1>4. TasksLinted'
    BY DEF IInv, TasksLinted
  <1>5. CreatorsApart'
    BY <1>2 DEF IInv, CreatorsApart
  <1>6. QED  BY <1>2, <1>3, <1>4, <1>5

\* Whoever leaves is idle, and has no job any more.
LEMMA LeaveFacts ==
  ASSUME IInv, NEW p \in Procs, Leave(p), task' = task, clock' = clock
  PROVE  /\ pc' \in [Procs -> Locations] /\ job' \in [Procs -> Optional(Job)]
         /\ pc'[p] = "idle"
         /\ \A q \in Procs \ {p} : pc'[q] = pc[q] /\ job'[q] = job[q]
         /\ TasksLinted' /\ CreatorsApart' /\ \A q \in Procs : Good(q)'
  <1>1. Unset \in Optional(Job) /\ "idle" \in Locations \ {"create"}
    BY DEF Optional, Locations
  <1>2. /\ pc' \in [Procs -> Locations] /\ job' \in [Procs -> Optional(Job)]
        /\ pc'[p] = "idle"
        /\ \A q \in Procs \ {p} : pc'[q] = pc[q] /\ job'[q] = job[q] /\ Good(q)'
        /\ TasksLinted' /\ CreatorsApart'
    BY <1>1, OwnStep DEF Leave
  <1>3. Good(p)'
    BY <1>2 DEF Good, JobOK, CreateOK, ChangeOK, WriteOK
  <1>4. QED  BY <1>2, <1>3

LEMMA LockIInv == ASSUME IInv, NEW p \in Procs, Lock(p) PROVE IInv'
  <1>1. /\ pc[p] = "lock" /\ taskLock[job[p].task] = NoProc
        /\ taskLock' = [taskLock EXCEPT ![job[p].task] = p]
        /\ pc' = [pc EXCEPT ![p] = "read"]
        /\ UNCHANGED <<task, clock, job, ledger, ghosts, issued, crashes>>
    BY DEF Lock
  <1>2. job[p] \in Optional(Job) /\ job' = [job EXCEPT ![p] = job[p]]
        /\ "read" \in Locations \ {"create"}
    BY <1>1 DEF IInv, TypeOK, Locations
  <1>3. /\ pc' \in [Procs -> Locations] /\ job' \in [Procs -> Optional(Job)]
        /\ pc'[p] = "read" /\ job'[p] = job[p]
        /\ \A q \in Procs \ {p} : pc'[q] = pc[q] /\ job'[q] = job[q] /\ Good(q)'
        /\ TasksLinted' /\ CreatorsApart'
    BY <1>1, <1>2, OwnStep
  <1>4. TypeOK'
    <2>1. \A q \in Procs : pc'[q] \in {"read", "write"} => taskLock'[job'[q].task] = q
      BY <1>1, <1>3, TaskLedgerAssumption DEF IInv, TypeOK, Good, JobOK, Job
    <2>2. QED  BY <1>1, <1>3, <2>1 DEF IInv, TypeOK, ledger, ghosts
  <1>5. Good(p)'
    BY <1>1, <1>3 DEF IInv, Good, JobOK, CreateOK, ChangeOK, WriteOK
  <1>6. QED  BY <1>3, <1>4, <1>5 DEF IInv

LEMMA UnlockFacts ==
  ASSUME IInv, NEW p \in Procs, Unlock(p), pc[p] \in {"read", "write"}
  PROVE  /\ taskLock' \in [Tasks -> Procs \cup {NoProc}]
         /\ \A q \in Procs \ {p} :
              pc[q] \in {"read", "write"} => taskLock'[job[q].task] = taskLock[job[q].task]
  <1>1. /\ taskLock' = [taskLock EXCEPT ![job[p].task] = NoProc]
        /\ taskLock \in [Tasks -> Procs \cup {NoProc}]
        /\ \A q \in Procs : pc[q] \in {"read", "write"} => taskLock[job[q].task] = q
    BY DEF Unlock, IInv, TypeOK
  <1>2. \A q \in Procs : pc[q] \in {"read", "write"} => job[q].task \in Tasks
    BY DEF IInv, Good, JobOK, Job
  <1>3. QED  BY <1>1, <1>2

LEMMA RejectIInv == ASSUME IInv, NEW p \in Procs, Reject(p) PROVE IInv'
  <1>1. /\ pc[p] = "read" /\ Unlock(p) /\ Leave(p)
        /\ UNCHANGED <<task, clock, ledger, ghosts, issued, crashes>>
    BY DEF Reject
  <1>2. /\ pc' \in [Procs -> Locations] /\ job' \in [Procs -> Optional(Job)]
        /\ pc'[p] = "idle"
        /\ \A q \in Procs \ {p} : pc'[q] = pc[q] /\ job'[q] = job[q]
        /\ TasksLinted' /\ CreatorsApart' /\ \A q \in Procs : Good(q)'
    BY <1>1, LeaveFacts
  <1>3. TypeOK'
    BY <1>1, <1>2, UnlockFacts DEF IInv, TypeOK, ledger, ghosts
  <1>4. QED  BY <1>2, <1>3 DEF IInv

LEMMA ReturnIInv == ASSUME IInv, NEW p \in Procs, Return(p) PROVE IInv'
  <1>1. Leave(p) /\ UNCHANGED <<store, clock, ledger, ghosts, issued, crashes>>
    BY DEF Return
  <1>2. /\ pc' \in [Procs -> Locations] /\ job' \in [Procs -> Optional(Job)]
        /\ pc'[p] = "idle"
        /\ \A q \in Procs \ {p} : pc'[q] = pc[q] /\ job'[q] = job[q]
        /\ TasksLinted' /\ CreatorsApart' /\ \A q \in Procs : Good(q)'
    BY <1>1, LeaveFacts DEF store
  <1>3. TypeOK'
    BY <1>1, <1>2 DEF IInv, TypeOK, store, ledger, ghosts
  <1>4. QED  BY <1>2, <1>3 DEF IInv

\* A revision that is owed is one of a task that exists.
LEMMA OwedFacts ==
  ASSUME IInv, NEW p \in Procs, pc[p] # "idle"
  PROVE  Owed(p) \in SUBSET (Tasks \X Nat)
  BY DEF IInv, Good, JobOK, Owed, Revision, Job, Record

LEMMA LogRefusedIInv == ASSUME IInv, NEW p \in Procs, LogRefused(p) PROVE IInv'
  <1>1. /\ pc[p] = "log" /\ Leave(p) /\ refused' = refused \cup Owed(p)
        /\ UNCHANGED <<store, clock, ledger, lost, issued, crashes>>
    BY DEF LogRefused, Logging
  <1>2. /\ pc' \in [Procs -> Locations] /\ job' \in [Procs -> Optional(Job)]
        /\ pc'[p] = "idle"
        /\ \A q \in Procs \ {p} : pc'[q] = pc[q] /\ job'[q] = job[q]
        /\ TasksLinted' /\ CreatorsApart' /\ \A q \in Procs : Good(q)'
    BY <1>1, LeaveFacts DEF store
  <1>3. refused' \in SUBSET (Tasks \X Nat)
    BY <1>1, OwedFacts DEF IInv, TypeOK
  <1>4. TypeOK'
    BY <1>1, <1>2, <1>3 DEF IInv, TypeOK, store, ledger
  <1>5. QED  BY <1>2, <1>4 DEF IInv

\* A command that is changing a task: what it works with.
LEMMA ChangeFacts ==
  ASSUME IInv, NEW p \in Procs, pc[p] \in {"lock", "read", "write"}
  PROVE  /\ job[p] \in Job /\ job[p].task \in Tasks
         /\ task[job[p].task] \in Record /\ Lint(task[job[p].task])
         /\ job[p].cmd \in Requests /\ job[p].cmd \in Command /\ WellFormed(job[p].cmd)
         /\ job[p].cmd.op # "new"
  <1>1. /\ job[p] \in Job /\ job[p].cmd \in Requests /\ job[p].cmd.op # "new"
        /\ task[job[p].task] # Unset
    BY DEF IInv, Good, JobOK, ChangeOK
  <1>2. job[p].task \in Tasks
    BY <1>1 DEF Job
  <1>3. QED  BY <1>1, <1>2, CommandFacts DEF IInv, TypeOK, Optional, TasksLinted

LEMMA JobUpdates ==
  ASSUME NEW j \in Job, NEW n \in Record, NEW e \in Seq(LEDGER_EVENTS), NEW o \in BOOLEAN
  PROVE  /\ [j EXCEPT !.next = n, !.events = e] \in Job
         /\ [j EXCEPT !.next = n, !.events = e, !.owing = o] \in Job
         /\ [j EXCEPT !.events = e, !.owing = o] \in Job
         /\ [j EXCEPT !.owing = o] \in Job
  BY DEF Job, Optional

LEMMA NoChangeIInv == ASSUME IInv, NEW p \in Procs, NoChange(p) PROVE IInv'
  <1> DEFINE r == task[job[p].task]
             j == [job[p] EXCEPT !.next = r, !.events = EventsOf(r, job[p].cmd)]
  <1>1. /\ pc[p] = "read" /\ Unlock(p)
        /\ job' = [job EXCEPT ![p].next = r, ![p].events = EventsOf(r, job[p].cmd)]
        /\ pc' = [pc EXCEPT ![p] = "log"]
        /\ UNCHANGED <<task, clock, ledger, ghosts, issued, crashes>>
    BY DEF NoChange, Current, Cmd
  <1>2. /\ job[p] \in Job /\ r \in Record /\ job[p].cmd \in Requests
        /\ job[p].cmd \in Command /\ job[p].cmd.op # "new"
    BY <1>1, ChangeFacts
  <1>3. j \in Job /\ j.cmd = job[p].cmd /\ j.now = job[p].now /\ j.next = r
    BY <1>2, EventsFacts, JobUpdates DEF Job
  <1>4. job' = [job EXCEPT ![p] = j]
    BY <1>1 DEF IInv, TypeOK
  <1> HIDE DEF j
  <1>5. /\ pc' \in [Procs -> Locations] /\ job' \in [Procs -> Optional(Job)]
        /\ pc'[p] = "log" /\ job'[p] = j
        /\ \A q \in Procs \ {p} : pc'[q] = pc[q] /\ job'[q] = job[q] /\ Good(q)'
        /\ TasksLinted' /\ CreatorsApart'
    <2>1. "log" \in Locations \ {"create"} /\ j \in Optional(Job)
      BY <1>3 DEF Locations, Optional
    <2>2. QED  BY <1>1, <1>4, <2>1, OwnStep
  <1>6. TypeOK'
    BY <1>1, <1>5, UnlockFacts DEF IInv, TypeOK, ledger, ghosts
  <1>7. Good(p)'
    BY <1>1, <1>2, <1>3, <1>5 DEF IInv, Good, JobOK, CreateOK, ChangeOK, WriteOK
  <1>8. QED  BY <1>5, <1>6, <1>7 DEF IInv

LEMMA StageIInv == ASSUME IInv, NEW p \in Procs, Stage(p) PROVE IInv'
  <1> DEFINE r == task[job[p].task]
             c == job[p].cmd
             e == Effect(r, c, job[p].now, clock)
             n == [e EXCEPT !.rev = r.rev + 1]
             j == [job[p] EXCEPT !.next = n, !.events = EventsOf(r, c)]
  <1>1. /\ pc[p] = "read"
        /\ RevHolds(p) /\ Permits(r, c, clock) /\ e # r /\ Lint(e)
        /\ job' = [job EXCEPT ![p].next = n, ![p].events = EventsOf(r, c)]
        /\ pc' = [pc EXCEPT ![p] = "write"]
        /\ UNCHANGED <<store, clock, ledger, ghosts, issued, crashes>>
    BY DEF Stage, Accepts, Candidate, Current, Cmd
  <1>2. /\ job[p] \in Job /\ r \in Record /\ c \in Requests
        /\ c \in Command /\ WellFormed(c) /\ c.op # "new"
    BY <1>1, ChangeFacts
  <1>3. /\ clock \in Nat
        /\ c.op \in {"claim", "block"} => job[p].now \in 0..clock
    BY <1>1 DEF IInv, TypeOK, Good, JobOK
  <1>4. e \in Record /\ e.rev = r.rev /\ n \in Record
    <2>1. Timely(c, job[p].now, clock)
      BY <1>3 DEF Timely
    <2>2. e \in Record /\ e.rev = r.rev
      BY <1>1, <1>2, <2>1, EffectFacts
    <2>3. QED  BY <1>2, <2>2 DEF Record
  <1>5. \E at \in 0..clock : Outcome(r, c, at, n)
    <2>1. e = Effect(r, c, At(c, job[p].now, clock), At(c, job[p].now, clock))
      BY <1>2, OneTime
    <2>2. At(c, job[p].now, clock) \in 0..clock
      BY <1>3 DEF At
    <2>3. n = [e EXCEPT !.rev = @ + 1]
      BY <1>4 DEF Record
    <2>4. QED  BY <1>1, <2>1, <2>2, <2>3 DEF Outcome
  <1> HIDE DEF n, e
  <1>6. /\ j \in Job /\ j.cmd = c /\ j.now = job[p].now /\ j.next = n /\ j.task = job[p].task
        /\ j.basis = job[p].basis
    <2>1. EventsOf(r, c) \in Seq(LEDGER_EVENTS)
      BY <1>2, EventsFacts
    <2>2. j \in Job
      BY <1>2, <1>4, <2>1, JobUpdates
    <2>3. QED  BY <1>2, <2>2 DEF Job
  <1>7. job' = [job EXCEPT ![p] = j]
    BY <1>1 DEF IInv, TypeOK
  <1>8. /\ task' = task /\ taskLock' = taskLock
        /\ c.cas => r.rev = job[p].basis.rev
    BY <1>1 DEF store, RevHolds, Cmd, Current
  <1> HIDE DEF j
  <1>9. /\ pc' \in [Procs -> Locations] /\ job' \in [Procs -> Optional(Job)]
        /\ pc'[p] = "write" /\ job'[p] = j
        /\ \A q \in Procs \ {p} : pc'[q] = pc[q] /\ job'[q] = job[q] /\ Good(q)'
        /\ TasksLinted' /\ CreatorsApart'
    <2>1. "write" \in Locations \ {"create"} /\ j \in Optional(Job)
      BY <1>6 DEF Locations, Optional
    <2>2. QED  BY <1>1, <1>7, <1>8, <2>1, OwnStep
  <1>10. TypeOK'
    <2>1. \A q \in Procs : pc'[q] \in {"read", "write"} => taskLock'[job'[q].task] = q
      BY <1>1, <1>6, <1>8, <1>9 DEF IInv, TypeOK
    <2>2. QED  BY <1>1, <1>8, <1>9, <2>1 DEF IInv, TypeOK, ledger, ghosts
  <1>11. Good(p)'
    <2>0. JobOK(p)
      BY DEF IInv, Good
    <2>1. JobOK(p)'
      BY <1>1, <1>2, <1>3, <1>4, <1>6, <1>8, <1>9, <2>0 DEF JobOK
    <2>2. CreateOK(p)' /\ ChangeOK(p)'
      BY <1>1, <1>2, <1>3, <1>4, <1>6, <1>8, <1>9 DEF IInv, Good, CreateOK, ChangeOK
    <2>3. WriteOK(p)'
      BY <1>1, <1>5, <1>6, <1>8, <1>9 DEF WriteOK
    <2>4. QED  BY <2>1, <2>2, <2>3 DEF Good
  <1>12. QED  BY <1>9, <1>10, <1>11 DEF IInv

LEMMA CreateIInv == ASSUME IInv, NEW p \in Procs, Create(p) PROVE IInv'
  <1> DEFINE t == job[p].task
             n == NewRecord(job[p].cmd)
             j == [job[p] EXCEPT !.next = n, !.events = NewEvents(job[p].cmd), !.owing = TRUE]
  <1>1. /\ pc[p] = "create"
        /\ task' = [task EXCEPT ![t] = n]
        /\ job' = [job EXCEPT ![p].next = n, ![p].events = NewEvents(job[p].cmd),
                              ![p].owing = TRUE]
        /\ pc' = [pc EXCEPT ![p] = "log"]
        /\ UNCHANGED <<taskLock, clock, ledger, ghosts, issued, crashes>>
    BY DEF Create, Cmd
  <1>2. /\ job[p] \in Job /\ t \in Tasks /\ task[t] = Unset
        /\ job[p].cmd \in Requests /\ job[p].cmd \in Command
        /\ job[p].cmd.dep # Self /\ job[p].cmd.op = "new"
    BY <1>1, CommandFacts DEF IInv, Good, JobOK, CreateOK, Job
  <1>3. n \in Record /\ Lint(n)
    BY <1>2, NewRecordFacts
  <1> HIDE DEF n
  <1>4. j \in Job /\ j.cmd = job[p].cmd /\ j.next = n
    <2>1. NewEvents(job[p].cmd) \in Seq(LEDGER_EVENTS)
      BY <1>2, <1>3, EventsFacts
    <2>2. j \in Job
      BY <1>2, <1>3, <2>1, JobUpdates
    <2>3. QED  BY <1>2, <2>2 DEF Job
  <1>5. job' = [job EXCEPT ![p] = j]
    BY <1>1 DEF IInv, TypeOK
  <1> HIDE DEF j
  <1>6. /\ pc' \in [Procs -> Locations] /\ job' \in [Procs -> Optional(Job)]
        /\ pc'[p] = "log" /\ job'[p] = j
        /\ \A q \in Procs \ {p} : pc'[q] = pc[q] /\ job'[q] = job[q]
    <2>1. /\ job \in [Procs -> Optional(Job)] /\ pc \in [Procs -> Locations]
          /\ "log" \in Locations /\ j \in Optional(Job)
      BY <1>4 DEF IInv, TypeOK, Locations, Optional
    <2>2. QED  BY <1>1, <1>5, <2>1
  <1>7. /\ task' \in [Tasks -> Optional(Record)]
        /\ task'[t] = n /\ \A u \in Tasks \ {t} : task'[u] = task[u]
    BY <1>1, <1>2, <1>3 DEF IInv, TypeOK, Optional
  <1>8. \A q \in Procs \ {p} : Good(q)'
    <2> SUFFICES ASSUME NEW q \in Procs \ {p} PROVE Good(q)'
      OBVIOUS
    <2>1. Good(q) /\ pc'[q] = pc[q] /\ job'[q] = job[q] /\ clock' = clock
      BY <1>1, <1>6 DEF IInv
    <2>2. ASSUME pc[q] \in {"create", "lock", "read", "write"}
          PROVE  task'[job[q].task] = task[job[q].task]
      <3>1. job[q].task \in Tasks
        BY <2>1, <2>2 DEF Good, JobOK, Job
      <3>2. job[q].task # t
        BY <1>1, <1>2, <2>1, <2>2 DEF IInv, CreatorsApart, Good, ChangeOK
      <3>3. QED  BY <1>7, <3>1, <3>2
    <2>3. QED  BY <2>1, <2>2, OthersGood
  <1>9. Good(p)'
    BY <1>2, <1>3, <1>4, <1>6, <1>1 DEF Good, JobOK, CreateOK, ChangeOK, WriteOK
  <1>10. TasksLinted'
    BY <1>3, <1>7 DEF IInv, TasksLinted
  <1>11. CreatorsApart'
    BY <1>6 DEF IInv, CreatorsApart
  <1>12. TypeOK'
    BY <1>1, <1>6, <1>7 DEF IInv, TypeOK, ledger, ghosts
  <1>13. QED  BY <1>8, <1>9, <1>10, <1>11, <1>12 DEF IInv

\* What is about to be written: a record, one rev on, that passes the lint.
LEMMA OutcomeFacts ==
  ASSUME IInv, NEW p \in Procs, pc[p] = "write"
  PROVE  /\ job[p].next \in Record /\ Lint(job[p].next)
         /\ job[p].next.rev = task[job[p].task].rev + 1
  <1> DEFINE r == task[job[p].task]
             c == job[p].cmd
             n == job[p].next
  <1>1. /\ r \in Record /\ c \in Command /\ WellFormed(c) /\ c.op # "new"
        /\ Permits(r, c, clock)
    BY ChangeFacts DEF IInv, Good, WriteOK
  <1>2. PICK at \in 0..clock : Outcome(r, c, at, n)
    BY DEF IInv, Good, WriteOK
  <1> DEFINE e == Effect(r, c, at, at)
  <1>3. e \in Record /\ e.rev = r.rev
    <2>1. Timely(c, at, at)
      BY DEF Timely, IInv, TypeOK
    <2>2. QED  BY <1>1, <2>1, EffectFacts
  <1>4. Lint(e) /\ n = [e EXCEPT !.rev = @ + 1]
    BY <1>2 DEF Outcome
  <1> HIDE DEF e, n
  <1>5. /\ n \in Record /\ n.rev = r.rev + 1
        /\ n.depends = e.depends /\ n.blocked = e.blocked /\ n.status = e.status
    BY <1>3, <1>4 DEF Record
  <1>6. QED  BY <1>4, <1>5 DEF Lint, n

LEMMA CommitIInv == ASSUME IInv, NEW p \in Procs, Commit(p) PROVE IInv'
  <1> DEFINE t == job[p].task
             n == job[p].next
             j == [job[p] EXCEPT !.owing = TRUE]
  <1>1. /\ pc[p] = "write" /\ Unlock(p)
        /\ task' = [task EXCEPT ![t] = n]
        /\ job' = [job EXCEPT ![p].owing = TRUE]
        /\ pc' = [pc EXCEPT ![p] = "log"]
        /\ UNCHANGED <<clock, ledger, ghosts, issued, crashes>>
    BY DEF Commit
  <1>2. /\ job[p] \in Job /\ t \in Tasks /\ task[t] \in Record /\ job[p].cmd \in Requests
    BY <1>1, ChangeFacts
  <1>3. n \in Record /\ Lint(n) /\ n.rev = task[t].rev + 1
    BY <1>1, OutcomeFacts
  <1>4. j \in Job /\ j.cmd = job[p].cmd /\ j.now = job[p].now /\ j.next = n
    BY <1>2, JobUpdates DEF Job
  <1>5. job' = [job EXCEPT ![p] = j]
    BY <1>1 DEF IInv, TypeOK
  <1> HIDE DEF j
  <1>6. /\ pc' \in [Procs -> Locations] /\ job' \in [Procs -> Optional(Job)]
        /\ pc'[p] = "log" /\ job'[p] = j
        /\ \A q \in Procs \ {p} : pc'[q] = pc[q] /\ job'[q] = job[q]
    <2>1. /\ job \in [Procs -> Optional(Job)] /\ pc \in [Procs -> Locations]
          /\ "log" \in Locations /\ j \in Optional(Job)
      BY <1>4 DEF IInv, TypeOK, Locations, Optional
    <2>2. QED  BY <1>1, <1>5, <2>1
  <1>7. /\ task' \in [Tasks -> Optional(Record)]
        /\ task'[t] = n /\ \A u \in Tasks \ {t} : task'[u] = task[u]
    BY <1>1, <1>2, <1>3 DEF IInv, TypeOK, Optional
  <1>8. \A q \in Procs \ {p} : Good(q)'
    <2> SUFFICES ASSUME NEW q \in Procs \ {p} PROVE Good(q)'
      OBVIOUS
    <2>1. Good(q) /\ pc'[q] = pc[q] /\ job'[q] = job[q] /\ clock' = clock
      BY <1>1, <1>6 DEF IInv
    <2>2. CASE pc[q] = "lock" /\ job[q].task = t
      <3>1. JobOK(q)' /\ CreateOK(q)' /\ WriteOK(q)'
        BY <2>1, <2>2 DEF Good, JobOK, CreateOK, WriteOK
      <3>2. ChangeOK(q)'
        <4>1. /\ job[q].cmd.op # "new"
              /\ job[q].cmd.cas => job[q].basis \in Record /\ job[q].basis.rev <= task[t].rev
          BY <2>1, <2>2 DEF Good, ChangeOK
        <4>2. /\ job[q].cmd.cas => job[q].basis.rev \in Nat
              /\ task[t].rev \in Nat
          BY <1>2, <4>1 DEF Record
        <4>3. job[q].cmd.cas => job[q].basis.rev < n.rev
          BY <1>3, <4>1, <4>2
        <4>4. task'[t] # Unset
          BY <1>3, <1>7, UnsetFacts
        <4>5. /\ job'[q].cmd.op # "new" /\ task'[job'[q].task] = n /\ n # Unset
              /\ job'[q].cmd.cas => /\ job'[q].basis \in Record
                                    /\ job'[q].basis.rev < n.rev
                                    /\ job'[q].basis.rev \in Nat /\ n.rev \in Nat
          BY <1>3, <1>7, <2>1, <2>2, <4>1, <4>2, <4>3, <4>4 DEF Record
        <4>6. /\ task'[job'[q].task] # Unset
              /\ job'[q].cmd.cas =>
                   /\ job'[q].basis.rev <= task'[job'[q].task].rev
                   /\ job'[q].basis.rev # task'[job'[q].task].rev
          BY <4>5
        <4>7. QED  BY <4>5, <4>6 DEF ChangeOK
      <3>3. QED  BY <3>1, <3>2 DEF Good
    <2>3. CASE ~(pc[q] = "lock" /\ job[q].task = t)
      <3>1. ASSUME pc[q] \in {"create", "lock", "read", "write"}
            PROVE  task'[job[q].task] = task[job[q].task]
        <4>1. job[q].task \in Tasks
          BY <2>1, <3>1 DEF Good, JobOK, Job
        <4>2. job[q].task # t
          BY <1>1, <1>2, <2>1, <2>3, <3>1, UnsetFacts DEF IInv, TypeOK, Good, CreateOK
        <4>3. QED  BY <1>7, <4>1, <4>2
      <3>2. QED  BY <2>1, <3>1, OthersGood
    <2>4. QED  BY <2>2, <2>3
  <1>9. Good(p)'
    BY <1>1, <1>2, <1>3, <1>4, <1>6 DEF IInv, Good, JobOK, CreateOK, ChangeOK, WriteOK
  <1>10. TasksLinted'
    BY <1>3, <1>7 DEF IInv, TasksLinted
  <1>11. CreatorsApart'
    BY <1>6 DEF IInv, CreatorsApart
  <1>12. TypeOK'
    BY <1>1, <1>6, <1>7, UnlockFacts DEF IInv, TypeOK, ledger, ghosts
  <1>13. QED  BY <1>8, <1>9, <1>10, <1>11, <1>12 DEF IInv

\* Whatever becomes of the ledger, its shards hold events.
LEMMA LedgerFacts ==
  ASSUME IInv, NEW s \in Shards, NEW e \in LogEvents,
         \/ E!Write(s, e) \/ E!WriteUnended(s, e) \/ E!Swallow(s) \/ E!Tear(s)
  PROVE  /\ log' \in [Shards -> Seq(LogEvents)]
         /\ refusing' \in SUBSET Shards /\ unended' \in SUBSET Shards
  <1>1. /\ log \in [Shards -> Seq(LogEvents)]
        /\ refusing \in SUBSET Shards /\ unended \in SUBSET Shards
    BY DEF IInv, TypeOK
  <1>2. Append(log[s], e) \in Seq(LogEvents)
    BY <1>1, AppendProperties
  <1>3. E!Front(log[s]) \in Seq(LogEvents)
    <2>1. /\ log[s] \in Seq(LogEvents) /\ Len(log[s]) - 1 \in Int /\ 1 \in Int
          /\ \A i \in 1..(Len(log[s]) - 1) : log[s][i] \in LogEvents
      BY <1>1
    <2>2. QED  BY <2>1, SubSeqProperties DEF E!Front
  <1>4. CASE E!Write(s, e) \/ E!WriteUnended(s, e)
    BY <1>1, <1>2, <1>4 DEF E!Write, E!WriteUnended, E!Add
  <1>5. CASE E!Swallow(s)
    BY <1>1, <1>3, <1>5 DEF E!Swallow
  <1>6. CASE E!Tear(s)
    BY <1>1, <1>6 DEF E!Tear
  <1>7. QED  BY <1>4, <1>5, <1>6

\* What a process appends is an event, and its job goes on without it.
LEMMA LoggingFacts ==
  ASSUME IInv, NEW p \in Procs, Logging(p)
  PROVE  /\ job[p].shard \in Shards /\ Entry(p) \in LogEvents
         /\ Logged(p) /\ UNCHANGED <<task, clock, pc>> =>
              /\ pc' \in [Procs -> Locations] /\ job' \in [Procs -> Optional(Job)]
              /\ TasksLinted' /\ CreatorsApart' /\ \A q \in Procs : Good(q)'
              /\ \A q \in Procs : pc'[q] \in {"read", "write"} =>
                   pc[q] = pc'[q] /\ job'[q] = job[q]
  <1> DEFINE es == job[p].events
             j == [job[p] EXCEPT !.events = Tail(es), !.owing = FALSE]
  <1>1. pc[p] = "log" /\ es # <<>>
    BY DEF Logging
  <1>2. /\ job[p] \in Job /\ job[p].cmd \in Requests /\ job[p].next \in Record
        /\ job[p].cmd.op \in {"claim", "block"} => job[p].now \in 0..clock
    BY <1>1 DEF IInv, Good, JobOK
  <1>3. /\ es \in Seq(LEDGER_EVENTS) /\ job[p].shard \in Shards
        /\ Head(es) \in LEDGER_EVENTS /\ Tail(es) \in Seq(LEDGER_EVENTS)
    BY <1>1, <1>2, HeadTailProperties DEF Job
  <1>4. Entry(p) \in LogEvents
    BY <1>2, <1>3 DEF Entry, LogEvents, Job, Record
  <1>5. j \in Job /\ j.cmd = job[p].cmd /\ j.now = job[p].now /\ j.next = job[p].next
    <2>1. j \in Job
      BY <1>2, <1>3, JobUpdates
    <2>2. QED  BY <1>2, <2>1 DEF Job
  <1> SUFFICES ASSUME Logged(p), UNCHANGED <<task, clock, pc>>
               PROVE  /\ pc' \in [Procs -> Locations] /\ job' \in [Procs -> Optional(Job)]
                      /\ TasksLinted' /\ CreatorsApart' /\ \A q \in Procs : Good(q)'
                      /\ \A q \in Procs : pc'[q] \in {"read", "write"} =>
                           pc[q] = pc'[q] /\ job'[q] = job[q]
    BY <1>3, <1>4
  <1>6. job' = [job EXCEPT ![p] = j]
    BY <1>1 DEF Logged, IInv, TypeOK
  <1> HIDE DEF j
  <1>7. /\ pc' \in [Procs -> Locations] /\ job' \in [Procs -> Optional(Job)]
        /\ pc'[p] = "log" /\ job'[p] = j
        /\ \A q \in Procs \ {p} : pc'[q] = pc[q] /\ job'[q] = job[q] /\ Good(q)'
        /\ TasksLinted' /\ CreatorsApart'
    <2>1. /\ "log" \in Locations \ {"create"} /\ j \in Optional(Job)
          /\ pc' = [pc EXCEPT ![p] = "log"] /\ task' = task /\ clock' = clock
      BY <1>1, <1>5 DEF Locations, Optional, IInv, TypeOK
    <2>2. QED  BY <1>6, <2>1, OwnStep
  <1>8. Good(p)'
    BY <1>1, <1>2, <1>5, <1>7 DEF Good, JobOK, CreateOK, ChangeOK, WriteOK
  <1>9. QED  BY <1>7, <1>8

LEMMA LogIInv == ASSUME IInv, NEW p \in Procs, Log(p) PROVE IInv'
  <1>1. /\ Logging(p) /\ E!Write(job[p].shard, Entry(p)) /\ Logged(p)
        /\ UNCHANGED <<task, taskLock, clock, pc, lost, refused, issued, crashes>>
    BY DEF Log, store, ghosts
  <1>2. /\ job[p].shard \in Shards /\ Entry(p) \in LogEvents
        /\ pc' \in [Procs -> Locations] /\ job' \in [Procs -> Optional(Job)]
        /\ TasksLinted' /\ CreatorsApart' /\ \A q \in Procs : Good(q)'
        /\ \A q \in Procs : pc'[q] \in {"read", "write"} => pc[q] = pc'[q] /\ job'[q] = job[q]
    BY <1>1, LoggingFacts
  <1>3. /\ log' \in [Shards -> Seq(LogEvents)]
        /\ refusing' \in SUBSET Shards /\ unended' \in SUBSET Shards
    BY <1>1, <1>2, LedgerFacts
  <1>4. TypeOK'
    BY <1>1, <1>2, <1>3 DEF IInv, TypeOK
  <1>5. QED  BY <1>2, <1>4 DEF IInv

\* A revision that was lost with its event is one of a task that exists.
LEMMA LostFacts ==
  ASSUME IInv, NEW p \in Procs, pc[p] # "idle"
  PROVE  Lost(p) \in SUBSET (Tasks \X Nat)
  <1>1. ASSUME NEW s \in Shards, NEW e \in ToSet(log[s])
        PROVE  e.task \in Tasks /\ e.rev \in Nat
    <2>1. log[s] \in Seq(LogEvents)
      BY DEF IInv, TypeOK
    <2>2. PICK i \in DOMAIN log[s] : e = log[s][i]
      BY DEF ToSet
    <2>3. e \in LogEvents
      BY <2>1, <2>2, ElementOfSeq
    <2>4. QED  BY <2>3 DEF LogEvents
  <1>2. Recorded \in SUBSET (Tasks \X Nat)
    BY <1>1 DEF Recorded
  <1>3. QED  BY <1>2, OwedFacts DEF Lost

LEMMA LogSwallowedIInv == ASSUME IInv, NEW p \in Procs, LogSwallowed(p) PROVE IInv'
  <1>1. /\ Logging(p) /\ pc[p] # "idle" /\ E!Swallow(job[p].shard) /\ Logged(p)
        /\ lost' = lost \cup Lost(p)
        /\ UNCHANGED <<task, taskLock, clock, pc, refused, issued, crashes>>
    BY DEF LogSwallowed, Logging, store
  <1>2. /\ job[p].shard \in Shards /\ Entry(p) \in LogEvents
        /\ pc' \in [Procs -> Locations] /\ job' \in [Procs -> Optional(Job)]
        /\ TasksLinted' /\ CreatorsApart' /\ \A q \in Procs : Good(q)'
        /\ \A q \in Procs : pc'[q] \in {"read", "write"} => pc[q] = pc'[q] /\ job'[q] = job[q]
    BY <1>1, LoggingFacts
  <1>3. /\ log' \in [Shards -> Seq(LogEvents)]
        /\ refusing' \in SUBSET Shards /\ unended' \in SUBSET Shards
    BY <1>1, <1>2, LedgerFacts
  <1>4. lost' \in SUBSET (Tasks \X Nat)
    BY <1>1, LostFacts DEF IInv, TypeOK
  <1>5. TypeOK'
    BY <1>1, <1>2, <1>3, <1>4 DEF IInv, TypeOK
  <1>6. QED  BY <1>2, <1>5 DEF IInv

LEMMA CrashIInv == ASSUME IInv, NEW p \in Procs, Crash(p) PROVE IInv'
  <1>1. /\ pc[p] # "idle" /\ crashes < MaxCrashes /\ crashes' = crashes + 1
        /\ taskLock' = [t \in Tasks |-> IF taskLock[t] = p THEN NoProc ELSE taskLock[t]]
        /\ lost' = lost \cup Lost(p) /\ Leave(p)
        /\ UNCHANGED <<task, clock, refused, issued>>
    BY DEF Crash
  <1>2. /\ log' \in [Shards -> Seq(LogEvents)]
        /\ refusing' \in SUBSET Shards /\ unended' \in SUBSET Shards
    <2>1. CASE UNCHANGED ledger
      BY <2>1 DEF ledger, IInv, TypeOK
    <2>2. CASE /\ Logging(p)
               /\ \/ E!Tear(job[p].shard) \/ E!Swallow(job[p].shard)
                  \/ E!WriteUnended(job[p].shard, Entry(p))
      BY <2>2, LoggingFacts, LedgerFacts
    <2>3. QED  BY <2>1, <2>2 DEF Crash
  <1>3. /\ pc' \in [Procs -> Locations] /\ job' \in [Procs -> Optional(Job)]
        /\ pc'[p] = "idle"
        /\ \A q \in Procs \ {p} : pc'[q] = pc[q] /\ job'[q] = job[q]
        /\ TasksLinted' /\ CreatorsApart' /\ \A q \in Procs : Good(q)'
    BY <1>1, LeaveFacts
  <1>4. lost' \in SUBSET (Tasks \X Nat)
    BY <1>1, LostFacts DEF IInv, TypeOK
  <1>5. crashes' \in 0..MaxCrashes
    BY <1>1, TaskLedgerAssumption DEF IInv, TypeOK
  <1>6. /\ taskLock' \in [Tasks -> Procs \cup {NoProc}]
        /\ \A q \in Procs : pc'[q] \in {"read", "write"} => taskLock'[job'[q].task] = q
    <2>1. taskLock' \in [Tasks -> Procs \cup {NoProc}]
      BY <1>1 DEF IInv, TypeOK
    <2>2. \A q \in Procs \ {p} : pc[q] \in {"read", "write"} =>
            job[q].task \in Tasks /\ taskLock[job[q].task] = q
      BY ChangeFacts DEF IInv, TypeOK
    <2>3. QED  BY <1>1, <1>3, <2>1, <2>2
  <1>7. TypeOK'
    BY <1>1, <1>2, <1>3, <1>4, <1>5, <1>6 DEF IInv, TypeOK
  <1>8. QED  BY <1>3, <1>7 DEF IInv

\* A permission outlasts the lock: time only makes claims staler.
LEMMA PermitsLater ==
  ASSUME NEW r \in Record, NEW c, NEW k \in Nat, Permits(r, c, k)
  PROVE  Permits(r, c, k + 1)
  <1>1. ASSUME Stranger(r, c) PROVE r.claim.beat \in Nat
    BY <1>1 DEF Stranger, Record, Optional, Claim
  <1>2. QED  BY <1>1, TaskRecordAssumption DEF Permits, MayBeStale

LEMMA TickIInv == ASSUME IInv, Tick PROVE IInv'
  <1>1. /\ clock \in Nat /\ clock' = clock + 1 /\ clock' \in 0..MaxClock
        /\ UNCHANGED <<store, pc, job, ledger, ghosts, issued, crashes>>
    BY TaskLedgerAssumption DEF Tick, IInv, TypeOK
  <1>2. TypeOK' /\ TasksLinted' /\ CreatorsApart'
    BY <1>1 DEF IInv, TypeOK, TasksLinted, CreatorsApart, store, ledger, ghosts
  <1>3. ASSUME NEW p \in Procs PROVE Good(p)'
    <2>1. JobOK(p)' /\ CreateOK(p)' /\ ChangeOK(p)'
      BY <1>1 DEF IInv, Good, JobOK, CreateOK, ChangeOK, store
    <2>2. ASSUME pc[p] = "write" PROVE Permits(task[job[p].task], job[p].cmd, clock')
      BY <1>1, <2>2, PermitsLater, ChangeFacts DEF IInv, Good, WriteOK
    <2>3. 0..clock \subseteq 0..clock'
      BY <1>1
    <2>4. WriteOK(p)'
      BY <1>1, <2>2, <2>3 DEF IInv, Good, WriteOK, store
    <2>5. QED  BY <2>1, <2>4 DEF Good
  <1>4. QED  BY <1>2, <1>3 DEF IInv

LEMMA StutterIInv == ASSUME IInv, UNCHANGED vars PROVE IInv'
  <1>1. UNCHANGED <<task, taskLock, clock, pc, job, log, refusing, unended, lost, refused, issued,
                  crashes>>
    BY DEF vars, store, ledger, ghosts
  <1>2. TypeOK' /\ TasksLinted' /\ CreatorsApart'
    BY <1>1 DEF IInv, TypeOK, TasksLinted, CreatorsApart
  <1>3. \A p \in Procs : Good(p)'
    BY <1>1, OthersGood DEF IInv
  <1>4. QED  BY <1>2, <1>3 DEF IInv

-----------------------------------------------------------------------------
(* What follows.                                                           *)

\* The inductive invariant of `tessctl tasks` commands that run at once.
THEOREM Inductive == Spec => []IInv
  <1>1. IInv /\ [Next]_vars => IInv'
    <2> SUFFICES ASSUME IInv, [Next]_vars PROVE IInv'
      OBVIOUS
    <2>1. CASE Tick
      BY <2>1, TickIInv
    <2>2. ASSUME NEW p \in Procs, BeginNew(p) \/ BeginChange(p) \/ Lock(p) \/ Crash(p)
          PROVE  IInv'
      BY <2>2, BeginNewIInv, BeginChangeIInv, LockIInv, CrashIInv
    <2>3. ASSUME NEW p \in Procs, Step(p)
          PROVE  IInv'
      BY <2>3, CreateIInv, RejectIInv, NoChangeIInv, StageIInv, CommitIInv, LogIInv,
         LogSwallowedIInv, LogRefusedIInv, ReturnIInv DEF Step
    <2>4. CASE UNCHANGED vars
      BY <2>4, StutterIInv
    <2>5. QED  BY <2>1, <2>2, <2>3, <2>4 DEF Next
  <1>2. QED  BY InitIInv, <1>1, PTL DEF Spec

\* Records, jobs and the ledger are well formed, and whoever reads or writes a
\* record holds its lock (_tasks_write_locked).
THEOREM TypeCorrect == Spec => []TypeOK
  <1>1. IInv => TypeOK
    BY DEF IInv
  <1>2. QED  BY <1>1, Inductive, PTL

\* No history of commands leaves a record behind that _lint_task then holds
\* against a command which is none of its business.
THEOREM LintNeverInTheWay == Spec => []LintNeverStrands
  <1>1. ASSUME IInv, NEW t \in Tasks, NEW c \in Requests,
               task[t] # Unset, c.op # "new", c.dep # Self, Permits(task[t], c, clock)
        PROVE  Lint(Effect(task[t], c, clock, clock))
    <2>1. task[t] \in Record /\ Lint(task[t])
      BY <1>1 DEF IInv, TypeOK, Optional, TasksLinted
    <2>2. Timely(c, clock, clock)
      BY <1>1 DEF Timely, IInv, TypeOK
    <2>3. QED  BY <1>1, <2>1, <2>2, CommandFacts, EffectFacts
  <1>2. IInv => LintNeverStrands
    BY <1>1 DEF LintNeverStrands
  <1>3. QED  BY <1>2, Inductive, PTL

\* The steps that take a process from `write` to `log` are the commits.
LEMMA OnlyCommits ==
  ASSUME IInv, [Next]_vars, NEW p \in Procs, pc[p] = "write", pc'[p] = "log"
  PROVE  Commit(p)
  <1>1. \A q \in Procs \ {p} : pc' # [pc EXCEPT ![q] = pc'[q]]
    BY DEF IInv, TypeOK
  <1>2. pc' # [pc EXCEPT ![p] = "idle"] /\ pc' # pc
    BY DEF IInv, TypeOK
  <1>3. \A q \in Procs : ~(BeginNew(q) \/ BeginChange(q) \/ Lock(q) \/ Crash(q))
    BY <1>1, <1>2 DEF BeginNew, BeginChange, Issue, Lock, Crash, Leave, IInv, TypeOK
  <1>4. \A q \in Procs : Step(q) => q = p /\ Commit(p)
    BY <1>1, <1>2 DEF Step, Create, Reject, NoChange, Stage, Commit, Log, LogSwallowed,
                      LogRefused, Return, Logging, Leave, IInv, TypeOK
  <1>5. QED  BY <1>2, <1>3, <1>4 DEF Next, Tick, vars

\* --expected-rev: a write it let through replaces what the caller had seen.
THEOREM CasIsExact == Spec => CasSeesNoChange
  <1>1. ASSUME IInv, NEW p \in Procs, pc[p] = "write", Cmd(p).cas
        PROVE  Current(p) = job[p].basis
    BY <1>1 DEF IInv, Good, ChangeOK, WriteOK, Cmd, Current
  <1>2. IInv /\ [Next]_vars =>
          [\A p \in Procs :
             pc[p] = "write" /\ pc'[p] = "log" /\ Cmd(p).cas => Current(p) = job[p].basis]_vars
    BY <1>1
  <1>3. QED  BY <1>2, Inductive, PTL DEF Spec, CasSeesNoChange

\* A live claim ends only through its holder or --force (_cmd_tasks_claim,
\* _cmd_tasks_release), however long its writer waited for the lock.
THEOREM LiveClaimsHold == Spec => LeaseHolds
  <1>1. ASSUME IInv, [Next]_vars, NEW p \in Procs, pc[p] = "write", pc'[p] = "log",
               Current(p).claim # Unset,
               ~(/\ task'[job[p].task].claim # Unset
                 /\ SameClaimant(Current(p), task'[job[p].task].claim))
        PROVE  \/ SameClaimant(Current(p), Cmd(p)) \/ Cmd(p).force
               \/ clock >= Current(p).claim.beat + StaleAfter
    <2> DEFINE r == task[job[p].task]
               c == job[p].cmd
               n == job[p].next
    <2>1. r \in Record /\ c \in Command /\ WellFormed(c) /\ c.op # "new" /\ job[p].task \in Tasks
      BY <1>1, ChangeFacts
    <2>2. task'[job[p].task] = n
      BY <1>1, <2>1, OnlyCommits DEF Commit, IInv, TypeOK
    <2>3. PICK at \in 0..clock : Outcome(r, c, at, n)
      BY <1>1 DEF IInv, Good, WriteOK
    <2>4. Permits(r, c, clock) /\ Timely(c, at, at)
      BY <1>1 DEF IInv, Good, WriteOK, Timely, TypeOK
    <2>5. Effect(r, c, at, at) \in Record
      BY <2>1, <2>4, EffectFacts
    <2>6. n.claim = Effect(r, c, at, at).claim
      BY <2>3, <2>5 DEF Outcome, Record
    <2>7. ~(n.claim # Unset /\ n.claim.who = r.claim.who)
      BY <1>1, <2>2 DEF SameClaimant, Current
    <2>8. c.who = r.claim.who \/ c.force \/ MayBeStale(r.claim, clock)
      BY <1>1, <2>1, <2>4, <2>6, <2>7, LeaseFacts DEF Current
    <2>9. QED  BY <1>1, <2>8 DEF SameClaimant, Current, Cmd, MayBeStale
  <1>2. IInv /\ [Next]_vars =>
          [\A p \in Procs :
             /\ pc[p] = "write" /\ pc'[p] = "log"
             /\ Current(p).claim # Unset
             /\ ~(task'[job[p].task].claim # Unset /\ SameClaimant(Current(p), task'[job[p].task].claim))
             => \/ SameClaimant(Current(p), Cmd(p)) \/ Cmd(p).force
                \/ clock >= Current(p).claim.beat + StaleAfter]_vars
    BY <1>1
  <1>3. QED  BY <1>2, Inductive, PTL DEF Spec, LeaseHolds

-----------------------------------------------------------------------------
(* The task store is implemented: what TaskStore says of records is what   *)
(* TaskRecord says, and every step is one of its steps or none.            *)

LEMMA SameSets == Store!Record = Record /\ \A S : Store!Optional(S) = Optional(S)
  BY DEF Store!Record, Store!Optional, Store!Claim, Store!Packet, Store!TASK_STATUSES,
         Record, Optional, Claim, Packet, TASK_STATUSES

LEMMA SameNew == \A c : Store!NewRecord(c) = NewRecord(c)
  BY DEF Store!NewRecord, NewRecord, Store!Given, Given

LEMMA SameLint == \A r : Store!Lint(r) <=> Lint(r)
  BY DEF Store!Lint, Lint

LEMMA SamePermits == \A r, c, k : Store!Permits(r, c, k) <=> Permits(r, c, k)
  BY DEF Store!Permits, Permits, Store!Stranger, Stranger, Store!SameClaimant, SameClaimant,
         Store!MayBeStale, MayBeStale

LEMMA SameEffect == \A r, c, now, k : Store!Effect(r, c, now, k) = Effect(r, c, now, k)
  <1> SUFFICES ASSUME NEW r, NEW c, NEW now, NEW k
               PROVE  Store!Effect(r, c, now, k) = Effect(r, c, now, k)
    OBVIOUS
  <1>1. \A st : Store!Departed(r, st) = Departed(r, st)
    BY DEF Store!Departed, Departed
  <1>2. Store!Moved(r, c) = Moved(r, c)
    BY <1>1 DEF Store!Moved, Moved, Store!Given, Given
  <1>3. Store!SetEffect(r, c, k) = SetEffect(r, c, k)
    BY <1>2 DEF Store!SetEffect, SetEffect, Store!Given, Given
  <1>4. Store!ClaimEffect(r, c, now) = ClaimEffect(r, c, now)
    BY DEF Store!ClaimEffect, ClaimEffect, Store!SameClaimant, SameClaimant,
           Store!CLAIM_AUTO_ADVANCE_FROM, CLAIM_AUTO_ADVANCE_FROM
  <1>5. /\ Store!ReleaseEffect(r, c) = ReleaseEffect(r, c)
        /\ Store!BlockEffect(r, c, now) = BlockEffect(r, c, now)
        /\ Store!HandoffEffect(r, c) = HandoffEffect(r, c)
    BY <1>2 DEF Store!ReleaseEffect, ReleaseEffect, Store!BlockEffect, BlockEffect,
                Store!HandoffEffect, HandoffEffect
  <1>6. QED  BY <1>3, <1>4, <1>5 DEF Store!Effect, Effect

LEMMA InitImplemented == Init => Store!Init
  BY FirstRecordFacts, SameSets, SameLint DEF Init, Store!Init, Optional

LEMMA CreateImplemented == ASSUME IInv, NEW p \in Procs, Create(p) PROVE Store!Next
  <1>1. /\ job[p].task \in Tasks /\ job[p].cmd \in Requests /\ task[job[p].task] = Unset
    BY DEF Create, IInv, Good, JobOK, CreateOK, Job
  <1>2. Store!Create(job[p].task)
    BY <1>1, SameNew DEF Create, Cmd, Store!Create
  <1>3. QED  BY <1>1, <1>2 DEF Store!Next

LEMMA CommitImplemented == ASSUME IInv, NEW p \in Procs, Commit(p) PROVE Store!Next
  <1> DEFINE t == job[p].task
             c == job[p].cmd
             n == job[p].next
  <1>1. /\ pc[p] = "write" /\ task' = [task EXCEPT ![t] = n] /\ clock' = clock
    BY DEF Commit
  <1>2. t \in Tasks /\ c \in Requests /\ c.op # "new" /\ task[t] # Unset
    BY <1>1, ChangeFacts, UnsetFacts
  <1>3. Permits(task[t], c, clock)
    BY <1>1 DEF IInv, Good, WriteOK
  <1>4. PICK at \in 0..clock : Outcome(task[t], c, at, n)
    BY <1>1 DEF IInv, Good, WriteOK
  <1> DEFINE e == Effect(task[t], c, at, at)
  <1>5. /\ Store!Permits(task[t], c, clock)
        /\ Store!Effect(task[t], c, at, at) = e
        /\ e # task[t] /\ Store!Lint(e) /\ n = [e EXCEPT !.rev = @ + 1]
    BY <1>3, <1>4, SamePermits, SameEffect, SameLint DEF Outcome
  <1> HIDE DEF e, n
  <1>6. Store!Change(t)
    BY <1>1, <1>2, <1>5 DEF Store!Change
  <1>7. QED  BY <1>2, <1>6 DEF Store!Next

\* Every record changes as if each command ran alone on the record as it is:
\* the command that is checked, under the lock, is the one whose outcome is
\* written, on the very record it was checked against.
THEOREM StoreImplemented == Spec => StoreSpec
  <1>1. IInv /\ [Next]_vars => [Store!Next]_(Store!vars)
    <2> SUFFICES ASSUME IInv, [Next]_vars PROVE Store!Next \/ UNCHANGED Store!vars
      OBVIOUS
    <2>1. CASE Tick
      BY <2>1 DEF Tick, store, Store!Next, Store!Tick
    <2>2. ASSUME NEW p \in Procs, Step(p)
          PROVE  Store!Next \/ UNCHANGED Store!vars
      BY <2>2, CreateImplemented, CommitImplemented
      DEF Step, Reject, NoChange, Stage, Log, LogSwallowed, LogRefused, Return, store, Store!vars
    <2>3. ASSUME NEW p \in Procs, BeginNew(p) \/ BeginChange(p) \/ Lock(p) \/ Crash(p)
          PROVE  UNCHANGED Store!vars
      BY <2>3 DEF BeginNew, BeginChange, Issue, Lock, Crash, store, Store!vars
    <2>4. CASE UNCHANGED vars
      BY <2>4 DEF vars, store, Store!vars
    <2>5. QED  BY <2>1, <2>2, <2>3, <2>4 DEF Next
  <1>2. QED  BY InitImplemented, <1>1, Inductive, PTL DEF Spec, StoreSpec, Store!Spec

-----------------------------------------------------------------------------
(* The invariant: EveryRevAccounted, and what it takes to keep it.         *)

\* The processes that have written a record and not yet its event.
Owers == {p \in Procs : pc[p] # "idle" /\ job[p].owing}

\* A revision is owed only while there are events to log, and a write that is
\* under way has one.
OwersKnown ==
  \A p \in Procs :
    /\ pc[p] = "idle" => job[p] = Unset
    /\ pc[p] = "write" => job[p].events # <<>>
    /\ p \in Owers => pc[p] = "log" /\ job[p].events # <<>>

OwersApart == \A p, q \in Owers : p # q => Revision(p) # Revision(q)

RevsStart ==
  \A t \in Tasks : /\ task[t] # Unset => task[t].rev >= 1
                   /\ t \in Existing => task[t] # Unset

Trail == EveryRevAccounted /\ OwersKnown /\ OwersApart /\ RevsStart

-----------------------------------------------------------------------------
(* The revisions a log records.                                            *)

RecordedIn(l) ==
  {<<e.task, e.rev>> : e \in {f \in UNION {ToSet(l[s]) : s \in Shards} : f.records}}

\* No revision has two events of its own.
RecordedOnce(l) ==
  \A s, r \in Shards : \A i \in DOMAIN l[s], j \in DOMAIN l[r] :
    /\ l[s][i].records /\ l[r][j].records
    /\ l[s][i].task = l[r][j].task /\ l[s][i].rev = l[r][j].rev
    => s = r /\ i = j

LEMMA RecordedElim ==
  ASSUME NEW l, NEW x \in RecordedIn(l)
  PROVE  \E s \in Shards : \E i \in DOMAIN l[s] :
           l[s][i].records /\ x = <<l[s][i].task, l[s][i].rev>>
  BY DEF RecordedIn, ToSet

LEMMA RecordedIntro ==
  ASSUME NEW l, NEW s \in Shards, NEW i \in DOMAIN l[s], l[s][i].records
  PROVE  <<l[s][i].task, l[s][i].rev>> \in RecordedIn(l)
  BY DEF RecordedIn, ToSet

\* One more event at the end of a shard.
LEMMA RecordedAppend ==
  ASSUME NEW l \in [Shards -> Seq(LogEvents)], NEW s \in Shards, NEW e \in LogEvents,
         RecordedOnce(l), e.records => <<e.task, e.rev>> \notin RecordedIn(l),
         NEW m, m[s] = Append(l[s], e), \A t \in Shards \ {s} : m[t] = l[t]
  PROVE  /\ RecordedIn(m) = RecordedIn(l) \cup (IF e.records THEN {<<e.task, e.rev>>} ELSE {})
         /\ RecordedOnce(m)
  <1>1. /\ m[s] = Append(l[s], e) /\ \A t \in Shards \ {s} : m[t] = l[t]
        /\ l[s] \in Seq(LogEvents)
    OBVIOUS
  <1> DEFINE n == Len(l[s]) + 1
  <1>2. /\ DOMAIN l[s] = 1..Len(l[s]) /\ Len(l[s]) \in Nat
        /\ DOMAIN m[s] = 1..n
        /\ \A i \in DOMAIN l[s] : m[s][i] = l[s][i]
        /\ m[s][n] = e
    BY <1>1, LenProperties, AppendProperties
  <1>3. n \notin DOMAIN l[s] /\ DOMAIN m[s] = DOMAIN l[s] \cup {n}
    BY <1>2
  <1> HIDE DEF n
  <1>4. \A x : x \in RecordedIn(m) <=>
                 x \in RecordedIn(l) \/ (e.records /\ x = <<e.task, e.rev>>)
    <2> SUFFICES ASSUME NEW x
                 PROVE  x \in RecordedIn(m) <=>
                          x \in RecordedIn(l) \/ (e.records /\ x = <<e.task, e.rev>>)
      OBVIOUS
    <2>1. ASSUME x \in RecordedIn(m)
          PROVE  x \in RecordedIn(l) \/ (e.records /\ x = <<e.task, e.rev>>)
      <3>1. PICK t \in Shards : \E i \in DOMAIN m[t] :
              m[t][i].records /\ x = <<m[t][i].task, m[t][i].rev>>
        BY <2>1, RecordedElim
      <3>5. PICK i \in DOMAIN m[t] : m[t][i].records /\ x = <<m[t][i].task, m[t][i].rev>>
        BY <3>1
      <3>2. CASE t = s /\ i = n
        BY <1>2, <3>5, <3>2
      <3>3. CASE ~(t = s /\ i = n)
        <4>1. i \in DOMAIN l[t] /\ m[t][i] = l[t][i]
          BY <1>1, <1>2, <1>3, <3>5, <3>3
        <4>2. <<l[t][i].task, l[t][i].rev>> \in RecordedIn(l)
          BY <3>5, <4>1, RecordedIntro
        <4>3. QED  BY <3>5, <4>1, <4>2
      <3>4. QED  BY <3>2, <3>3
    <2>2. ASSUME x \in RecordedIn(l) PROVE x \in RecordedIn(m)
      <3>1. PICK t \in Shards : \E i \in DOMAIN l[t] :
              l[t][i].records /\ x = <<l[t][i].task, l[t][i].rev>>
        BY <2>2, RecordedElim
      <3>4. PICK i \in DOMAIN l[t] : l[t][i].records /\ x = <<l[t][i].task, l[t][i].rev>>
        BY <3>1
      <3>2. i \in DOMAIN m[t] /\ m[t][i] = l[t][i]
        BY <1>1, <1>2, <1>3, <3>4
      <3>3. QED  BY <3>4, <3>2, RecordedIntro
    <2>3. ASSUME e.records, x = <<e.task, e.rev>> PROVE x \in RecordedIn(m)
      <3>1. n \in DOMAIN m[s] /\ m[s][n] = e
        BY <1>2, <1>3
      <3>2. <<m[s][n].task, m[s][n].rev>> \in RecordedIn(m)
        BY <2>3, <3>1, RecordedIntro
      <3>3. QED  BY <2>3, <3>1, <3>2
    <2>4. QED  BY <2>1, <2>2, <2>3
  <1>5. ASSUME NEW t \in Shards, NEW r \in Shards, NEW i \in DOMAIN m[t], NEW j \in DOMAIN m[r],
               m[t][i].records, m[r][j].records,
               m[t][i].task = m[r][j].task, m[t][i].rev = m[r][j].rev
        PROVE  t = r /\ i = j
    <2>1. \A u \in Shards : \A k \in DOMAIN m[u] :
            \/ u = s /\ k = n /\ m[u][k] = e
            \/ k \in DOMAIN l[u] /\ m[u][k] = l[u][k]
      BY <1>1, <1>2, <1>3
    <2>2. \A u \in Shards : \A k \in DOMAIN l[u] :
            l[u][k].records /\ e.records => <<l[u][k].task, l[u][k].rev>> # <<e.task, e.rev>>
      BY RecordedIntro
    <2>7. ASSUME i \in DOMAIN l[t], m[t][i] = l[t][i], r = s, j = n, m[r][j] = e
          PROVE  FALSE
      BY <1>5, <2>2, <2>7
    <2>3. CASE t = s /\ i = n /\ m[t][i] = e
      BY <1>5, <2>1, <2>2, <2>3
    <2>4. CASE r = s /\ j = n /\ m[r][j] = e
      BY <2>1, <2>4, <2>7
    <2>5. CASE i \in DOMAIN l[t] /\ m[t][i] = l[t][i] /\ j \in DOMAIN l[r] /\ m[r][j] = l[r][j]
      BY <1>5, <2>5 DEF RecordedOnce
    <2>6. QED  BY <2>1, <2>3, <2>4, <2>5
  <1>6. RecordedIn(m) = RecordedIn(l) \cup (IF e.records THEN {<<e.task, e.rev>>} ELSE {})
    BY <1>4
  <1>7. RecordedOnce(m)
    BY <1>5 DEF RecordedOnce
  <1>8. QED  BY <1>6, <1>7

\* The last event of a shard is gone.
LEMMA RecordedFront ==
  ASSUME NEW l \in [Shards -> Seq(LogEvents)], NEW s \in Shards, RecordedOnce(l),
         NEW m, m[s] = E!Front(l[s]), \A t \in Shards \ {s} : m[t] = l[t]
  PROVE  RecordedIn(m) \subseteq RecordedIn(l) /\ RecordedOnce(m)
  <1>1. m[s] = E!Front(l[s]) /\ \A t \in Shards \ {s} : m[t] = l[t]
    OBVIOUS
  <1>2. \A i \in DOMAIN m[s] : i \in DOMAIN l[s] /\ m[s][i] = l[s][i]
    <2> DEFINE k == Len(l[s]) - 1
    <2>1. /\ l[s] \in Seq(LogEvents) /\ Len(l[s]) \in Nat /\ DOMAIN l[s] = 1..Len(l[s])
          /\ \A i \in 1..k : l[s][i] \in LogEvents
      BY LenProperties, ElementOfSeq
    <2>2. /\ m[s] \in Seq(LogEvents)
          /\ Len(m[s]) = IF 1 <= k THEN k - 1 + 1 ELSE 0
          /\ \A i \in 1..(k - 1 + 1) : m[s][i] = l[s][1 + i - 1]
      BY <1>1, <2>1, SubSeqProperties DEF E!Front
    <2>3. DOMAIN m[s] = 1..Len(m[s])
      BY <2>2, LenProperties
    <2>4. ASSUME NEW i \in DOMAIN m[s] PROVE i \in DOMAIN l[s] /\ m[s][i] = l[s][i]
      <3>1. i \in 1..Len(m[s]) /\ Len(l[s]) \in Nat /\ k = Len(l[s]) - 1
        BY <2>1, <2>3
      <3> HIDE DEF k
      <3>2. i \in 1..(k - 1 + 1) /\ 1 + i - 1 = i /\ i \in 1..Len(l[s])
        BY <2>2, <3>1
      <3>3. QED  BY <2>1, <2>2, <3>2
    <2>5. QED  BY <2>4
  <1>3. \A t \in Shards : \A i \in DOMAIN m[t] : i \in DOMAIN l[t] /\ m[t][i] = l[t][i]
    BY <1>1, <1>2
  <1>4. ASSUME NEW x \in RecordedIn(m) PROVE x \in RecordedIn(l)
    <2>1. PICK t \in Shards : \E i \in DOMAIN m[t] :
            m[t][i].records /\ x = <<m[t][i].task, m[t][i].rev>>
      BY <1>4, RecordedElim
    <2>2. \E i \in DOMAIN l[t] : l[t][i].records /\ x = <<l[t][i].task, l[t][i].rev>>
      BY <1>3, <2>1
    <2>3. PICK i \in DOMAIN l[t] : l[t][i].records /\ x = <<l[t][i].task, l[t][i].rev>>
      BY <2>2
    <2>4. QED  BY <2>3, RecordedIntro
  <1>5. RecordedOnce(m)
    BY <1>3 DEF RecordedOnce
  <1>6. QED  BY <1>4, <1>5

-----------------------------------------------------------------------------
(* What a step does to the four parts that every revision falls into.      *)

LEMMA OwersJobs == ASSUME IInv, NEW p \in Procs, pc[p] # "idle"
                   PROVE  job[p] \in Job /\ job[p] # Unset
  BY NoJobAssumption DEF IInv, Good, JobOK

LEMMA PendingFacts ==
  ASSUME IInv, OwersKnown PROVE Pending = {Revision(p) : p \in Owers}
  BY OwersJobs DEF OwersKnown, Owers, Pending

\* The same of the state after a step.
LEMMA PendingNext ==
  ASSUME IInv', OwersKnown' PROVE Pending' = {<<job'[p].task, job'[p].next.rev>> : p \in Owers'}
  <1>1. \A p \in Procs : pc'[p] # "idle" => job'[p] # Unset
    BY NoJobAssumption DEF IInv, Good, JobOK
  <1>2. QED  BY <1>1 DEF OwersKnown, Owers, Pending, Revision

OwedBy(p) == IF p \in Owers THEN {Revision(p)} ELSE {}

\* What p owes goes, whatever else becomes of it.
LEMMA Settled ==
  ASSUME IInv, IInv', Trail, OwersKnown', NEW p \in Procs, p \notin Owers',
         \A q \in Procs \ {p} : pc'[q] = pc[q] /\ job'[q] = job[q]
  PROVE  Pending' = Pending \ OwedBy(p) /\ OwersApart'
  <1>1. /\ Owers' = Owers \ {p}
        /\ \A q \in Owers \ {p} : <<job'[q].task, job'[q].next.rev>> = Revision(q)
    BY DEF Owers, Revision
  <1>2. /\ Pending = {Revision(q) : q \in Owers}
        /\ Pending' = {<<job'[q].task, job'[q].next.rev>> : q \in Owers'}
    BY PendingFacts, PendingNext DEF Trail
  <1>3. Pending' = {Revision(q) : q \in Owers \ {p}}
    BY <1>1, <1>2
  <1>4. p \in Owers => \A q \in Owers \ {p} : Revision(q) # Revision(p)
    BY DEF Trail, OwersApart
  <1>5. Pending' = Pending \ OwedBy(p)
    BY <1>2, <1>3, <1>4 DEF OwedBy
  <1>6. OwersApart'
    BY <1>1 DEF Trail, OwersApart, Revision
  <1>7. QED  BY <1>5, <1>6

\* A step of a process that owes nothing, before and after, and touches neither
\* record nor log.
LEMMA SilentTrail ==
  ASSUME IInv, IInv', Trail, OwersKnown', NEW p \in Procs, p \notin Owers, p \notin Owers',
         \A q \in Procs \ {p} : pc'[q] = pc[q] /\ job'[q] = job[q],
         UNCHANGED <<task, log, lost, refused>>
  PROVE  Trail'
  <1>1. Pending' = Pending /\ OwersApart'
    BY Settled DEF OwedBy
  <1>2. Recorded' = Recorded /\ Revisions' = Revisions
    BY DEF Recorded, Revisions
  <1>3. EveryRevAccounted'
    BY <1>1, <1>2 DEF Trail, EveryRevAccounted
  <1>4. RevsStart'
    BY DEF Trail, RevsStart
  <1>5. QED  BY <1>1, <1>3, <1>4 DEF Trail

\* A record is written: one revision more, and p owes its event.
LEMMA WrittenTrail ==
  ASSUME IInv, IInv', Trail, OwersKnown', RevsStart', NEW p \in Procs, p \notin Owers, p \in Owers',
         \A q \in Procs \ {p} : pc'[q] = pc[q] /\ job'[q] = job[q],
         UNCHANGED <<log, lost, refused>>,
         NEW r, r = <<job'[p].task, job'[p].next.rev>>,
         r \notin Revisions, Revisions' = Revisions \cup {r}
  PROVE  Trail'
  <1>1. /\ Owers' = Owers \cup {p}
        /\ \A q \in Owers : <<job'[q].task, job'[q].next.rev>> = Revision(q)
    BY DEF Owers, Revision
  <1>2. /\ Pending = {Revision(q) : q \in Owers}
        /\ Pending' = {<<job'[q].task, job'[q].next.rev>> : q \in Owers'}
    BY PendingFacts, PendingNext DEF Trail
  <1>3. Pending' = Pending \cup {r}
    BY <1>1, <1>2
  <1>4. /\ Recorded \cup Pending \cup lost \cup refused = Revisions
        /\ Recorded \cap (Pending \cup lost \cup refused) = {}
        /\ Pending \cap (lost \cup refused) = {} /\ lost \cap refused = {}
        /\ RecordedOnce(log)
    BY DEF Trail, EveryRevAccounted, RecordedOnce
  <1>5. OwersApart'
    <2>1. \A q \in Owers : Revision(q) \in Revisions
      BY <1>2, <1>4
    <2>2. \A q \in Owers : Revision(q) # r
      BY <2>1
    <2>3. \A q, u \in Owers : q # u => Revision(q) # Revision(u)
      BY DEF Trail, OwersApart
    <2>4. \A q, u \in Owers' : q # u =>
            <<job'[q].task, job'[q].next.rev>> # <<job'[u].task, job'[u].next.rev>>
      BY <1>1, <2>2, <2>3
    <2>5. QED  BY <2>4 DEF OwersApart, Revision
  <1>6. EveryRevAccounted'
    <2>1. Recorded' = Recorded
      BY DEF Recorded
    <2>2. /\ Recorded' \cup Pending' \cup lost' \cup refused' = Revisions'
          /\ Recorded' \cap (Pending' \cup lost' \cup refused') = {}
          /\ Pending' \cap (lost' \cup refused') = {} /\ lost' \cap refused' = {}
      BY <1>3, <1>4, <2>1
    <2>3. RecordedOnce(log')
      BY <1>4
    <2>4. QED  BY <2>2, <2>3 DEF EveryRevAccounted, RecordedOnce
  <1>7. QED  BY <1>5, <1>6 DEF Trail

\* p is done with its write: its revision, and those the log has lost, are in
\* the log, lost or refused.
LEMMA SettledTrail ==
  ASSUME IInv, IInv', Trail, OwersKnown', NEW p \in Procs, p \notin Owers', task' = task,
         \A q \in Procs \ {p} : pc'[q] = pc[q] /\ job'[q] = job[q],
         RecordedIn(log') \subseteq Recorded \cup OwedBy(p), RecordedOnce(log'),
         NEW gone, gone = (Recorded \cup OwedBy(p)) \ RecordedIn(log'),
         \/ lost' = lost \cup gone /\ refused' = refused
         \/ lost' = lost /\ refused' = refused \cup gone
  PROVE  Trail'
  <1>1. Pending' = Pending \ OwedBy(p) /\ OwersApart'
    BY Settled
  <1>2. OwedBy(p) \subseteq Pending
    BY PendingFacts DEF OwedBy, Trail
  <1>3. Recorded' = RecordedIn(log') /\ Revisions' = Revisions
    BY DEF Recorded, RecordedIn, Revisions
  <1>4. /\ Recorded \cup Pending \cup lost \cup refused = Revisions
        /\ Recorded \cap (Pending \cup lost \cup refused) = {}
        /\ Pending \cap (lost \cup refused) = {} /\ lost \cap refused = {}
    BY DEF Trail, EveryRevAccounted
  <1>5. Recorded' \cup Pending' \cup lost' \cup refused' = Revisions'
    BY <1>1, <1>2, <1>3, <1>4
  <1>6. /\ Recorded' \cap (Pending' \cup lost' \cup refused') = {}
        /\ Pending' \cap (lost' \cup refused') = {} /\ lost' \cap refused' = {}
    BY <1>1, <1>2, <1>3, <1>4
  <1>7. EveryRevAccounted'
    BY <1>5, <1>6 DEF EveryRevAccounted, RecordedOnce
  <1>8. RevsStart'
    BY DEF Trail, RevsStart
  <1>9. QED  BY <1>1, <1>7, <1>8 DEF Trail

-----------------------------------------------------------------------------
(* A command has an event to log whenever it changes the record.           *)

LEMMA SilentSet ==
  ASSUME NEW r \in Record, NEW c \in Command, NEW k, SetEvents(r, c) = <<>>
  PROVE  SetEffect(r, c, k) = r
  <1>1. Changes(r, c) = {}
    BY DEF SetEvents
  <1>2. /\ c.status \in {Unset, r.status} /\ c.lane \in {Unset, r.lane}
        /\ c.dep \in {Unset} \cup r.depends /\ ~c.note /\ ~c.heartbeat
    BY <1>1 DEF Changes, Command
  <1>3. Given(c.status, r.status) = r.status /\ Departed(r, c.status) = r.blocked
    BY <1>2 DEF Given, Departed
  <1>4. Moved(r, c) = r
    BY <1>3 DEF Moved, Record
  <1>5. /\ Given(c.lane, r.lane) = r.lane
        /\ (IF c.dep = Unset THEN r.depends ELSE r.depends \cup {c.dep}) = r.depends
    BY <1>2 DEF Given
  <1>6. QED  BY <1>2, <1>4, <1>5 DEF SetEffect, Record

LEMMA ChangeHasEvents ==
  ASSUME NEW r \in Record, NEW c \in Command, c.op # "new", NEW now, NEW k,
         Effect(r, c, now, k) # r
  PROVE  EventsOf(r, c) # <<>>
  <1>1. \A e : <<e>> # <<>>
    OBVIOUS
  <1>2. CASE c.op = "set"
    BY <1>2, SilentSet DEF Effect, EventsOf
  <1>3. CASE c.op # "set"
    BY <1>1, <1>3 DEF EventsOf, ClaimEvents, Command
  <1>4. QED  BY <1>2, <1>3

-----------------------------------------------------------------------------
(* One lemma per action.                                                   *)

\* A command that is issued owes nothing yet.
LEMMA IssueTrail ==
  ASSUME IInv, IInv', Trail, NEW p \in Procs, NEW at \in {"create", "lock"}, NEW t \in Tasks,
         NEW c \in Requests, Issue(p, at, t, c)
  PROVE  Trail'
  <1>1. /\ pc'[p] = at /\ ~job'[p].owing
        /\ \A q \in Procs \ {p} : pc'[q] = pc[q] /\ job'[q] = job[q]
    BY IssueFacts
  <1>2. pc[p] = "idle" /\ UNCHANGED <<task, log, lost, refused>>
    BY DEF Issue, store, ledger, ghosts
  <1>3. p \notin Owers /\ p \notin Owers'
    BY <1>1, <1>2 DEF Owers
  <1>4. OwersKnown'
    BY <1>1, <1>3 DEF Trail, OwersKnown, Owers
  <1>5. QED  BY <1>1, <1>2, <1>3, <1>4, SilentTrail

LEMMA LockTrail == ASSUME IInv, IInv', Trail, NEW p \in Procs, Lock(p) PROVE Trail'
  <1>1. /\ pc[p] = "lock" /\ pc' = [pc EXCEPT ![p] = "read"] /\ job' = job
        /\ UNCHANGED <<task, log, lost, refused>>
    BY DEF Lock, ledger, ghosts
  <1>2. pc'[p] = "read" /\ \A q \in Procs \ {p} : pc'[q] = pc[q]
    BY <1>1 DEF IInv, TypeOK
  <1>3. p \notin Owers /\ p \notin Owers'
    BY <1>1, <1>2 DEF Trail, OwersKnown, Owers
  <1>4. OwersKnown'
    BY <1>1, <1>2, <1>3 DEF Trail, OwersKnown, Owers
  <1>5. QED  BY <1>1, <1>2, <1>3, <1>4, SilentTrail

\* Whoever leaves owes nothing any more.
LEMMA LeaveTrail ==
  ASSUME IInv, Trail, NEW p \in Procs, Leave(p)
  PROVE  /\ \A q \in Procs \ {p} : pc'[q] = pc[q] /\ job'[q] = job[q]
         /\ p \notin Owers' /\ OwersKnown'
  <1>1. /\ pc'[p] = "idle" /\ job'[p] = Unset
        /\ \A q \in Procs \ {p} : pc'[q] = pc[q] /\ job'[q] = job[q]
    BY DEF Leave, IInv, TypeOK
  <1>2. QED  BY <1>1 DEF Trail, OwersKnown, Owers

LEMMA RejectTrail == ASSUME IInv, IInv', Trail, NEW p \in Procs, Reject(p) PROVE Trail'
  <1>1. pc[p] = "read" /\ Leave(p) /\ UNCHANGED <<task, log, lost, refused>>
    BY DEF Reject, ledger, ghosts
  <1>2. p \notin Owers
    BY <1>1 DEF Trail, OwersKnown, Owers
  <1>3. QED  BY <1>1, <1>2, LeaveTrail, SilentTrail

LEMMA ReturnTrail == ASSUME IInv, IInv', Trail, NEW p \in Procs, Return(p) PROVE Trail'
  <1>1. /\ pc[p] = "log" /\ job[p].events = <<>> /\ Leave(p)
        /\ UNCHANGED <<task, log, lost, refused>>
    BY DEF Return, store, ledger, ghosts
  <1>2. p \notin Owers
    BY <1>1 DEF Trail, OwersKnown, Owers
  <1>3. QED  BY <1>1, <1>2, LeaveTrail, SilentTrail

\* A process that has read its record has written nothing of it.
LEMMA ReadersOwe ==
  ASSUME Trail, NEW p \in Procs, pc[p] \in {"create", "read", "write"}
  PROVE  p \notin Owers /\ ~job[p].owing
  BY DEF Trail, OwersKnown, Owers

LEMMA NoChangeTrail == ASSUME IInv, IInv', Trail, NEW p \in Procs, NoChange(p) PROVE Trail'
  <1> DEFINE n == task[job[p].task]
             e == EventsOf(task[job[p].task], job[p].cmd)
  <1>1. /\ pc[p] = "read"
        /\ job' = [job EXCEPT ![p].next = n, ![p].events = e]
        /\ pc' = [pc EXCEPT ![p] = "log"]
        /\ UNCHANGED <<task, log, lost, refused>>
    BY DEF NoChange, Current, Cmd, ledger, ghosts
  <1> HIDE DEF n, e
  <1>2. /\ pc'[p] = "log" /\ job'[p] = [job[p] EXCEPT !.next = n, !.events = e]
        /\ \A q \in Procs \ {p} : pc'[q] = pc[q] /\ job'[q] = job[q]
    BY <1>1 DEF IInv, TypeOK
  <1>3. job'[p].owing <=> job[p].owing
    <2>1. job[p] \in Job
      BY <1>1, ChangeFacts
    <2>2. QED  BY <1>2, <2>1 DEF Job
  <1>4. p \notin Owers /\ p \notin Owers'
    BY <1>1, <1>3, ReadersOwe DEF Owers
  <1>5. OwersKnown'
    BY <1>2, <1>4 DEF Trail, OwersKnown, Owers
  <1>6. QED  BY <1>1, <1>2, <1>4, <1>5, SilentTrail

LEMMA StageTrail == ASSUME IInv, IInv', Trail, NEW p \in Procs, Stage(p) PROVE Trail'
  <1> DEFINE r == task[job[p].task]
             n == [Effect(r, job[p].cmd, job[p].now, clock) EXCEPT !.rev = r.rev + 1]
             e == EventsOf(r, job[p].cmd)
  <1>1. /\ pc[p] = "read" /\ Effect(r, job[p].cmd, job[p].now, clock) # r
        /\ job' = [job EXCEPT ![p].next = n, ![p].events = e]
        /\ pc' = [pc EXCEPT ![p] = "write"]
        /\ UNCHANGED <<task, log, lost, refused>>
    BY DEF Stage, Candidate, Current, Cmd, store, ledger, ghosts
  <1>2. e # <<>>
    BY <1>1, ChangeFacts, ChangeHasEvents
  <1> HIDE DEF n, e
  <1>3. /\ pc'[p] = "write" /\ job'[p] = [job[p] EXCEPT !.next = n, !.events = e]
        /\ \A q \in Procs \ {p} : pc'[q] = pc[q] /\ job'[q] = job[q]
    BY <1>1 DEF IInv, TypeOK
  <1>4. (job'[p].owing <=> job[p].owing) /\ job'[p].events = e
    <2>1. job[p] \in Job
      BY <1>1, ChangeFacts
    <2>2. QED  BY <1>3, <2>1 DEF Job
  <1>5. p \notin Owers /\ p \notin Owers'
    BY <1>1, <1>4, ReadersOwe DEF Owers
  <1>6. OwersKnown'
    BY <1>2, <1>3, <1>4, <1>5 DEF Trail, OwersKnown, Owers
  <1>7. QED  BY <1>1, <1>3, <1>5, <1>6, SilentTrail

\* The revisions of the records f.
Start(t) == IF t \in Existing THEN 2 ELSE 1
RevisionsIn(f) == UNION {{t} \X (Start(t)..f[t].rev) : t \in {u \in Tasks : f[u] # Unset}}

\* One record more, or one a revision further.
LEMMA RevisionsGrow ==
  ASSUME NEW f, NEW g, NEW t \in Tasks, NEW k \in Nat,
         g[t] # Unset, g[t].rev = k, \A u \in Tasks \ {t} : g[u] = f[u],
         \/ f[t] = Unset /\ k = Start(t)
         \/ f[t] # Unset /\ f[t].rev \in Nat /\ f[t].rev >= 1 /\ k = f[t].rev + 1
  PROVE  <<t, k>> \notin RevisionsIn(f) /\ RevisionsIn(g) = RevisionsIn(f) \cup {<<t, k>>}
  <1>1. \A u \in Tasks : Start(u) \in {1, 2}
    BY DEF Start
  <1>2. ASSUME NEW h, NEW x
        PROVE  x \in RevisionsIn(h) <=>
                 \E u \in Tasks : \E i \in Start(u)..h[u].rev : h[u] # Unset /\ x = <<u, i>>
    BY DEF RevisionsIn
  <1>3. <<t, k>> \notin RevisionsIn(f)
    <2>1. SUFFICES ASSUME NEW i \in Start(t)..f[t].rev, f[t] # Unset, i = k PROVE FALSE
      BY <1>2
    <2>2. QED  BY <1>1, <2>1
  <1>4. ASSUME NEW x \in RevisionsIn(f) PROVE x \in RevisionsIn(g)
    <2>1. PICK u \in Tasks : \E i \in Start(u)..f[u].rev : f[u] # Unset /\ x = <<u, i>>
      BY <1>2, <1>4
    <2>2. PICK i \in Start(u)..f[u].rev : f[u] # Unset /\ x = <<u, i>>
      BY <2>1
    <2>3. i \in Start(u)..g[u].rev /\ g[u] # Unset
      <3>1. CASE u = t
        BY <1>1, <2>2, <3>1
      <3>2. CASE u # t
        BY <2>2, <3>2
      <3>3. QED  BY <3>1, <3>2
    <2>4. QED  BY <1>2, <2>2, <2>3
  <1>5. <<t, k>> \in RevisionsIn(g)
    <2>1. k \in Start(t)..g[t].rev
      BY <1>1
    <2>2. QED  BY <1>2, <2>1
  <1>6. ASSUME NEW x \in RevisionsIn(g), x # <<t, k>> PROVE x \in RevisionsIn(f)
    <2>1. PICK u \in Tasks : \E i \in Start(u)..g[u].rev : g[u] # Unset /\ x = <<u, i>>
      BY <1>2, <1>6
    <2>2. PICK i \in Start(u)..g[u].rev : g[u] # Unset /\ x = <<u, i>>
      BY <2>1
    <2>3. i \in Start(u)..f[u].rev /\ f[u] # Unset
      <3>1. CASE u = t
        <4>1. i # k
          BY <1>6, <2>2, <3>1
        <4>2. QED  BY <1>1, <2>2, <3>1, <4>1
      <3>2. CASE u # t
        BY <2>2, <3>2
      <3>3. QED  BY <3>1, <3>2
    <2>4. QED  BY <1>2, <2>2, <2>3
  <1>7. QED  BY <1>3, <1>4, <1>5, <1>6

LEMMA CreateTrail == ASSUME IInv, IInv', Trail, NEW p \in Procs, Create(p) PROVE Trail'
  <1> DEFINE t == job[p].task
             n == NewRecord(job[p].cmd)
             e == NewEvents(job[p].cmd)
  <1>1. /\ pc[p] = "create" /\ task' = [task EXCEPT ![t] = n]
        /\ job' = [job EXCEPT ![p].next = n, ![p].events = e, ![p].owing = TRUE]
        /\ pc' = [pc EXCEPT ![p] = "log"]
        /\ UNCHANGED <<log, lost, refused>>
    BY DEF Create, Cmd, ledger, ghosts
  <1>2. /\ job[p] \in Job /\ t \in Tasks /\ task[t] = Unset /\ job[p].cmd \in Command
    BY <1>1, CommandFacts DEF IInv, Good, JobOK, CreateOK, Job
  <1>3. n \in Record /\ n # Unset /\ n.rev = 1 /\ e # <<>>
    BY <1>2, NewRecordFacts, UnsetFacts DEF NewEvents
  <1>4. t \notin Existing
    BY <1>2 DEF Trail, RevsStart
  <1> HIDE DEF n, e
  <1>5. /\ pc'[p] = "log"
        /\ job'[p] = [job[p] EXCEPT !.next = n, !.events = e, !.owing = TRUE]
        /\ \A q \in Procs \ {p} : pc'[q] = pc[q] /\ job'[q] = job[q]
        /\ task'[t] = n /\ \A u \in Tasks \ {t} : task'[u] = task[u]
    BY <1>1, <1>2 DEF IInv, TypeOK
  <1>6. job'[p].owing /\ job'[p].events = e /\ job'[p].next = n /\ job'[p].task = t
    BY <1>2, <1>5 DEF Job
  <1>7. p \notin Owers /\ p \in Owers'
    BY <1>1, <1>5, <1>6, ReadersOwe DEF Owers
  <1>8. OwersKnown'
    BY <1>3, <1>5, <1>6 DEF Trail, OwersKnown, Owers
  <1>9. RevsStart'
    BY <1>3, <1>5 DEF Trail, RevsStart
  <1>10. /\ <<t, 1>> \notin Revisions /\ Revisions' = Revisions \cup {<<t, 1>>}
    <2>1. /\ t \in Tasks /\ 1 \in Nat /\ 1 = Start(t) /\ task[t] = Unset
          /\ task'[t] # Unset /\ task'[t].rev = 1 /\ \A u \in Tasks \ {t} : task'[u] = task[u]
      BY <1>2, <1>3, <1>4, <1>5 DEF Start
    <2>2. /\ <<t, 1>> \notin RevisionsIn(task)
          /\ RevisionsIn(task') = RevisionsIn(task) \cup {<<t, 1>>}
      BY <2>1, RevisionsGrow
    <2>3. QED  BY <2>2 DEF Revisions, RevisionsIn, Start
  <1>11. <<t, 1>> = <<job'[p].task, job'[p].next.rev>>
    BY <1>3, <1>6
  <1>12. QED  BY <1>1, <1>5, <1>7, <1>8, <1>9, <1>10, <1>11, WrittenTrail

LEMMA CommitTrail == ASSUME IInv, IInv', Trail, NEW p \in Procs, Commit(p) PROVE Trail'
  <1> DEFINE t == job[p].task
             n == job[p].next
             k == n.rev
  <1>1. /\ pc[p] = "write" /\ task' = [task EXCEPT ![t] = n]
        /\ job' = [job EXCEPT ![p].owing = TRUE] /\ pc' = [pc EXCEPT ![p] = "log"]
        /\ UNCHANGED <<log, lost, refused>>
    BY DEF Commit, ledger, ghosts
  <1>2. /\ job[p] \in Job /\ t \in Tasks /\ task[t] \in Record /\ task[t] # Unset
        /\ n \in Record /\ n # Unset /\ k = task[t].rev + 1
    BY <1>1, ChangeFacts, OutcomeFacts, UnsetFacts
  <1>3. task[t].rev \in Nat /\ task[t].rev >= 1 /\ k \in Nat
    BY <1>2 DEF Trail, RevsStart, Record
  <1>4. job[p].events # <<>>
    BY <1>1 DEF Trail, OwersKnown
  <1>5. /\ pc'[p] = "log" /\ job'[p] = [job[p] EXCEPT !.owing = TRUE]
        /\ \A q \in Procs \ {p} : pc'[q] = pc[q] /\ job'[q] = job[q]
        /\ task'[t] = n /\ \A u \in Tasks \ {t} : task'[u] = task[u]
    BY <1>1, <1>2 DEF IInv, TypeOK
  <1>6. job'[p].owing /\ job'[p].events = job[p].events /\ job'[p].next = n /\ job'[p].task = t
    BY <1>2, <1>5 DEF Job
  <1>7. p \notin Owers /\ p \in Owers'
    BY <1>1, <1>5, <1>6, ReadersOwe DEF Owers
  <1>8. OwersKnown'
    <2>1. ASSUME NEW q \in Procs
          PROVE  /\ pc'[q] = "idle" => job'[q] = Unset
                 /\ pc'[q] = "write" => job'[q].events # <<>>
                 /\ q \in Owers' => pc'[q] = "log" /\ job'[q].events # <<>>
      <3>1. CASE q = p
        BY <1>4, <1>5, <1>6, <3>1
      <3>2. CASE q # p
        BY <1>5, <3>2 DEF Trail, OwersKnown, Owers
      <3>3. QED  BY <3>1, <3>2
    <2>2. QED  BY <2>1 DEF OwersKnown
  <1>9. RevsStart'
    BY <1>2, <1>3, <1>5 DEF Trail, RevsStart
  <1>10. /\ <<t, k>> \notin Revisions /\ Revisions' = Revisions \cup {<<t, k>>}
    <2>1. /\ <<t, k>> \notin RevisionsIn(task)
          /\ RevisionsIn(task') = RevisionsIn(task) \cup {<<t, k>>}
      BY <1>2, <1>3, <1>5, RevisionsGrow
    <2>2. QED  BY <2>1 DEF Revisions, RevisionsIn, Start
  <1>11. QED  BY <1>1, <1>5, <1>6, <1>7, <1>8, <1>9, <1>10, WrittenTrail

\* What a step of the ledger does to the shard it is about.
LEMMA LedgerMoves ==
  ASSUME IInv, NEW s \in Shards, NEW e \in LogEvents,
         \/ E!Write(s, e) \/ E!WriteUnended(s, e) \/ E!Swallow(s) \/ E!Tear(s)
  PROVE  /\ E!Write(s, e) \/ E!WriteUnended(s, e) =>
              log'[s] = Append(log[s], e) /\ \A t \in Shards \ {s} : log'[t] = log[t]
         /\ E!Swallow(s) =>
              log'[s] = E!Front(log[s]) /\ \A t \in Shards \ {s} : log'[t] = log[t]
         /\ E!Tear(s) => log' = log
  BY DEF E!Write, E!WriteUnended, E!Add, E!Swallow, E!Tear, IInv, TypeOK

\* The event of a write is the one thing a step can add to what is recorded.
LEMMA LedgerTrail ==
  ASSUME IInv, Trail, NEW p \in Procs, NEW s \in Shards, NEW e \in LogEvents,
         e.records <=> p \in Owers, e.records => <<e.task, e.rev>> = Revision(p),
         \/ E!Write(s, e) \/ E!WriteUnended(s, e) \/ E!Swallow(s) \/ E!Tear(s)
  PROVE  /\ RecordedIn(log') \subseteq Recorded \cup OwedBy(p) /\ RecordedOnce(log')
         /\ E!Write(s, e) => Recorded \cup OwedBy(p) \subseteq RecordedIn(log')
  <1>1. /\ log \in [Shards -> Seq(LogEvents)] /\ RecordedIn(log) = Recorded
        /\ RecordedOnce(log) /\ Recorded \cap Pending = {}
    BY DEF IInv, TypeOK, RecordedIn, Recorded, Trail, EveryRevAccounted, RecordedOnce
  <1>2. e.records => <<e.task, e.rev>> \notin RecordedIn(log)
    BY <1>1, PendingFacts DEF Trail
  <1>3. OwedBy(p) = IF e.records THEN {<<e.task, e.rev>>} ELSE {}
    BY DEF OwedBy
  <1>4. CASE E!Write(s, e) \/ E!WriteUnended(s, e)
    <2>1. log'[s] = Append(log[s], e) /\ \A t \in Shards \ {s} : log'[t] = log[t]
      BY <1>4, LedgerMoves
    <2>2. RecordedIn(log') = Recorded \cup OwedBy(p) /\ RecordedOnce(log')
      <3>1. /\ RecordedIn(log') =
                  RecordedIn(log) \cup (IF e.records THEN {<<e.task, e.rev>>} ELSE {})
            /\ RecordedOnce(log')
        BY <1>1, <1>2, <2>1, RecordedAppend
      <3>2. QED  BY <1>1, <1>3, <3>1
    <2>3. QED  BY <2>2
  <1>5. CASE E!Swallow(s) /\ ~E!Write(s, e)
    <2>1. log'[s] = E!Front(log[s]) /\ \A t \in Shards \ {s} : log'[t] = log[t]
      BY <1>5, LedgerMoves
    <2>2. RecordedIn(log') \subseteq Recorded /\ RecordedOnce(log')
      BY <1>1, <2>1, RecordedFront
    <2>3. QED  BY <1>5, <2>2
  <1>6. CASE E!Tear(s) /\ ~E!Write(s, e)
    <2>1. log' = log
      BY <1>6, LedgerMoves
    <2>2. RecordedIn(log') = Recorded /\ RecordedOnce(log')
      BY <1>1, <2>1
    <2>3. QED  BY <1>6, <2>2
  <1>7. QED  BY <1>4, <1>5, <1>6

\* The event that is logged next: that of the write, if it is still owed.
LEMMA EntryFacts ==
  ASSUME IInv, Trail, NEW p \in Procs, Logging(p)
  PROVE  /\ job[p].shard \in Shards /\ Entry(p) \in LogEvents
         /\ Entry(p).records <=> p \in Owers
         /\ <<Entry(p).task, Entry(p).rev>> = Revision(p)
  <1>1. job[p].shard \in Shards /\ Entry(p) \in LogEvents
    BY LoggingFacts
  <1>2. Entry(p).records <=> p \in Owers
    BY DEF Entry, Owers, Logging
  <1>3. <<Entry(p).task, Entry(p).rev>> = Revision(p)
    BY DEF Entry, Revision
  <1>4. QED  BY <1>1, <1>2, <1>3

LEMMA OwedIs == ASSUME NEW p \in Procs, pc[p] # "idle" PROVE Owed(p) = OwedBy(p)
  BY DEF Owed, OwedBy, Owers

\* With its event written or swallowed, p owes it no more.
LEMMA LoggedTrail ==
  ASSUME IInv, Trail, NEW p \in Procs, Logging(p), Logged(p), pc' = pc
  PROVE  /\ \A q \in Procs \ {p} : pc'[q] = pc[q] /\ job'[q] = job[q]
         /\ p \notin Owers' /\ OwersKnown'
  <1>1. /\ pc[p] = "log" /\ job' = [job EXCEPT ![p].events = Tail(@), ![p].owing = FALSE]
        /\ job \in [Procs -> Optional(Job)]
    BY DEF Logging, Logged, IInv, TypeOK
  <1>2. job[p] \in Job
    BY <1>1, OwersJobs
  <1>3. \A q \in Procs \ {p} : pc'[q] = pc[q] /\ job'[q] = job[q]
    BY <1>1
  <1>4. ~job'[p].owing
    BY <1>1, <1>2 DEF Job
  <1>5. p \notin Owers'
    BY <1>4 DEF Owers
  <1>6. OwersKnown'
    BY <1>1, <1>3, <1>5 DEF Trail, OwersKnown, Owers
  <1>7. QED  BY <1>3, <1>5, <1>6

LEMMA LogTrail == ASSUME IInv, IInv', Trail, NEW p \in Procs, Log(p) PROVE Trail'
  <1>1. /\ Logging(p) /\ E!Write(job[p].shard, Entry(p)) /\ Logged(p)
        /\ UNCHANGED <<task, pc, lost, refused>>
    BY DEF Log, store, ghosts
  <1>2. RecordedIn(log') = Recorded \cup OwedBy(p) /\ RecordedOnce(log')
    BY <1>1, EntryFacts, LedgerTrail
  <1>3. /\ \A q \in Procs \ {p} : pc'[q] = pc[q] /\ job'[q] = job[q]
        /\ p \notin Owers' /\ OwersKnown'
    BY <1>1, LoggedTrail
  <1>4. (Recorded \cup OwedBy(p)) \ RecordedIn(log') = {} /\ lost' = lost \cup {}
    BY <1>1, <1>2
  <1>5. QED  BY <1>1, <1>2, <1>3, <1>4, SettledTrail

LEMMA LogSwallowedTrail ==
  ASSUME IInv, IInv', Trail, NEW p \in Procs, LogSwallowed(p) PROVE Trail'
  <1>1. /\ Logging(p) /\ pc[p] # "idle" /\ E!Swallow(job[p].shard) /\ Logged(p)
        /\ lost' = lost \cup Lost(p) /\ UNCHANGED <<task, pc, refused>>
    BY DEF LogSwallowed, Logging, store
  <1>2. RecordedIn(log') \subseteq Recorded \cup OwedBy(p) /\ RecordedOnce(log')
    BY <1>1, EntryFacts, LedgerTrail
  <1>3. /\ \A q \in Procs \ {p} : pc'[q] = pc[q] /\ job'[q] = job[q]
        /\ p \notin Owers' /\ OwersKnown'
    BY <1>1, LoggedTrail
  <1>4. Lost(p) = (Recorded \cup OwedBy(p)) \ RecordedIn(log')
    BY <1>1, OwedIs DEF Lost, Recorded, RecordedIn
  <1>5. QED  BY <1>1, <1>2, <1>3, <1>4, SettledTrail

LEMMA LogRefusedTrail ==
  ASSUME IInv, IInv', Trail, NEW p \in Procs, LogRefused(p) PROVE Trail'
  <1>1. /\ pc[p] = "log" /\ Leave(p) /\ refused' = refused \cup Owed(p)
        /\ UNCHANGED <<task, log, lost>>
    BY DEF LogRefused, Logging, store, ledger
  <1>2. RecordedIn(log') = Recorded /\ RecordedOnce(log')
    BY <1>1 DEF RecordedIn, Recorded, Trail, EveryRevAccounted, RecordedOnce
  <1>3. /\ \A q \in Procs \ {p} : pc'[q] = pc[q] /\ job'[q] = job[q]
        /\ p \notin Owers' /\ OwersKnown'
    BY <1>1, LeaveTrail
  <1>4. Owed(p) = (Recorded \cup OwedBy(p)) \ RecordedIn(log')
    <2>1. Recorded \cap OwedBy(p) = {}
      BY PendingFacts DEF OwedBy, Trail, EveryRevAccounted
    <2>2. QED  BY <1>1, <1>2, <2>1, OwedIs
  <1>5. QED  BY <1>1, <1>2, <1>3, <1>4, SettledTrail

LEMMA CrashTrail == ASSUME IInv, IInv', Trail, NEW p \in Procs, Crash(p) PROVE Trail'
  <1>1. /\ pc[p] # "idle" /\ Leave(p) /\ lost' = lost \cup Lost(p)
        /\ UNCHANGED <<task, refused>>
    BY DEF Crash
  <1>2. RecordedIn(log') \subseteq Recorded \cup OwedBy(p) /\ RecordedOnce(log')
    <2>1. CASE UNCHANGED ledger
      BY <2>1 DEF ledger, RecordedIn, Recorded, Trail, EveryRevAccounted, RecordedOnce
    <2>2. CASE /\ Logging(p)
               /\ \/ E!Tear(job[p].shard) \/ E!Swallow(job[p].shard)
                  \/ E!WriteUnended(job[p].shard, Entry(p))
      BY <2>2, EntryFacts, LedgerTrail
    <2>3. QED  BY <2>1, <2>2 DEF Crash
  <1>3. /\ \A q \in Procs \ {p} : pc'[q] = pc[q] /\ job'[q] = job[q]
        /\ p \notin Owers' /\ OwersKnown'
    BY <1>1, LeaveTrail
  <1>4. Lost(p) = (Recorded \cup OwedBy(p)) \ RecordedIn(log')
    BY <1>1, OwedIs DEF Lost, Recorded, RecordedIn
  <1>5. QED  BY <1>1, <1>2, <1>3, <1>4, SettledTrail

\* Time passes, or nothing happens.
LEMMA StillTrail ==
  ASSUME Trail, UNCHANGED <<task, pc, job, log, lost, refused>> PROVE Trail'
  BY DEF Trail, EveryRevAccounted, OwersKnown, OwersApart, RevsStart, Owers, Revision,
         Recorded, Pending, Revisions

-----------------------------------------------------------------------------
(* What follows.                                                           *)

LEMMA InitTrail == Init => Trail
  <1> SUFFICES ASSUME Init PROVE Trail
    OBVIOUS
  <1>1. Recorded = {}
    BY DEF Init, Recorded, ToSet
  <1>2. Pending = {} /\ lost = {} /\ refused = {} /\ Owers = {}
    BY DEF Init, Pending, Owers
  <1>3. Revisions = {}
    <2>1. \A t \in Tasks : task[t] # Unset => t \in Existing /\ task[t].rev = 1
      BY FirstRecordFacts DEF Init
    <2>2. 2..1 = {}
      OBVIOUS
    <2>3. QED  BY <2>1, <2>2 DEF Revisions
  <1>4. RecordedOnce(log)
    BY DEF Init, RecordedOnce
  <1>5. OwersKnown /\ OwersApart
    BY <1>2 DEF OwersKnown, OwersApart, Init
  <1>6. RevsStart
    BY TaskLedgerAssumption, FirstRecordFacts, UnsetFacts DEF RevsStart, Init
  <1>7. QED  BY <1>1, <1>2, <1>3, <1>4, <1>5, <1>6 DEF Trail, EveryRevAccounted, RecordedOnce

\* Every revision of a record is in the ledger once, or owed by a process that
\* lives, or known to have lost its event: _ledger_auto_log runs once for each
\* record that _tasks_write_locked replaced, and for nothing else.
THEOREM RevisionsAccounted == Spec => []EveryRevAccounted
  <1>1. IInv /\ IInv' /\ Trail /\ [Next]_vars => Trail'
    <2> SUFFICES ASSUME IInv, IInv', Trail, [Next]_vars PROVE Trail'
      OBVIOUS
    <2>1. CASE Tick
      BY <2>1, StillTrail DEF Tick, store, ledger, ghosts
    <2>2. ASSUME NEW p \in Procs, BeginNew(p) \/ BeginChange(p) PROVE Trail'
      BY <2>2, IssueTrail DEF BeginNew, BeginChange
    <2>3. ASSUME NEW p \in Procs, Lock(p) \/ Crash(p) PROVE Trail'
      BY <2>3, LockTrail, CrashTrail
    <2>4. ASSUME NEW p \in Procs, Step(p) PROVE Trail'
      BY <2>4, CreateTrail, RejectTrail, NoChangeTrail, StageTrail, CommitTrail, LogTrail,
         LogSwallowedTrail, LogRefusedTrail, ReturnTrail DEF Step
    <2>5. CASE UNCHANGED vars
      BY <2>5, StillTrail DEF vars, store, ledger, ghosts
    <2>6. QED  BY <2>1, <2>2, <2>3, <2>4, <2>5 DEF Next
  <1>2. Trail => EveryRevAccounted
    BY DEF Trail
  <1>3. QED  BY <1>1, <1>2, InitTrail, Inductive, PTL DEF Spec
=============================================================================
