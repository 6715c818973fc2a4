# Tess OS in TLA+

This directory holds a TLA+ model of the parts of Tess OS that are hard to test, the
TLC configurations that check it, and the proofs the TLA+ proof system checks. It models
`.tess/bin/tessctl`, the engine every other part of the repository calls, and the Python
packages that keep state or publish files: the spec engine and orchestrator, the
heartbeat, the receipt tools. Line numbers are lines of `tessctl` unless another file
is named.

## 1. The system

| Part | Where | State it keeps | Operations | What is hard |
|---|---|---|---|---|
| State locks | 19066–19164, and every `flock` | `.tess/state/locks/*.lock` | open, flock, reap, unlock | several processes; files unlinked while open; crashes |
| Accountability ledger | 19051–19063, 19450–19839, 20493–20601 | `<month>.<origin>.jsonl`, `.tip`, `.registry.json` | append, view, verify | three files written one after the other; unlocked readers; crashes; old line format |
| Task store | 18993–19448, 19842–20486 | `tasks/<id>.json` | new, set, claim, release, block, handoff, pull, render | lost updates, stale reads, leases on a clock, write and event not atomic |
| Mission ledger | 16160–17118 | `missions/<id>/mission.{md,json}`, `retries/` | mission new, gate clear, retry check/log/migrate | unlocked read-modify-write, two copies of one record, validate after write |
| Run loop | 17119–18800 | artifacts, escalations | run a crew plan with retries | re-runs, escalation racing a gate clear |
| Snapshots, rollback | 2741–3140, 8437–8598 | `.tess/snapshots/` | snapshot, prune, rollback | crash before the manifest, prune by another process |
| Memory adopt | 21994–22955 | harness memory directories, manifests | adopt, revert | copy, remove and link are three steps |
| Gate spine | 13019–15615 | sign-offs, receipts | policy union, gap report, ship check | pure decisions over sets of paths |
| Write gate, update, render, restore, roster, vault, MCP, scaffold, audit pack | the rest | live tree | file transformation, subprocesses | they share the snapshots |
| Spec engine: codegen | `spec-engine/spec_engine/codegen.py` | the target directory, a stage, the reserved `.codegen-prev` | recover, stage, copy, generate, publish, clean up | a kill between two renames, a person editing, a second call |
| Spec engine: approval | `gate_identity.py`, `gate_approval.py`, `pipeline.py` there | the HMAC key file, approvals and specs logs, spent nonces in memory | sign, verify, build a spec | key creation by two calls, replay after a restart |
| Orchestrator, telemetry | `orchestrator/`, `telemetry/` | event log, receipt files | run_pipeline | what fails after the app is there |
| Heartbeat runner | `scripts/heartbeat/` | cards, `registry.md`, `state.json` | a pass over the cards, reminders, daily recompile | files written in place, state saved last, people editing |
| Receipt tools | `tools/receipt-emit`, `tools/receipt-verify` | a chain file | read, link, sign, verify, replace | two emitters, tampering, key rotation |
| Intent router, connectors, brain OOBE, create-tess, GUI | their directories | small files | lookups, I/O | little |

How they interact: every task command takes its task's lock, changes the record, leaves
the lock, and then appends one or two events to the ledger, which takes the shard's lock
and, inside it, the registry's. Every taker of a lock first runs the reaper over the whole
lock directory. There is no daemon: every process is one `tessctl` call, and what they share
is the file system. `log verify` and `tasks pull` read without locks.

`run_pipeline` of the orchestrator asks a gate for an approval of a plan, has the spec
engine check it again and build a spec from it, has codegen publish an app, and then
records an event and a receipt. The heartbeat is started by a timer, one pass at a time
under a flock; it reads what other tools and people write and asks a repository and a
model about it. The receipt tools are run by hand or by CI on one chain file, without a lock.

What would make each part correct:

* locks: one holder at a time; a held lock is not reaped; nobody waits for ever;
* ledger: one unbroken chain per shard; tip and registry never describe what is not there;
  verify is silent about honest shards and not about lost events; it is an append-only log;
* task store: commands are atomic on each record; a live lease is respected; every revision
  has its event or a known reason for lacking it;
* missions: no gate clear or code-red is lost, both copies agree, at most three attempts;
* snapshots: rollback restores exactly the state before the operation, or says it did not;
* memory adopt: no file of the harness is ever lost, and revert undoes adopt;
* publish: the target is a complete application or absent, and no application and no edit
  is destroyed;
* approvals and missions: one build for each approval, of the content that was approved;
  what the logs and receipts say is true; a mission that is done stays done;
* heartbeat: no edit of a card is lost, a stall is real, is noticed and is announced once
  in its interval;
* receipts: a chain verifies whoever wrote to it, and a receipt stays where it was put.

`PROJECT.json` lists the components with what is and is not modelled, and the hazards at
their lines.

## 2. Modules

    StateLock           locks/*.lock            <- MCStateLock, StateLock_proofs
    EventLog            an append-only log (abstract)
      Ledger            shards, tips, registry, verify; implements EventLog
                                                <- MCLedger, Ledger_proofs
    TaskRecord          one task record and what each command makes of it (operators)
      TaskStore         atomic commands on records (abstract)
      TaskLedger        the running commands; implements TaskStore, writes to EventLog
                                                <- MCTaskLedger, TaskLedger_proofs
    AppTree             files of an application and what a generation makes of them (operators)
      Publish           generate_app on one target
                                                <- MCPublish, Publish_proofs
    ApprovalKey         the HMAC key file and how it is made
      Missions          run_pipeline with its approvals and records
                                                <- MCMissions, Missions_proofs
    Heartbeat           passes over cards, registry and state   <- MCHeartbeat, Heartbeat_proofs
    Receipts            emitters of one chain                   <- MCReceipts, Receipts_proofs
    RetryRules          attempt files of a task and what may be logged next (operators)
      Conductor         one mission's record, retry ledger and runs
                                                <- MCConductor, Conductor_proofs

**StateLock.** `dirent` is the directory (path to inode), `fd` and `held` are the files
processes have open, `flock` is who holds the lock of each inode: flock belongs to the open
file, not to the path, and the reaper unlinks paths. Actions follow
`_prune_stale_locks` (`PruneSkip` … `ReapClose`, its three gates being the age, the
non-waiting flock and the inode check) and the `open`/`flock` pair of
`_tasks_write_locked`, `_log_append_event` and `_ledger_update_registry` (`Open`,
`Acquire`). `Plans` is the order in which one operation takes its locks. `late` remembers
which locks were taken on a file that had been unlinked by then. A file's age is one bit:
`Age` may set it at any time on any lock file, because nothing refreshes the mtime. An
inode number can be used again once nothing refers to it.

**EventLog** and **Ledger.** `Ledger` has one action per step of `_log_append_event`:
`LockShard`, `ReadTail` or `Refuse`, `WriteLine`, `WriteTip`, `LockRegistry`,
`ReadRegistry`, `WriteRegistry`, `Return`. A line is a record with its seq, previous hash, event and
hash; a hash is the history it stands for, so hashes never collide and `WalkOK` is the code's
walk. Shards may start with lines that have no seq. `Crash` stops an append between two
steps, `CrashWriting` inside the write of its line: nothing of it is there, or a part (`torn`), or all
but its newline (`unended`). `WriteLine` is `AddLine`, or `Glue` when the line before has no newline;
`glued` remembers the shards of a `Glue`. `Fault` removes or rewrites a line, or
deletes the shard with its tip. `Verify…` is `log verify`: the listing, then per shard the
walk, the tip and the registry entry, then the registry's names. The refinement maps
the lines of a shard to their events.

**TaskRecord**, **TaskStore** and **TaskLedger.** `TaskRecord` gives for each command whether it
may go ahead (`Permits`, `Refuses`), the record it leaves (`Effect`), the lint, and the events
it logs (`EventsOf`). Owner and assignee behave like the lane and evidence like a note, so
`lane` and `notes` stand for them; `--reason` of a release only chooses the word logged.
Timestamps are whole seconds and the age of a claim is not, so on the boundary `Permits` and
`Refuses` both hold. `TaskStore` applies a command in one step. `TaskLedger` runs it:
`BeginChange`, `Lock`, then `Reject`, `NoChange` or `Stage`, `Commit` (the rename), and `Log`
once per event; `new` draws an id and writes without a lock (`BeginNew`, `Create`). `claim` and
`block` read the time before they wait for the lock (`job.now`), a heartbeat reads it under the
lock. `Log` is a `Write` of `EventLog`, `LogSwallowed` a `Swallow` (the event is written onto
one without its newline, and both are gone), which is what `Ledger` implements; a `Crash` in an
append tears it or leaves it without its end; `TaskLedger` and `Ledger` both take the flock to
exclude, which `StateLock` shows to hold unless a reaper intervened between an open and its
flock.

**AppTree** and **Publish.** A tree is a function from paths to files, a file is the module it
was generated from and the edits made to it; a generation overlays its files on the copy it
started from and merges the directive block into `CLAUDE.md` (`_unique_slug`,
`_write_generated_app_tree`, `_write_scaffold_stub_to_fd` of `codegen.py`). In `Publish` the
names `target` and `aside` refer to inode numbers, and `tree` holds the content of each inode,
as in `StateLock`: a number can come back when nothing refers to it, and a number is all by
which `_require_stable_identity` knows a directory. One action per step of `generate_app`:
`Recover`, `Look`, `MakeStage`, `List`, `Copy` (one name at a time), `WriteApp`, `WriteStub`,
`CheckTarget`, `CheckReserved`, `SetAside` and `Place` (the two renames), `Identify` between
them, `Confirm`, `OpenAside`, `Empty` and `Rmdir` for the old directory, `Verify`, and
`Quarantine` and `Discard` on errors. `Edit`, `MakeTarget` and `Resolve` are the person and the
operator. `late` and `fooled` are history: edits to a file after its copy, and calls that took a
new directory for the old one.

**ApprovalKey** and **Missions.** `ApprovalKey` is `get_or_create_local_identity_key`:
the key file is absent, empty or holds a key, and is looked for, opened with `O_EXCL` and
filled in three steps; someone may remove it. `Missions` is `run_pipeline` with
`finalize_spec_with_approval` and `build_spec`: `Construct`, `Route`, `Sign`, `Verify`,
`Note`, `EndNote`, `Check`, `Spend`, `LogSpec`, `EndSpec`, `Generate`, `Count`, `AppendEvent`,
`BuildReceipt`, `WriteReceipt`, with their refusals and failures; each use of the key can run into
the creation race. `notes` and `specs` are approvals.jsonl and specs.jsonl, which are appended in
place (`spec_log.py:46–51`): a record, then its newline, in two steps, because a record longer than
the buffer reaches the file before its newline does. A kill or a failed write between or inside
them leaves half a line or one without its newline, and what comes next is glued onto it: both
records are then on a line that cannot be read (`lost`). With `--no-log` a call takes `SkipLogs` and
`SkipSpec` and writes to neither. `approvals` are the approvals that were handed to
`finalize_spec_with_approval`, whether logged or not: `FinalizeKept` is a caller that has kept one
(the log alone would not do, it holds no signature).
Calls share the key, the logs and, in one process, the spent nonces; `Kill` takes a process
with its calls and nonces. The content hash of a plan is its content, so hashes do not collide.

**Heartbeat.** A pass is `Start`, then for each card, in order of its file name, `ReadCard`,
`Probe` (with the `Verdict` and what escalation would `Decide`), `Classify` for a new stall,
`Update` and `Notify`; at the end `Recompile` and `Digest` once a day, and `Save`. What the
repository really did (`evidence`) is kept apart from what the card says. `ProbeFails`,
`ClassifyFails`, `NotifyRaises`, `DigestFails`, `Kill` and the `Cut…` actions (a kill inside a
write, which is in place) are the faults. `excused` holds edits made while a pass had the file
read and not yet written.

**Receipts.** An emit (`Begin`) reads the chain for its link and signs (`Link`), reads the
chain again and stages chain plus receipt as a candidate (`Stage`), verifies it as a whole
(`Accept` or `Reject`) and replaces the chain by it (`Commit`). A receipt says who signed
it with which key and the decision it rests on; hashes are the text they stand for. The trust a
command brings has one key for each name. `CutChain`, `EditLine` and `Kill` are the faults.
`exposed` holds receipts committed while another emit had a candidate.

**RetryRules** and **Conductor.** `RetryRules` is `_retry_precheck`: the attempt files of one
task, the cap, and the rule against trying a brief twice; a brief is the notes that were appended
to the plan's. `Conductor` is one mission: `md` and `json` are the two copies of its record,
`ledger` the attempt files of every retry key (a task, or a task's verifier), `artifact` what lies
at the path of each return or verdict. A command that changes the record reads it (`MissionNew`,
`GateClear`, `Escalate`), writes one copy (`WriteMd`), then the other (`WriteJson`), and only then
checks them (`CheckRecord`); nothing locks. A `Run` walks its `Agenda`: `CheckGate`, `Dispatch`,
the worker's `WorkerWrites`, `Returned`, and after a failure `Precheck`, `LogAttempt`,
`CheckAttempt` and the next dispatch, or `Escalate`. `RetryMigrate`, `MigrateTemp` and
`MigrateReplace` turn records of an older version into new ones. `Crash` may tear the file that
is being written and leaves a worker that outlives its run (`orphans`). `lapped` holds changes of
the record made while another was under way, or killed, `collided` the keys two commands were
logging at once.

## 3. Runs

| Run | Bounds | Shows |
|---|---|---|
| `locks` | 2 processes, 1 shard lock and the registry's, 3 inode numbers per path, any ageing, any crashes | `ExclusionUnlessLate`, `HeldLockNotReaped`, `OperationsEnd` |
| `locks_mutex` | 2 processes, 1 task lock | `MutualExclusion` fails (finding) |
| `ledger` | 2 processes, 2 shards, at most 1 legacy line each, 3 appends, 1 crash, 1 fault, verify alone | `ChainIntact`, `MarksTrail`, `NoFalseAlarm`, `LossReported`, `LogSpec` |
| `ledger_verify_race` | 2 processes, 1 shard, 2 appends, verify at any time | `VerifyNeverSeesHalf` fails (finding) |
| `tasks` | 2 processes, 1 existing task and 1 to be created, 7 command lines, 3 issued, 1 crash | `EveryRevAccounted`, `LintNeverStrands`, `CasSeesNoChange`, `StoreSpec` |
| `task_claims` | 2 processes, 1 task, 2 claimants, 4 command lines, 3 issued, clock 0–2 with a lease of 1, 1 crash | `LeaseHolds`, `CommandsEnd` |
| `tasks_unlogged` | 1 task, 2 notes, 1 crash | `WritesAreLogged` fails (finding) |
| `publish` | 2 callers, 3 requests of specs with one and with two modules, 4 inode numbers, a person's file there at the start or 1 edit later, 1 kill | `TargetWhole`, `EditsKept`, `AppNeverLost`, `ReturnsItsApp` |
| `missions` | 2 calls, at a time or one after the other, 2 processes, with and without logs, 2 plan contents, 2 keys, 3 faults | `SpentOnce`, `TrailWhole`, `MissionKept`, `ApprovalHonoured` |
| `heartbeat` | 2 cards, stall after 1 day, 4 days, 1 burst of work, 1 edit, 1 fault, kills | `EditsKept`, `RemindersSpaced`, `StallsAreReal`, `StallNoticed`, `StallAnnounced` |
| `conductor` | 2 commands at a time, 2 in all, 2 gates, 1 task with a verifier, 3 attempts, old records or none, 1 kill or vanished evidence | `RecordHolds`, `BriefsChange`, `TriesBounded`, `AttemptsKept`, `ReturnsAreFresh` |
| `receipts` | 2 emitters, 2 identities, 3 keys, 6 command lines, 4 contents, 1 fault | `ChainAuditable`, `PlaceKept`, `RefusedForCause` |

Why these bounds are enough. Two processes are enough for every race here, because each
lock and file has at most a holder and an intruder; with two holders of an orphaned and a
new lock file `locks_mutex` needs no third process. A path needs one inode for the
directory and one for each process that still has an older file open, so three numbers per
path give two processes all their states (four give exactly the same number). Three appends
let one build on a tail that another left after a crash or a fault. In the task runs three
commands allow set–interleaved-set–CAS, block–leave–write, and claim–steal–late heartbeat.
`ledger` checks verify on its own because `ledger_verify_race` shows what overlap does.
In `publish` three requests let a third call meet what two before it left; four inode
numbers are the target, the aside and a stage for each caller. In `missions` two calls are
a pair that overlaps at any step, or one and another that replays its approval or appends to what
it left; three faults are a kill, a failed write and a removed key in one behaviour; one process
would leave no one to see what a kill forgets, and two show that spent nonces are not shared. The reminders of `heartbeat` come after
two days and are two apart, so four days hold a stall, its notice and a reminder. In
`receipts` three keys are one for each identity and the one a rotation brings. In `conductor` a
run and one more command meet at every step of the run, and two runs one after the other or at
once share the ledger; one run alone logs three attempts of the worker or of the verifier; the
second gate is one that somebody clears while a run goes on.
Symmetry is used only in runs without liveness. `tasks` and `task_claims` may stop when
their commands are used up, so they do not check deadlock; `CommandsEnd` says that nothing
is left waiting. `publish`, `missions` and `conductor` may stop as well, with their calls used up.
`locks`, `ledger` and `receipts` check it.

The type invariants of `StateLock`, `TaskLedger` and `Receipts` are proved and not run; those of
the other modules are run, and proved as well. Each property of a passing run
has a mutant: an operator of the same module that changes one definition as a bug would, and
with which TLC finds the property violated.

### Fairness

`StateLock` and `TaskLedger` assume that a process that can take a step takes it (weak fairness
on everything but waiting): a `tessctl` call runs to its end unless it is killed. Waiting for a
flock has strong fairness: Linux keeps the waiters of a flock in a queue, so one that is
released again and again is granted. No fairness is assumed for callers, crashes, time or
ageing. `Heartbeat` has weak fairness on `Start` (a timer starts passes for ever) and on
`PassStep` (a pass goes on unless something stops it); probes, models and time owe nothing, and
faults are bounded. The other modules state no liveness. In `Conductor`, that a run ends is
bounded by `TriesBounded`: it goes through the agenda once and dispatches each item a bounded
number of times, each dispatch under the driver's timeout.

### Findings

* `locks_mutex`: a writer opens its lock file; before it flocks it, a reaper flocks and
  unlinks the file (it is older than an hour and nobody holds it); the writer flocks the
  orphan while another process locks a new file. The comment at 19118–19121 excludes
  this. `ExclusionUnlessLate` is what remains: it takes such a late flock. Checking
  after the flock that the path still names the locked inode would close it.
* `ledger_verify_race`: the second append to a shard has written its line and not yet its tip;
  `log verify`, which takes no lock, walks both lines and reads the tip of the first. The
  comparison at 19805–19824 fails and the shard is printed as TAMPERED. The comment at
  19687–19691 says that verify always sees a tip that is consistent with the line it
  describes, "never a half-written pair".
* `tasks_unlogged`: the task write comes before the event, and a shard with half a line
  refuses every event, so a write by a healthy process stays without one.
  `docs/STATE_LAYER.md:176–180` says every real write is logged. `EveryRevAccounted` is
  what remains: the revision is known to be refused or lost, and it is no other revision.

Met while modelling, and left as they are: once an append has built on a shard whose tail
was removed, tip and registry are rewritten and verify is silent (`LossReported` exempts
exactly these shards); a claim can carry a heartbeat older than the one it replaces,
because it reads the time before it waits; a second heartbeat in one second changes nothing
and is logged all the same; events of one task may stand in the ledger in another
order than its revisions. A verify that lists the shards before the first append creates one,
and reads the registry after that append wrote it, reports the new shard as MISSING (20577–20584). An event that a kill left without its newline can still be read, until the
next append writes onto it: neither can be read then, that append returns as if it had logged, every
later one refuses the shard, and verify calls it tampered with. `MarksTrail` and `NoFalseAlarm`
exempt these shards (`glued`); `EveryRevAccounted` counts both revisions as lost.

In codegen: the docstring of `generate_app` (`codegen.py:337–350`) speaks of the next call
repairing what a kill left, but between the renames the target is absent and the next call
fails closed until an operator clears the reserved name (`Resolve`); a call that finds its
target replaced can set aside or quarantine the application another call has just published
(concurrent calls are documented as unsupported; nothing is lost, but the target is absent);
an edit made after the file was copied is deleted with the old directory; an inode number that
comes back can fool the identity check, with three calls; `_unique_slug` gives the modules
"a", "a", "a 2" one path; files of an older specification stay.

In missions: two threads of one process can both pass the nonce check (`raced`); nonces are
forgotten at a restart (the module says so); an approval whose codegen failed is spent; the
approval is logged before the boundary verifies it; a kill between creating and filling the key
file leaves an empty key and every later call fails until it is removed; if the key is removed
after the app is there and two calls make it anew, one gets a `FileExistsError` that no clause
catches, so that `run_pipeline` raises for a mission that is done, against
`orchestrator/pipeline.py:292–293` (`MissionKept` exempts this); a torn line in the telemetry
log stops all later events; racing events can share an ordinal (documented). In the approvals and
specs logs a torn line stops nobody: the next record is glued onto it and its call goes on to an app
whose spec is in the file and cannot be read back, and `read_jsonl` (`spec_log.py:100`) raises at
that line, so that the records after it, which are whole, are not reached either. `TrailWhole` says
that this takes a kill, a failed write or two calls in the log at once. The docstring of
`append_plan` (`spec_log.py:54–57`, "never a silent partial log entry") is about records that fail
their schema; a kill leaves a partial entry all the same.

In the heartbeat: `notify.send` catches `URLError`; a response that does not come in time raises
a bare `TimeoutError`, which ends the pass before it saves `state.json`, and the next pass pages
again for what was just sent, against `scripts/heartbeat/notify.py:20–22`, which says a failed
notice never crashes the caller. `RemindersSpaced` exempts the cards of such a pass (`lost`).

In the mission ledger: two commands that change the record at once lose one change, a cleared gate
or a code-red (`lapped`); a torn `mission.md` makes every command fail although `mission.json` is
whole; a gate clear that is refused has been written already; a migration killed before its
`os.replace` leaves a `.tmp` file that makes every later `retry migrate` refuse, while the old
records keep every retry blocked, although `missions/README.md:175–177` and the docstring at
16918–16924 say that running it again upgrades them. Two loggers of one key can take one number
(`collided`).

In the run loop: the same-brief rule looks at transient attempts too, while
`docs/ULTIMATE_FRAMEWORK_PLAN.md:339` speaks of every earlier non-transient attempt. A dispatch
that failed transiently is repeated with its brief, as it may be; if that one returns something
bad, its brief is refused as a repetition and the run halts with `retry_cap_exhausted` after two
of three attempts, with no changed brief tried (against the docstring of
`_run_apply_changed_brief`, 18190–18196). A second run of a plan dispatches once before it looks
at the cap, and starts from the first brief again; code-red does not stop a new run; the
attempts listed in a verifier's escalation are looked for by `T.verify` while the files are named
`t-verify`, so the list is empty; a killed run leaves its worker running, and it can write into
the next run's dispatch (`ReturnsAreFresh` says when a return was written, not by whom).

In receipts: once an identity has rotated its key, chains with both keys verify for nobody
(trust has one key per name, `receipt_verify.py:75–76`) and refuse new receipts; a kill leaves
the temporary file behind, although `chain_atomic.py:27–30` says none survives; one decision
can be emitted many times; racing emitters lose a receipt (documented, `exposed`).

## 4. Proofs

Every module that follows the code step by step has proofs; the lemmas about `AppTree`, `TaskRecord`,
`ApprovalKey` and `RetryRules` are in the module that uses them. They hold for any number of processes,
locks, inode numbers, shards, tasks, cards, command lines, calls, emitters, identities, keys, edits,
kills and faults, and for any crew plan and any sequence of application specifications. Each module has an invariant `IInv`, one lemma for each action that the action
keeps it (or one for a group of actions that change the same things), the theorem `Inductive`
(`Spec => []IInv`), and from it the properties. Every `IInv` was checked with TLC on the instance of
its run before it was proved. `PROJECT.json` lists the theorems and the properties they state.

**StateLock_proofs.** Assumptions: `StateLockAssumption` and `NoInodeAssumption` (the
sentinels are no process and no inode). `ExclusionUnlessLate` is not inductive: that
two holders were not late says nothing about whose flock is on which inode. The invariant is
`IInv` = `TypeOK` ∧ `PathInv` ∧ `FlockInv` ∧ `NameInv`:

* `PathInv`: every inode a process has open, or a path names, belongs to that path;
* `FlockInv`: an inode that a writer holds is flocked by that writer, one that a reaper has
  locked by that reaper, and these are never the same inode;
* `NameInv`: the path still names the inode a reaper is about to unlink, and the inode of
  every lock that was not taken late.

There is one lemma per action. `Exclusion`: two holders that were not late both hold the
inode the path names, and an inode has one flock. `HeldLocksSurvive`: the
only step that takes a name away is `ReapUnlink`, by a process that has the flock of the
inode it unlinks, so nobody else holds that.

**TaskLedger_proofs.** Assumptions: `TaskRecordAssumption`, `UnsetAssumption` (null is no
record, claim, packet …) and `TaskLedgerAssumption`, which says that the command lines are
`WellFormed`, as `build_parser` sees to. First come facts about `Effect`: whatever
a permitted command makes of a record is a record at the same rev, which passes the lint if
the old one did and the command does not name the task as its own dependency
(`EffectFacts`); and a claim that is alive, not the command's own and not forced keeps its
holder (`LeaseFacts`). The invariant is `IInv` = `TypeOK` ∧ `TasksLinted` ∧ `CreatorsApart` ∧
`Good(p)` for every process:

* `JobOK`: what a running command carries is well formed, and its times are past;
* `CreateOK`, `CreatorsApart`: an id drawn by `tasks new` is still free and drawn once;
* `ChangeOK`: the record the caller of `--expected-rev` had seen is the one that is there, or
  has an older rev. This is what rules out that a rev comes back with another record;
* `WriteOK`: what was checked under the lock still holds when the file is replaced, and
  the new record is what the command, run at one moment that has passed, makes of the old one.

`WriteOK` is where the work is: it holds over the steps of everybody else because
only the holder of a task's lock replaces its record, because `new` writes only
where there is no record, and because time only makes claims staler (`PermitsLater`).
`StoreImplemented` follows: `Commit` is `Change` of `TaskStore`, `Create` is `Create`, `Tick` is
`Tick`, every other step leaves the records alone. `CasIsExact`, `LiveClaimsHold` and
`LintNeverInTheWay` follow from `IInv` too. `IInv` was checked with TLC on the two task runs'
instances before it was proved.

**Receipts_proofs.** Assumption: `ReceiptsAssumption`. `ChainAuditable` asks for one trust under
which the whole chain verifies, and an emit only checks its own candidate, with its own trust,
before anything else happens to the file. The invariant is `IInv` = `TypeOK` ∧ `ChainInv` ∧
`CandidateInv` ∧ `PlaceInv`. `ChainInv` is about every run of unedited lines at the head of the
chain, not only the whole of it, because a cut may leave just these; `CandidateInv` says that a
candidate ends in its receipt, is numbered, and once verified verifies under its command's
trust; `PlaceInv` says that what is still promised stands in every candidate too, since any of
them may become the chain. `RefusedForCause` needs one invariant more, `FreshInv`: the link of
an undisturbed emit fits the chain as it is.

**Ledger_proofs.** Assumptions: `LedgerAssumption` and `NoMarkAssumption` (the sentinels are no
process, no number and no mark). What the runs check is about shards at rest and about what was
acked; the invariant has to say what is so in the middle of an append:

* `JobsApart`, `EventsOwned`: an append has an event that no other has, and that is in no shard before
  its line is written;
* `LinksFit`, `ChainIntact`: what it read from the tail still is the tail, because it holds the
  shard's lock, so the line it writes goes on where the last one ended;
* `RegistryHeld`, `RecordInPlace`, `MarksFollow`: `MarksTrail` for shards that are being appended to
  as well. The mark of the append under way describes the last line, its tip is written before
  its registry entry, and the registry is replaced only by who has read it under its lock;
* `TornKnown`: half a line is one that a crash or a `Glue` left, and nobody writes behind it;
* `HashesRemember`, `RegistryRemembers`: the hash of a line stands for every event before it, and the
  registry's for every acked one, whatever was done to the shard since. Hence `LossReported`:
  a verify that is silent found the shard to end in the hash the registry has, so the acked
  events are in it;
* `VerifySound`: of each shard that an undisturbed verify has gone through without an alarm, walk and
  registry entry agree. It needs no clause on shards that are merely dirty or damaged, which is why
  `NoFalseAlarm` is proved from `ChainIntact` and `MarksFollow` instead.

`TailHash` is the hash of the last line and `WalkOK` looks at neighbours, so nothing there is
recursive; where an argument picks the first of some lines, `LeastNumber` does, which comes from the
well-foundedness of the numbers. `EventLogImplemented` maps every step to `Write`, `Swallow` or a
stutter of `EventLog`.

The last part of **TaskLedger_proofs** adds `Trail` to its invariant and proves
`EveryRevAccounted`. Assumption: `NoJobAssumption`. A revision that is written and not yet logged is
owed by a process whose next event is the one that records it (`OwersKnown`), and no two owe the
same (`OwersApart`), because a record is replaced at a higher rev only by the holder of its lock. What
an append may do to the log (add an event, be refused, swallow the last event, end torn) is stated
once, as facts about the revisions a log records.

**Missions_proofs.** Assumptions: `MissionsAssumption`, `ApprovalKeyAssumption` (an absent and an
empty key file are no key). `OneMaker`: until a key is removed one call at most makes it, and all
approvals carry it; `KeyOK`, `ApprovalOK`, `DoneOK`: what a call goes by is signed with that key, is
the approval of its own plan and is granted, and each thing it has done is in its log, unless it
runs without logs; `OwnNonces`: an approval bears the number of its plan, which ties an app that was
not logged to its approval; `TailsOK`: a log that does not end in a newline has a call that is about
to write it, or there was a fault, so that a record is glued to another only with a fault or two
calls at once (the `lost` part of `TrailWhole`);
`NonceOK`, `BuiltOK`: a nonce that was spent since a call looked it up is a raced one, and what was
built in this life of a process is spent in it, which gives `SpentOnce`; `OrdinalOK`: the ordinal
is the number of the line to come. `MissionKept` and `ApprovalHonoured` are action properties that
follow from `KeyOK` and `NonceOK` at the step that would break them.

**Heartbeat_proofs.** Assumption: `HeartbeatAssumption`; that time goes beyond 0 (`MaxTime >= 1`)
was added for the proof: the torn and the fresh files have their times at 0 and 1. `EditsHeld`: the
copy a pass will write back holds every edit that is not excused. `AlarmsKnown`: a pass goes by the
alarms that were announced, but for those in `lost`, and so does `state.json` between passes.
`VerdictHeld`: nobody else changes the verdict while a pass holds the card, a new verdict was
true when it was made or work began since (`outdated`), and a reminder is due by the alarms the pass
knows. `EditsKept`, `RemindersSpaced` and `StallsAreReal` follow from one part each.

**Conductor_proofs.** Assumptions: `ConductorAssumption`, in which a plan has a stage (`Plan # <<>>`,
as `crew-plan.schema.json` demands with its `minItems`), and `NoFileAssumption` (no file, and a torn
one, are no record, no attempt and no key).

* `RecordOK`: nothing is locked, so the proof turns on `lapped`. A change that is not in it is
  alone, and each copy it has written is its own (`ChangeOK`); and whoever is about to write a
  record, lapped or not, writes at least what was acknowledged and not lapped;
* `LogOK`: unless a key is in `collided`, who logs for it is the only one, its number is beyond every
  attempt there is, all of these are whole, and none has its brief. This gives `BriefsChange` and
  `AttemptsKept`; that a file which is being checked is never about to be migrated, and that what is
  to be migrated is there (`TodoOK`), keeps migrations out of the way;
* `TriesOK`: each dispatch of a run but the first follows an attempt of its own, so the attempts
  beyond those it found are at least its failed dispatches. The attempts of others only use up room;
* `FreshOK`: an artifact found by a run whose dispatch is under way was written since, as the dispatch
  removed what lay there and every writer notes who is running.

The agenda is a `FlattenSeq`, which the community modules define by a recursive function; that
it yields gates and keys is proved with `LeastNumber` again. `TriesBounded` was found to be
wrong while it was proved: it spoke of every run, also of one that waits at a gate and has no
key, whose last key may have been logged by two at once, and with three processes and two stages
such a run can have made more dispatches than the ledger had room for. It is about runs on a key
now, as the code's loop is.

**Publish_proofs.** Assumption: `PublishAssumption`. The calls share one target without a lock, so
the invariant says what each may still rely on:

* `NamesApart`, `GarbageEmpty`, `NoStage`: target, reserved name, shelf and stages name different
  directories, one that nothing names is empty, and nothing a call removes, copies or found at its
  start is a stage. What a call writes is thus nobody else's, and a number that comes back starts empty;
* `StageBuilt`: from its manifest on a stage is its call's application, and stays it in the target;
  as only a built stage is renamed into the target, and a person's edits touch neither
  manifest nor modules, this gives `TargetWhole`. With `FoundKept` (each
  edit the call listed is in its stage or still to be copied) it gives `ReturnsItsApp`, as a
  call ends by `Verify` only while the target is its stage;
* `OneBetween`, `AppPlaced`, `AsideFull`, `NothingThere`: unless a whole application lies on the
  shelf, where nobody touches it, at most one call is between its two renames or emptying what it set
  aside, and before it empties anything its own application is in the target. This gives
  `AppNeverLost`: the other steps move a whole application or leave it, since `rename` replaces
  empty directories only;
* `Gone`, `OneClaims`, `ClaimOK`, `CopyOK`, `AsideCovered`: while no call was fooled, what a call set
  aside is the directory it copied from, only that call will remove it, and each edit in it is late
  or in the stage, then in the target or on the shelf. This gives `EditsKept`. A fooled
  call removes a directory it never copied, which is why `EditsKept` excepts it.

`TypeOK` had to be corrected for the proof: the edits a call `found` are of those made so far, not
of `1..MaxEdits`, which is empty when nobody edits and the target starts with one.

Only model-checked: liveness (`OperationsEnd`, `CommandsEnd`, `StallNoticed`, `StallAnnounced`),
which is out of the prover's reach, as is everything that needs ENABLED or induction over data.
Every other property of a passing run is a theorem.

## 5. Plan

Done: the modules of section 2, with the proofs of section 4. Then:

1. `Snapshots`: take, prune, finish, roll back, with a crash before the manifest and a second
   process pruning. Abstract: rollback restores the tree of the start.
2. `MemoryAdopt`: copy, remove, link, revert, with a harness writing meanwhile.
   Abstract: no file of any harness disappears.
3. `GatePolicy`: policy union and path covering as operators against reference definitions.
4. Proofs about these, as they come.

## 6. Not modelled, and why

The snapshots, memory adoption and gate spine of `tessctl` are planned (above) and not modelled
yet. Updates, rendering, roster, vault, MCP, skill scaffold, audit pack, spec rendering, OOBE,
create-tess and the GUI transform files or start subprocesses in one thread; what could go wrong
in them is in their text processing, which TLA+ does not help with. Cryptography (signatures,
hashes) is taken to work. Two `tasks new` that draw the same four random hex digits are
excluded; the code only makes it unlikely. Windows, where there is no `fcntl` and no lock at
all, is not modelled. Disks are taken to keep what was written and renamed, in order; only the
write of a ledger line, a telemetry line, a line of the approvals or the specs log, a receipt, a
card, the registry, `state.json`, a mission record and a retry attempt can be cut short, which are
the files the code writes in place.

In the heartbeat, dry runs write nothing and are left out, as are the git commit of the
daily recompile and `queue_resume`, which is only noted. In missions, routing is a
choice between its outcomes, the plans log and the router's own log are left out (no step of a
mission reads them), an approvals log that is switched off or moved apart from the specs log (`approvals_log_path`, which `run_pipeline` never gives) is
not modelled, and receipts start a chain of their own. In receipts, the audit is
`verify_chain` with the trust its caller gives.

The map covers few of the repository's lines. Of the Python, half is a second copy under
`create-tess/template/`, and most of the rest are test suites, validators of manifests and
schemas, and text generation, whose functions keep no state between two calls; `tessctl` itself,
from which most of the modelled lines come, has no file extension.
