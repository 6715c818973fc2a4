----------------------------- MODULE Conductor -----------------------------
(***************************************************************************)
(* The record and the retry ledger of one mission of tessctl (mission new,  *)
(* gate clear, retry log, retry migrate) and the loop that executes a crew  *)
(* plan over them (tessctl run).  No command takes a lock.                  *)
(*                                                                         *)
(* Each process runs one command at a time.  The record is kept twice, in   *)
(* mission.md and mission.json.  Every file here is truncated and written   *)
(* in place; that is one step, unless a kill comes between.                 *)
(***************************************************************************)
EXTENDS RetryRules

CONSTANTS Procs, Gates, Tasks,
          Plan,           \* the stages: a gate, tasks in order, who needs a verifier
          OldKeys,        \* retry keys with an attempt of an older version
          Answers,        \* what the workers and the verifiers of an instance write
          MaxCommands, MaxFaults      \* bounds of a run

ASSUME ConductorAssumption ==
    /\ None # Torn /\ {MaxCommands, MaxFaults} \subseteq Nat
    /\ Plan \in Seq([gate : Gates, tasks : Seq(Tasks), verified : SUBSET Tasks])
    /\ Plan # <<>>
    /\ Answers["work"] \subseteq {"good", "bad"}
    /\ Answers["verify"] \subseteq {"good", "bad", "negative"}

VARIABLES md, json,       \* the two copies of the record
          evidence,       \* gates whose evidence is a real file
          ledger,         \* the attempt files of each retry key
          temps,          \* processes whose migration left a temporary file
          artifact,       \* the return or verdict each key's path holds
          orphans,        \* keys with a worker whose run was killed
          job,            \* the command of each process
          commands, faults,
          acked,          \* history: changes reported as done
          refused,        \* history: changes reported as refused
          lapped,         \* history: changes made while another was, or cut short
          collided        \* history: keys two commands were logging at once

vars   == <<md, json, evidence, ledger, temps, artifact, orphans, job, commands,
            faults, acked, refused, lapped, collided>>
record == <<md, json, evidence>>
bounds == <<commands, faults>>
told   == <<acked, refused, lapped>>

Whole(file) == file \notin {None, Torn}
Record(cleared, red) == [cleared |-> cleared, red |-> red]
Blank == Record({}, FALSE)

\* What a run does, in order: per stage its gate, then per task a dispatch and,
\* where one is required, its verifier's.
TaskItems(stage, t) ==
  IF t \in stage.verified THEN << <<"work", t>>, <<"verify", t>> >>
                          ELSE << <<"work", t>> >>
StageItems(stage) ==
  << <<"gate", stage.gate>> >> \o
  FlattenSeq([i \in DOMAIN stage.tasks |-> TaskItems(stage, stage.tasks[i])])
Agenda == FlattenSeq([s \in DOMAIN Plan |-> StageItems(Plan[s])])
Keys   == {"work", "verify"} \X Tasks       \* task id, and task id ".verify"

NoJob == [kind |-> "none", pc |-> "idle", at |-> 0, key |-> None, rec |-> None,
          brief |-> <<>>, cause |-> "transient", slot |-> 0, todo |-> {}, tries |-> 0, before |-> 0]
Job(kind, pc) == [NoJob EXCEPT !.kind = kind, !.pc = pc]

At(p, pc)  == job[p].pc = pc
Goto(p, pc) == job' = [job EXCEPT ![p].pc = pc]
End(p)     == job' = [job EXCEPT ![p] = NoJob]

Changing   == {p \in Procs : job[p].pc \in {"md", "json", "check record"}}
Logging(k) == {p \in Procs : job[p].key = k /\ job[p].pc \in {"log", "check attempt"}}
Running(k) == {p \in Procs : At(p, "running") /\ job[p].key = k}

Init ==
  /\ \/ md = None /\ json = None /\ ledger = [k \in Keys |-> NoAttempts]
     \/ /\ \E cleared \in {{}, {Plan[1].gate}} : md = Record(cleared, FALSE)
        /\ json = md
        /\ \E old \in {{}, OldKeys} : ledger = [k \in Keys |->
             IF k \in old THEN [NoAttempts EXCEPT ![1] = Attempt("transient", <<>>, TRUE)]
                          ELSE NoAttempts]
  /\ evidence = Gates
  /\ temps = {} /\ artifact = [k \in Keys |-> None] /\ orphans = {}
  /\ job = [p \in Procs |-> NoJob]
  /\ commands = 0 /\ faults = 0
  /\ acked = {} /\ refused = {} /\ lapped = {} /\ collided = {}

Starts(p) ==
  /\ At(p, "idle")
  /\ commands < MaxCommands /\ commands' = commands + 1
  /\ UNCHANGED faults
Start(p, j) == Starts(p) /\ job' = [job EXCEPT ![p] = j]

Fault == faults < MaxFaults /\ faults' = faults + 1 /\ UNCHANGED commands

-----------------------------------------------------------------------------
(* The record: read, changed in memory, written to both files, checked.     *)

\* What a command changes in the record.
Changes(j) == CASE j.kind = "new"   -> {<<"mission", "new">>}
                [] j.kind = "clear" -> {j.key}
                [] j.kind = "run"   -> {<<"mission", "red">>}
                [] OTHER            -> {}

\* From here to the end of the check the command goes by its copy of the record.
Change(p, j, rec) ==
  /\ lapped' = IF Changing = {} THEN lapped ELSE
       lapped \cup Changes(j) \cup UNION {Changes(job[q]) : q \in Changing}
  /\ job' = [job EXCEPT ![p] = [j EXCEPT !.rec = rec, !.pc = "md"]]
  /\ UNCHANGED <<record, ledger, temps, artifact, orphans, acked, refused, collided>>

\* mission new takes the first free id of its name; here, the id is free.
MissionNew(p) == md = None /\ Starts(p) /\ Change(p, Job("new", "md"), Blank)

Cleared(rec, g) == [rec EXCEPT !.cleared = @ \cup {g}]

\* gate clear, once its evidence is seen to be a file and md can be read.
GateClear(p, g) ==
  /\ g \in evidence /\ Whole(md)
  /\ Starts(p)
  /\ Change(p, [Job("clear", "md") EXCEPT !.key = <<"gate", g>>], Cleared(md, g))

\* A plausible bug: code-red is set in a record without its gates.
Reddened(rec) == Record({}, TRUE)
CodeRed(rec)  == [rec EXCEPT !.red = TRUE]

\* _run_write_escalation: the escalation file is written, then the record is
\* read.
Escalate(p) ==
  /\ At(p, "escalate") /\ Whole(md)
  /\ Change(p, Job("run", "md"), CodeRed(md))
  /\ UNCHANGED bounds

EscalateFails(p) ==
  /\ At(p, "escalate") /\ ~Whole(md)
  /\ End(p)
  /\ UNCHANGED <<record, ledger, temps, artifact, orphans, bounds, told, collided>>

WriteMd(p) ==
  /\ At(p, "md")
  /\ md' = job[p].rec
  /\ Goto(p, "json")
  /\ UNCHANGED <<json, evidence, ledger, temps, artifact, orphans, bounds, told,
                 collided>>

WriteJson(p) ==
  /\ At(p, "json")
  /\ json' = job[p].rec
  /\ Goto(p, "check record")
  /\ UNCHANGED <<md, evidence, ledger, temps, artifact, orphans, bounds, told,
                 collided>>

\* _self_validate_or_raise, on both: every cleared gate has its evidence.
Valid(file) == Whole(file) /\ file.cleared \subseteq evidence

CheckRecord(p) ==
  /\ At(p, "check record")
  /\ IF Valid(md) /\ Valid(json)
     THEN acked' = acked \cup Changes(job[p]) /\ UNCHANGED refused
     ELSE refused' = refused \cup Changes(job[p]) /\ UNCHANGED acked
  /\ End(p)
  /\ UNCHANGED <<record, ledger, temps, artifact, orphans, bounds, lapped, collided>>

-----------------------------------------------------------------------------
(* The retry ledger.                                                        *)

\* retry log, by hand, for a failure of k that was dispatched with the plan's
\* brief.
RetryLog(p, k, cause) ==
  /\ Whole(md)
  /\ Start(p, [Job("log", "precheck") EXCEPT !.key = k, !.cause = cause])
  /\ UNCHANGED <<record, ledger, temps, artifact, orphans, told, collided>>

\* _retry_precheck, before a failure is logged.  A run looks twice in a row.
Precheck(p) ==
  /\ At(p, "precheck")
  /\ LET k == job[p].key IN
     IF Permitted(ledger[k], job[p].cause, job[p].brief)
     THEN /\ job' = [job EXCEPT ![p].pc = "log", ![p].slot = NextAttempt(ledger[k])]
          /\ collided' = IF Logging(k) # {} THEN collided \cup {k} ELSE collided
     ELSE /\ IF job[p].kind = "run" THEN Goto(p, "escalate") ELSE End(p)
          /\ UNCHANGED collided
  /\ UNCHANGED <<record, ledger, temps, artifact, orphans, bounds, told>>

LogAttempt(p) ==
  /\ At(p, "log")
  /\ ledger' = [ledger EXCEPT ![job[p].key][job[p].slot] =
                  Attempt(job[p].cause, job[p].brief, FALSE)]
  /\ Goto(p, "check attempt")
  /\ UNCHANGED <<record, temps, artifact, orphans, bounds, told, collided>>

\* A file that is not whole any more is removed: another command was killed in
\* the middle of writing it too.
UnlogAttempt(p) ==
  /\ At(p, "check attempt") /\ ~Whole(ledger[job[p].key][job[p].slot])
  /\ ledger' = [ledger EXCEPT ![job[p].key][job[p].slot] = None]
  /\ End(p)
  /\ UNCHANGED <<record, temps, artifact, orphans, bounds, told, collided>>

\* A run goes on to the next dispatch while there is room for one more.  A note
\* that says why the last return was rejected makes its brief, unless the cause
\* was transient.
CheckAttempt(p) ==
  /\ At(p, "check attempt") /\ Whole(ledger[job[p].key][job[p].slot])
  /\ LET attempts == ledger[job[p].key] IN
     \/ job[p].kind = "log" /\ End(p)
     \/ /\ job[p].kind = "run" /\ HasRoom(attempts)
        /\ job' = [job EXCEPT ![p].pc = "dispatch", ![p].slot = 0,
             ![p].cause = "transient",
             ![p].brief = IF job[p].cause = "transient" THEN @
                          ELSE Append(@, NextAttempt(attempts))]
     \/ job[p].kind = "run" /\ ~HasRoom(attempts) /\ Goto(p, "escalate")
  /\ UNCHANGED <<record, ledger, temps, artifact, orphans, bounds, told, collided>>

\* retry migrate --apply: every record is read before the first is replaced.
Legacy == {r \in Keys \X Numbers :
             Whole(ledger[r[1]][r[2]]) /\ ledger[r[1]][r[2]].legacy}

RetryMigrate(p) ==
  /\ Whole(md)
  /\ temps = {} /\ \A k \in Keys, n \in Numbers : ledger[k][n] # Torn
  /\ Legacy # {}
  /\ Start(p, [Job("migrate", "migrate") EXCEPT !.todo = Legacy])
  /\ UNCHANGED <<record, ledger, temps, artifact, orphans, told, collided>>

MigrateTemp(p) ==
  /\ At(p, "migrate")
  /\ temps' = temps \cup {p}
  /\ Goto(p, "replace")
  /\ UNCHANGED <<record, ledger, artifact, orphans, bounds, told, collided>>

\* os.replace, of one record after the other.
MigrateReplace(p, k, n) ==
  /\ At(p, "replace") /\ <<k, n>> \in job[p].todo
  /\ temps' = temps \ {p}
  /\ ledger' = [ledger EXCEPT ![k][n].legacy = FALSE]
  /\ LET left == job[p].todo \ {<<k, n>>} IN
     job' = [job EXCEPT ![p] = IF left = {} THEN NoJob
                               ELSE [@ EXCEPT !.todo = left, !.pc = "migrate"]]
  /\ UNCHANGED <<record, artifact, orphans, bounds, told, collided>>

-----------------------------------------------------------------------------
(* The run loop.                                                            *)

\* The job of a run that has come to item i of the agenda.
Arrived(j, i) ==
  IF i > Len(Agenda) THEN NoJob
  ELSE IF Agenda[i][1] = "gate" THEN [j EXCEPT !.at = i, !.pc = "gate", !.key = None]
  ELSE [j EXCEPT !.at = i, !.pc = "dispatch", !.key = Agenda[i], !.brief = <<>>,
                 !.tries = 0, !.before = LastN(ledger[Agenda[i]])]

Run(p) ==
  /\ Whole(md)
  /\ Start(p, Arrived(Job("run", "gate"), 1))
  /\ UNCHANGED <<record, ledger, temps, artifact, orphans, told, collided>>

\* The record is read again at every stage.
CheckGate(p) ==
  /\ At(p, "gate")
  /\ IF Whole(md) /\ Agenda[job[p].at][2] \in md.cleared
     THEN job' = [job EXCEPT ![p] = Arrived(@, job[p].at + 1)]
     ELSE End(p)
  /\ UNCHANGED <<record, ledger, temps, artifact, orphans, bounds, told, collided>>

\* fresh: the runs whose dispatch was under way when the artifact was written.
Artifact(what, fresh) == [what |-> what, fresh |-> fresh]
\* A plausible bug: what lies at the path of a dispatch is left there.
KeepsStale(found, p) == IF found = None THEN None ELSE [found EXCEPT !.fresh = @ \ {p}]
Unstale(found, p)    == None

\* _run_clear_stale_artifact, and the dispatch that follows it.
Dispatch(p) ==
  /\ At(p, "dispatch")
  /\ LET k == job[p].key IN artifact' = [artifact EXCEPT ![k] = Unstale(@, p)]
  /\ job' = [job EXCEPT ![p].pc = "running",
                        ![p].tries = Min({@ + 1, RETRY_ATTEMPT_CAP + 1})]
  /\ UNCHANGED <<record, ledger, temps, orphans, bounds, told, collided>>

\* A return is good or not; a verdict approves, is negative (it blocks, or names
\* another verifier), or is not good: unsigned, or not bound to the artifacts.
Returns(k) == Answers[k[1]]

\* The worker of a dispatch, or one that has outlived its run, writes.
WorkerWrites(k, what) ==
  /\ Running(k) # {} \/ k \in orphans
  /\ artifact' = [artifact EXCEPT ![k] = Artifact(what, Running(k))]
  /\ UNCHANGED <<record, ledger, temps, orphans, job, bounds, told, collided>>

\* The driver returns, at the latest after its timeout, and the artifact is
\* checked.  A failed or silent dispatch is transient.
Failed(p, cause) == job' = [job EXCEPT ![p].pc = "precheck", ![p].cause = cause]

Returned(p, ok) ==
  /\ At(p, "running")
  /\ LET found == artifact[job[p].key]
         past  == IF found = None THEN None ELSE [found EXCEPT !.fresh = @ \ {p}]
     IN
     /\ CASE ~ok \/ found = None      -> Failed(p, "transient")
          [] ok /\ found # None /\ found.what = "bad"      -> Failed(p, "context-gap")
          [] ok /\ found # None /\ found.what = "negative" -> Goto(p, "escalate")
          [] ok /\ found # None /\ found.what = "good"     ->
               job' = [job EXCEPT ![p] = Arrived(@, job[p].at + 1)]
     /\ artifact' = [artifact EXCEPT ![job[p].key] = past]
  /\ UNCHANGED <<record, ledger, temps, orphans, bounds, told, collided>>

-----------------------------------------------------------------------------
(* From outside.                                                            *)

Vanish(g) ==
  /\ g \in evidence
  /\ Fault
  /\ evidence' = evidence \ {g}
  /\ UNCHANGED <<md, json, ledger, temps, artifact, orphans, job, told, collided>>

\* A kill leaves the worker of a run running, and the file that was being
\* written torn.
Crash(p, halfway) ==
  /\ ~At(p, "idle")
  /\ Fault
  /\ halfway => job[p].pc \in {"md", "json", "log"}
  /\ md'   = IF halfway /\ At(p, "md") THEN Torn ELSE md
  /\ json' = IF halfway /\ At(p, "json") THEN Torn ELSE json
  /\ ledger' = IF halfway /\ At(p, "log")
               THEN [ledger EXCEPT ![job[p].key][job[p].slot] = Torn] ELSE ledger
  /\ orphans' = IF At(p, "running") THEN orphans \cup {job[p].key} ELSE orphans
  /\ lapped' = IF p \in Changing THEN lapped \cup Changes(job[p]) ELSE lapped
  /\ End(p)
  /\ UNCHANGED <<evidence, temps, artifact, acked, refused, collided>>

OrphanEnds(k) ==
  /\ k \in orphans
  /\ orphans' = orphans \ {k}
  /\ UNCHANGED <<record, ledger, temps, artifact, job, bounds, told, collided>>

Step(p) ==
  \/ Escalate(p) \/ EscalateFails(p) \/ WriteMd(p) \/ WriteJson(p)
  \/ CheckRecord(p)
  \/ Precheck(p) \/ LogAttempt(p) \/ UnlogAttempt(p) \/ CheckAttempt(p)
  \/ MigrateTemp(p) \/ \E k \in Keys, n \in Numbers : MigrateReplace(p, k, n)
  \/ CheckGate(p) \/ Dispatch(p) \/ \E ok \in BOOLEAN : Returned(p, ok)

Next ==
  \/ \E p \in Procs :
       \/ MissionNew(p) \/ \E g \in Gates : GateClear(p, g)
       \/ \E k \in Keys, cause \in Causes : RetryLog(p, k, cause)
       \/ RetryMigrate(p) \/ Run(p) \/ Step(p)
       \/ \E halfway \in BOOLEAN : Crash(p, halfway)
  \/ \E k \in Keys : OrphanEnds(k) \/ \E what \in Returns(k) : WorkerWrites(k, what)
  \/ \E g \in Gates : Vanish(g)

Spec == Init /\ [][Next]_vars

-----------------------------------------------------------------------------
(* Type and safety.                                                        *)

Records == [cleared : SUBSET Gates, red : BOOLEAN]
AnAttempt == [cause : Causes, brief : Seq(Numbers), legacy : BOOLEAN]

ASSUME NoFileAssumption ==
    \A file \in {None, Torn} : file \notin Records /\ file \notin AnAttempt /\ file \notin Keys

\* The files, the artifacts and every command are of their type.
TypeOK ==
  /\ {md, json} \subseteq Records \cup {None, Torn}
  /\ evidence \subseteq Gates
  /\ DOMAIN ledger = Keys
  /\ \A k \in Keys, n \in Numbers :
       ledger[k][n] \in {None, Torn} \/ ledger[k][n] \in AnAttempt
  /\ temps \subseteq Procs /\ orphans \subseteq Keys
  /\ \A k \in Keys : artifact[k] # None =>
       artifact[k].what \in Returns(k) /\ artifact[k].fresh \subseteq Procs
  /\ \A p \in Procs :
       /\ job[p].rec \in Records \cup {None} /\ job[p].brief \in Seq(Numbers)
       /\ job[p].slot \in IF job[p].pc \in {"log", "check attempt"} THEN Numbers
                         ELSE 0..RETRY_ATTEMPT_CAP
       /\ job[p].before \in 0..RETRY_ATTEMPT_CAP

Held(rec) == {<<"mission", "new">>} \cup {<<"gate", g>> : g \in rec.cleared}
             \cup IF rec.red THEN {<<"mission", "red">>} ELSE {}

\* missions/README.md:44-46 (the two copies are kept in sync) and the record as
\* what gates and halts go by: a change that was reported done stays, one that
\* was refused lost its evidence, and at rest both files hold the same, except
\* for changes that were made at the same time or killed.
RecordHolds ==
  /\ Whole(md) => acked \ lapped \subseteq Held(md)
  /\ Changing = {} /\ lapped = {} => md = json
  /\ refused # {} => evidence # Gates \/ lapped # {}

\* The directory listing is the count (16778): no attempt that was logged is
\* removed or overwritten, except by two commands that log for one key at once;
\* a migration keeps what the rules look at.
AttemptsKept ==
  [][\A k \in Keys \ collided, n \in Numbers : Whole(ledger[k][n]) =>
       /\ Whole(ledger'[k][n])
       /\ ledger'[k][n].cause = ledger[k][n].cause
       /\ ledger'[k][n].brief = ledger[k][n].brief]_vars

\* 16849-16859: across runs, kills and hand-logged attempts, a failure that is
\* not transient is never logged with the brief of any earlier one (A, B, A).
BriefsChange ==
  \A k \in Keys \ collided, m, n \in Numbers :
    m < n /\ Whole(ledger[k][m]) /\ Whole(ledger[k][n]) /\ ledger[k][n].cause # "transient"
    => ledger[k][m].brief # ledger[k][n].brief

\* 18491-18495: a run dispatches one key as often as the ledger had room when
\* it came to it, and once when it had none, whoever else logs meanwhile.
TriesBounded ==
  \A p \in Procs : job[p].key \in Keys \ collided =>
    job[p].tries <= Max({1, RETRY_ATTEMPT_CAP - job[p].before})

\* 18442-18465: a return or verdict that a run goes by was written while this
\* very dispatch was under way, whatever earlier ones, other runs or workers
\* that outlived theirs have left.
ReturnsAreFresh ==
  [][\A p \in Procs :
       At(p, "running") /\ faults' = faults /\ job'[p].pc \in {"gate", "dispatch", "escalate", "idle"}
       => p \in artifact[job[p].key].fresh]_vars
=============================================================================
