------------------------------ MODULE Missions ------------------------------
(***************************************************************************)
(* From an idea to an app (orchestrator/pipeline.run_pipeline), through the*)
(* approval of the plan and the boundary that checks it again before a     *)
(* spec is built (spec_engine/gate_approval, spec_builder, pipeline), to   *)
(* what is recorded afterwards: a telemetry event and a receipt.           *)
(*                                                                         *)
(* Calls run in processes of one OS account.  They share the key file, the *)
(* approvals and specs logs and the telemetry log; the calls of one process*)
(* also share the set of spent nonces, which dies with it.  Besides        *)
(* run_pipeline there are calls of finalize_spec_with_approval with an     *)
(* approval someone kept.                                                  *)
(*                                                                         *)
(* The plan of a call bears the call's number, and so does the nonce of    *)
(* the approval it signs.  The content hash of a plan is its content.      *)
(***************************************************************************)
EXTENDS ApprovalKey, Sequences, FiniteSets, SequencesExt

CONSTANTS
  Slots,     \* calls that can go on at the same time
  Procs,     \* processes
  Plans,     \* contents a plan can have
  MaxCalls,  \* bound: how many calls are ever made
  MaxFaults  \* bound: kills, failed writes, removed keys, changed plans

ASSUME MissionsAssumption == MaxCalls \in Nat /\ MaxFaults \in Nat

VARIABLES
  job,       \* what each call is at, and what it holds
  calls,     \* how many calls were made
  approvals, \* the approvals a caller can hand in again
  notes,     \* approvals.jsonl
  specs,     \* specs.jsonl
  apps,      \* the specs an app was generated from, and by which call
  spent,     \* the nonces each process has consumed
  life,      \* how often each process was started
  built,     \* who built a spec from which approval: call, nonce, process
  raced,     \* nonces that two calls of one process looked up at once
  events,    \* ordinals in the telemetry log; 0 is a line that cannot be read
  lapped,    \* the logs two calls were writing to at once
  receipts,  \* the receipt file of each call
  answer,    \* how the last call of each slot ended
  faults

vars == <<keyVars, job, calls, approvals, notes, specs, apps, spent, life,
          built, raced, events, lapped, receipts, answer, faults>>

Idle == [pc |-> "idle"]
NoApproval == [nonce |-> 0]

-----------------------------------------------------------------------------
(* approvals.jsonl and specs.jsonl.  A record is written and then its      *)
(* newline; a record longer than the buffer goes to the file before it.    *)

\* lines: the records that have a line of their own; open: the one after the
\* last newline; torn: what follows that newline cannot be read; lost: the
\* records on lines that cannot be read.
NoLines == [lines |-> {}, open |-> {}, torn |-> FALSE, lost |-> {}]

\* A plausible bug: the log is opened to be written anew.
WrittenAnew(log, r) == [NoLines EXCEPT !.open = {r}]

\* What follows a record that lacks its newline is glued to it.
Written(log, r) ==
  IF log.open = {} /\ ~log.torn
  THEN [log EXCEPT !.open = {r}]
  ELSE [log EXCEPT !.open = {}, !.torn = TRUE,
                   !.lost = @ \cup log.open \cup {r}]

HalfWritten(log) ==
  [log EXCEPT !.open = {}, !.torn = TRUE, !.lost = @ \cup log.open]

\* A newline ends whatever stands before it.
Ended(log) ==
  [log EXCEPT !.lines = @ \cup log.open, !.open = {}, !.torn = FALSE]

Readable(log) == log.lines \cup log.open
Logged(log) == Readable(log) \cup log.lost

-----------------------------------------------------------------------------

Init ==
  /\ KeyInit
  /\ job = [s \in Slots |-> Idle]
  /\ calls = 0
  /\ approvals = {}
  /\ notes = NoLines
  /\ specs = NoLines
  /\ apps = {}
  /\ spent = [p \in Procs |-> {}]
  /\ life = [p \in Procs |-> 1]
  /\ built = {}
  /\ raced = {}
  /\ events = <<>>
  /\ lapped = {}
  /\ receipts = {}
  /\ answer = [s \in Slots |-> "none"]
  /\ faults = 0

At(s, pc) == job[s].pc = pc /\ job[s].key = "ready"
Goto(s, pc) == job' = [job EXCEPT ![s].pc = pc]
Finish(s, how) ==
  /\ job' = [job EXCEPT ![s] = Idle]
  /\ answer' = [answer EXCEPT ![s] = how]

Fault == faults < MaxFaults /\ faults' = faults + 1

-----------------------------------------------------------------------------
(* The key, as a call uses it.                                             *)

\* What a call does with the key: make a gate, sign, let the gate verify,
\* verify at the boundary, sign the receipt.
KeyUses == {"gate", "sign", "verify", "check", "receipt"}

\* The file is there, or this call has made it, and it holds a key.  The
\* reads for the fingerprint and for the signature are one step.
WithKey(s, pc) ==
  /\ job[s].pc = pc
  /\ job[s].key \in {"ready", "made"}
  /\ KeyThere

Next1(s, pc) == job' = [job EXCEPT ![s].pc = pc, ![s].key = "ready"]

\* How a call ends when the key raises: the gate's verify turns every
\* exception into False, the boundary turns an IdentityError into a refusal.
KeyError(s, identityError) ==
  IF job[s].pc = "verify" \/ (job[s].pc = "check" /\ identityError)
  THEN "refused" ELSE "error"

FindNoKey(s) ==
  /\ job[s].pc \in KeyUses /\ job[s].key = "ready"
  /\ keyFile = Absent
  /\ job' = [job EXCEPT ![s].key = "missing"]
  /\ UNCHANGED <<keyVars, calls, approvals, notes, specs, apps, spent, life,
                 built, raced, events, lapped, receipts, answer, faults>>

CreateKey(s) ==
  /\ job[s].pc \in KeyUses /\ job[s].key = "missing"
  /\ OpenNew
  /\ job' = [job EXCEPT ![s].key = "creating"]
  /\ UNCHANGED <<keys, keyLost, calls, approvals, notes, specs, apps, spent,
                 life, built, raced, events, lapped, receipts, answer,
                 faults>>

\* Another call has made the file since: a FileExistsError, which is not an
\* IdentityError.
CreateCollides(s) ==
  /\ job[s].pc \in KeyUses /\ job[s].key = "missing"
  /\ keyFile # Absent
  /\ Finish(s, KeyError(s, FALSE))
  /\ UNCHANGED <<keyVars, calls, approvals, notes, specs, apps, spent, life,
                 built, raced, events, lapped, receipts, faults>>

FillKey(s) ==
  /\ job[s].pc \in KeyUses /\ job[s].key = "creating"
  /\ WriteKey
  /\ job' = [job EXCEPT ![s].key = "made"]
  /\ UNCHANGED <<keyLost, calls, approvals, notes, specs, apps, spent, life,
                 built, raced, events, lapped, receipts, answer, faults>>

\* An IdentityError: there is a file and no key in it yet, or the file went
\* after it was looked for.  For the receipt it is only a warning.
KeyUnreadable(s) ==
  /\ job[s].pc \in KeyUses /\ job[s].key \in {"ready", "made"}
  /\ keyFile = Empty \/ (keyFile = Absent /\ keyLost)
  /\ Finish(s, IF job[s].pc = "receipt" THEN "generated" ELSE KeyError(s, TRUE))
  /\ UNCHANGED <<keyVars, calls, approvals, notes, specs, apps, spent, life,
                 built, raced, events, lapped, receipts, faults>>

-----------------------------------------------------------------------------
(* The pipeline up to the boundary.                                        *)

Begin(s, p, content) ==
  /\ job[s] = Idle
  /\ calls < MaxCalls
  /\ calls' = calls + 1
  /\ job' = [job EXCEPT ![s] =
               [pc |-> "gate", key |-> "ready", call |-> calls + 1, proc |-> p,
                id |-> calls + 1, plan |-> content, approval |-> NoApproval,
                ordinal |-> 0, logs |-> TRUE]]
  /\ answer' = [answer EXCEPT ![s] = "none"]
  /\ UNCHANGED <<keyVars, approvals, notes, specs, apps, spent, life, built,
                 raced, events, lapped, receipts, faults>>

Construct(s) ==
  /\ WithKey(s, "gate")
  /\ Next1(s, "route")
  /\ UNCHANGED <<keyVars, calls, approvals, notes, specs, apps, spent, life,
                 built, raced, events, lapped, receipts, answer, faults>>

Ambiguous(s) ==
  /\ At(s, "route")
  /\ Finish(s, "needs_clarification")
  /\ UNCHANGED <<keyVars, calls, approvals, notes, specs, apps, spent, life,
                 built, raced, events, lapped, receipts, faults>>

Route(s) ==
  /\ At(s, "route")
  /\ Goto(s, "sign")
  /\ UNCHANGED <<keyVars, calls, approvals, notes, specs, apps, spent, life,
                 built, raced, events, lapped, receipts, answer, faults>>

\* The answer was neither APPROVE nor REJECT.
Abort(s) ==
  /\ At(s, "sign")
  /\ Finish(s, "refused")
  /\ UNCHANGED <<keyVars, calls, approvals, notes, specs, apps, spent, life,
                 built, raced, events, lapped, receipts, faults>>

\* plan_content_hash: no two contents share a hash.
PlanHash(s) == job[s].plan

\* sign_local_approval, after the answer.
Sign(s, granted) ==
  /\ WithKey(s, "sign")
  /\ job' = [job EXCEPT ![s].pc = "verify", ![s].key = "ready",
               ![s].approval =
                  [nonce |-> job[s].call, plan |-> job[s].id,
                   hash |-> PlanHash(s), granted |-> granted, key |-> keyFile]]
  /\ UNCHANGED <<keyVars, calls, approvals, notes, specs, apps, spent, life,
                 built, raced, events, lapped, receipts, answer, faults>>

Verified(s) ==
  LET a == job[s].approval
  IN  a.plan = job[s].id /\ a.hash = PlanHash(s) /\ a.key = keyFile

\* The gate verifies what it has signed, and again when run_pipeline asks it
\* to; the two are one step, and the plan can change before it.
Verify(s) ==
  /\ WithKey(s, "verify")
  /\ IF Verified(s) THEN Next1(s, "note") /\ UNCHANGED answer
                    ELSE Finish(s, "refused")
  /\ UNCHANGED <<keyVars, calls, approvals, notes, specs, apps, spent, life,
                 built, raced, events, lapped, receipts, faults>>

\* finalize_spec_with_approval, called with an approval its caller has kept
\* and a plan of the id it names, of any content.
FinalizeKept(s, p, a, content) ==
  /\ job[s] = Idle
  /\ calls < MaxCalls
  /\ calls' = calls + 1
  /\ job' = [job EXCEPT ![s] =
               [pc |-> "note", key |-> "ready", call |-> calls + 1, proc |-> p,
                id |-> a.plan, plan |-> content, approval |-> a, ordinal |-> 0,
                logs |-> TRUE]]
  /\ answer' = [answer EXCEPT ![s] = "none"]
  /\ UNCHANGED <<keyVars, approvals, notes, specs, apps, spent, life, built,
                 raced, events, lapped, receipts, faults>>

NoteOf(s) == [call |-> job[s].call, nonce |-> job[s].approval.nonce,
              granted |-> job[s].approval.granted]

\* A granted approval is verified again; a rejection is an answer.
Decide(s, k) ==
  IF job[s].approval.granted
  THEN /\ job' = [job EXCEPT ![s].pc = "check", ![s].logs = k]
       /\ UNCHANGED answer
  ELSE Finish(s, "rejected")

\* The approval is logged before it is looked at.
Note(s) ==
  /\ At(s, "note")
  /\ Goto(s, "noted")
  /\ approvals' = approvals \cup {job[s].approval}
  /\ notes' = Written(notes, NoteOf(s))
  /\ lapped' = IF \E t \in Slots \ {s} : At(t, "noted")
               THEN lapped \cup {"notes"} ELSE lapped
  /\ UNCHANGED <<keyVars, calls, specs, apps, spent, life, built, raced,
                 events, receipts, answer, faults>>

EndNote(s) ==
  /\ At(s, "noted")
  /\ Decide(s, TRUE)
  /\ notes' = Ended(notes)
  /\ UNCHANGED <<keyVars, calls, approvals, specs, apps, spent, life, built,
                 raced, events, lapped, receipts, faults>>

\* --no-log: neither the approval nor the spec is logged.
SkipLogs(s) ==
  /\ At(s, "note")
  /\ Decide(s, FALSE)
  /\ approvals' = approvals \cup {job[s].approval}
  /\ UNCHANGED <<keyVars, calls, notes, specs, apps, spent, life, built,
                 raced, events, lapped, receipts, faults>>

-----------------------------------------------------------------------------
(* The boundary: build_spec.                                               *)

\* A plausible bug: the nonce is looked up under the number of the call.
NonceUsedByCall(s) == job[s].call \in spent[job[s].proc]
NonceUsed(s) == job[s].approval.nonce \in spent[job[s].proc]

Check(s) ==
  /\ WithKey(s, "check")
  /\ IF Verified(s) /\ ~NonceUsed(s)
     THEN Next1(s, "spend") /\ UNCHANGED answer
     ELSE Finish(s, "refused")
  /\ UNCHANGED <<keyVars, calls, approvals, notes, specs, apps, spent, life,
                 built, raced, events, lapped, receipts, faults>>

\* The nonce is spent, one statement after it was looked up.
Spend(s) ==
  LET p == job[s].proc
      n == job[s].approval.nonce
  IN /\ At(s, "spend")
     /\ Goto(s, "spec")
     /\ spent' = [spent EXCEPT ![p] = @ \cup {n}]
     /\ built' = built \cup {[call |-> job[s].call, nonce |-> n, proc |-> p,
                              life |-> life[p]]}
     /\ raced' = IF \E t \in Slots \ {s} :
                      /\ At(t, "spend")
                      /\ job[t].proc = p /\ job[t].approval.nonce = n
                 THEN raced \cup {n} ELSE raced
     /\ UNCHANGED <<keyVars, calls, approvals, notes, specs, apps, life,
                    events, lapped, receipts, answer, faults>>

\* The spec is a copy of the plan, with the decision it rests on.
SpecOf(s) == [call |-> job[s].call, plan |-> job[s].id,
              content |-> job[s].plan, nonce |-> job[s].approval.nonce]

LogSpec(s) ==
  /\ At(s, "spec") /\ job[s].logs
  /\ Goto(s, "logged")
  /\ specs' = Written(specs, SpecOf(s))
  /\ lapped' = IF \E t \in Slots \ {s} : At(t, "logged")
               THEN lapped \cup {"specs"} ELSE lapped
  /\ UNCHANGED <<keyVars, calls, approvals, notes, apps, spent, life, built,
                 raced, events, receipts, answer, faults>>

\* A call of run_pipeline goes on to codegen; a kept approval yields a spec.
HandOver(s) ==
  IF job[s].id = job[s].call THEN Goto(s, "codegen") /\ UNCHANGED answer
                             ELSE Finish(s, "built")

EndSpec(s) ==
  /\ At(s, "logged")
  /\ HandOver(s)
  /\ specs' = Ended(specs)
  /\ UNCHANGED <<keyVars, calls, approvals, notes, apps, spent, life, built,
                 raced, events, lapped, receipts, faults>>

SkipSpec(s) ==
  /\ At(s, "spec") /\ ~job[s].logs
  /\ HandOver(s)
  /\ UNCHANGED <<keyVars, calls, approvals, notes, specs, apps, spent, life,
                 built, raced, events, lapped, receipts, faults>>

Generate(s) ==
  /\ At(s, "codegen")
  /\ Goto(s, "count")
  /\ apps' = apps \cup {[call |-> job[s].call, content |-> job[s].plan,
                      logged |-> job[s].logs]}
  /\ UNCHANGED <<keyVars, calls, approvals, notes, specs, spent, life, built,
                 raced, events, lapped, receipts, answer, faults>>

\* What a call was writing to a log may be left half written.
Noting(s, halfway) == halfway /\ At(s, "note")
Logging(s, halfway) == halfway /\ At(s, "spec") /\ job[s].logs

\* A log cannot be written, or codegen refuses: the nonce stays spent.
BuildFails(s, halfway) ==
  /\ \/ At(s, "note") \/ At(s, "noted") \/ At(s, "logged") \/ At(s, "codegen")
     \/ At(s, "spec") /\ job[s].logs
  /\ Fault
  /\ Finish(s, "error")
  /\ notes' = IF Noting(s, halfway) THEN HalfWritten(notes) ELSE notes
  /\ specs' = IF Logging(s, halfway) THEN HalfWritten(specs) ELSE specs
  /\ UNCHANGED <<keyVars, calls, approvals, apps, spent, life, built, raced,
                 events, lapped, receipts>>

-----------------------------------------------------------------------------
(* Afterwards: the telemetry event and the receipt.                        *)

Ordinal == Len(events) + 1

\* The log is read and its lines counted.  A line that cannot be read is a
\* TelemetryError, which run_pipeline turns into a warning.
Count(s) ==
  /\ At(s, "count")
  /\ IF 0 \in ToSet(events)
     THEN Goto(s, "receipt")
     ELSE job' = [job EXCEPT ![s].pc = "event", ![s].ordinal = Ordinal]
  /\ UNCHANGED <<keyVars, calls, approvals, notes, specs, apps, spent, life,
                 built, raced, events, lapped, receipts, answer, faults>>

\* Nobody has opted in.
SkipEvent(s) ==
  /\ At(s, "count")
  /\ Goto(s, "receipt")
  /\ UNCHANGED <<keyVars, calls, approvals, notes, specs, apps, spent, life,
                 built, raced, events, lapped, receipts, answer, faults>>

\* A line after one that lacks its newline is glued to it.
WithLine(log, n) == IF log # <<>> /\ Last(log) = 0 THEN log ELSE Append(log, n)

AppendEvent(s) ==
  /\ At(s, "event")
  /\ Goto(s, "receipt")
  /\ events' = WithLine(events, job[s].ordinal)
  /\ lapped' = IF \E t \in Slots \ {s} : At(t, "event")
               THEN lapped \cup {"events"} ELSE lapped
  /\ UNCHANGED <<keyVars, calls, approvals, notes, specs, apps, spent, life,
                 built, raced, receipts, answer, faults>>

\* A plausible bug: an OSError goes past the one exception that is caught.
AppendEventRaises(s) ==
  /\ At(s, "event")
  /\ Fault
  /\ Finish(s, "error")
  /\ UNCHANGED <<keyVars, calls, approvals, notes, specs, apps, spent, life,
                 built, raced, events, lapped, receipts>>

\* The log cannot be written: a TelemetryError, and only a warning.
AppendEventFails(s) ==
  /\ At(s, "event")
  /\ Fault
  /\ Goto(s, "receipt")
  /\ UNCHANGED <<keyVars, calls, approvals, notes, specs, apps, spent, life,
                 built, raced, events, lapped, receipts, answer>>

\* No receipt_path was given.
SkipReceipt(s) ==
  /\ At(s, "receipt")
  /\ Finish(s, "generated")
  /\ UNCHANGED <<keyVars, calls, approvals, notes, specs, apps, spent, life,
                 built, raced, events, lapped, receipts, faults>>

\* The receipt embeds the approval and is signed with the key of now.
BuildReceipt(s) ==
  /\ WithKey(s, "receipt")
  /\ job' = [job EXCEPT ![s].pc = "write", ![s].key = "ready",
                        ![s].ordinal = keyFile]
  /\ UNCHANGED <<keyVars, calls, approvals, notes, specs, apps, spent, life,
                 built, raced, events, lapped, receipts, answer, faults>>

ReceiptOf(s, whole) ==
  [call |-> job[s].call, decision |-> job[s].approval, key |-> job[s].ordinal,
   whole |-> whole]

WriteReceipt(s) ==
  /\ At(s, "write")
  /\ receipts' = receipts \cup {ReceiptOf(s, TRUE)}
  /\ Finish(s, "generated")
  /\ UNCHANGED <<keyVars, calls, approvals, notes, specs, apps, spent, life,
                 built, raced, events, lapped, faults>>

\* write_text fails halfway: a MissionReceiptError, and only a warning.
WriteReceiptFails(s) ==
  /\ At(s, "write")
  /\ Fault
  /\ receipts' = receipts \cup {ReceiptOf(s, FALSE)}
  /\ Finish(s, "generated")
  /\ UNCHANGED <<keyVars, calls, approvals, notes, specs, apps, spent, life,
                 built, raced, events, lapped>>

-----------------------------------------------------------------------------
(* From outside.                                                           *)

In(p) == {s \in Slots : job[s] # Idle /\ job[s].proc = p}

\* A process dies with its calls and its spent nonces.  What one of them was
\* writing may be left half written.
Kill(p, halfway) ==
  /\ In(p) # {} \/ spent[p] # {}
  /\ Fault
  /\ job' = [s \in Slots |-> IF s \in In(p) THEN Idle ELSE job[s]]
  /\ answer' = [s \in Slots |-> IF s \in In(p) THEN "none" ELSE answer[s]]
  /\ spent' = [spent EXCEPT ![p] = {}]
  /\ life' = [life EXCEPT ![p] = @ + 1]
  /\ events' = IF halfway /\ \E s \in In(p) : At(s, "event")
               THEN WithLine(events, 0) ELSE events
  /\ notes' = IF \E s \in In(p) : Noting(s, halfway)
              THEN HalfWritten(notes) ELSE notes
  /\ specs' = IF \E s \in In(p) : Logging(s, halfway)
              THEN HalfWritten(specs) ELSE specs
  /\ receipts' = receipts \cup
       {ReceiptOf(s, FALSE) : s \in {t \in In(p) : halfway /\ At(t, "write")}}
  /\ UNCHANGED <<keyVars, calls, approvals, apps, built, raced, lapped>>

LoseKey ==
  /\ Fault
  /\ RemoveKey
  /\ UNCHANGED <<job, calls, approvals, notes, specs, apps, spent, life,
                 built, raced, events, lapped, receipts, answer>>

\* The gate changes the plan it was handed, after it has signed.
ChangePlan(s, content) ==
  /\ At(s, "verify")
  /\ content # job[s].plan
  /\ Fault
  /\ job' = [job EXCEPT ![s].plan = content]
  /\ UNCHANGED <<keyVars, calls, approvals, notes, specs, apps, spent, life,
                 built, raced, events, lapped, receipts, answer>>

Step(s) ==
  \/ FindNoKey(s) \/ CreateKey(s) \/ CreateCollides(s) \/ FillKey(s)
  \/ KeyUnreadable(s) \/ Construct(s) \/ Ambiguous(s) \/ Route(s) \/ Abort(s)
  \/ \E granted \in BOOLEAN : Sign(s, granted)
  \/ Verify(s) \/ Note(s) \/ EndNote(s) \/ SkipLogs(s) \/ Check(s) \/ Spend(s)
  \/ LogSpec(s) \/ EndSpec(s) \/ SkipSpec(s) \/ Generate(s)
  \/ \E halfway \in BOOLEAN : BuildFails(s, halfway)
  \/ Count(s) \/ SkipEvent(s) \/ AppendEvent(s)
  \/ AppendEventFails(s) \/ SkipReceipt(s) \/ BuildReceipt(s)
  \/ WriteReceipt(s) \/ WriteReceiptFails(s)

Next ==
  \/ \E s \in Slots, p \in Procs, content \in Plans :
       \/ Begin(s, p, content)
       \/ \E a \in approvals : FinalizeKept(s, p, a, content)
  \/ \E s \in Slots : Step(s) \/ \E content \in Plans : ChangePlan(s, content)
  \/ \E p \in Procs, halfway \in BOOLEAN : Kill(p, halfway)
  \/ LoseKey

Spec == Init /\ [][Next]_vars

-----------------------------------------------------------------------------
(* Type and safety.                                                        *)

Calls == 1..MaxCalls
Approval == [nonce : Calls, plan : Calls, hash : Plans, granted : BOOLEAN,
             key : 1..MaxKeys]

NoteRecord == [call : Calls, nonce : Calls, granted : BOOLEAN]
SpecRecord == [call : Calls, plan : Calls, content : Plans, nonce : Calls]
AppRecord == [call : Calls, content : Plans, logged : BOOLEAN]
LogOf(S) == [lines : SUBSET S, open : SUBSET S, torn : BOOLEAN, lost : SUBSET S]

\* The key file, the logs and every call are of their type.
TypeOK ==
  /\ KeyTypeOK
  /\ \A s \in Slots : job[s] = Idle \/
       /\ job[s].key \in {"ready", "missing", "creating", "made"}
       /\ job[s].call \in Calls /\ job[s].id \in Calls
       /\ job[s].proc \in Procs /\ job[s].plan \in Plans
       /\ job[s].approval \in Approval \cup {NoApproval}
       /\ job[s].ordinal \in Nat /\ job[s].logs \in BOOLEAN
  /\ approvals \subseteq Approval /\ lapped \subseteq {"events", "notes", "specs"}
  /\ notes \in LogOf(NoteRecord) /\ specs \in LogOf(SpecRecord)
  /\ apps \subseteq AppRecord
  /\ receipts \subseteq [call : Calls, decision : Approval, key : 1..MaxKeys,
                         whole : BOOLEAN]
  /\ events \in Seq(0..MaxCalls)
  /\ spent \in [Procs -> SUBSET Calls] /\ raced \subseteq Calls

\* gate_approval.py:70-75 (no second build from a spent approval while the
\* process lives), across replays of logged approvals, kills and restarts: two
\* specs from one approval come from different lives of a process, or their
\* calls looked the nonce up at the same time.
SpentOnce ==
  \A b, c \in built :
    /\ b # c /\ b.nonce = c.nonce /\ b.proc = c.proc /\ b.life = c.life
    => b.nonce \in raced

AppsRecorded == \A app \in apps :
  /\ \E a \in approvals :
       a.granted /\ a.nonce = app.call /\ a.hash = app.content
  /\ app.logged => \E spec \in Logged(specs) :
       spec.call = app.call /\ spec.content = app.content

SpecsRecorded == \A spec \in Logged(specs) :
  /\ \E a \in approvals :
       /\ a.granted /\ a.nonce = spec.nonce
       /\ a.plan = spec.plan /\ a.hash = spec.content
  /\ \E note \in Logged(notes) :
       note.call = spec.call /\ note.nonce = spec.nonce /\ note.granted

LogsReadable ==
  /\ notes.lost # {} => faults > 0 \/ "notes" \in lapped
  /\ specs.lost # {} => faults > 0 \/ "specs" \in lapped

ReceiptsRecorded == \A r \in receipts : r.whole =>
  /\ \E app \in apps : app.call = r.call
  /\ r.key = r.decision.key \/ keyLost

EventsCounted == "events" \in lapped \/ \A n \in DOMAIN events : events[n] \in {0, n}

\* spec_builder.py:21-25: whatever fails or is killed, an app is made only of
\* content that an approval granted; unless its call ran with --no-log, its
\* spec was logged before it and the approval before its spec.  A logged record
\* can be read, unless it shares a line with another, which takes a kill, a
\* failed write or two calls in that log at once.  A whole receipt has an app
\* and one key for decision and envelope, unless the key was lost in between.
\* The n-th line of the telemetry log bears the ordinal n or cannot be read,
\* unless two calls were counting at once.
TrailWhole ==
  /\ AppsRecorded /\ SpecsRecorded /\ LogsReadable
  /\ ReceiptsRecorded /\ EventsCounted

\* orchestrator/pipeline.py:177-179,211-213: once the app is there, neither the
\* event nor the receipt makes the call fail.  It does fail when the key was
\* lost and another call makes it anew first: a FileExistsError is not caught.
MissionKept ==
  [][\A s \in Slots :
       job[s].pc \in {"count", "event", "receipt", "write"} /\ job'[s] = Idle =>
         answer'[s] \in {"generated", "none"} \/ keyLost]_vars

\* gate_identity.py:169-174 (a key is never overwritten): a call that signed an
\* approval is refused only for a changed plan, a spent nonce, or a key that
\* someone removed; never because of other calls that make a key.
ApprovalHonoured ==
  [][\A s \in Slots :
       job[s].pc \in {"verify", "check"} /\ job'[s] = Idle /\ answer'[s] = "refused" =>
         \/ keyLost
         \/ job[s].plan # job[s].approval.hash
         \/ NonceUsed(s)]_vars
=============================================================================
