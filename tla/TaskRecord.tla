----------------------------- MODULE TaskRecord -----------------------------
(***************************************************************************)
(* One task of the cross-harness task store (.tess/state/tasks/<id>.json)  *)
(* and what each `tessctl tasks` command makes of it.  Every command is a  *)
(* function of the record it finds: may it go ahead, which record comes    *)
(* out, which events does it log.  Title, creator and updated_at decide    *)
(* nothing and are left out; owner and assignee are replaced like the lane *)
(* and evidence is added like a note, so lane and notes stand for them.    *)
(***************************************************************************)
EXTENDS Naturals

CONSTANTS
  Claimants,   \* host:pid:uuid triples
  Lanes,       \* TASK_LANES
  AnyLane,     \* DEFAULT_TASK_LANE
  Packets,     \* contents of a stuck-packet
  Deps,        \* task ids a record may depend on
  Self,        \* the record's own id, as a dependency
  Unset,       \* null; an option that was not given; no such file
  StaleAfter   \* --stale-after, in seconds

ASSUME TaskRecordAssumption ==
  /\ AnyLane \in Lanes
  /\ Self \in Deps
  /\ StaleAfter \in Nat

TASK_STATUSES ==
  {"backlog", "ready", "in_progress", "blocked", "review", "done", "cancelled"}
CLAIM_AUTO_ADVANCE_FROM == {"backlog", "ready"}
LEDGER_EVENTS ==
  {"task_transition", "earmarked", "heartbeat", "claim", "reclaimed", "release", "blocked", "handoff"}

Optional(S) == S \cup {Unset}

Claim == [who : Claimants, since : Nat, beat : Nat]
Packet == [about : Packets, at : Nat]
Record == [status : TASK_STATUSES, lane : Lanes, claim : Optional(Claim),
           blocked : Optional(Packet), depends : SUBSET Deps, notes : Nat, rev : Nat]

ASSUME UnsetAssumption ==
  Unset \notin Record \cup Claim \cup Packet \cup Claimants \cup TASK_STATUSES \cup Lanes \cup Deps

\* A parsed command line; cas says --expected-rev was given.
Command ==
  [op : {"new", "set", "claim", "release", "block", "handoff"},
   who : Optional(Claimants), force : BOOLEAN, cas : BOOLEAN,
   status : Optional(TASK_STATUSES), lane : Optional(Lanes), dep : Optional(Deps),
   note : BOOLEAN, heartbeat : BOOLEAN, about : Optional(Packets)]

\* What the parser sees to, and `set` itself: each command has the options it
\* requires, and only `set` knows --heartbeat and --expected-rev.
WellFormed(c) ==
  /\ c.op = "set" => c.note \/ c.heartbeat \/ {c.status, c.lane, c.dep} # {Unset}
  /\ c.op \in {"claim", "release"} => c.who \in Claimants
  /\ c.op = "block" => c.about \in Packets
  /\ c.op = "handoff" => c.lane \in Lanes
  /\ c.heartbeat \/ c.cas => c.op = "set"

Given(arg, old) == IF arg = Unset THEN old ELSE arg

\* A new record may be blocked, but never carries a packet.
NewRecord(c) ==
  [status |-> Given(c.status, "backlog"), lane |-> Given(c.lane, AnyLane), claim |-> Unset,
   blocked |-> Unset, depends |-> IF c.dep = Unset THEN {} ELSE {c.dep}, notes |-> 0, rev |-> 1]

-----------------------------------------------------------------------------
(* May the command go ahead?                                               *)

SameClaimant(r, c) == r.claim # Unset /\ r.claim.who = c.who

\* Heartbeats are whole seconds and the age is not: on the boundary both hold.
MayBeStale(claim, clock) == clock >= claim.beat + StaleAfter
MayBeFresh(claim, clock) == clock <= claim.beat + StaleAfter

Stranger(r, c) == r.claim # Unset /\ ~SameClaimant(r, c) /\ ~c.force

\* Mutant: a claim that does not look at the age of the heartbeat.
PermitsSteal(r, c, clock) ==
  c.op = "release" \/ c.heartbeat => r.claim # Unset /\ ~Stranger(r, c)

Permits(r, c, clock) ==
  /\ c.op = "release" \/ c.heartbeat => r.claim # Unset /\ ~Stranger(r, c)
  /\ c.op = "claim" /\ Stranger(r, c) => MayBeStale(r.claim, clock)

Refuses(r, c, clock) ==
  \/ ~Permits(r, c, clock)
  \/ c.op = "claim" /\ Stranger(r, c) /\ MayBeFresh(r.claim, clock)

-----------------------------------------------------------------------------
(* What comes out.                                                         *)

\* Mutant: the packet stays when the status leaves `blocked`.
DepartedKeeping(r, status) == r.blocked

\* _clear_blocked_on_status_departure.
Departed(r, status) ==
  IF status \notin {Unset, "blocked"} /\ r.status = "blocked" THEN Unset ELSE r.blocked

Moved(r, c) == [r EXCEPT !.status = Given(c.status, @), !.blocked = Departed(r, c.status)]

SetEffect(r, c, clock) ==
  [Moved(r, c) EXCEPT
     !.lane = Given(c.lane, @),
     !.depends = IF c.dep = Unset THEN @ ELSE @ \cup {c.dep},
     !.notes = IF c.note THEN @ + 1 ELSE @,
     !.claim = IF c.heartbeat THEN [@ EXCEPT !.beat = clock] ELSE @]

ClaimEffect(r, c, now) ==
  [r EXCEPT
     !.claim = [who |-> c.who, since |-> IF SameClaimant(r, c) THEN r.claim.since ELSE now,
                beat |-> now],
     !.status = IF @ \in CLAIM_AUTO_ADVANCE_FROM THEN "in_progress" ELSE @]

ReleaseEffect(r, c) == [Moved(r, c) EXCEPT !.claim = Unset]

BlockEffect(r, c, now) ==
  [r EXCEPT !.status = "blocked", !.blocked = [about |-> c.about, at |-> now]]

HandoffEffect(r, c) == [r EXCEPT !.lane = c.lane]

\* `now` was read before the lock was asked for, the clock is read under it.
Effect(r, c, now, clock) ==
  CASE c.op = "set" -> SetEffect(r, c, clock)
    [] c.op = "claim" -> ClaimEffect(r, c, now)
    [] c.op = "release" -> ReleaseEffect(r, c)
    [] c.op = "block" -> BlockEffect(r, c, now)
    [] c.op = "handoff" -> HandoffEffect(r, c)

\* _lint_task, the part JSON Schema cannot express.
Lint(r) == Self \notin r.depends /\ (r.blocked # Unset => r.status = "blocked")

-----------------------------------------------------------------------------
(* Which events are logged.                                                *)

\* Mutant: a note is not a change worth an event.
ChangesUnnoted(r, c) ==
  {f \in {"status", "lane", "depends", "heartbeat"} :
     \/ f = "status" /\ c.status \notin {Unset, r.status}
     \/ f = "lane" /\ c.lane \notin {Unset, r.lane}
     \/ f = "depends" /\ c.dep \notin {Unset} \cup r.depends
     \/ f = "heartbeat" /\ c.heartbeat}

\* `changes` of _cmd_tasks_set, without the wording.
Changes(r, c) ==
  {f \in {"status", "lane", "depends", "notes", "heartbeat"} :
     \/ f = "status" /\ c.status \notin {Unset, r.status}
     \/ f = "lane" /\ c.lane \notin {Unset, r.lane}
     \/ f = "depends" /\ c.dep \notin {Unset} \cup r.depends
     \/ f = "notes" /\ c.note
     \/ f = "heartbeat" /\ c.heartbeat}

SetEvents(r, c) ==
  LET changes == Changes(r, c)
  IN  CASE changes = {} -> <<>>
        [] changes = {"heartbeat"} -> <<"heartbeat">>
        [] changes = {"lane"} -> <<"earmarked">>
        [] OTHER -> <<"task_transition">>

ClaimEvents(r, c) ==
  IF r.claim = Unset THEN <<"claim">>
  ELSE IF SameClaimant(r, c) THEN <<"heartbeat">> ELSE <<"reclaimed">>

NewEvents(c) ==
  IF c.lane \in {Unset, AnyLane} THEN <<"task_transition">> ELSE <<"task_transition", "earmarked">>

\* `release` stands for `completed` and `crashed` too: only --reason differs.
EventsOf(r, c) ==
  CASE c.op = "set" -> SetEvents(r, c)
    [] c.op = "claim" -> ClaimEvents(r, c)
    [] c.op = "release" -> <<"release">>
    [] c.op = "block" -> <<"blocked">>
    [] c.op = "handoff" -> <<"handoff">>
=============================================================================
