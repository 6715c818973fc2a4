------------------------------ MODULE EventLog ------------------------------
(***************************************************************************)
(* What the accountability ledger promises its callers: one log per shard, *)
(* to which events are only ever added, each of them once.  A shard may    *)
(* refuse appends for good after a crash cut a line short; if the crash    *)
(* cut it just before its end, the next append takes that event with it.   *)
(* Something outside tessctl may damage a shard.  Ledger.tla implements    *)
(* this.                                                                   *)
(***************************************************************************)
EXTENDS Naturals, Sequences, SequencesExt

CONSTANTS Shards, Events

VARIABLES
  log,       \* log[s]: the events readable in shard s, oldest first
  refusing,  \* shards that refuse every further append
  unended,   \* shards whose last event was cut just before its end
  damaged    \* shards that were changed from outside

vars == <<log, refusing, unended, damaged>>

Init ==
  /\ log \in [Shards -> Seq(Events)]
  /\ \A s, t \in Shards : \A i \in DOMAIN log[s], j \in DOMAIN log[t] :
       log[s][i] = log[t][j] => s = t /\ i = j
  /\ refusing = {} /\ unended = {}
  /\ damaged = {}

Add(s, e) ==
  /\ s \notin refusing \cup unended
  /\ \A t \in Shards : ~Contains(log[t], e)
  /\ log' = [log EXCEPT ![s] = Append(@, e)]
  /\ UNCHANGED <<refusing, damaged>>

Write(s, e) == Add(s, e) /\ UNCHANGED unended

WriteUnended(s, e) == Add(s, e) /\ unended' = unended \cup {s}

\* Written onto an event without an end, neither can be read.
Swallow(s) ==
  /\ s \in unended
  /\ log' = [log EXCEPT ![s] = Front(@)]
  /\ refusing' = refusing \cup {s}
  /\ unended' = unended \ {s}
  /\ UNCHANGED damaged

Tear(s) ==
  /\ s \notin unended
  /\ refusing' = refusing \cup {s}
  /\ UNCHANGED <<log, unended, damaged>>

Damage(s) ==
  /\ damaged' = damaged \cup {s}
  /\ \A t \in Shards \ {s} : log'[t] = log[t]
  /\ refusing' \in {refusing, refusing \ {s}}
  /\ unended' \in {unended, unended \ {s}}

Next == \E s \in Shards :
  \/ Tear(s) \/ Swallow(s) \/ Damage(s)
  \/ \E e \in Events : Write(s, e) \/ WriteUnended(s, e)

Spec == Init /\ [][Next]_vars
=============================================================================
