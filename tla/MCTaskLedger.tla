---------------------------- MODULE MCTaskLedger ----------------------------
(* Model checking TaskLedger: the command lines that are issued.           *)
EXTENDS TaskLedger, TLC

CONSTANTS alice, bob, packet, other, codex

Plain == [op |-> "set", who |-> Unset, force |-> FALSE, cas |-> FALSE, status |-> Unset,
          lane |-> Unset, dep |-> Unset, note |-> FALSE, heartbeat |-> FALSE, about |-> Unset]

New == [Plain EXCEPT !.op = "new", !.lane = codex]
Note == [Plain EXCEPT !.note = TRUE, !.cas = TRUE]
Ready == [Plain EXCEPT !.status = "ready"]
Depend == [Plain EXCEPT !.dep = other]
DependOnSelf == [Plain EXCEPT !.dep = Self, !.status = "review"]
Beat(w) == [Plain EXCEPT !.heartbeat = TRUE, !.who = w]
ClaimFor(w) == [Plain EXCEPT !.op = "claim", !.who = w]
ForcedRelease == [Plain EXCEPT !.op = "release", !.who = bob, !.force = TRUE, !.status = "done"]
Block == [Plain EXCEPT !.op = "block", !.about = packet]
Handoff == [Plain EXCEPT !.op = "handoff", !.lane = codex]

\* Claims: taken, kept alive, stolen, released (by --force or by their holder).
ClaimRequests ==
  {ClaimFor(alice), ClaimFor(bob), Beat(alice), ForcedRelease}

\* Everything else.
WriteRequests == {New, Note, Ready, Depend, DependOnSelf, Block, Handoff}

\* One command is enough to lose an event.
NoteRequests == {Note}

Symmetry == Permutations(Procs)
=============================================================================
