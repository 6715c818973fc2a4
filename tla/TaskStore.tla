------------------------------ MODULE TaskStore ------------------------------
(***************************************************************************)
(* What the task store promises: whatever processes do at the same time,   *)
(* each record changes as if every command ran alone, on the record as it  *)
(* is at that moment, and each change raises its rev by one.  TaskLedger   *)
(* implements this.                                                        *)
(***************************************************************************)
EXTENDS TaskRecord

CONSTANTS Tasks, Requests

VARIABLES task, clock

vars == <<task, clock>>

Init ==
  /\ clock = 0
  /\ task \in [Tasks -> Optional(Record)]
  /\ \A t \in Tasks : task[t] # Unset => task[t].rev = 1 /\ Lint(task[t])

Create(t) ==
  /\ task[t] = Unset
  /\ \E c \in Requests : task' = [task EXCEPT ![t] = NewRecord(c)]
  /\ UNCHANGED clock

\* A heartbeat, a claim or a packet bears a time at which its command ran.
Change(t) ==
  /\ task[t] # Unset
  /\ \E c \in Requests, at \in 0..clock :
       /\ c.op # "new"
       /\ Permits(task[t], c, clock)
       /\ LET next == Effect(task[t], c, at, at)
          IN  /\ next # task[t] /\ Lint(next)
              /\ task' = [task EXCEPT ![t] = [next EXCEPT !.rev = @ + 1]]
  /\ UNCHANGED clock

Tick == clock' = clock + 1 /\ UNCHANGED task

Next == Tick \/ \E t \in Tasks : Create(t) \/ Change(t)

Spec == Init /\ [][Next]_vars
=============================================================================
