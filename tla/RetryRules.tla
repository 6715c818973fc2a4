----------------------------- MODULE RetryRules -----------------------------
(***************************************************************************)
(* The typed-retry ledger of a mission (tessctl, _retry_precheck): the      *)
(* attempt files of one task, <slug>.attempt-<N>.md, as a function from N   *)
(* to what the file holds, and what may be logged next.                     *)
(*                                                                         *)
(* A brief is the sequence of the retry notes that were appended to the     *)
(* brief of the plan; equal sequences are equal commitments.                *)
(***************************************************************************)
EXTENDS Integers, Sequences, SequencesExt, FiniteSetsExt

CONSTANTS None, Torn        \* no file; a file whose write is not complete

RETRY_ATTEMPT_CAP == 3
Numbers == 1..RETRY_ATTEMPT_CAP
Causes  == {"transient", "context-gap"}     \* with one non-transient cause

\* A legacy record holds the brief itself in place of its commitment.
Attempt(cause, brief, legacy) ==
  [cause |-> cause, brief |-> brief, legacy |-> legacy]

NoAttempts == [n \in Numbers |-> None]
Existing(attempts) == {n \in Numbers : attempts[n] # None}
LastN(attempts) == Max(Existing(attempts) \cup {0})
\* A plausible bug: files are counted by another spelling than they have.
NextIgnoresSlug(attempts) == 1
\* A plausible bug: attempts are numbered from zero.
NextFromZero(attempts) == Cardinality(Existing(attempts))
NextAttempt(attempts) == LastN(attempts) + 1

\* A plausible bug: the cap is left to whoever logs.
ReadableOnly(attempts) ==
  \A n \in Existing(attempts) : attempts[n] # Torn /\ ~attempts[n].legacy

\* What no retry can do without: room, and prior records that can be read.
HasRoom(attempts) ==
  /\ LastN(attempts) < RETRY_ATTEMPT_CAP
  /\ \A n \in Existing(attempts) : attempts[n] # Torn /\ ~attempts[n].legacy

\* A plausible bug: only the latest brief is compared.
UnlikeLatest(attempts, cause, brief) ==
  cause = "transient" \/ Existing(attempts) = {} \/ attempts[LastN(attempts)].brief # brief

\* The brief differs from that of every prior attempt, transient ones
\* included, unless the cause is transient.
BriefChanged(attempts, cause, brief) ==
  cause = "transient" \/ \A n \in Existing(attempts) : attempts[n].brief # brief

Permitted(attempts, cause, brief) ==
  HasRoom(attempts) /\ BriefChanged(attempts, cause, brief)
=============================================================================
