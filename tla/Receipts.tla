------------------------------ MODULE Receipts ------------------------------
(***************************************************************************)
(* A chain of agent receipts and the processes that emit onto it           *)
(* (tools/receipt-emit), with the verifier each of them runs on the        *)
(* candidate file before it replaces the chain (tools/receipt-verify).     *)
(*                                                                         *)
(* The chain is a file with one receipt to a line.  An emit reads it twice *)
(* with no lock: once for the number and the hash the new receipt is       *)
(* linked to, and again, after gpg has signed, for the text the candidate  *)
(* is made of.  The candidate is verified whole and then renamed over the  *)
(* chain.  Other emits, and whoever else can write the file, come between  *)
(* any two of these steps.                                                 *)
(*                                                                         *)
(* A content hash is the number of the content: no two contents share one. *)
(* A signature is the key that made it, and whether the signed bytes are   *)
(* still the ones in the file.                                             *)
(***************************************************************************)
EXTENDS Naturals, Sequences

CONSTANTS
  Emitters,    \* processes that run `receipt_emit.py emit` on this chain
  Identities,  \* names a decision can be made by
  Keys,        \* gpg keys
  NoKey,       \* stands for a name that no --trust entry gives a key to
  Commands,    \* the emit commands people give
  MaxContents, \* bound: how many different receipts are ever written
  MaxFaults    \* bound: how often the file is edited or cut from outside

DecisionKinds == {"verdict", "signoff", "local_approval"}
RuleKinds == {"path_rule", "hard_floor_rule", "pipeline_approval_gate"}
TrustMaps == [Identities -> Keys \cup {NoKey}]

\* A verdict or a sign-off, with the key that signed it.  `granted` is the
\* disposition APPROVE of a verdict; a complete sign-off always grants.
Decision == [kind : DecisionKinds, granted : BOOLEAN,
             identity : Identities, key : Keys]

Command == [decision : Decision, rule : RuleKinds, keyId : Keys,
            trust : TrustMaps]

ASSUME ReceiptsAssumption ==
  /\ Commands \subseteq Command
  /\ NoKey \notin Keys
  /\ MaxContents \in Nat
  /\ MaxFaults \in Nat

GENESIS == 0
Contents == 1..MaxContents

\* One line of the file.  `text` is "signed" while the line is as it was
\* signed, "edited" after a change that leaves it a receipt, "unreadable"
\* after one that leaves no JSON or no sequence number.
Receipt == [hash : Contents, sequence : Nat, prev : Contents \cup {GENESIS},
            rule : RuleKinds, decision : Decision, signedBy : Identities,
            key : Keys, text : {"signed", "edited", "unreadable"}]

VARIABLES
  chain,    \* the receipts of the --chain file
  job,      \* what each emitter is at, and what it remembers
  written,  \* how many contents were ever written: the next hash
  issued,   \* receipts that were once put into the chain
  exposed,  \* the issued ones that something else may have taken out again
  disturbed,\* emitters whose chain changed since they read its last line
  answer,   \* what the last emit of each process said
  faults    \* changes made to the file from outside

vars == <<chain, job, written, issued, exposed, disturbed, answer, faults>>

Idle == [pc |-> "idle"]

-----------------------------------------------------------------------------
(* The verifier.                                                           *)

\* The one kind of decision that covers each kind of rule.
Covers == [path_rule |-> "verdict", hard_floor_rule |-> "signoff",
           pipeline_approval_gate |-> "local_approval"]

DecisionShape(d) == d.granted
PolicyPairing(rule, d) == Covers[rule] = d.kind

\* The trust map holds one key for a name, whatever number of receipts that
\* name has signed.
SignatureValid(identity, key, trust) == trust[identity] = key

\* The link of a receipt to the line before it; the first line has none.
FirstLink(r) == r.sequence = 0 /\ r.prev = GENESIS
ChainLink(r, before) ==
  /\ r.sequence # 0
  /\ r.prev = before.hash
  /\ before.sequence = r.sequence - 1

VerifyReceipt(r, trust) ==
  /\ r.text = "signed"
  /\ DecisionShape(r.decision)
  /\ PolicyPairing(r.rule, r.decision)
  /\ r.signedBy = r.decision.identity
  /\ SignatureValid(r.decision.identity, r.decision.key, trust)
  /\ SignatureValid(r.signedBy, r.key, trust)

VerifyChain(s, trust) ==
  /\ \A i \in 1..Len(s) : VerifyReceipt(s[i], trust)
  /\ s # <<>> => FirstLink(s[1])
  /\ \A i \in 2..Len(s) : ChainLink(s[i], s[i - 1])

-----------------------------------------------------------------------------
(* The emitter.                                                            *)

Init ==
  /\ chain = <<>>
  /\ job = [e \in Emitters |-> Idle]
  /\ written = 0
  /\ issued = {}
  /\ exposed = {}
  /\ disturbed = {}
  /\ answer = [e \in Emitters |-> "none"]
  /\ faults = 0

\* Stops the run of emitter e: the candidate, if there is one, is unlinked
\* and the chain stays as it is.
RefuseEmit(e) ==
  /\ job' = [job EXCEPT ![e] = Idle]
  /\ answer' = [answer EXCEPT ![e] = "refused"]
  /\ disturbed' = disturbed \ {e}
  /\ UNCHANGED <<chain, written, issued, exposed, faults>>

\* What is looked at before any file: the kind of the decision (a
\* local_approval is neither of the two kinds the emitter infers), its shape,
\* and whether it covers the rule.
Admissible(c) ==
  /\ c.decision.kind \in {"verdict", "signoff"}
  /\ DecisionShape(c.decision)
  /\ PolicyPairing(c.rule, c.decision)

Begin(e, c) ==
  /\ job[e] = Idle
  /\ written < MaxContents
  /\ Admissible(c)
  /\ job' = [job EXCEPT ![e] = [pc |-> "admitted", command |-> c]]
  /\ answer' = [answer EXCEPT ![e] = "none"]
  /\ UNCHANGED <<chain, written, issued, exposed, disturbed, faults>>

RefuseCommand(e, c) ==
  /\ job[e] = Idle
  /\ ~Admissible(c)
  /\ RefuseEmit(e)

\* A plausible bug: the sequence number of the last line taken as the next.
NextLinkSame(s) ==
  IF s = <<>> THEN [sequence |-> 0, prev |-> GENESIS]
  ELSE [sequence |-> s[Len(s)].sequence, prev |-> s[Len(s)].hash]

\* The number and the hash the next receipt is linked to.
NextLink(s) ==
  IF s = <<>> THEN [sequence |-> 0, prev |-> GENESIS]
  ELSE [sequence |-> s[Len(s)].sequence + 1, prev |-> s[Len(s)].hash]

LastLineReadable(s) == s # <<>> => s[Len(s)].text # "unreadable"

\* The receipt, signed: the envelope by --key-id, under the name of whoever
\* made the decision.
NewReceipt(c, link) ==
  [hash |-> written + 1, sequence |-> link.sequence, prev |-> link.prev,
   rule |-> c.rule, decision |-> c.decision,
   signedBy |-> c.decision.identity, key |-> c.keyId, text |-> "signed"]

Link(e) ==
  /\ job[e].pc = "admitted"
  /\ written < MaxContents
  /\ LastLineReadable(chain)
  /\ job' = [job EXCEPT ![e] =
               [pc |-> "signed", command |-> job[e].command,
                receipt |-> NewReceipt(job[e].command, NextLink(chain))]]
  /\ written' = written + 1
  /\ disturbed' = disturbed \ {e}
  /\ UNCHANGED <<chain, issued, exposed, answer, faults>>

RefuseLink(e) ==
  /\ job[e].pc = "admitted"
  /\ ~LastLineReadable(chain)
  /\ RefuseEmit(e)

\* A plausible bug: the candidate is made of the text the link was read from.
CandidateFirstRead(r) ==
  Append(SelectSeq(chain, LAMBDA x : x.sequence < r.sequence), r)

\* The second read of the chain, and the temporary file.
Candidate(r) == Append(chain, r)

Stage(e) ==
  /\ job[e].pc = "signed"
  /\ job' = [job EXCEPT ![e] =
               [pc |-> "staged", command |-> job[e].command,
                receipt |-> job[e].receipt,
                candidate |-> Candidate(job[e].receipt)]]
  /\ UNCHANGED <<chain, written, issued, exposed, disturbed, answer, faults>>

\* The trust an emit verifies with: its own key for its own name, whatever
\* --trust said of that name, and the --trust entries for the others.
AllTrust(c) == [c.trust EXCEPT ![c.decision.identity] = c.keyId]

\* A plausible bug: only the new line of the candidate is verified.
SelfVerifyLast(e) ==
  LET s == job[e].candidate
  IN /\ VerifyReceipt(s[Len(s)], AllTrust(job[e].command))
     /\ IF Len(s) = 1 THEN FirstLink(s[1])
        ELSE ChainLink(s[Len(s)], s[Len(s) - 1])

SelfVerify(e) == VerifyChain(job[e].candidate, AllTrust(job[e].command))

Accept(e) ==
  /\ job[e].pc = "staged"
  /\ SelfVerify(e)
  /\ job' = [job EXCEPT ![e].pc = "verified"]
  /\ UNCHANGED <<chain, written, issued, exposed, disturbed, answer, faults>>

Reject(e) ==
  /\ job[e].pc = "staged"
  /\ ~SelfVerify(e)
  /\ RefuseEmit(e)

\* Emitters with a candidate: its text no longer follows the chain.
Holding == {e \in Emitters : job[e].pc \in {"staged", "verified"}}

\* os.replace.  What another emitter holds does not have this receipt in it.
Commit(e) ==
  /\ job[e].pc = "verified"
  /\ chain' = job[e].candidate
  /\ job' = [job EXCEPT ![e] = Idle]
  /\ issued' = issued \cup {job[e].receipt}
  /\ exposed' = IF Holding \ {e} = {} THEN exposed
                ELSE exposed \cup {job[e].receipt}
  /\ disturbed' = Emitters \ {e}
  /\ answer' = [answer EXCEPT ![e] = "emitted"]
  /\ UNCHANGED <<written, faults>>

-----------------------------------------------------------------------------
(* From outside.                                                           *)

\* The process is killed.  The temporary file stays, and nothing reads it.
Kill(e) ==
  /\ job[e] # Idle
  /\ job' = [job EXCEPT ![e] = Idle]
  /\ answer' = [answer EXCEPT ![e] = "none"]
  /\ disturbed' = disturbed \ {e}
  /\ UNCHANGED <<chain, written, issued, exposed, faults>>

Meddle ==
  /\ faults < MaxFaults
  /\ faults' = faults + 1
  /\ disturbed' = Emitters
  /\ UNCHANGED <<job, issued, answer>>

\* The last lines are lost: an older copy of the file is checked out.
CutChain(n) ==
  /\ Meddle
  /\ n < Len(chain)
  /\ chain' = SubSeq(chain, 1, n)
  /\ exposed' = exposed \cup {chain[i] : i \in (n + 1)..Len(chain)}
  /\ UNCHANGED written

\* One line is changed, to a content that was not there before.
EditLine(i, q, text) ==
  /\ Meddle
  /\ i \in 1..Len(chain)
  /\ written < MaxContents
  /\ chain' = [chain EXCEPT ![i].hash = written + 1, ![i].sequence = q,
                            ![i].text = text]
  /\ exposed' = exposed \cup {chain[i]}
  /\ written' = written + 1

Next ==
  \/ \E e \in Emitters, c \in Commands : Begin(e, c) \/ RefuseCommand(e, c)
  \/ \E e \in Emitters : \/ Link(e) \/ RefuseLink(e) \/ Stage(e)
                         \/ Accept(e) \/ Reject(e) \/ Commit(e) \/ Kill(e)
  \/ \E n \in 0..MaxContents : CutChain(n)
  \/ \E i \in 1..MaxContents, q \in 0..MaxContents :
       \E text \in {"edited", "unreadable"} : EditLine(i, q, text)

Spec == Init /\ [][Next]_vars

-----------------------------------------------------------------------------
(* Type and safety.                                                        *)

Jobs ==
  {Idle}
  \cup [pc : {"admitted"}, command : Commands]
  \cup [pc : {"signed"}, command : Commands, receipt : Receipt]
  \cup [pc : {"staged", "verified"}, command : Commands, receipt : Receipt,
        candidate : Seq(Receipt)]

\* The state of the chain and of every emit is of its type.
TypeOK ==
  /\ chain \in Seq(Receipt)
  /\ job \in [Emitters -> Jobs]
  /\ written \in 0..MaxContents
  /\ issued \subseteq Receipt
  /\ exposed \subseteq issued \cup Receipt
  /\ disturbed \subseteq Emitters
  /\ answer \in [Emitters -> {"none", "refused", "emitted"}]
  /\ faults \in 0..MaxFaults

Unaltered(s) == \A i \in 1..Len(s) : s[i].text = "signed"

Auditable(s) == \E trust \in TrustMaps : VerifyChain(s, trust)

\* chain_atomic.py:31-35 (an emit verifies before it commits): whatever was
\* cut or edited meanwhile, a chain of unedited lines verifies as a whole for
\* someone who trusts one key for each name.  Each emit only checks its own
\* candidate, with its own trust.
ChainAuditable == Unaltered(chain) => Auditable(chain)

\* receipt_emit.py:209 tells the caller a sequence number: the receipt stands
\* at that place from then on, unless another emit already held a candidate
\* when it was committed (the limitation chain_atomic.py:37 documents) or the
\* file was changed from outside.  The two reads of one emit may see different
\* chains.
PlaceKept ==
  \A r \in issued \ exposed :
    r.sequence < Len(chain) /\ chain[r.sequence + 1] = r

\* The --trust entries of c fit the chain s, and its decision was signed with
\* the key it names.
Fits(c, s) ==
  /\ c.decision.key = c.keyId
  /\ \A i \in 1..Len(s) : AllTrust(c)[s[i].signedBy] = s[i].key

\* receipt_emit.py:193-197 (the link is taken from the last line): an emit that
\* nobody disturbs is not refused by the verifier, unless the chain had an
\* edited line or the command's trust does not fit the chain.
RefusedForCause ==
  [][\A e \in Emitters :
       job[e].pc = "staged" /\ job'[e] = Idle /\ answer'[e] = "refused" =>
         \/ e \in disturbed
         \/ ~Unaltered(chain)
         \/ ~Fits(job[e].command, chain)]_vars

=============================================================================
