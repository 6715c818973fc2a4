--------------------------- MODULE Receipts_proofs ---------------------------
(***************************************************************************)
(* Proofs about the receipt chain, for any number of emitters, any set of  *)
(* commands and a chain of any length: what lies in the file verifies as a *)
(* whole, and a committed receipt keeps its place.                         *)
(***************************************************************************)
EXTENDS Receipts, SequenceTheorems, TLAPS

Signed(s, n) == \A i \in 1..n : s[i].text = "signed"
Numbered(s, n) == \A i \in 1..n : s[i].sequence = i - 1

\* The first n lines of s verify with this trust.
VerifiesUpTo(s, n, trust) ==
  /\ \A i \in 1..n : VerifyReceipt(s[i], trust)
  /\ n > 0 => FirstLink(s[1])
  /\ \A i \in 2..n : ChainLink(s[i], s[i - 1])

\* The unedited lines before the first edited one are numbered and verify: a
\* cut may leave just these.
ChainInv ==
  \A n \in 0..Len(chain) :
    Signed(chain, n) =>
      /\ Numbered(chain, n)
      /\ \E trust \in TrustMaps : VerifiesUpTo(chain, n, trust)

\* A candidate is what the chain was at the second read, and the receipt.
Sane(j) ==
  /\ Len(j.candidate) > 0
  /\ j.candidate[Len(j.candidate)] = j.receipt
  /\ \A n \in 0..(Len(j.candidate) - 1) :
       Signed(j.candidate, n) => Numbered(j.candidate, n)
  /\ j.pc = "verified" => VerifyChain(j.candidate, AllTrust(j.command))

CandidateInv == \A e \in Holding : Sane(job[e])

\* What is still promised is in every candidate too.
PlaceInv ==
  /\ PlaceKept
  /\ \A e \in Holding, r \in issued \ exposed :
       /\ r.sequence < Len(job[e].candidate)
       /\ job[e].candidate[r.sequence + 1] = r

IInv == TypeOK /\ ChainInv /\ CandidateInv /\ PlaceInv

-----------------------------------------------------------------------------
\* What the type of a job says of each kind of job.
LEMMA JobFacts ==
  ASSUME TypeOK, NEW e \in Emitters
  PROVE  /\ job[e] \in Jobs
         /\ job[e].pc = "admitted" => job[e].command \in Commands
         /\ job[e].pc = "signed" =>
              job[e].command \in Commands /\ job[e].receipt \in Receipt
         /\ e \in Holding =>
              /\ job[e].command \in Commands
              /\ job[e].receipt \in Receipt
              /\ job[e].candidate \in Seq(Receipt)
              /\ job[e] = [pc |-> job[e].pc, command |-> job[e].command,
                           receipt |-> job[e].receipt,
                           candidate |-> job[e].candidate]
  <1>1. job[e] \in Jobs
    BY DEF TypeOK
  <1>2. CASE job[e] = Idle
    BY <1>1, <1>2 DEF Idle, Holding
  <1>3. CASE job[e] \in [pc : {"admitted"}, command : Commands]
    BY <1>1, <1>3 DEF Holding
  <1>4. CASE job[e] \in [pc : {"signed"}, command : Commands, receipt : Receipt]
    BY <1>1, <1>4 DEF Holding
  <1>5. CASE job[e] \in [pc : {"staged", "verified"}, command : Commands,
                         receipt : Receipt, candidate : Seq(Receipt)]
    BY <1>1, <1>5 DEF Holding
  <1>6. QED  BY <1>1, <1>2, <1>3, <1>4, <1>5 DEF Jobs

LEMMA LinkType ==
  ASSUME NEW s \in Seq(Receipt)
  PROVE  /\ NextLink(s).sequence \in Nat
         /\ NextLink(s).prev \in Contents \cup {GENESIS}
  <1>1. CASE s = <<>>
    BY <1>1 DEF NextLink
  <1>2. CASE s # <<>>
    <2>1. s[Len(s)] \in Receipt
      BY <1>2, EmptySeq, LenProperties
    <2>2. s[Len(s)].sequence \in Nat /\ s[Len(s)].hash \in Contents
      BY <2>1 DEF Receipt
    <2>3. QED  BY <1>2, <2>2 DEF NextLink
  <1>3. QED  BY <1>1, <1>2

LEMMA ReceiptType ==
  ASSUME TypeOK, NEW c \in Commands, written < MaxContents
  PROVE  NewReceipt(c, NextLink(chain)) \in Receipt
  <1>1. c \in Command
    BY ReceiptsAssumption
  <1>2. /\ c.rule \in RuleKinds /\ c.decision \in Decision /\ c.keyId \in Keys
        /\ c.decision.identity \in Identities
    BY <1>1 DEF Command, Decision
  <1>3. written + 1 \in Contents
    BY ReceiptsAssumption DEF TypeOK, Contents
  <1>4. /\ NextLink(chain).sequence \in Nat
        /\ NextLink(chain).prev \in Contents \cup {GENESIS}
    BY LinkType DEF TypeOK
  <1>5. QED  BY <1>2, <1>3, <1>4 DEF NewReceipt, Receipt

-----------------------------------------------------------------------------
LEMMA TypeInit == Init => TypeOK
  <1> SUFFICES ASSUME Init PROVE TypeOK
    OBVIOUS
  <1>1. chain \in Seq(Receipt)
    BY EmptySeq DEF Init
  <1>2. job \in [Emitters -> Jobs]
    BY DEF Init, Jobs
  <1>3. written \in 0..MaxContents /\ faults \in 0..MaxFaults
    BY ReceiptsAssumption DEF Init
  <1>4. QED  BY <1>1, <1>2, <1>3 DEF Init, TypeOK

LEMMA CutType ==
  ASSUME NEW s \in Seq(Receipt), NEW n \in Nat, n < Len(s)
  PROVE  /\ SubSeq(s, 1, n) \in Seq(Receipt)
         /\ Len(SubSeq(s, 1, n)) = n
         /\ \A i \in 1..n : SubSeq(s, 1, n)[i] = s[i]
  <1>1. Len(s) \in Nat
    BY LenProperties
  <1>2. \A i \in 1..n : s[i] \in Receipt
    BY <1>1, ElementOfSeq
  <1>3. QED  BY <1>1, <1>2, SubSeqProperties

LEMMA EditType ==
  ASSUME TypeOK, NEW i \in 1..MaxContents, NEW q \in 0..MaxContents,
         NEW text \in {"edited", "unreadable"}, EditLine(i, q, text)
  PROVE  /\ chain' \in Seq(Receipt)
         /\ Len(chain') = Len(chain)
         /\ \A j \in 1..Len(chain) : j # i => chain'[j] = chain[j]
         /\ chain'[i].text # "signed"
         /\ chain[i] \in Receipt
  <1>1. i \in 1..Len(chain) /\ Len(chain) \in Nat
    BY LenProperties DEF EditLine, TypeOK
  <1>2. chain[i] \in Receipt
    BY <1>1, ElementOfSeq DEF TypeOK
  <1> DEFINE line == [chain[i] EXCEPT !.hash = written + 1, !.sequence = q,
                                      !.text = text]
  <1>3. written + 1 \in Contents /\ q \in Nat
    BY ReceiptsAssumption DEF EditLine, TypeOK, Contents
  <1>4. line \in Receipt /\ line.text = text
    BY <1>2, <1>3 DEF Receipt
  <1>5. chain' = [chain EXCEPT ![i] = line]
    BY <1>1, <1>2 DEF EditLine, Receipt, TypeOK
  <1>6. QED
    BY <1>1, <1>2, <1>4, <1>5, ExceptSeq DEF TypeOK

\* A job stops, or goes on to another job.
LEMMA RefuseType ==
  ASSUME TypeOK, NEW e \in Emitters, RefuseEmit(e)
  PROVE  TypeOK'
  <1>1. job' \in [Emitters -> Jobs]
    BY DEF TypeOK, RefuseEmit, Jobs
  <1>2. QED  BY <1>1 DEF TypeOK, RefuseEmit

\* The same job one step further.
LEMMA VerifiedType ==
  ASSUME TypeOK, NEW e \in Holding
  PROVE  /\ [job[e] EXCEPT !.pc = "verified"] =
              [pc |-> "verified", command |-> job[e].command,
               receipt |-> job[e].receipt, candidate |-> job[e].candidate]
         /\ [job[e] EXCEPT !.pc = "verified"] \in Jobs
  <1>1. e \in Emitters
    BY DEF Holding
  <1>2. /\ job[e].command \in Commands /\ job[e].receipt \in Receipt
        /\ job[e].candidate \in Seq(Receipt)
        /\ job[e] = [pc |-> job[e].pc, command |-> job[e].command,
                     receipt |-> job[e].receipt, candidate |-> job[e].candidate]
    BY <1>1, JobFacts
  <1>3. [job[e] EXCEPT !.pc = "verified"] =
          [pc |-> "verified", command |-> job[e].command,
           receipt |-> job[e].receipt, candidate |-> job[e].candidate]
    BY <1>2
  <1>4. QED  BY <1>2, <1>3 DEF Jobs

LEMMA TypeStep == TypeOK /\ [Next]_vars => TypeOK'
  <1> SUFFICES ASSUME TypeOK, [Next]_vars PROVE TypeOK'
    OBVIOUS
  <1>1. CASE UNCHANGED vars
    BY <1>1 DEF vars, TypeOK
  <1>2. ASSUME NEW e \in Emitters, NEW c \in Commands, Begin(e, c) PROVE TypeOK'
    <2>1. [pc |-> "admitted", command |-> c] \in Jobs
      BY DEF Jobs
    <2>2. job' \in [Emitters -> Jobs]
      BY <1>2, <2>1 DEF TypeOK, Begin
    <2>3. QED  BY <1>2, <2>2 DEF TypeOK, Begin
  <1>3. ASSUME NEW e \in Emitters, NEW c \in Commands, RefuseCommand(e, c)
        PROVE  TypeOK'
    BY <1>3, RefuseType DEF RefuseCommand
  <1>4. ASSUME NEW e \in Emitters, Link(e) PROVE TypeOK'
    <2>1. job[e].command \in Commands /\ written < MaxContents
      BY <1>4, JobFacts DEF Link
    <2>2. NewReceipt(job[e].command, NextLink(chain)) \in Receipt
      BY <2>1, ReceiptType
    <2>3. job' \in [Emitters -> Jobs]
      BY <1>4, <2>1, <2>2 DEF TypeOK, Link, Jobs
    <2>4. written' \in 0..MaxContents
      BY <1>4, ReceiptsAssumption DEF TypeOK, Link
    <2>5. QED  BY <1>4, <2>3, <2>4 DEF TypeOK, Link
  <1>5. ASSUME NEW e \in Emitters, RefuseLink(e) PROVE TypeOK'
    BY <1>5, RefuseType DEF RefuseLink
  <1>6. ASSUME NEW e \in Emitters, Stage(e) PROVE TypeOK'
    <2>1. job[e].command \in Commands /\ job[e].receipt \in Receipt
      BY <1>6, JobFacts DEF Stage
    <2>2. Candidate(job[e].receipt) \in Seq(Receipt)
      BY <2>1, AppendProperties DEF Candidate, TypeOK
    <2>3. job' \in [Emitters -> Jobs]
      BY <1>6, <2>1, <2>2 DEF TypeOK, Stage, Jobs
    <2>4. QED  BY <1>6, <2>3 DEF TypeOK, Stage
  <1>7. ASSUME NEW e \in Emitters, Accept(e) PROVE TypeOK'
    <2>1. e \in Holding
      BY <1>7 DEF Accept, Holding
    <2>2. [job[e] EXCEPT !.pc = "verified"] \in Jobs
      BY <2>1, JobFacts, VerifiedType
    <2>3. job' \in [Emitters -> Jobs]
      BY <1>7, <2>2 DEF TypeOK, Accept
    <2>4. QED  BY <1>7, <2>3 DEF TypeOK, Accept
  <1>8. ASSUME NEW e \in Emitters, Reject(e) PROVE TypeOK'
    BY <1>8, RefuseType DEF Reject
  <1>9. ASSUME NEW e \in Emitters, Commit(e) PROVE TypeOK'
    <2>1. job[e].candidate \in Seq(Receipt) /\ job[e].receipt \in Receipt
      BY <1>9, JobFacts DEF Commit, Holding
    <2>2. job' \in [Emitters -> Jobs]
      BY <1>9 DEF TypeOK, Commit, Jobs
    <2>3. QED  BY <1>9, <2>1, <2>2 DEF TypeOK, Commit
  <1>10. ASSUME NEW e \in Emitters, Kill(e) PROVE TypeOK'
    <2>1. job' \in [Emitters -> Jobs]
      BY <1>10 DEF TypeOK, Kill, Jobs
    <2>2. QED  BY <1>10, <2>1 DEF TypeOK, Kill
  <1>11. ASSUME NEW n \in 0..MaxContents, CutChain(n) PROVE TypeOK'
    <2>1. chain' \in Seq(Receipt)
      BY <1>11, CutType DEF CutChain, TypeOK
    <2>2. {chain[i] : i \in (n + 1)..Len(chain)} \subseteq Receipt
      <3>1. Len(chain) \in Nat /\ n \in Nat
        BY LenProperties, ReceiptsAssumption DEF TypeOK
      <3>2. \A i \in (n + 1)..Len(chain) : i \in 1..Len(chain)
        BY <3>1
      <3>3. QED  BY <3>2, ElementOfSeq DEF TypeOK
    <2>3. faults' \in 0..MaxFaults
      BY <1>11, ReceiptsAssumption DEF CutChain, Meddle, TypeOK
    <2>4. QED  BY <1>11, <2>1, <2>2, <2>3 DEF TypeOK, CutChain, Meddle
  <1>12. ASSUME NEW i \in 1..MaxContents, NEW q \in 0..MaxContents,
                NEW text \in {"edited", "unreadable"}, EditLine(i, q, text)
         PROVE  TypeOK'
    <2>1. chain' \in Seq(Receipt) /\ chain[i] \in Receipt
      BY <1>12, EditType
    <2>2. faults' \in 0..MaxFaults /\ written' \in 0..MaxContents
      BY <1>12, ReceiptsAssumption DEF EditLine, Meddle, TypeOK
    <2>3. QED  BY <1>12, <2>1, <2>2 DEF TypeOK, EditLine, Meddle
  <1>13. QED
    BY <1>1, <1>2, <1>3, <1>4, <1>5, <1>6, <1>7, <1>8, <1>9, <1>10, <1>11, <1>12
       DEF Next

-----------------------------------------------------------------------------
LEMMA InvInit == Init => IInv
  <1> SUFFICES ASSUME Init PROVE IInv
    OBVIOUS
  <1>1. TypeOK
    BY TypeInit
  <1>2. Holding = {}
    BY DEF Init, Holding, Idle
  <1>3. ChainInv
    <2>1. Len(chain) = 0
      BY DEF Init
    <2>2. PICK trust \in TrustMaps : TRUE
      <3>1. [i \in Identities |-> NoKey] \in TrustMaps
        BY DEF TrustMaps
      <3>2. QED  BY <3>1
    <2>3. Numbered(chain, 0) /\ VerifiesUpTo(chain, 0, trust)
      BY DEF Numbered, VerifiesUpTo
    <2>4. QED  BY <2>1, <2>2, <2>3 DEF ChainInv
  <1>4. CandidateInv /\ PlaceInv
    BY <1>2 DEF Init, CandidateInv, PlaceInv, PlaceKept
  <1>5. QED  BY <1>1, <1>3, <1>4 DEF IInv

\* Steps that leave the file alone and give nobody a candidate.
LEMMA QuietStep ==
  ASSUME IInv, TypeOK', UNCHANGED <<chain, issued, exposed>>,
         \A f \in Holding' : f \in Holding /\ job'[f] = job[f]
  PROVE  IInv'
  <1>1. ChainInv'
    BY DEF IInv, ChainInv, Signed, Numbered, VerifiesUpTo
  <1>2. CandidateInv'
    BY DEF IInv, CandidateInv
  <1>3. PlaceInv'
    BY DEF IInv, PlaceInv, PlaceKept
  <1>4. QED  BY <1>1, <1>2, <1>3 DEF IInv

LEMMA RefuseStep ==
  ASSUME IInv, TypeOK', NEW e \in Emitters, RefuseEmit(e)
  PROVE  IInv'
  <1>1. \A f \in Holding' : f \in Holding /\ job'[f] = job[f]
    BY DEF IInv, TypeOK, RefuseEmit, Holding, Idle
  <1>2. QED  BY <1>1, QuietStep DEF RefuseEmit

\* The second read: the candidate is the chain and one more line.
LEMMA StageStep ==
  ASSUME IInv, TypeOK', NEW e \in Emitters, Stage(e)
  PROVE  IInv'
  <1> DEFINE r == job[e].receipt
             c == Append(chain, r)
  <1>1. r \in Receipt /\ chain \in Seq(Receipt) /\ Len(chain) \in Nat
    BY JobFacts, LenProperties DEF Stage, IInv, TypeOK
  <1>2. /\ Len(c) = Len(chain) + 1 /\ c[Len(c)] = r
        /\ \A i \in 1..Len(chain) : c[i] = chain[i]
    BY <1>1, AppendProperties
  <1>3. /\ job'[e].pc = "staged" /\ job'[e].receipt = r
        /\ job'[e].candidate = c
    BY DEF Stage, Candidate, IInv, TypeOK
  <1>4. \A f \in Holding' : f # e => f \in Holding /\ job'[f] = job[f]
    BY DEF Stage, Holding, IInv, TypeOK
  <1>5. ChainInv'
    BY DEF IInv, ChainInv, Signed, Numbered, VerifiesUpTo, Stage
  <1>6. CandidateInv'
    <2>1. ASSUME NEW f \in Holding', f # e PROVE Sane(job'[f])
      BY <1>4, <2>1 DEF IInv, CandidateInv
    <2>2. ASSUME NEW n \in 0..(Len(c) - 1), Signed(c, n) PROVE Numbered(c, n)
      <3>1. n \in 0..Len(chain) /\ \A i \in 1..n : i \in 1..Len(chain) /\ c[i] = chain[i]
        BY <1>1, <1>2
      <3>2. Signed(chain, n)
        BY <2>2, <3>1 DEF Signed
      <3>3. Numbered(chain, n)
        BY <3>1, <3>2 DEF IInv, ChainInv
      <3>4. QED  BY <3>1, <3>3 DEF Numbered
    <2>3. Len(c) > 0
      BY <1>1, <1>2
    <2>4. Sane(job'[e])
      <3> HIDE DEF c, r
      <3>1. QED  BY <1>2, <1>3, <2>2, <2>3 DEF Sane
    <2>5. QED  BY <2>1, <2>4 DEF CandidateInv
  <1>7. PlaceInv'
    <2>1. PlaceKept'
      BY DEF IInv, PlaceInv, PlaceKept, Stage
    <2>2. ASSUME NEW x \in (issued \ exposed)'
          PROVE  x.sequence < Len(c) /\ c[x.sequence + 1] = x
      <3>1. x \in issued \ exposed
        BY DEF Stage
      <3>2. x.sequence < Len(chain) /\ chain[x.sequence + 1] = x
        BY <3>1 DEF IInv, PlaceInv, PlaceKept
      <3>3. x.sequence \in Nat
        BY <3>1 DEF IInv, TypeOK, Receipt
      <3>4. QED  BY <1>1, <1>2, <3>2, <3>3
    <2>3. ASSUME NEW f \in Holding', NEW x \in (issued \ exposed)'
          PROVE  /\ x.sequence < Len(job'[f].candidate)
                 /\ job'[f].candidate[x.sequence + 1] = x
      <3>1. CASE f = e
        BY <1>3, <2>2, <3>1
      <3>2. CASE f # e
        BY <1>4, <3>2 DEF IInv, PlaceInv, Stage
      <3>3. QED  BY <3>1, <3>2
    <2>4. QED  BY <2>1, <2>3 DEF PlaceInv
  <1>8. QED  BY <1>5, <1>6, <1>7 DEF IInv

LEMMA AcceptStep ==
  ASSUME IInv, TypeOK', NEW e \in Emitters, Accept(e)
  PROVE  IInv'
  <1>1. e \in Holding
    BY DEF Accept, Holding
  <1>2. job'[e] = [pc |-> "verified", command |-> job[e].command,
                   receipt |-> job[e].receipt, candidate |-> job[e].candidate]
    BY <1>1, VerifiedType DEF Accept, IInv, TypeOK
  <1>3. \A f \in Holding' : f # e => f \in Holding /\ job'[f] = job[f]
    BY DEF Accept, Holding, IInv, TypeOK
  <1>4. ChainInv'
    BY DEF IInv, ChainInv, Signed, Numbered, VerifiesUpTo, Accept
  <1>5. Sane(job'[e])
    <2>1. Sane(job[e]) /\ VerifyChain(job[e].candidate, AllTrust(job[e].command))
      BY <1>1 DEF Accept, SelfVerify, IInv, CandidateInv
    <2>2. /\ job'[e].candidate = job[e].candidate
          /\ job'[e].receipt = job[e].receipt /\ job'[e].command = job[e].command
      BY <1>2
    <2>3. QED  BY <2>1, <2>2 DEF Sane
  <1>6. CandidateInv'
    BY <1>3, <1>5 DEF IInv, CandidateInv
  <1>7. PlaceInv'
    BY <1>1, <1>2, <1>3 DEF IInv, PlaceInv, PlaceKept, Accept
  <1>8. QED  BY <1>4, <1>6, <1>7 DEF IInv

\* A verified candidate is a chain like the one it replaces, and its last line
\* is the receipt, at the place it names.
LEMMA VerifiedChain ==
  ASSUME IInv, NEW e \in Emitters, job[e].pc = "verified"
  PROVE  LET s == job[e].candidate
             r == job[e].receipt
         IN  /\ s \in Seq(Receipt) /\ Len(s) \in Nat
             /\ r \in Receipt
             /\ \A n \in 0..Len(s) :
                  /\ Numbered(s, n)
                  /\ \E trust \in TrustMaps : VerifiesUpTo(s, n, trust)
             /\ r.sequence = Len(s) - 1 /\ s[Len(s)] = r
  <1> DEFINE s == job[e].candidate
             r == job[e].receipt
             trust == AllTrust(job[e].command)
  <1>1. e \in Holding
    BY DEF Holding
  <1>2. s \in Seq(Receipt) /\ Len(s) \in Nat /\ r \in Receipt
        /\ job[e].command \in Command
    BY <1>1, JobFacts, LenProperties, ReceiptsAssumption DEF IInv
  <1>3. /\ Len(s) > 0 /\ s[Len(s)] = r
        /\ \A n \in 0..(Len(s) - 1) : Signed(s, n) => Numbered(s, n)
        /\ VerifyChain(s, trust)
    BY <1>1 DEF IInv, CandidateInv, Sane
  <1>4. trust \in TrustMaps
    BY <1>2 DEF AllTrust, Command, TrustMaps
  <1> HIDE DEF s, r, trust
  <1>5. Numbered(s, Len(s) - 1)
    BY <1>2, <1>3 DEF VerifyChain, VerifyReceipt, Signed
  <1>6. s[Len(s)].sequence = Len(s) - 1
    <2>1. CASE Len(s) = 1
      BY <1>2, <1>3, <2>1 DEF VerifyChain, FirstLink
    <2>2. CASE Len(s) # 1
      <3>0. ASSUME NEW n \in Nat, n > 0, n # 1
            PROVE  n \in 2..n /\ n - 1 \in 1..(n - 1)
        BY <3>0
      <3>1. Len(s) \in 2..Len(s) /\ Len(s) - 1 \in 1..(Len(s) - 1)
        BY <1>2, <1>3, <2>2, <3>0
      <3>2. ChainLink(s[Len(s)], s[Len(s) - 1])
        BY <1>3, <3>1 DEF VerifyChain
      <3>3. s[Len(s) - 1].sequence = (Len(s) - 1) - 1
        BY <1>5, <3>1 DEF Numbered
      <3>4. s[Len(s)].sequence \in Nat
        BY <1>2, <1>3 DEF Receipt
      <3>5. QED  BY <1>2, <3>2, <3>3, <3>4 DEF ChainLink
    <2>3. QED  BY <2>1, <2>2
  <1>7. \A n \in 0..Len(s) : Numbered(s, n)
    BY <1>2, <1>5, <1>6 DEF Numbered
  <1>8. \A n \in 0..Len(s) : VerifiesUpTo(s, n, trust)
    BY <1>2, <1>3 DEF VerifyChain, VerifiesUpTo
  <1>9. QED  BY <1>2, <1>3, <1>4, <1>6, <1>7, <1>8 DEF s, r

LEMMA CommitStep ==
  ASSUME IInv, TypeOK', NEW e \in Emitters, Commit(e)
  PROVE  IInv'
  <1> DEFINE s == job[e].candidate
             r == job[e].receipt
  <1>1. /\ s \in Seq(Receipt) /\ Len(s) \in Nat
        /\ r \in Receipt
        /\ \A n \in 0..Len(s) :
             Numbered(s, n) /\ \E trust \in TrustMaps : VerifiesUpTo(s, n, trust)
        /\ r.sequence = Len(s) - 1 /\ s[Len(s)] = r
    BY VerifiedChain DEF Commit
  <1>2. chain' = s /\ issued' = issued \cup {r} /\ exposed \subseteq exposed'
    BY DEF Commit
  <1>3. \A f \in Holding' : f \in Holding \ {e} /\ job'[f] = job[f]
    BY DEF Commit, Holding, Idle, IInv, TypeOK
  <1>4. e \in Holding
    BY DEF Commit, Holding
  <1> HIDE DEF s, r
  <1>5. ChainInv'
    BY <1>1, <1>2 DEF ChainInv, Numbered, VerifiesUpTo
  <1>6. CandidateInv'
    BY <1>3 DEF IInv, CandidateInv
  <1>7. PlaceKept'
    <2>1. ASSUME NEW x \in (issued \ exposed)'
          PROVE  x.sequence < Len(s) /\ s[x.sequence + 1] = x
      <3>1. CASE x = r
        BY <1>1, <3>1
      <3>2. CASE x # r
        <4>1. x \in issued \ exposed
          BY <1>2, <3>2
        <4>2. QED  BY <1>4, <4>1 DEF IInv, PlaceInv, s
      <3>3. QED  BY <3>1, <3>2
    <2>2. QED  BY <1>2, <2>1 DEF PlaceKept
  <1>8. ASSUME NEW f \in Holding' PROVE (issued \ exposed)' \subseteq issued \ exposed
    <2>1. Holding \ {e} # {}
      BY <1>3
    <2>2. exposed' = exposed \cup {r}
      BY <2>1 DEF Commit, r
    <2>3. QED  BY <1>2, <2>2
  <1>9. PlaceInv'
    BY <1>3, <1>7, <1>8 DEF IInv, PlaceInv
  <1>10. QED  BY <1>5, <1>6, <1>9 DEF IInv

\* A change from outside leaves the candidates alone and promises less.
LEMMA MeddleStep ==
  ASSUME IInv, TypeOK', Meddle, exposed \subseteq exposed', ChainInv', PlaceKept'
  PROVE  IInv'
  <1>1. Holding' = Holding /\ job' = job /\ issued' = issued
    BY DEF Meddle, Holding
  <1>2. CandidateInv'
    BY <1>1 DEF IInv, CandidateInv
  <1>3. PlaceInv'
    BY <1>1 DEF IInv, PlaceInv
  <1>4. QED  BY <1>2, <1>3 DEF IInv

\* What is said of the first lines of a file depends on these lines only.
LEMMA SamePrefix ==
  ASSUME NEW s, NEW u, NEW n \in Nat, \A i \in 1..n : s[i] = u[i]
  PROVE  /\ Signed(s, n) => Signed(u, n)
         /\ Numbered(s, n) => Numbered(u, n)
         /\ \A trust : VerifiesUpTo(s, n, trust) => VerifiesUpTo(u, n, trust)
  <1>1. \A i \in 2..n : i \in 1..n /\ i - 1 \in 1..n
    OBVIOUS
  <1>2. n > 0 => 1 \in 1..n
    OBVIOUS
  <1>3. QED  BY <1>1, <1>2 DEF Signed, Numbered, VerifiesUpTo

LEMMA CutStep ==
  ASSUME IInv, TypeOK', NEW n \in 0..MaxContents, CutChain(n)
  PROVE  IInv'
  <1>1. chain \in Seq(Receipt) /\ Len(chain) \in Nat /\ n \in Nat /\ n < Len(chain)
    BY LenProperties, ReceiptsAssumption DEF IInv, TypeOK, CutChain
  <1>2. Len(chain') = n /\ \A i \in 1..n : chain'[i] = chain[i]
    BY <1>1, CutType DEF CutChain
  <1>3. ChainInv'
    <2>1. ASSUME NEW m \in 0..n, Signed(chain', m)
          PROVE  /\ Numbered(chain', m)
                 /\ \E trust \in TrustMaps : VerifiesUpTo(chain', m, trust)
      <3>1. m \in Nat /\ m \in 0..Len(chain) /\ \A j \in 1..m : chain[j] = chain'[j]
        BY <1>1, <1>2
      <3>2. QED  BY <2>1, <3>1, SamePrefix DEF IInv, ChainInv
    <2>2. QED  BY <1>2, <2>1 DEF ChainInv
  <1>4. PlaceKept'
    <2>1. ASSUME NEW x \in (issued \ exposed)'
          PROVE  x.sequence < n /\ chain'[x.sequence + 1] = x
      <3>1. x \in issued \ exposed /\ x \notin {chain[i] : i \in (n + 1)..Len(chain)}
        BY DEF CutChain, Meddle
      <3>2. x.sequence < Len(chain) /\ chain[x.sequence + 1] = x
        BY <3>1 DEF IInv, PlaceInv, PlaceKept
      <3>3. x.sequence \in Nat
        BY <3>1 DEF IInv, TypeOK, Receipt
      <3>4. x.sequence + 1 \notin (n + 1)..Len(chain)
        BY <3>1, <3>2
      <3>5. QED  BY <1>1, <1>2, <3>2, <3>3, <3>4
    <2>2. QED  BY <1>2, <2>1 DEF PlaceKept
  <1>5. QED  BY <1>3, <1>4, MeddleStep DEF CutChain

LEMMA EditStep ==
  ASSUME IInv, TypeOK', NEW i \in 1..MaxContents, NEW q \in 0..MaxContents,
         NEW text \in {"edited", "unreadable"}, EditLine(i, q, text)
  PROVE  IInv'
  <1>1. /\ Len(chain') = Len(chain)
        /\ \A j \in 1..Len(chain) : j # i => chain'[j] = chain[j]
        /\ chain'[i].text # "signed"
    BY EditType DEF IInv
  <1>2. Len(chain) \in Nat /\ i \in 1..Len(chain)
    BY LenProperties DEF IInv, TypeOK, EditLine
  <1>3. ASSUME NEW n \in 0..Len(chain), Signed(chain', n)
        PROVE  /\ Numbered(chain', n)
               /\ \E trust \in TrustMaps : VerifiesUpTo(chain', n, trust)
    <2>1. n < i
      BY <1>1, <1>2, <1>3 DEF Signed
    <2>2. n \in Nat /\ \A j \in 1..n : chain[j] = chain'[j]
      BY <1>1, <1>2, <2>1
    <2>3. QED
      BY <1>3, <2>2, SamePrefix DEF IInv, ChainInv
  <1>4. ChainInv'
    BY <1>1, <1>3 DEF ChainInv
  <1>5. PlaceKept'
    <2>1. ASSUME NEW x \in (issued \ exposed)'
          PROVE  x.sequence < Len(chain) /\ chain'[x.sequence + 1] = x
      <3>1. x \in issued \ exposed /\ x # chain[i]
        BY DEF EditLine, Meddle
      <3>2. x.sequence < Len(chain) /\ chain[x.sequence + 1] = x
        BY <3>1 DEF IInv, PlaceInv, PlaceKept
      <3>3. x.sequence \in Nat
        BY <3>1 DEF IInv, TypeOK, Receipt
      <3>4. QED  BY <1>1, <1>2, <3>1, <3>2, <3>3
    <2>2. QED  BY <1>1, <2>1 DEF PlaceKept
  <1>6. QED  BY <1>4, <1>5, MeddleStep DEF EditLine

LEMMA InvStep == IInv /\ [Next]_vars => IInv'
  <1> SUFFICES ASSUME IInv, [Next]_vars PROVE IInv'
    OBVIOUS
  <1>0. TypeOK'
    BY TypeStep DEF IInv
  <1>1. CASE UNCHANGED vars
    <2>1. \A f \in Holding' : f \in Holding /\ job'[f] = job[f]
      BY <1>1 DEF vars, Holding
    <2>2. QED  BY <1>0, <1>1, <2>1, QuietStep DEF vars
  <1>2. ASSUME NEW e \in Emitters, NEW c \in Commands, Begin(e, c) PROVE IInv'
    <2>1. \A f \in Holding' : f \in Holding /\ job'[f] = job[f]
      BY <1>2 DEF Begin, Holding, IInv, TypeOK
    <2>2. QED  BY <1>0, <1>2, <2>1, QuietStep DEF Begin
  <1>3. ASSUME NEW e \in Emitters, NEW c \in Commands, RefuseCommand(e, c)
        PROVE  IInv'
    BY <1>0, <1>3, RefuseStep DEF RefuseCommand
  <1>4. ASSUME NEW e \in Emitters, Link(e) PROVE IInv'
    <2>1. \A f \in Holding' : f \in Holding /\ job'[f] = job[f]
      BY <1>4 DEF Link, Holding, IInv, TypeOK
    <2>2. QED  BY <1>0, <1>4, <2>1, QuietStep DEF Link
  <1>5. ASSUME NEW e \in Emitters, RefuseLink(e) PROVE IInv'
    BY <1>0, <1>5, RefuseStep DEF RefuseLink
  <1>6. ASSUME NEW e \in Emitters, Stage(e) PROVE IInv'
    BY <1>0, <1>6, StageStep
  <1>7. ASSUME NEW e \in Emitters, Accept(e) PROVE IInv'
    BY <1>0, <1>7, AcceptStep
  <1>8. ASSUME NEW e \in Emitters, Reject(e) PROVE IInv'
    BY <1>0, <1>8, RefuseStep DEF Reject
  <1>9. ASSUME NEW e \in Emitters, Commit(e) PROVE IInv'
    BY <1>0, <1>9, CommitStep
  <1>10. ASSUME NEW e \in Emitters, Kill(e) PROVE IInv'
    <2>1. \A f \in Holding' : f \in Holding /\ job'[f] = job[f]
      BY <1>10 DEF Kill, Holding, Idle, IInv, TypeOK
    <2>2. QED  BY <1>0, <1>10, <2>1, QuietStep DEF Kill
  <1>11. ASSUME NEW n \in 0..MaxContents, CutChain(n) PROVE IInv'
    BY <1>0, <1>11, CutStep
  <1>12. ASSUME NEW i \in 1..MaxContents, NEW q \in 0..MaxContents,
                NEW text \in {"edited", "unreadable"}, EditLine(i, q, text)
         PROVE  IInv'
    BY <1>0, <1>12, EditStep
  <1>13. QED
    BY <1>1, <1>2, <1>3, <1>4, <1>5, <1>6, <1>7, <1>8, <1>9, <1>10, <1>11, <1>12
       DEF Next

LEMMA Invariant == Spec => []IInv
  <1>1. QED  BY InvInit, InvStep, PTL DEF Spec

-----------------------------------------------------------------------------
\* The state of the chain and of every emit is of its type.
THEOREM TypeCorrect == Spec => []TypeOK
  <1>1. IInv => TypeOK
    BY DEF IInv
  <1>2. QED  BY <1>1, Invariant, PTL

\* chain_atomic.py:31-35, for any number of emitters and a chain of any
\* length: a chain whose lines are as they were signed verifies as a whole
\* under one trust map, whatever was cut off it or edited meanwhile.
THEOREM AlwaysAuditable == Spec => []ChainAuditable
  <1>1. IInv => ChainAuditable
    <2> SUFFICES ASSUME IInv, Unaltered(chain) PROVE Auditable(chain)
      BY DEF ChainAuditable
    <2>1. chain \in Seq(Receipt) /\ Len(chain) \in Nat
      BY LenProperties DEF IInv, TypeOK
    <2>2. PICK trust \in TrustMaps : VerifiesUpTo(chain, Len(chain), trust)
      BY <2>1 DEF IInv, ChainInv, Signed, Unaltered
    <2>3. chain # <<>> => Len(chain) > 0
      BY <2>1, EmptySeq
    <2>4. VerifyChain(chain, trust)
      BY <2>1, <2>2, <2>3 DEF VerifyChain, VerifiesUpTo
    <2>5. QED  BY <2>4 DEF Auditable
  <1>2. QED  BY <1>1, Invariant, PTL

\* receipt_emit.py:209, for any number of emitters: a committed receipt stands
\* where its sequence number says, unless a candidate was held by another emit
\* when it was committed or the file was changed from outside.
THEOREM AlwaysInPlace == Spec => []PlaceKept
  <1>1. IInv => PlaceKept
    BY DEF IInv, PlaceInv
  <1>2. QED  BY <1>1, Invariant, PTL

-----------------------------------------------------------------------------
(* Why an emit is refused by the verifier.                                 *)

\* The receipt is what the command asked for.
Faithful(j) ==
  /\ Admissible(j.command)
  /\ j.receipt.rule = j.command.rule
  /\ j.receipt.decision = j.command.decision
  /\ j.receipt.signedBy = j.command.decision.identity
  /\ j.receipt.key = j.command.keyId
  /\ j.receipt.text = "signed"

\* The receipt is linked to the last line.
LinkedTo(r, s) == r.sequence = NextLink(s).sequence /\ r.prev = NextLink(s).prev

\* What an emit that nobody disturbed knows of the chain is still so.
FreshInv ==
  \A e \in Emitters :
    /\ job[e].pc = "admitted" => Admissible(job[e].command)
    /\ job[e].pc \in {"signed", "staged"} => Faithful(job[e])
    /\ job[e].pc \in {"signed", "staged"} /\ e \notin disturbed =>
         LinkedTo(job[e].receipt, chain)
    /\ job[e].pc = "staged" /\ e \notin disturbed =>
         job[e].candidate = Append(chain, job[e].receipt)

LEMMA FreshInit == Init => FreshInv
  <1> SUFFICES ASSUME Init, NEW e \in Emitters PROVE job[e].pc = "idle"
    BY DEF FreshInv
  <1>1. QED  BY DEF Init, Idle

\* A step of e leaves the other emits as they are.
LEMMA FreshOthers ==
  ASSUME FreshInv, NEW e \in Emitters,
         \A f \in Emitters \ {e} : job'[f] = job[f],
         \A f \in Emitters \ {e} : f \notin disturbed' => f \notin disturbed,
         chain' # chain => \A f \in Emitters \ {e} : f \in disturbed',
         job'[e].pc = "admitted" => Admissible(job'[e].command),
         job'[e].pc \in {"signed", "staged"} => Faithful(job'[e]),
         job'[e].pc \in {"signed", "staged"} /\ e \notin disturbed' =>
           LinkedTo(job'[e].receipt, chain'),
         job'[e].pc = "staged" /\ e \notin disturbed' =>
           job'[e].candidate = Append(chain', job'[e].receipt)
  PROVE  FreshInv'
  <1>1. ASSUME NEW f \in Emitters \ {e}
        PROVE  /\ job'[f].pc = "admitted" => Admissible(job'[f].command)
               /\ job'[f].pc \in {"signed", "staged"} => Faithful(job'[f])
               /\ job'[f].pc \in {"signed", "staged"} /\ f \notin disturbed' =>
                    LinkedTo(job'[f].receipt, chain')
               /\ job'[f].pc = "staged" /\ f \notin disturbed' =>
                    job'[f].candidate = Append(chain', job'[f].receipt)
    BY <1>1 DEF FreshInv
  <1>2. QED  BY <1>1 DEF FreshInv

LEMMA FreshIdle ==
  ASSUME TypeOK, FreshInv, NEW e \in Emitters,
         job' = [job EXCEPT ![e] = Idle],
         \A f \in Emitters \ {e} : f \notin disturbed' => f \notin disturbed,
         chain' # chain => \A f \in Emitters \ {e} : f \in disturbed'
  PROVE  FreshInv'
  <1>1. /\ \A f \in Emitters \ {e} : job'[f] = job[f]
        /\ job'[e].pc = "idle"
    BY DEF TypeOK, Idle
  <1>2. QED  BY <1>1, FreshOthers

LEMMA FreshStep == TypeOK /\ FreshInv /\ [Next]_vars => FreshInv'
  <1> SUFFICES ASSUME TypeOK, FreshInv, [Next]_vars PROVE FreshInv'
    OBVIOUS
  <1>1. CASE UNCHANGED vars
    BY <1>1 DEF vars, FreshInv, LinkedTo, NextLink, Faithful, Admissible
  <1>2. ASSUME NEW e \in Emitters, NEW c \in Commands, Begin(e, c) PROVE FreshInv'
    <2>1. /\ \A f \in Emitters \ {e} : job'[f] = job[f]
          /\ job'[e].pc = "admitted" /\ job'[e].command = c
          /\ chain' = chain /\ disturbed' = disturbed /\ Admissible(c)
      BY <1>2 DEF Begin, TypeOK
    <2>2. QED  BY <2>1, FreshOthers
  <1>3. ASSUME NEW e \in Emitters, RefuseEmit(e) PROVE FreshInv'
    BY <1>3, FreshIdle DEF RefuseEmit
  <1>4. ASSUME NEW e \in Emitters, Link(e) PROVE FreshInv'
    <2> DEFINE r == NewReceipt(job[e].command, NextLink(chain))
    <2>1. /\ \A f \in Emitters \ {e} : job'[f] = job[f]
          /\ job'[e].pc = "signed" /\ job'[e].command = job[e].command
          /\ job'[e].receipt = r
          /\ chain' = chain /\ disturbed' = disturbed \ {e}
          /\ job[e].pc = "admitted"
      BY <1>4 DEF Link, TypeOK
    <2>2. /\ r.rule = job[e].command.rule
          /\ r.decision = job[e].command.decision
          /\ r.signedBy = job[e].command.decision.identity
          /\ r.key = job[e].command.keyId /\ r.text = "signed"
          /\ LinkedTo(r, chain)
      BY DEF NewReceipt, LinkedTo
    <2> HIDE DEF r
    <2>3. Faithful(job'[e])
      BY <2>1, <2>2 DEF Faithful, FreshInv
    <2>4. QED  BY <2>1, <2>2, <2>3, FreshOthers
  <1>6. ASSUME NEW e \in Emitters, Stage(e) PROVE FreshInv'
    <2>1. /\ \A f \in Emitters \ {e} : job'[f] = job[f]
          /\ job'[e].pc = "staged" /\ job'[e].command = job[e].command
          /\ job'[e].receipt = job[e].receipt
          /\ job'[e].candidate = Append(chain, job[e].receipt)
          /\ chain' = chain /\ disturbed' = disturbed
          /\ job[e].pc = "signed"
      BY <1>6 DEF Stage, Candidate, TypeOK
    <2>2. Faithful(job[e]) /\ (e \notin disturbed => LinkedTo(job[e].receipt, chain))
      BY <2>1 DEF FreshInv
    <2>3. Faithful(job'[e])
      BY <2>1, <2>2 DEF Faithful
    <2>4. QED  BY <2>1, <2>2, <2>3, FreshOthers
  <1>7. ASSUME NEW e \in Emitters, Accept(e) PROVE FreshInv'
    <2>1. /\ \A f \in Emitters \ {e} : job'[f] = job[f]
          /\ chain' = chain /\ disturbed' = disturbed
      BY <1>7 DEF Accept, TypeOK
    <2>2. job'[e].pc = "verified"
      BY <1>7, VerifiedType DEF Accept, Holding, TypeOK
    <2>3. QED  BY <2>1, <2>2, FreshOthers
  <1>9. ASSUME NEW e \in Emitters, Commit(e) PROVE FreshInv'
    BY <1>9, FreshIdle DEF Commit
  <1>10. ASSUME NEW e \in Emitters, Kill(e) PROVE FreshInv'
    BY <1>10, FreshIdle DEF Kill
  <1>11. ASSUME Meddle PROVE FreshInv'
    BY <1>11 DEF Meddle, FreshInv, Faithful, Admissible
  <1>12. QED
    BY <1>1, <1>2, <1>3, <1>4, <1>6, <1>7, <1>9, <1>10, <1>11
       DEF Next, RefuseCommand, RefuseLink, Reject, CutChain, EditLine

\* A chain that verifies under some trust verifies under every trust that has
\* the right key for each signer.
LEMMA TrustAgrees ==
  ASSUME NEW r, NEW trust, VerifyReceipt(r, trust), NEW other,
         other[r.signedBy] = r.key
  PROVE  VerifyReceipt(r, other)
  BY DEF VerifyReceipt, SignatureValid

\* One more line that is linked to the last one.
LEMMA LinkedVerifies ==
  ASSUME NEW s \in Seq(Receipt), NEW r \in Receipt, NEW trust,
         Numbered(s, Len(s)), VerifiesUpTo(s, Len(s), trust),
         VerifyReceipt(r, trust), LinkedTo(r, s)
  PROVE  VerifyChain(Append(s, r), trust)
  <1> DEFINE c == Append(s, r)
  <1>1. /\ Len(s) \in Nat /\ Len(c) = Len(s) + 1 /\ c[Len(s) + 1] = r
        /\ \A i \in 1..Len(s) : c[i] = s[i]
    BY AppendProperties, LenProperties
  <1> HIDE DEF c
  <1>2. \A i \in 1..Len(c) : VerifyReceipt(c[i], trust)
    BY <1>1 DEF VerifiesUpTo
  <1>3. FirstLink(c[1])
    <2>1. CASE s = <<>>
      <3>1. Len(s) = 0
        BY <2>1
      <3>2. QED  BY <1>1, <2>1, <3>1 DEF LinkedTo, NextLink, FirstLink
    <2>2. CASE s # <<>>
      <3>1. Len(s) > 0
        BY <1>1, <2>2, EmptySeq
      <3>2. QED  BY <1>1, <3>1 DEF VerifiesUpTo
    <2>3. QED  BY <2>1, <2>2
  <1>4. ASSUME NEW i \in 2..Len(c) PROVE ChainLink(c[i], c[i - 1])
    <2>1. CASE i \in 2..Len(s)
      <3>1. i \in 1..Len(s) /\ i - 1 \in 1..Len(s)
        BY <1>1, <2>1
      <3>2. QED  BY <1>1, <2>1, <3>1 DEF VerifiesUpTo
    <2>2. CASE i \notin 2..Len(s)
      <3>1. i = Len(s) + 1 /\ Len(s) \in 1..Len(s)
        BY <1>1, <1>4, <2>2
      <3>2. s # <<>>
        BY <1>1, <3>1, EmptySeq
      <3>3. c[i] = r /\ c[i - 1] = s[Len(s)]
        BY <1>1, <3>1
      <3>4. /\ r.sequence = s[Len(s)].sequence + 1
            /\ r.prev = s[Len(s)].hash
        BY <3>2 DEF LinkedTo, NextLink
      <3>5. s[Len(s)].sequence \in Nat
        <4>1. s[Len(s)] \in Receipt
          BY <3>1, ElementOfSeq
        <4>2. QED  BY <4>1 DEF Receipt
      <3>6. QED  BY <3>3, <3>4, <3>5 DEF ChainLink
    <2>3. QED  BY <2>1, <2>2
  <1>5. QED  BY <1>2, <1>3, <1>4 DEF VerifyChain, c

\* receipt_emit.py:193-197, for any number of emitters: the verifier refuses an
\* emit that nobody disturbed only for an edited line or a trust that does not
\* fit the chain.
THEOREM RefusalsHaveCause == Spec => RefusedForCause
  <1>1. ASSUME IInv, FreshInv, NEW e \in Emitters, job[e].pc = "staged",
               e \notin disturbed, Unaltered(chain), Fits(job[e].command, chain)
        PROVE  SelfVerify(e)
    <2> DEFINE r == job[e].receipt
               other == AllTrust(job[e].command)
    <2>1. /\ chain \in Seq(Receipt) /\ Len(chain) \in Nat
          /\ r \in Receipt /\ job[e].command \in Command
      BY <1>1, JobFacts, LenProperties, ReceiptsAssumption DEF IInv, TypeOK, Holding
    <2>2. PICK trust \in TrustMaps : VerifiesUpTo(chain, Len(chain), trust)
      BY <1>1, <2>1 DEF IInv, ChainInv, Signed, Unaltered
    <2>3. Numbered(chain, Len(chain))
      BY <1>1, <2>1 DEF IInv, ChainInv, Signed, Unaltered
    <2>4. VerifiesUpTo(chain, Len(chain), other)
      BY <1>1, <2>2, TrustAgrees DEF VerifiesUpTo, Fits
    <2>5. VerifyReceipt(r, other)
      <3>1. Faithful(job[e])
        BY <1>1 DEF FreshInv
      <3>2. job[e].command.decision.key = job[e].command.keyId
        BY <1>1 DEF Fits
      <3>3. other[job[e].command.decision.identity] = job[e].command.keyId
        BY <2>1 DEF AllTrust, Command, TrustMaps, Decision
      <3>4. QED
        BY <3>1, <3>2, <3>3
           DEF Faithful, Admissible, VerifyReceipt, SignatureValid
    <2>6. LinkedTo(r, chain) /\ job[e].candidate = Append(chain, r)
      BY <1>1 DEF FreshInv
    <2>7. QED
      BY <2>1, <2>3, <2>4, <2>5, <2>6, LinkedVerifies DEF SelfVerify
  <1>2. ASSUME TypeOK, [Next]_vars, NEW e \in Emitters, job[e].pc = "staged",
               job'[e] = Idle, answer'[e] = "refused"
        PROVE  ~SelfVerify(e)
    <2>1. ASSUME NEW f \in Emitters,
                 \/ \E c \in Commands : RefuseCommand(f, c)
                 \/ RefuseLink(f) \/ Reject(f)
          PROVE  ~SelfVerify(e)
      <3>1. job' = [job EXCEPT ![f] = Idle]
        BY <2>1 DEF RefuseCommand, RefuseLink, Reject, RefuseEmit
      <3>2. f # e => job'[e] = job[e]
        BY <1>2, <3>1 DEF TypeOK
      <3>3. f = e
        BY <1>2, <3>2 DEF Idle
      <3>4. ~RefuseLink(e) /\ \A c \in Commands : ~RefuseCommand(e, c)
        BY <1>2 DEF RefuseLink, RefuseCommand, Idle
      <3>5. QED  BY <2>1, <3>3, <3>4 DEF Reject
    <2>2. CASE UNCHANGED vars \/ Meddle
      BY <1>2, <2>2 DEF vars, Meddle, Idle
    <2>3. ASSUME NEW f \in Emitters,
                 \/ \E c \in Commands : Begin(f, c)
                 \/ Link(f) \/ Stage(f) \/ Accept(f)
          PROVE  FALSE
      <3>1. answer'[e] = "refused" /\ (f # e => job'[e] = job[e])
        BY <1>2, <2>3 DEF Begin, Link, Stage, Accept, TypeOK
      <3>2. f = e
        BY <1>2, <3>1 DEF Idle
      <3>3. Accept(e)
        BY <1>2, <2>3, <3>2 DEF Begin, Link, Stage, Idle
      <3>4. job'[e].pc = "verified"
        <4>1. e \in Holding
          BY <1>2 DEF Holding
        <4>2. job'[e] = [job[e] EXCEPT !.pc = "verified"]
          BY <1>2, <3>3 DEF Accept, TypeOK
        <4>3. QED  BY <1>2, <4>1, <4>2, VerifiedType
      <3>5. QED  BY <1>2, <3>4 DEF Idle
    <2>4. ASSUME NEW f \in Emitters, Commit(f) \/ Kill(f)
          PROVE  FALSE
      <3>1. f # e => job'[e] = job[e]
        BY <1>2, <2>4 DEF Commit, Kill, TypeOK
      <3>2. f = e
        BY <1>2, <3>1 DEF Idle
      <3>3. QED  BY <1>2, <2>4, <3>2 DEF Commit, Kill, TypeOK
    <2>5. QED
      BY <1>2, <2>1, <2>2, <2>3, <2>4
         DEF Next, CutChain, EditLine
  <1>3. IInv /\ FreshInv /\ [Next]_vars =>
          [\A e \in Emitters :
             job[e].pc = "staged" /\ job'[e] = Idle /\ answer'[e] = "refused" =>
               \/ e \in disturbed
               \/ ~Unaltered(chain)
               \/ ~Fits(job[e].command, chain)]_vars
    BY <1>1, <1>2 DEF IInv
  <1>4. QED
    BY <1>3, InvInit, InvStep, FreshInit, FreshStep, PTL
       DEF Spec, RefusedForCause, IInv
=============================================================================
