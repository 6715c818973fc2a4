-------------------------- MODULE Conductor_proofs --------------------------
(***************************************************************************)
(* Proofs about the mission record, the retry ledger and the run loop, for *)
(* any commands, plans, kills and vanished evidence: what was reported     *)
(* done stays done, attempts are kept, no brief is tried again, and no run *)
(* goes by a stale return.                                                 *)
(***************************************************************************)
EXTENDS Conductor, SequenceTheorems, NaturalsInduction, WellFoundedInduction, TLAPS

-----------------------------------------------------------------------------
(* The inductive invariant.                                                *)

GateKeys == {"gate"} \X Gates
Phases   == {"idle", "md", "json", "check record", "precheck", "log", "check attempt",
             "escalate", "migrate", "replace", "gate", "dispatch", "running"}
OnKey    == {"precheck", "log", "check attempt", "dispatch", "running"}

JobType == [kind : {"none", "new", "clear", "run", "log", "migrate"}, pc : Phases,
            at : Nat, key : Keys \cup GateKeys \cup {None}, rec : Records \cup {None},
            brief : Seq(Numbers), cause : Causes, slot : 0..RETRY_ATTEMPT_CAP,
            todo : SUBSET (Keys \X Numbers), tries : Nat, before : 0..RETRY_ATTEMPT_CAP]
ArtifactType == [what : UNION {Returns(k) : k \in Keys}, fresh : SUBSET Procs]

\* Every command is of its type, and has what it needs where it is.
JobOK(p) ==
  /\ At(p, "md") \/ At(p, "json") \/ At(p, "check record") =>
       /\ job[p].rec \in Records
       /\ \/ job[p].kind \in {"new", "run"}
          \/ job[p].kind = "clear" /\ job[p].key \in GateKeys
  /\ job[p].pc \in OnKey => job[p].key \in Keys /\ job[p].kind \in {"log", "run"}
  /\ At(p, "log") \/ At(p, "check attempt") => job[p].slot \in Numbers
  /\ At(p, "dispatch") \/ At(p, "running") => job[p].kind = "run"
  /\ At(p, "gate") => /\ job[p].kind = "run" /\ job[p].at \in DOMAIN Agenda
                      /\ Agenda[job[p].at][1] = "gate"

Typed ==
  /\ md \in Records \cup {None, Torn} /\ json \in Records \cup {None, Torn}
  /\ evidence \subseteq Gates /\ temps \subseteq Procs /\ orphans \subseteq Keys
  /\ ledger \in [Keys -> [Numbers -> AnAttempt \cup {None, Torn}]]
  /\ artifact \in [Keys -> ArtifactType \cup {None}]
  /\ \A k \in Keys : artifact[k] # None => artifact[k].what \in Returns(k)
  /\ job \in [Procs -> JobType] /\ \A p \in Procs : JobOK(p)
  /\ faults \in Nat

\* A change that nothing overlapped is alone, and what it has written so far is
\* what the files hold; whoever writes, writes at least what was acknowledged.
ChangeOK(p) ==
  /\ acked \ lapped \subseteq Held(job[p].rec)
  /\ Changes(job[p]) \subseteq lapped \/
       /\ Changing = {p}
       /\ Changes(job[p]) \subseteq Held(job[p].rec)
       /\ ~At(p, "md") => md = job[p].rec
       /\ At(p, "check record") => json = job[p].rec
RecordOK ==
  /\ RecordHolds
  /\ md = None => acked = {}
  /\ \A p \in Changing : ChangeOK(p)

\* Who logs has the number after the last one for itself, and a brief that no
\* attempt before it had.
LogOK(p) ==
  LET k == job[p].key IN
  At(p, "log") \/ At(p, "check attempt") =>
    /\ ledger[k][job[p].slot] \in AnAttempt => ~ledger[k][job[p].slot].legacy
    /\ \A q \in Procs : <<k, job[p].slot>> \notin job[q].todo
    /\ k \notin collided =>
         /\ Logging(k) = {p}
         /\ At(p, "check attempt") => Whole(ledger[k][job[p].slot])
         /\ At(p, "log") =>
              /\ \A n \in Numbers : ledger[k][n] # None =>
                   /\ n < job[p].slot /\ Whole(ledger[k][n])
                   /\ job[p].cause # "transient" => ledger[k][n].brief # job[p].brief

\* What is to be migrated is there.
TodoOK(p) == \A r \in job[p].todo : Whole(ledger[r[1]][r[2]])

\* Each dispatch but the first follows an attempt of its own.
TriesOK(p) ==
  LET used == job[p].tries + job[p].before
      last == LastN(ledger[job[p].key])
  IN
  job[p].key \in Keys \ collided =>
    /\ job[p].tries <= 1 \/ used <= RETRY_ATTEMPT_CAP
    /\ At(p, "dispatch") => used <= last /\ (job[p].tries = 0 \/ used < RETRY_ATTEMPT_CAP)
    /\ job[p].kind = "run" /\ job[p].pc \in {"running", "precheck", "log"} => used <= last + 1
    /\ job[p].kind = "run" /\ At(p, "check attempt") => used <= job[p].slot
    /\ job[p].kind = "run" /\ At(p, "log") => used <= job[p].slot

FreshOK(p) ==
  At(p, "running") /\ artifact[job[p].key] # None => p \in artifact[job[p].key].fresh

IInv ==
  /\ Typed /\ RecordOK /\ BriefsChange
  /\ \A p \in Procs : LogOK(p) /\ TodoOK(p) /\ TriesOK(p) /\ FreshOK(p)

-----------------------------------------------------------------------------
(* Numbers, attempts and the agenda.                                       *)

LEMMA Cap ==
  /\ RETRY_ATTEMPT_CAP = 3 /\ Numbers = {1, 2, 3}
  /\ 0..RETRY_ATTEMPT_CAP = {0, 1, 2, 3} /\ Numbers \subseteq 0..RETRY_ATTEMPT_CAP
  BY DEF RETRY_ATTEMPT_CAP, Numbers

LEMMA Files ==
  /\ None # Torn
  /\ \A rec \in Records : Whole(rec) /\ rec # None /\ rec # Torn
  /\ \A a \in AnAttempt : Whole(a) /\ a # None /\ a # Torn
  /\ None \notin Keys
  BY ConductorAssumption, NoFileAssumption DEF Whole

LEMMA MaxOf ==
  ASSUME NEW S \in SUBSET {0, 1, 2, 3}, S # {}
  PROVE  Max(S) \in S /\ \A n \in S : n <= Max(S)
  <1>1. \E m \in S : \A n \in S : m >= n
    <2>1. CASE 3 \in S
      BY <2>1
    <2>2. CASE 3 \notin S /\ 2 \in S
      BY <2>2
    <2>3. CASE 3 \notin S /\ 2 \notin S /\ 1 \in S
      BY <2>3
    <2>4. CASE 3 \notin S /\ 2 \notin S /\ 1 \notin S
      <3>1. \A n \in S : n = 0
        BY <2>4
      <3>2. 0 \in S
        BY <3>1
      <3>3. QED  BY <3>1, <3>2
    <2>5. QED  BY <2>1, <2>2, <2>3, <2>4
  <1>2. Max(S) \in S /\ \A n \in S : Max(S) >= n
    BY <1>1 DEF Max
  <1>3. QED  BY <1>2

LEMMA MaxOfTwo ==
  ASSUME NEW a \in Int
  PROVE  Max({1, a}) \in Int /\ Max({1, a}) >= 1 /\ Max({1, a}) >= a
  <1>1. \E m \in {1, a} : \A n \in {1, a} : m >= n
    <2>1. CASE a >= 1
      BY <2>1
    <2>2. CASE ~(a >= 1)
      BY <2>2
    <2>3. QED  BY <2>1, <2>2
  <1>2. QED  BY <1>1 DEF Max

LEMMA MinOfTwo ==
  ASSUME NEW a \in Nat, NEW b \in Nat
  PROVE  Min({a, b}) \in Nat /\ Min({a, b}) <= a /\ Min({a, b}) <= b
         /\ (Min({a, b}) = a \/ Min({a, b}) = b)
  <1>1. \E m \in {a, b} : \A n \in {a, b} : m =< n
    <2>1. CASE a <= b
      BY <2>1
    <2>2. CASE ~(a <= b)
      BY <2>2
    <2>3. QED  BY <2>1, <2>2
  <1>2. Min({a, b}) \in {a, b} /\ \A n \in {a, b} : Min({a, b}) =< n
    BY <1>1 DEF Min
  <1>3. QED  BY <1>2

\* The attempt files of one key.
Attempts == [Numbers -> AnAttempt \cup {None, Torn}]

LEMMA LastFacts ==
  ASSUME NEW a \in Attempts
  PROVE  /\ LastN(a) \in 0..RETRY_ATTEMPT_CAP
         /\ \A n \in Numbers : a[n] # None => n <= LastN(a)
         /\ LastN(a) = 0 \/ (LastN(a) \in Numbers /\ a[LastN(a)] # None)
         /\ NextAttempt(a) = LastN(a) + 1
  <1> DEFINE S == Existing(a) \cup {0}
  <1>1. S \in SUBSET {0, 1, 2, 3} /\ S # {}
    BY Cap DEF Existing
  <1>2. Max(S) \in S /\ \A n \in S : n <= Max(S)
    BY <1>1, MaxOf
  <1>3. LastN(a) = Max(S)
    BY DEF LastN
  <1>4. QED  BY <1>1, <1>2, <1>3, Cap DEF Existing, NextAttempt

\* A ledger to which files are only added has no lower last number.
LEMMA LastGrows ==
  ASSUME NEW a \in Attempts, NEW b \in Attempts,
         \A n \in Numbers : a[n] # None => b[n] # None
  PROVE  LastN(a) <= LastN(b)
  BY LastFacts, Cap

\* With room for one more, the next number is free and what came before is whole.
LEMMA RoomFacts ==
  ASSUME NEW a \in Attempts, HasRoom(a)
  PROVE  /\ NextAttempt(a) \in Numbers /\ a[NextAttempt(a)] = None
         /\ LastN(a) < RETRY_ATTEMPT_CAP
         /\ \A n \in Numbers : a[n] # None =>
              n < NextAttempt(a) /\ a[n] \in AnAttempt /\ ~a[n].legacy
  <1>1. LastN(a) < 3 /\ LastN(a) \in {0, 1, 2, 3}
    BY LastFacts, Cap DEF HasRoom
  <1>2. NextAttempt(a) \in Numbers
    BY <1>1, LastFacts, Cap
  <1>3. a[NextAttempt(a)] = None
    <2>1. ~(NextAttempt(a) <= LastN(a))
      BY <1>1, LastFacts
    <2>2. QED  BY <1>2, <2>1, LastFacts
  <1>4. ASSUME NEW n \in Numbers, a[n] # None
        PROVE  n < NextAttempt(a) /\ a[n] \in AnAttempt /\ ~a[n].legacy
    <2>1. n <= LastN(a)
      BY <1>4, LastFacts
    <2>2. n < NextAttempt(a)
      BY <1>1, <2>1, LastFacts, Cap
    <2>3. n \in Existing(a)
      BY <1>4 DEF Existing
    <2>4. QED  BY <1>4, <2>2, <2>3 DEF HasRoom, Attempts
  <1>5. QED  BY <1>1, <1>2, <1>3, <1>4, Cap

\* What flattening puts together: every element is an element of a part.
LEMMA LeastNumber ==
  ASSUME NEW T \in SUBSET Nat, T # {}
  PROVE  \E n \in T : \A m \in T : n <= m
  <1> DEFINE R == {ss \in Nat \X Nat : ss[1] < ss[2]}
  <1>1. IsWellFoundedOn(R, Nat)
    BY NatLessThanWellFounded DEF OpToRel
  <1>2. PICK n \in T : \A m \in T : <<m, n>> \notin R
    BY <1>1, WFMin
  <1>3. ASSUME NEW m \in T PROVE n <= m
    <2>1. ~(m < n)
      BY <1>2
    <2>2. QED  BY <2>1
  <1>4. QED  BY <1>3

LEMMA Flattens ==
  ASSUME NEW S, NEW parts \in Seq(Seq(S))
  PROVE  FlattenSeq(parts) \in Seq(S)
  <1> DEFINE L == Len(parts)
             Made(f, n) == f = [i \in 1..n |-> IF i = 1 THEN parts[i] ELSE f[i-1] \o parts[i]]
             f0 == CHOOSE f : Made(f, L)
  <1>1. L \in Nat /\ \A i \in 1..L : parts[i] \in Seq(S)
    BY ElementOfSeq, LenProperties
  <1>2. \A n \in Nat : \E f : Made(f, n)
    <2> DEFINE T == {n \in Nat : ~\E f : Made(f, n)}
    <2> SUFFICES ASSUME T # {} PROVE FALSE
      OBVIOUS
    <2>1. PICK n \in T : \A m \in T : n <= m
      <3>1. T \in SUBSET Nat
        OBVIOUS
      <3> HIDE DEF T
      <3>2. QED  BY <3>1, LeastNumber
    <2>2. n \in Nat /\ ~\E f : Made(f, n)
      BY <2>1
    <2>3. n # 0
      <3>1. Made([i \in 1..0 |-> {}], 0)
        OBVIOUS
      <3>2. QED  BY <2>2, <3>1
    <2>4. PICK g : Made(g, n - 1)
      <3>1. n - 1 \in Nat /\ ~(n <= n - 1)
        BY <2>2, <2>3
      <3>2. n - 1 \notin T
        BY <2>1, <3>1
      <3>3. QED  BY <3>1, <3>2
    <2> DEFINE f == [i \in 1..n |-> IF i = n THEN IF n = 1 THEN parts[n] ELSE g[n-1] \o parts[n]
                                    ELSE g[i]]
    <2>5. ASSUME NEW i \in 1..n
          PROVE  f[i] = IF i = 1 THEN parts[i] ELSE f[i-1] \o parts[i]
      <3>1. CASE i = n /\ n = 1
        BY <3>1
      <3>2. CASE i = n /\ n # 1
        <4>1. n - 1 \in 1..n /\ n - 1 # n
          BY <2>2, <3>2
        <4>2. f[n-1] = g[n-1]
          BY <4>1
        <4>3. QED  BY <3>2, <4>2
      <3>3. CASE i # n
        <4>1. i \in 1..(n-1) /\ (i # 1 => i - 1 \in 1..n /\ i - 1 # n)
          BY <2>2, <3>3
        <4>2. g[i] = IF i = 1 THEN parts[i] ELSE g[i-1] \o parts[i]
          BY <2>4, <4>1
        <4>3. f[i] = g[i] /\ (i # 1 => f[i-1] = g[i-1])
          BY <3>3, <4>1
        <4>4. QED  BY <4>2, <4>3
      <3>4. QED  BY <3>1, <3>2, <3>3
    <2>6. Made(f, n)
      <3>1. f = [i \in 1..n |-> f[i]]
        OBVIOUS
      <3> HIDE DEF f
      <3>2. [i \in 1..n |-> f[i]]
              = [i \in 1..n |-> IF i = 1 THEN parts[i] ELSE f[i-1] \o parts[i]]
        BY <2>5
      <3>3. QED  BY <3>1, <3>2
    <2>7. QED  BY <2>2, <2>6
  <1>3. Made(f0, L)
    <2>1. \E f : Made(f, L)
      BY <1>1, <1>2
    <2> HIDE DEF Made
    <2>2. QED  BY <2>1
  <1>4. \A n \in 1..L : f0[n] \in Seq(S)
    <2> DEFINE T == {n \in 1..L : f0[n] \notin Seq(S)}
    <2> SUFFICES ASSUME T # {} PROVE FALSE
      OBVIOUS
    <2> HIDE DEF f0
    <2>1. PICK n \in T : \A m \in T : n <= m
      <3>1. T \in SUBSET Nat
        BY <1>1
      <3> HIDE DEF T
      <3>2. QED  BY <3>1, LeastNumber
    <2>2. n \in 1..L /\ f0[n] \notin Seq(S)
      BY <2>1
    <2>3. f0[n] = IF n = 1 THEN parts[n] ELSE f0[n-1] \o parts[n]
      BY <1>3, <2>2
    <2>4. n # 1
      BY <1>1, <2>2, <2>3
    <2>5. n - 1 \in 1..L /\ ~(n <= n - 1)
      BY <1>1, <2>2, <2>4
    <2>6. f0[n-1] \in Seq(S)
      BY <2>1, <2>5
    <2>7. QED  BY <1>1, <2>2, <2>3, <2>4, <2>6, ConcatProperties
  <1>5. CASE L = 0
    <2>1. parts = <<>>
      BY <1>5, EmptySeq
    <2>2. QED  BY <1>5, <2>1, EmptySeq DEF FlattenSeq
  <1>6. CASE L # 0
    <2>1. FlattenSeq(parts) = f0[L]
      BY <1>6 DEF FlattenSeq
    <2>2. L \in 1..L
      BY <1>1, <1>6
    <2> HIDE DEF f0
    <2>3. QED  BY <1>4, <2>1, <2>2
  <1>7. QED  BY <1>5, <1>6

LEMMA AgendaFacts ==
  /\ Len(Agenda) \in Nat /\ DOMAIN Agenda = 1..Len(Agenda)
  /\ \A i \in DOMAIN Agenda :
       /\ Agenda[i] \in Keys \cup GateKeys
       /\ Agenda[i][1] = "gate" <=> Agenda[i] \in GateKeys
  <1> DEFINE Items == Keys \cup GateKeys
             Stage == [gate : Gates, tasks : Seq(Tasks), verified : SUBSET Tasks]
  <1>1. ASSUME NEW s \in Stage, NEW t \in Tasks
        PROVE  TaskItems(s, t) \in Seq(Items)
    <2>1. <<"work", t>> \in Items /\ <<"verify", t>> \in Items
      BY DEF Keys
    <2> HIDE DEF Items
    <2>2. \A x, y \in Items : <<x>> \in Seq(Items) /\ <<x, y>> \in Seq(Items)
      OBVIOUS
    <2>3. QED  BY <2>1, <2>2 DEF TaskItems
  <1>2. ASSUME NEW s \in Stage
        PROVE  StageItems(s) \in Seq(Items)
    <2> DEFINE parts == [i \in DOMAIN s.tasks |-> TaskItems(s, s.tasks[i])]
    <2>1. s.tasks \in Seq(Tasks) /\ s.gate \in Gates
      OBVIOUS
    <2>2. parts \in Seq(Seq(Items))
      <3>1. /\ Len(s.tasks) \in Nat /\ DOMAIN s.tasks = 1..Len(s.tasks)
            /\ \A i \in 1..Len(s.tasks) : s.tasks[i] \in Tasks
        BY <2>1, ElementOfSeq, LenProperties
      <3>2. \A i \in 1..Len(s.tasks) : TaskItems(s, s.tasks[i]) \in Seq(Items)
        BY <1>1, <3>1
      <3>3. QED  BY <3>1, <3>2, IsASeq
    <2> HIDE DEF parts, Items
    <2>3. FlattenSeq(parts) \in Seq(Items)
      BY <2>2, Flattens
    <2>4. << <<"gate", s.gate>> >> \in Seq(Items)
      BY <2>1 DEF Items, GateKeys
    <2>5. << <<"gate", s.gate>> >> \o FlattenSeq(parts) \in Seq(Items)
      BY <2>3, <2>4, ConcatProperties
    <2>6. QED  BY <2>5 DEF StageItems, parts
  <1>3. Agenda \in Seq(Items)
    <2> DEFINE parts == [s \in DOMAIN Plan |-> StageItems(Plan[s])]
    <2>1. parts \in Seq(Seq(Items))
      <3>1. /\ Len(Plan) \in Nat /\ DOMAIN Plan = 1..Len(Plan)
            /\ \A s \in 1..Len(Plan) : Plan[s] \in Stage
        BY ConductorAssumption, ElementOfSeq, LenProperties
      <3>2. \A s \in 1..Len(Plan) : StageItems(Plan[s]) \in Seq(Items)
        BY <1>2, <3>1
      <3>3. QED  BY <3>1, <3>2, IsASeq
    <2> HIDE DEF parts, Items
    <2>2. FlattenSeq(parts) \in Seq(Items)
      BY <2>1, Flattens
    <2>3. QED  BY <2>2 DEF Agenda, parts
  <1>4. \A x \in Items : x[1] = "gate" <=> x \in GateKeys
    BY DEF Keys, GateKeys
  <1>5. QED  BY <1>3, <1>4, ElementOfSeq, LenProperties

-----------------------------------------------------------------------------
(* What the steps have in common.                                          *)

ChangePcs == {"md", "json", "check record"}
LogPcs    == {"log", "check attempt"}

LEMMA NoJobFacts ==
  /\ NoJob \in JobType /\ NoJob.kind = "none" /\ NoJob.pc = "idle" /\ NoJob.key = None
  /\ NoJob.rec = None /\ NoJob.todo = {} /\ NoJob.tries = 0 /\ NoJob.before = 0
  /\ NoJob.slot = 0 /\ NoJob.brief = <<>> /\ NoJob.at = 0 /\ NoJob.cause = "transient"
  <1>1. <<>> \in Seq(Numbers) /\ 0 \in 0..RETRY_ATTEMPT_CAP /\ "transient" \in Causes
    BY EmptySeq, Cap DEF Causes
  <1>2. QED  BY <1>1 DEF NoJob, JobType, Phases

\* The job a command begins with.
LEMMA JobFacts ==
  ASSUME NEW kind \in {"new", "clear", "run", "log", "migrate"}, NEW pc \in Phases
  PROVE  /\ Job(kind, pc) \in JobType /\ Job(kind, pc).kind = kind /\ Job(kind, pc).pc = pc
         /\ Job(kind, pc).key = None /\ Job(kind, pc).todo = {} /\ Job(kind, pc).tries = 0
         /\ Job(kind, pc).before = 0 /\ Job(kind, pc).slot = 0 /\ Job(kind, pc).brief = <<>>
         /\ Job(kind, pc).cause = "transient"
  BY NoJobFacts DEF Job, JobType

LEMMA ProcFacts ==
  ASSUME Typed, NEW p \in Procs
  PROVE  /\ job[p] \in JobType /\ job[p].pc \in Phases /\ job[p].brief \in Seq(Numbers)
         /\ job[p].cause \in Causes /\ job[p].tries \in Nat
         /\ job[p].before \in 0..RETRY_ATTEMPT_CAP /\ job[p].slot \in 0..RETRY_ATTEMPT_CAP
         /\ job[p].todo \in SUBSET (Keys \X Numbers) /\ job[p].at \in Nat
         /\ job[p].pc \in OnKey => /\ job[p].key \in Keys /\ job[p].kind \in {"log", "run"}
                                   /\ ledger[job[p].key] \in Attempts
         /\ job[p].pc \in LogPcs => job[p].slot \in Numbers
         /\ p \in Changing <=> job[p].pc \in ChangePcs
  BY DEF Typed, JobType, JobOK, At, OnKey, Attempts, LogPcs, Changing, ChangePcs

\* A step of one process.
LEMMA JobSet ==
  ASSUME Typed, NEW p \in Procs, NEW j \in JobType, job' = [job EXCEPT ![p] = j]
  PROVE  /\ job' \in [Procs -> JobType] /\ job'[p] = j
         /\ \A q \in Procs : q # p => job'[q] = job[q]
  BY DEF Typed

\* The others have what they need.
LEMMA JobsOK ==
  ASSUME Typed, \A q \in Procs : job'[q] = job[q] \/ JobOK(q)'
  PROVE  \A q \in Procs : JobOK(q)'
  BY DEF Typed, JobOK, At

\* A step that neither begins, carries on nor ends a change of the record.
LEMMA RecordSame ==
  ASSUME Typed, RecordOK, UNCHANGED <<md, json, told>>, evidence' \subseteq evidence,
         \A q \in Procs : job'[q] = job[q]
           \/ (job[q].pc \notin ChangePcs /\ job'[q].pc \notin ChangePcs)
  PROVE  RecordOK'
  <1>1. Changing' = Changing
    BY DEF Changing, ChangePcs
  <1>2. UNCHANGED <<md, json, acked, refused, lapped>>
    BY DEF told
  <1>3. RecordHolds'
    BY <1>1, <1>2 DEF RecordOK, RecordHolds, Typed
  <1>4. ASSUME NEW p \in Changing PROVE ChangeOK(p)'
    <2>1. job'[p] = job[p]
      BY DEF Changing, ChangePcs
    <2>2. QED  BY <1>1, <1>2, <2>1 DEF RecordOK, ChangeOK, At
  <1>5. QED  BY <1>1, <1>2, <1>3, <1>4 DEF RecordOK

\* A step that leaves the attempts, and after which nobody new logs.
LEMMA LogSame ==
  ASSUME IInv, UNCHANGED <<ledger, collided>>,
         \A q \in Procs : job'[q] = job[q]
           \/ (job'[q].pc \notin LogPcs /\ job'[q].todo \subseteq job[q].todo)
  PROVE  BriefsChange' /\ \A q \in Procs : LogOK(q)' /\ TodoOK(q)'
  <1>1. BriefsChange'
    BY DEF IInv, BriefsChange
  <1>2. ASSUME NEW q \in Procs PROVE TodoOK(q)'
    BY DEF IInv, TodoOK
  <1>3. ASSUME NEW q \in Procs, job'[q].pc \in LogPcs
        PROVE  LogOK(q)'
    <2> DEFINE k == job[q].key
    <2>1. job'[q] = job[q]
      BY <1>3
    <2>2. \A r \in Procs : <<k, job[q].slot>> \notin job'[r].todo
      BY <1>3, <2>1 DEF IInv, LogOK, At, LogPcs
    <2>3. k \notin collided => Logging(k)' = {q}
      <3>1. ASSUME NEW r \in Procs, job'[r].pc \in LogPcs, job'[r].key = k, k \notin collided
            PROVE  r = q
        <4>1. job'[r] = job[r]
          BY <3>1
        <4>2. r \in Logging(k)
          BY <3>1, <4>1 DEF Logging, LogPcs
        <4>3. QED  BY <1>3, <2>1, <3>1, <4>2 DEF IInv, LogOK, At, LogPcs
      <3>2. QED  BY <1>3, <2>1, <3>1 DEF Logging, LogPcs
    <2>4. QED  BY <1>3, <2>1, <2>2, <2>3 DEF IInv, LogOK, At, LogPcs
  <1>4. ASSUME NEW q \in Procs, job'[q].pc \notin LogPcs
        PROVE  LogOK(q)'
    BY <1>4 DEF LogOK, At, LogPcs
  <1>5. QED  BY <1>1, <1>2, <1>3, <1>4

\* Who does not move keeps what its dispatches have used up, as long as the
\* attempts of its key only grow.
LEMMA TriesSame ==
  ASSUME IInv, NEW q \in Procs, job'[q] = job[q], collided \subseteq collided',
         ledger' \in [Keys -> Attempts],
         \A k \in Keys \ collided' : LastN(ledger[k]) <= LastN(ledger'[k])
  PROVE  TriesOK(q)'
  <1> DEFINE k == job[q].key
             used == job[q].tries + job[q].before
  <1> SUFFICES ASSUME k \in Keys \ collided'
               PROVE  TriesOK(q)'
    BY DEF TriesOK
  <1>1. /\ LastN(ledger[k]) \in Nat /\ LastN(ledger'[k]) \in Nat
        /\ LastN(ledger[k]) <= LastN(ledger'[k]) /\ used \in Nat
    <2>1. ledger[k] \in Attempts /\ ledger'[k] \in Attempts
      BY DEF IInv, Typed, Attempts
    <2>2. job[q].tries \in Nat /\ job[q].before \in {0, 1, 2, 3}
      BY ProcFacts, Cap DEF IInv
    <2>3. QED  BY <2>1, <2>2, LastFacts, Cap
  <1> DEFINE Used(last) ==
        /\ job[q].tries <= 1 \/ used <= RETRY_ATTEMPT_CAP
        /\ job[q].pc = "dispatch" =>
             used <= last /\ (job[q].tries = 0 \/ used < RETRY_ATTEMPT_CAP)
        /\ job[q].kind = "run" /\ job[q].pc \in {"running", "precheck", "log"} => used <= last + 1
        /\ job[q].kind = "run" /\ job[q].pc = "check attempt" => used <= job[q].slot
        /\ job[q].kind = "run" /\ job[q].pc = "log" => used <= job[q].slot
  <1>2. Used(LastN(ledger[k]))
    BY DEF IInv, TriesOK, At
  <1>3. Used(LastN(ledger'[k]))
    <2> HIDE DEF used, k
    <2>1. \A u, a, b \in Nat : a <= b => (u <= a => u <= b) /\ (u <= a + 1 => u <= b + 1)
      OBVIOUS
    <2>2. /\ used <= LastN(ledger[k]) => used <= LastN(ledger'[k])
          /\ used <= LastN(ledger[k]) + 1 => used <= LastN(ledger'[k]) + 1
      BY <1>1, <2>1
    <2>3. QED  BY <1>2, <2>2
  <1>4. QED  BY <1>3 DEF TriesOK, At

LEMMA FreshSame ==
  ASSUME IInv, UNCHANGED artifact,
         \A q \in Procs : job'[q] = job[q] \/ job'[q].pc # "running"
  PROVE  \A q \in Procs : FreshOK(q)'
  BY DEF IInv, FreshOK, At

\* A step of one process that is about neither the record nor an attempt.
LEMMA CalmStep ==
  ASSUME IInv, NEW p \in Procs, NEW j \in JobType, job' = [job EXCEPT ![p] = j],
         UNCHANGED <<record, ledger, told, collided>>,
         temps' \subseteq Procs, orphans' \subseteq Keys, faults' \in Nat,
         artifact' \in [Keys -> ArtifactType \cup {None}],
         \A k \in Keys : artifact'[k] # None => artifact'[k].what \in Returns(k),
         JobOK(p)', job[p].pc \notin ChangePcs, j.pc \notin ChangePcs \cup LogPcs,
         j.todo \subseteq job[p].todo, TriesOK(p)', \A q \in Procs : FreshOK(q)'
  PROVE  IInv'
  <1>1. /\ job' \in [Procs -> JobType] /\ job'[p] = j
        /\ \A q \in Procs : q # p => job'[q] = job[q]
    BY JobSet DEF IInv
  <1>2. Typed'
    <2>1. \A q \in Procs : JobOK(q)'
      BY <1>1, JobsOK DEF IInv
    <2>2. QED  BY <1>1, <2>1 DEF IInv, Typed, record
  <1>3. RecordOK'
    BY <1>1, RecordSame DEF IInv, record
  <1>4. BriefsChange' /\ \A q \in Procs : LogOK(q)' /\ TodoOK(q)'
    BY <1>1, LogSame
  <1>5. \A q \in Procs : TriesOK(q)'
    <2>1. ledger' \in [Keys -> Attempts]
          /\ \A k \in Keys : LastN(ledger[k]) <= LastN(ledger'[k])
      BY LastGrows DEF IInv, Typed, Attempts
    <2>2. QED  BY <1>1, <2>1, TriesSame
  <1>6. QED  BY <1>2, <1>3, <1>4, <1>5 DEF IInv

-----------------------------------------------------------------------------
(* Steps that are about neither the record nor an attempt.                 *)

LEMMA ArrivedFacts ==
  ASSUME Typed, NEW j \in JobType, j.kind = "run", NEW i \in Nat, i >= 1
  PROVE  /\ Arrived(j, i) \in JobType /\ Arrived(j, i).todo \subseteq j.todo
         /\ Arrived(j, i).pc \in {"idle", "gate", "dispatch"}
         /\ Arrived(j, i).pc \in {"idle", "gate"} => Arrived(j, i).key = None
         /\ Arrived(j, i).pc = "gate" =>
              /\ Arrived(j, i).at \in DOMAIN Agenda /\ Arrived(j, i).kind = j.kind
              /\ Agenda[Arrived(j, i).at][1] = "gate"
         /\ Arrived(j, i).pc = "dispatch" =>
              /\ Arrived(j, i).key \in Keys /\ Arrived(j, i).kind = j.kind
              /\ Arrived(j, i).tries = 0
              /\ Arrived(j, i).before = LastN(ledger[Arrived(j, i).key])
  <1>1. CASE i > Len(Agenda)
    <2>1. Arrived(j, i) = NoJob
      BY <1>1 DEF Arrived
    <2>2. QED  BY <2>1, NoJobFacts
  <1>2. CASE ~(i > Len(Agenda))
    <2>1. i \in DOMAIN Agenda
      BY <1>2, AgendaFacts
    <2>2. CASE Agenda[i][1] = "gate"
      <3>1. Arrived(j, i) = [j EXCEPT !.at = i, !.pc = "gate", !.key = None]
        BY <1>2, <2>2 DEF Arrived
      <3>2. QED  BY <2>1, <2>2, <3>1 DEF JobType, Phases
    <2>3. CASE Agenda[i][1] # "gate"
      <3>1. Agenda[i] \in Keys
        BY <2>1, <2>3, AgendaFacts
      <3>2. LastN(ledger[Agenda[i]]) \in 0..RETRY_ATTEMPT_CAP
        BY <3>1, LastFacts DEF Typed, Attempts
      <3>3. <<>> \in Seq(Numbers)
        BY EmptySeq
      <3> DEFINE last == LastN(ledger[Agenda[i]])
                 k == Agenda[i]
                 b == <<>>
                 n == Arrived(j, i)
      <3>4. n = [j EXCEPT !.at = i, !.pc = "dispatch", !.key = k, !.brief = b,
                          !.tries = 0, !.before = last]
        BY <1>2, <2>3 DEF Arrived
      <3>5. last \in 0..RETRY_ATTEMPT_CAP /\ k \in Keys /\ b \in Seq(Numbers)
        BY <3>1, <3>2, <3>3
      <3> HIDE DEF last, k, b, n
      <3>6. /\ n \in JobType /\ n.todo = j.todo /\ n.pc = "dispatch" /\ n.key = k
            /\ n.kind = j.kind /\ n.tries = 0 /\ n.before = last
        BY <3>4, <3>5 DEF JobType, Phases
      <3>7. QED  BY <3>5, <3>6 DEF last, k, n
    <2>4. QED  BY <2>2, <2>3
  <1>3. QED  BY <1>1, <1>2

\* A process that ends, or comes to a gate or to the first dispatch of a key.
LEMMA PlainEnd ==
  ASSUME IInv, NEW p \in Procs, job' \in [Procs -> JobType], job'[p] = NoJob
  PROVE  JobOK(p)' /\ TriesOK(p)'
  <1>1. job'[p].pc = "idle" /\ job'[p].key \notin Keys
    BY NoJobFacts, Files
  <1>2. QED  BY <1>1 DEF JobOK, TriesOK, At, OnKey

LEMMA Arrives ==
  ASSUME IInv, NEW p \in Procs, NEW j \in JobType, j.kind = "run", NEW i \in Nat, i >= 1,
         job' = [job EXCEPT ![p] = Arrived(j, i)], j.todo \subseteq job[p].todo,
         UNCHANGED <<record, ledger, told, collided, temps, orphans, faults>>,
         artifact' \in [Keys -> ArtifactType \cup {None}],
         \A k \in Keys : artifact'[k] # None => artifact'[k].what \in Returns(k),
         job[p].pc \notin ChangePcs,
         \A q \in Procs : q # p => FreshOK(q)'
  PROVE  IInv'
  <1> DEFINE n == Arrived(j, i)
  <1>1. /\ n \in JobType /\ n.todo \subseteq j.todo
        /\ n.pc \in {"idle", "gate", "dispatch"}
        /\ n.pc \in {"idle", "gate"} => n.key = None
        /\ n.pc = "gate" => /\ n.at \in DOMAIN Agenda /\ n.kind = j.kind
                            /\ Agenda[n.at][1] = "gate"
        /\ n.pc = "dispatch" => n.key \in Keys /\ n.kind = j.kind /\ n.tries = 0
                                /\ n.before = LastN(ledger[n.key])
    BY ArrivedFacts DEF IInv
  <1> HIDE DEF n
  <1>2. job' = [job EXCEPT ![p] = n]
    BY DEF n
  <1>3. job' \in [Procs -> JobType] /\ job'[p] = n
    BY <1>1, <1>2, JobSet DEF IInv
  <1>4. JobOK(p)'
    BY <1>1, <1>3 DEF JobOK, At, OnKey
  <1>5. TriesOK(p)'
    <2>1. CASE n.pc \in {"idle", "gate"}
      BY <1>1, <1>3, <2>1, Files DEF TriesOK
    <2>2. CASE n.pc = "dispatch"
      <3> DEFINE last == LastN(ledger[n.key])
      <3>1. n.tries = 0 /\ n.before = last /\ n.key \in Keys
        BY <1>1, <2>2
      <3>2. last \in Nat
        BY <3>1, LastFacts, Cap DEF IInv, Typed, Attempts
      <3> HIDE DEF last
      <3>3. job'[p].tries <= 1 /\ job'[p].tries + job'[p].before <= last
        BY <1>3, <3>1, <3>2
      <3>4. /\ job'[p].tries = 0 /\ job'[p].pc = "dispatch"
            /\ LastN(ledger'[job'[p].key]) = last
        BY <1>3, <2>2, <3>1 DEF last
      <3>5. QED  BY <3>3, <3>4 DEF TriesOK, At
    <2>3. QED  BY <1>1, <2>1, <2>2
  <1>6. FreshOK(p)'
    BY <1>1, <1>3 DEF FreshOK, At
  <1>7. n.pc \notin ChangePcs \cup LogPcs /\ n.todo \subseteq job[p].todo
    BY <1>1 DEF ChangePcs, LogPcs
  <1>8. /\ temps' \subseteq Procs /\ orphans' \subseteq Keys /\ faults' \in Nat
        /\ \A q \in Procs : FreshOK(q)'
    BY <1>6 DEF IInv, Typed
  <1>9. QED  BY <1>1, <1>2, <1>4, <1>5, <1>7, <1>8, CalmStep

\* The simplest of these: the job ends.
LEMMA Ends ==
  ASSUME IInv, NEW p \in Procs, End(p), job[p].pc \notin ChangePcs,
         UNCHANGED <<record, ledger, told, collided, temps, orphans, faults, artifact>>
  PROVE  IInv'
  <1>1. job' = [job EXCEPT ![p] = NoJob] /\ NoJob \in JobType
        /\ NoJob.pc \notin ChangePcs \cup LogPcs /\ NoJob.todo \subseteq job[p].todo
    BY NoJobFacts DEF End, ChangePcs, LogPcs
  <1>2. /\ job' \in [Procs -> JobType] /\ job'[p] = NoJob
        /\ \A q \in Procs : q # p => job'[q] = job[q]
    BY <1>1, JobSet DEF IInv
  <1>3. JobOK(p)' /\ TriesOK(p)'
    BY <1>2, PlainEnd
  <1>4. \A q \in Procs : FreshOK(q)'
    BY <1>2, NoJobFacts, FreshSame
  <1>5. /\ temps' \subseteq Procs /\ orphans' \subseteq Keys /\ faults' \in Nat
        /\ artifact' \in [Keys -> ArtifactType \cup {None}]
        /\ \A k \in Keys : artifact'[k] # None => artifact'[k].what \in Returns(k)
    BY DEF IInv, Typed
  <1>6. QED  BY <1>1, <1>3, <1>4, <1>5, CalmStep

\* A step to another place in the same job, with the artifacts as they are.
LEMMA Moves ==
  ASSUME IInv, NEW p \in Procs, NEW j \in JobType, job' = [job EXCEPT ![p] = j],
         UNCHANGED <<record, ledger, told, collided, orphans, faults, artifact>>,
         temps' \subseteq Procs,
         JobOK(p)', job[p].pc \notin ChangePcs, j.pc \notin ChangePcs \cup LogPcs \cup {"running"},
         j.todo \subseteq job[p].todo, TriesOK(p)'
  PROVE  IInv'
  <1>1. /\ job' \in [Procs -> JobType] /\ job'[p] = j
        /\ \A q \in Procs : q # p => job'[q] = job[q]
    BY JobSet DEF IInv
  <1>2. \A q \in Procs : FreshOK(q)'
    BY <1>1, FreshSame
  <1>3. /\ orphans' \subseteq Keys /\ faults' \in Nat
        /\ artifact' \in [Keys -> ArtifactType \cup {None}]
        /\ \A k \in Keys : artifact'[k] # None => artifact'[k].what \in Returns(k)
    BY DEF IInv, Typed
  <1>4. QED  BY <1>2, <1>3, CalmStep

LEMMA EscalateFailsIInv == ASSUME IInv, NEW p \in Procs, EscalateFails(p) PROVE IInv'
  <1>1. job[p].pc = "escalate" /\ End(p)
    BY DEF EscalateFails, At
  <1>2. UNCHANGED <<record, ledger, told, collided, temps, orphans, faults, artifact>>
    BY DEF EscalateFails, bounds
  <1>3. QED  BY <1>1, <1>2, Ends DEF ChangePcs

LEMMA RunIInv == ASSUME IInv, NEW p \in Procs, Run(p) PROVE IInv'
  <1> DEFINE j == Job("run", "gate")
  <1>1. /\ job[p].pc = "idle" /\ job' = [job EXCEPT ![p] = Arrived(j, 1)]
        /\ UNCHANGED <<record, ledger, told, collided, temps, orphans, faults, artifact>>
    BY DEF Run, Start, Starts, At
  <1>2. j \in JobType /\ j.kind = "run" /\ j.todo = {}
    <2>1. "gate" \in Phases /\ "run" \in {"new", "clear", "run", "log", "migrate"}
      BY DEF Phases
    <2>2. QED  BY <2>1, JobFacts
  <1> HIDE DEF j
  <1>3. /\ \A q \in Procs : q # p => FreshOK(q)'
        /\ artifact' \in [Keys -> ArtifactType \cup {None}]
        /\ \A k \in Keys : artifact'[k] # None => artifact'[k].what \in Returns(k)
    <2>1. \A q \in Procs : q # p => job'[q] = job[q]
      BY <1>1, <1>2, ArrivedFacts, JobSet DEF IInv
    <2>2. QED  BY <1>1, <2>1 DEF IInv, FreshOK, At, Typed
  <1>4. j.todo \subseteq job[p].todo /\ job[p].pc \notin ChangePcs /\ 1 \in Nat /\ 1 >= 1
    BY <1>1, <1>2 DEF ChangePcs
  <1>5. QED  BY <1>1, <1>2, <1>3, <1>4, Arrives

LEMMA CheckGateIInv == ASSUME IInv, NEW p \in Procs, CheckGate(p) PROVE IInv'
  <1>1. /\ job[p].pc = "gate"
        /\ UNCHANGED <<record, ledger, told, collided, temps, orphans, faults, artifact>>
    BY DEF CheckGate, At, bounds
  <1>2. CASE End(p)
    BY <1>1, <1>2, Ends DEF ChangePcs
  <1>3. CASE job' = [job EXCEPT ![p] = Arrived(@, job[p].at + 1)]
    <2> DEFINE j == job[p]
               i == job[p].at + 1
    <2>1. j \in JobType /\ j.kind = "run" /\ i \in Nat /\ i >= 1
      <3>1. j \in JobType /\ job[p].at \in Nat
        BY ProcFacts DEF IInv
      <3>2. j.kind = "run"
        BY <1>1 DEF IInv, Typed, JobOK, At
      <3>3. QED  BY <3>1, <3>2
    <2>2. job' = [job EXCEPT ![p] = Arrived(j, i)]
      BY <1>3 DEF IInv, Typed
    <2> HIDE DEF i
    <2>3. /\ \A q \in Procs : q # p => FreshOK(q)'
          /\ artifact' \in [Keys -> ArtifactType \cup {None}]
          /\ \A k \in Keys : artifact'[k] # None => artifact'[k].what \in Returns(k)
      <3>1. \A q \in Procs : q # p => job'[q] = job[q]
        BY <2>1, <2>2, ArrivedFacts, JobSet DEF IInv
      <3>2. QED  BY <1>1, <3>1 DEF IInv, FreshOK, At, Typed
    <2> HIDE DEF j
    <2>4. j.todo \subseteq job[p].todo
      BY DEF j
    <2>5. QED  BY <1>1, <2>1, <2>2, <2>3, <2>4, Arrives DEF ChangePcs
  <1>4. QED  BY <1>2, <1>3 DEF CheckGate

LEMMA RetryLogIInv ==
  ASSUME IInv, NEW p \in Procs, NEW k \in Keys, NEW cause \in Causes, RetryLog(p, k, cause)
  PROVE  IInv'
  <1> DEFINE j == [Job("log", "precheck") EXCEPT !.key = k, !.cause = cause]
  <1>1. /\ job[p].pc = "idle" /\ job' = [job EXCEPT ![p] = j]
        /\ UNCHANGED <<record, ledger, told, collided, temps, orphans, faults, artifact>>
    BY DEF RetryLog, Start, Starts, At
  <1>2. /\ j \in JobType /\ j.pc = "precheck" /\ j.kind = "log" /\ j.key = k /\ j.todo = {}
        /\ j.tries = 0
    <2>1. "precheck" \in Phases /\ "log" \in {"new", "clear", "run", "log", "migrate"}
      BY DEF Phases
    <2> DEFINE j0 == Job("log", "precheck")
    <2>2. /\ j0 \in JobType /\ j0.pc = "precheck" /\ j0.kind = "log" /\ j0.todo = {}
          /\ j0.tries = 0
      BY <2>1, JobFacts
    <2> HIDE DEF j0
    <2>3. QED  BY <2>2 DEF JobType, j0
  <1> HIDE DEF j
  <1>3. job' \in [Procs -> JobType] /\ job'[p] = j
    BY <1>1, <1>2, JobSet DEF IInv
  <1>4. JobOK(p)'
    BY <1>2, <1>3 DEF JobOK, At, OnKey
  <1>5. TriesOK(p)'
    <2>1. job'[p].tries <= 1 /\ job'[p].pc = "precheck" /\ job'[p].kind = "log"
      BY <1>2, <1>3
    <2>2. QED  BY <2>1 DEF TriesOK, At
  <1>6. /\ temps' \subseteq Procs /\ j.todo \subseteq job[p].todo
        /\ job[p].pc \notin ChangePcs /\ j.pc \notin ChangePcs \cup LogPcs \cup {"running"}
    BY <1>1, <1>2 DEF IInv, Typed, ChangePcs, LogPcs
  <1>7. QED  BY <1>1, <1>2, <1>4, <1>5, <1>6, Moves

\* Going from one place to another in a job.
LEMMA GotoFacts ==
  ASSUME Typed, NEW p \in Procs, NEW pc \in Phases, Goto(p, pc)
  PROVE  /\ job' \in [Procs -> JobType] /\ job'[p] = [job[p] EXCEPT !.pc = pc]
         /\ [job[p] EXCEPT !.pc = pc] \in JobType
         /\ job' = [job EXCEPT ![p] = [job[p] EXCEPT !.pc = pc]]
         /\ \A q \in Procs : q # p => job'[q] = job[q]
         /\ job'[p].pc = pc /\ job'[p].kind = job[p].kind /\ job'[p].key = job[p].key
         /\ job'[p].rec = job[p].rec /\ job'[p].slot = job[p].slot
         /\ job'[p].brief = job[p].brief /\ job'[p].cause = job[p].cause
         /\ job'[p].todo = job[p].todo /\ job'[p].tries = job[p].tries
         /\ job'[p].before = job[p].before /\ job'[p].at = job[p].at
  <1> DEFINE j == [job[p] EXCEPT !.pc = pc]
  <1>1. job' = [job EXCEPT ![p] = j]
    BY DEF Goto, Typed
  <1>2. job[p] \in JobType
    BY ProcFacts
  <1>3. /\ j \in JobType /\ j.pc = pc /\ j.kind = job[p].kind /\ j.key = job[p].key
        /\ j.rec = job[p].rec /\ j.slot = job[p].slot
        /\ j.brief = job[p].brief /\ j.cause = job[p].cause
        /\ j.todo = job[p].todo /\ j.tries = job[p].tries
        /\ j.before = job[p].before /\ j.at = job[p].at
    BY <1>2 DEF JobType
  <1> HIDE DEF j
  <1>4. /\ job' \in [Procs -> JobType] /\ job'[p] = j
        /\ \A q \in Procs : q # p => job'[q] = job[q]
    BY <1>1, <1>3, JobSet
  <1>5. QED  BY <1>1, <1>3, <1>4 DEF j

\* A run that gives up is about to escalate.
LEMMA GivesUp ==
  ASSUME IInv, NEW p \in Procs, Goto(p, "escalate"), job[p].pc \in OnKey,
         UNCHANGED <<record, ledger, told, collided, temps, orphans, faults, artifact>>
  PROVE  IInv'
  <1> DEFINE j == [job[p] EXCEPT !.pc = "escalate"]
  <1>1. "escalate" \in Phases
    BY DEF Phases
  <1>2. /\ job' \in [Procs -> JobType] /\ job'[p] = j /\ j \in JobType
        /\ job' = [job EXCEPT ![p] = j]
        /\ j.pc = "escalate" /\ j.todo = job[p].todo /\ j.key = job[p].key
        /\ j.tries = job[p].tries /\ j.before = job[p].before
    BY <1>1, GotoFacts DEF IInv
  <1> HIDE DEF j
  <1>3. JobOK(p)'
    BY <1>2 DEF JobOK, At, OnKey
  <1>4. TriesOK(p)'
    BY <1>2 DEF IInv, TriesOK, At
  <1>5. /\ temps' \subseteq Procs /\ j.todo \subseteq job[p].todo
        /\ job[p].pc \notin ChangePcs /\ j.pc \notin ChangePcs \cup LogPcs \cup {"running"}
    BY <1>2 DEF IInv, Typed, ChangePcs, LogPcs, OnKey
  <1>6. QED  BY <1>2, <1>3, <1>4, <1>5, Moves

LEMMA MigrateTempIInv == ASSUME IInv, NEW p \in Procs, MigrateTemp(p) PROVE IInv'
  <1> DEFINE j == [job[p] EXCEPT !.pc = "replace"]
  <1>1. /\ job[p].pc = "migrate" /\ Goto(p, "replace") /\ temps' = temps \cup {p}
        /\ UNCHANGED <<record, ledger, told, collided, orphans, faults, artifact>>
    BY DEF MigrateTemp, At, bounds
  <1>2. "replace" \in Phases
    BY DEF Phases
  <1>3. /\ job' \in [Procs -> JobType] /\ job'[p] = j /\ j \in JobType
        /\ job' = [job EXCEPT ![p] = j]
        /\ j.pc = "replace" /\ j.todo = job[p].todo /\ j.key = job[p].key
        /\ j.tries = job[p].tries /\ j.before = job[p].before
    BY <1>1, <1>2, GotoFacts DEF IInv
  <1> HIDE DEF j
  <1>4. JobOK(p)'
    BY <1>3 DEF JobOK, At, OnKey
  <1>5. TriesOK(p)'
    BY <1>1, <1>3 DEF IInv, TriesOK, At
  <1>6. /\ temps' \subseteq Procs /\ j.todo \subseteq job[p].todo
        /\ job[p].pc \notin ChangePcs /\ j.pc \notin ChangePcs \cup LogPcs \cup {"running"}
    BY <1>1, <1>3 DEF IInv, Typed, ChangePcs, LogPcs
  <1>7. QED  BY <1>1, <1>3, <1>4, <1>5, <1>6, Moves

\* An attempt that is logged and whole: the run has used one number more.
LEMMA CheckAttemptIInv == ASSUME IInv, NEW p \in Procs, CheckAttempt(p) PROVE IInv'
  <1> DEFINE k == job[p].key
             a == ledger[k]
  <1>1. /\ job[p].pc = "check attempt" /\ Whole(a[job[p].slot])
        /\ UNCHANGED <<record, ledger, told, collided, temps, orphans, faults, artifact>>
    BY DEF CheckAttempt, At, bounds
  <1>2. job[p].pc \in OnKey /\ job[p].pc \notin ChangePcs /\ job[p].pc \in LogPcs
    BY <1>1 DEF OnKey, ChangePcs, LogPcs
  <1>3. CASE job[p].kind = "log" /\ End(p)
    BY <1>1, <1>2, <1>3, Ends
  <1>4. CASE job[p].kind = "run" /\ ~HasRoom(a) /\ Goto(p, "escalate")
    BY <1>1, <1>2, <1>4, GivesUp
  <1>5. ASSUME job[p].kind = "run", HasRoom(a),
               job' = [job EXCEPT ![p].pc = "dispatch", ![p].slot = 0,
                         ![p].cause = "transient",
                         ![p].brief = IF job[p].cause = "transient" THEN @
                                      ELSE Append(@, NextAttempt(a))]
        PROVE  IInv'
    <2> DEFINE brief == IF job[p].cause = "transient" THEN job[p].brief
                        ELSE Append(job[p].brief, NextAttempt(a))
               j == [job[p] EXCEPT !.pc = "dispatch", !.slot = 0, !.cause = "transient",
                                   !.brief = brief]
    <2>1. /\ job[p] \in JobType /\ a \in Attempts /\ k \in Keys /\ job[p].slot \in Numbers
          /\ job[p].brief \in Seq(Numbers)
      BY <1>2, ProcFacts DEF IInv
    <2>2. LastN(a) < RETRY_ATTEMPT_CAP /\ NextAttempt(a) \in Numbers
      BY <1>5, <2>1, RoomFacts
    <2>3. brief \in Seq(Numbers)
      BY <2>1, <2>2, AppendProperties
    <2>4. job' = [job EXCEPT ![p] = j]
      BY <1>5 DEF IInv, Typed
    <2> HIDE DEF brief
    <2>5. 0 \in 0..RETRY_ATTEMPT_CAP /\ "transient" \in Causes /\ "dispatch" \in Phases
      BY Cap DEF Causes, Phases
    <2>6. /\ j \in JobType /\ j.pc = "dispatch" /\ j.todo = job[p].todo /\ j.key = k
          /\ j.kind = job[p].kind /\ j.tries = job[p].tries /\ j.before = job[p].before
      BY <2>1, <2>3, <2>5 DEF JobType
    <2> HIDE DEF j
    <2>7. job' \in [Procs -> JobType] /\ job'[p] = j
      BY <2>4, <2>6, JobSet DEF IInv
    <2>8. JobOK(p)'
      BY <1>5, <2>1, <2>6, <2>7 DEF JobOK, At, OnKey
    <2>9. TriesOK(p)'
      <3> DEFINE used == job[p].tries + job[p].before
      <3> SUFFICES ASSUME k \notin collided PROVE TriesOK(p)'
        BY <1>1, <2>6, <2>7 DEF TriesOK
      <3>1. used <= job[p].slot /\ (job[p].tries <= 1 \/ used <= RETRY_ATTEMPT_CAP)
        BY <1>1, <1>5, <2>1 DEF IInv, TriesOK, At
      <3>2. job[p].slot <= LastN(a)
        <4>1. a[job[p].slot] # None
          BY <1>1 DEF Whole
        <4>2. QED  BY <2>1, <4>1, LastFacts
      <3>3. job[p].tries \in Nat /\ job[p].before \in Nat /\ LastN(a) \in Nat
            /\ job[p].slot \in Nat
        BY <2>1, ProcFacts, LastFacts, Cap DEF IInv
      <3>4. used < RETRY_ATTEMPT_CAP /\ used <= LastN(a)
        BY <2>2, <3>1, <3>2, <3>3, Cap
      <3>5. QED  BY <1>1, <2>6, <2>7, <3>1, <3>4 DEF TriesOK, At
    <2>10. /\ temps' \subseteq Procs /\ j.todo \subseteq job[p].todo
           /\ j.pc \notin ChangePcs \cup LogPcs \cup {"running"}
      BY <1>1, <2>6 DEF IInv, Typed, ChangePcs, LogPcs
    <2>11. QED  BY <1>1, <1>2, <2>4, <2>6, <2>8, <2>9, <2>10, Moves
  <1>6. QED  BY <1>3, <1>4, <1>5 DEF CheckAttempt

LEMMA DispatchIInv == ASSUME IInv, NEW p \in Procs, Dispatch(p) PROVE IInv'
  <1> DEFINE k == job[p].key
             t == Min({job[p].tries + 1, RETRY_ATTEMPT_CAP + 1})
             j == [job[p] EXCEPT !.pc = "running", !.tries = t]
  <1>1. /\ job[p].pc = "dispatch" /\ artifact' = [artifact EXCEPT ![k] = None]
        /\ UNCHANGED <<record, ledger, told, collided, temps, orphans, faults>>
    BY DEF Dispatch, At, bounds, Unstale
  <1>2. job' = [job EXCEPT ![p] = j]
    BY DEF Dispatch, IInv, Typed
  <1>3. /\ job[p] \in JobType /\ k \in Keys /\ ledger[k] \in Attempts
        /\ job[p].tries \in Nat /\ job[p].before \in Nat /\ job[p].before <= RETRY_ATTEMPT_CAP
    <2>1. job[p].pc \in OnKey
      BY <1>1 DEF OnKey
    <2>2. job[p].before \in 0..RETRY_ATTEMPT_CAP
      BY ProcFacts DEF IInv
    <2>3. job[p].before \in Nat /\ job[p].before <= RETRY_ATTEMPT_CAP
      BY <2>2, Cap
    <2>4. QED  BY <2>1, <2>3, ProcFacts DEF IInv
  <1>4. t \in Nat /\ t <= job[p].tries + 1
    <2> DEFINE a == job[p].tries + 1
               b == RETRY_ATTEMPT_CAP + 1
    <2>1. a \in Nat /\ b \in Nat
      BY <1>3, Cap
    <2> HIDE DEF a, b
    <2>2. Min({a, b}) \in Nat /\ Min({a, b}) <= a
      BY <2>1, MinOfTwo
    <2>3. QED  BY <2>2 DEF a, b
  <1> HIDE DEF t
  <1>5. /\ j \in JobType /\ j.pc = "running" /\ j.todo = job[p].todo /\ j.key = k
        /\ j.kind = job[p].kind /\ j.tries = t /\ j.before = job[p].before
    BY <1>3, <1>4 DEF JobType, Phases
  <1> HIDE DEF j
  <1>6. /\ job' \in [Procs -> JobType] /\ job'[p] = j
        /\ \A q \in Procs : q # p => job'[q] = job[q]
    BY <1>2, <1>5, JobSet DEF IInv
  <1>7. JobOK(p)'
    BY <1>1, <1>5, <1>6 DEF IInv, Typed, JobOK, At, OnKey
  <1>8. TriesOK(p)'
    <2> DEFINE used == job[p].tries + job[p].before
               last == LastN(ledger[k])
    <2> SUFFICES ASSUME k \notin collided PROVE TriesOK(p)'
      BY <1>1, <1>5, <1>6 DEF TriesOK
    <2>1. used <= last /\ (job[p].tries = 0 \/ used < RETRY_ATTEMPT_CAP)
      BY <1>1, <1>3 DEF IInv, TriesOK, At
    <2>2. last \in Nat
      BY <1>3, LastFacts, Cap
    <2> HIDE DEF last
    <2>3. t + job[p].before <= last + 1
      BY <1>3, <1>4, <2>1, <2>2
    <2>4. t <= 1 \/ t + job[p].before <= RETRY_ATTEMPT_CAP
      BY <1>3, <1>4, <2>1, Cap
    <2>5. /\ job'[p].key = k /\ job'[p].tries = t /\ job'[p].before = job[p].before
          /\ job'[p].pc = "running" /\ ledger' = ledger
      BY <1>1, <1>5, <1>6
    <2>6. QED  BY <2>3, <2>4, <2>5 DEF TriesOK, At, last
  <1>9. /\ artifact' \in [Keys -> ArtifactType \cup {None}] /\ artifact'[k] = None
        /\ \A l \in Keys : l # k => artifact'[l] = artifact[l]
    BY <1>1, <1>3 DEF IInv, Typed
  <1>10. \A l \in Keys : artifact'[l] # None => artifact'[l].what \in Returns(l)
    BY <1>9 DEF IInv, Typed
  <1>11. ASSUME NEW q \in Procs PROVE FreshOK(q)'
    <2>1. CASE q = p
      BY <1>5, <1>6, <1>9, <2>1 DEF FreshOK, At
    <2>2. CASE q # p
      <3>1. job[q].pc = "running" => job[q].key \in Keys
        BY ProcFacts DEF IInv, OnKey
      <3>2. QED  BY <1>6, <1>9, <2>2, <3>1 DEF IInv, FreshOK, At
    <2>3. QED  BY <2>1, <2>2
  <1>12. /\ temps' \subseteq Procs /\ orphans' \subseteq Keys /\ faults' \in Nat
         /\ j.todo \subseteq job[p].todo /\ job[p].pc \notin ChangePcs
         /\ j.pc \notin ChangePcs \cup LogPcs
    BY <1>1, <1>5 DEF IInv, Typed, ChangePcs, LogPcs
  <1>13. QED  BY <1>1, <1>2, <1>5, <1>7, <1>8, <1>9, <1>10, <1>11, <1>12, CalmStep

\* What another run's return leaves of an artifact.
LEMMA FreshLess ==
  ASSUME IInv, NEW p \in Procs, job[p].pc = "running", NEW past,
         artifact' = [artifact EXCEPT ![job[p].key] = past],
         past = IF artifact[job[p].key] = None THEN None
                ELSE [artifact[job[p].key] EXCEPT !.fresh = @ \ {p}],
         job' \in [Procs -> JobType],
         \A q \in Procs : q # p => job'[q] = job[q]
  PROVE  /\ artifact' \in [Keys -> ArtifactType \cup {None}]
         /\ \A k \in Keys : artifact'[k] # None => artifact'[k].what \in Returns(k)
         /\ \A q \in Procs : q # p => FreshOK(q)'
  <1> DEFINE k == job[p].key
  <1>1. k \in Keys
    BY ProcFacts DEF IInv, OnKey
  <1>2. artifact[k] \in ArtifactType \cup {None}
    BY <1>1 DEF IInv, Typed
  <1>3. artifact[k] = None => past = None
    OBVIOUS
  <1>4. /\ past \in ArtifactType \cup {None}
        /\ artifact[k] # None => /\ past.what = artifact[k].what
                                 /\ past.fresh = artifact[k].fresh \ {p}
    BY <1>2 DEF ArtifactType
  <1>5. /\ artifact' \in [Keys -> ArtifactType \cup {None}] /\ artifact'[k] = past
        /\ \A l \in Keys : l # k => artifact'[l] = artifact[l]
    BY <1>1, <1>4 DEF IInv, Typed
  <1>6. \A l \in Keys : artifact'[l] # None => artifact'[l].what \in Returns(l)
    BY <1>1, <1>3, <1>4, <1>5 DEF IInv, Typed
  <1>7. ASSUME NEW q \in Procs, q # p PROVE FreshOK(q)'
    <2>1. job[q].pc = "running" => job[q].key \in Keys
      BY ProcFacts DEF IInv, OnKey
    <2>2. job'[q] = job[q] /\ FreshOK(q)
      BY <1>7 DEF IInv
    <2>3. CASE job[q].key = k
      BY <1>3, <1>4, <1>5, <1>7, <2>2, <2>3 DEF FreshOK, At
    <2>4. CASE job[q].key # k
      BY <1>5, <2>1, <2>2, <2>4 DEF FreshOK, At
    <2>5. QED  BY <2>3, <2>4
  <1>8. QED  BY <1>5, <1>6, <1>7

\* What becomes of a dispatch that returned.
LEMMA ReturnedWays ==
  ASSUME Typed, NEW p \in Procs, NEW ok \in BOOLEAN, Returned(p, ok)
  PROVE  \/ Failed(p, "transient") \/ Failed(p, "context-gap")
         \/ Goto(p, "escalate")
         \/ job' = [job EXCEPT ![p] = Arrived(@, job[p].at + 1)]
  <1> DEFINE k == job[p].key
             found == artifact[k]
  <1>1. CASE ~ok \/ found = None
    BY <1>1 DEF Returned
  <1>2. CASE ok /\ found # None
    <2>1. k \in Keys
      <3>1. job[p].pc \in OnKey
        BY DEF Returned, At, OnKey
      <3>2. QED  BY <3>1, ProcFacts
    <2>2. found.what \in {"good", "bad", "negative"}
      <3>1. found.what \in Returns(k)
        BY <1>2, <2>1 DEF Typed
      <3>2. k[1] \in {"work", "verify"}
        BY <2>1 DEF Keys
      <3>3. QED  BY <3>1, <3>2, ConductorAssumption DEF Returns
    <2>3. QED  BY <1>2, <2>2 DEF Returned
  <1>3. QED  BY <1>1, <1>2

LEMMA ReturnedIInv ==
  ASSUME IInv, NEW p \in Procs, NEW ok \in BOOLEAN, Returned(p, ok)
  PROVE  IInv'
  <1> DEFINE k == job[p].key
             i == job[p].at + 1
             past == IF artifact[k] = None THEN None
                     ELSE [artifact[k] EXCEPT !.fresh = @ \ {p}]
  <1>1. /\ job[p].pc = "running"
        /\ artifact' = [artifact EXCEPT ![k] = past]
        /\ UNCHANGED <<record, ledger, told, collided, temps, orphans, faults>>
    BY DEF Returned, At, bounds
  <1>2. job[p] \in JobType /\ k \in Keys /\ i \in Nat /\ i >= 1
    <2>1. job[p].pc \in OnKey
      BY <1>1 DEF OnKey
    <2>2. job[p] \in JobType /\ k \in Keys /\ job[p].at \in Nat
      BY <2>1, ProcFacts DEF IInv
    <2>3. QED  BY <2>2
  <1>3. ASSUME NEW j \in JobType, job' = [job EXCEPT ![p] = j], j.todo \subseteq job[p].todo,
               j.pc \in {"precheck", "escalate"}, j.key = k, j.kind = job[p].kind,
               j.tries = job[p].tries, j.before = job[p].before
        PROVE  IInv'
    <2>1. /\ job' \in [Procs -> JobType] /\ job'[p] = j
          /\ \A q \in Procs : q # p => job'[q] = job[q]
      BY <1>3, JobSet DEF IInv
    <2>2. /\ artifact' \in [Keys -> ArtifactType \cup {None}]
          /\ \A l \in Keys : artifact'[l] # None => artifact'[l].what \in Returns(l)
          /\ \A q \in Procs : q # p => FreshOK(q)'
      BY <1>1, <2>1, FreshLess
    <2>3. FreshOK(p)'
      BY <1>3, <2>1 DEF FreshOK, At
    <2>4. JobOK(p)'
      <3>1. job[p].kind = "run"
        BY <1>1 DEF IInv, Typed, JobOK, At
      <3>2. QED  BY <1>2, <1>3, <2>1, <3>1 DEF JobOK, At, OnKey
    <2>5. TriesOK(p)'
      <3>1. TriesOK(p) /\ UNCHANGED <<ledger, collided>>
        BY <1>1 DEF IInv
      <3>2. QED  BY <1>1, <1>3, <2>1, <3>1 DEF TriesOK, At
    <2>6. /\ temps' \subseteq Procs /\ orphans' \subseteq Keys /\ faults' \in Nat
          /\ job[p].pc \notin ChangePcs /\ j.pc \notin ChangePcs \cup LogPcs
      BY <1>1, <1>3 DEF IInv, Typed, ChangePcs, LogPcs
    <2>7. \A q \in Procs : FreshOK(q)'
      BY <2>2, <2>3
    <2>8. QED  BY <1>1, <1>3, <2>2, <2>4, <2>5, <2>6, <2>7, CalmStep
  <1>4. ASSUME NEW cause \in Causes, Failed(p, cause) PROVE IInv'
    <2> DEFINE j == [job[p] EXCEPT !.pc = "precheck", !.cause = cause]
    <2>1. job' = [job EXCEPT ![p] = j]
      BY <1>4 DEF Failed, IInv, Typed
    <2>2. /\ j \in JobType /\ j.pc = "precheck" /\ j.todo = job[p].todo /\ j.key = k
          /\ j.kind = job[p].kind /\ j.tries = job[p].tries /\ j.before = job[p].before
      BY <1>2 DEF JobType, Phases
    <2> HIDE DEF j
    <2>3. QED  BY <1>3, <2>1, <2>2
  <1>5. ASSUME Goto(p, "escalate") PROVE IInv'
    <2> DEFINE j == [job[p] EXCEPT !.pc = "escalate"]
    <2>1. "escalate" \in Phases
      BY DEF Phases
    <2>2. /\ job' \in [Procs -> JobType] /\ job'[p] = j /\ j \in JobType
          /\ job' = [job EXCEPT ![p] = j]
          /\ j.pc = "escalate" /\ j.todo = job[p].todo /\ j.key = k /\ j.kind = job[p].kind
          /\ j.tries = job[p].tries /\ j.before = job[p].before
      BY <1>5, <2>1, GotoFacts DEF IInv
    <2> HIDE DEF j
    <2>3. QED  BY <1>3, <2>2
  <1>6. ASSUME job' = [job EXCEPT ![p] = Arrived(@, job[p].at + 1)] PROVE IInv'
    <2> DEFINE j == job[p]
    <2>1. job' = [job EXCEPT ![p] = Arrived(j, i)]
      BY <1>6 DEF IInv, Typed
    <2> HIDE DEF i
    <2>2. /\ job' \in [Procs -> JobType]
          /\ \A q \in Procs : q # p => job'[q] = job[q]
      <3> DEFINE n == Arrived(j, i)
      <3>1. j.kind = "run"
        BY <1>1 DEF IInv, Typed, JobOK, At
      <3>2. n \in JobType
        BY <1>2, <3>1, ArrivedFacts DEF IInv
      <3> HIDE DEF n, j
      <3>3. job' = [job EXCEPT ![p] = n]
        BY <2>1 DEF n
      <3>4. QED  BY <3>2, <3>3, JobSet DEF IInv
    <2>3. /\ artifact' \in [Keys -> ArtifactType \cup {None}]
          /\ \A l \in Keys : artifact'[l] # None => artifact'[l].what \in Returns(l)
          /\ \A q \in Procs : q # p => FreshOK(q)'
      BY <1>1, <2>2, FreshLess
    <2>4. job[p].kind = "run"
      BY <1>1 DEF IInv, Typed, JobOK, At
    <2>5. j \in JobType /\ j.kind = "run" /\ j.todo \subseteq job[p].todo
      BY <1>2, <2>4
    <2> HIDE DEF j
    <2>6. QED  BY <1>1, <1>2, <2>1, <2>3, <2>5, Arrives DEF ChangePcs
  <1>7. "transient" \in Causes /\ "context-gap" \in Causes
    BY DEF Causes
  <1>8. QED  BY <1>4, <1>5, <1>6, <1>7, ReturnedWays DEF IInv

LEMMA WorkerWritesIInv ==
  ASSUME IInv, NEW k \in Keys, NEW what \in Returns(k), WorkerWrites(k, what)
  PROVE  IInv'
  <1> DEFINE a == Artifact(what, Running(k))
  <1>1. /\ artifact' = [artifact EXCEPT ![k] = a]
        /\ UNCHANGED <<record, ledger, told, collided, temps, orphans, job, faults>>
    BY DEF WorkerWrites, bounds
  <1>2. a \in ArtifactType /\ a.what = what /\ a.fresh = Running(k)
    BY DEF Artifact, ArtifactType, Running
  <1> HIDE DEF a
  <1>3. /\ artifact' \in [Keys -> ArtifactType \cup {None}] /\ artifact'[k] = a
        /\ \A l \in Keys : l # k => artifact'[l] = artifact[l]
    BY <1>1, <1>2 DEF IInv, Typed
  <1>4. Typed'
    <2>1. \A l \in Keys : artifact'[l] # None => artifact'[l].what \in Returns(l)
      BY <1>2, <1>3 DEF IInv, Typed
    <2>2. \A q \in Procs : JobOK(q)'
      BY <1>1, JobsOK DEF IInv
    <2>3. QED  BY <1>1, <1>3, <2>1, <2>2 DEF IInv, Typed, record
  <1>5. ASSUME NEW q \in Procs PROVE FreshOK(q)'
    <2>1. job[q].pc = "running" => job[q].key \in Keys
      BY ProcFacts DEF IInv, OnKey
    <2>2. CASE job[q].key = k
      BY <1>1, <1>2, <1>3, <2>2 DEF FreshOK, At, Running
    <2>3. CASE job[q].key # k
      BY <1>1, <1>3, <2>1, <2>3 DEF IInv, FreshOK, At
    <2>4. QED  BY <2>2, <2>3
  <1>6. RecordOK'
    BY <1>1, RecordSame DEF IInv, record
  <1>7. BriefsChange' /\ \A q \in Procs : LogOK(q)' /\ TodoOK(q)'
    BY <1>1, LogSame
  <1>8. \A q \in Procs : TriesOK(q)'
    BY <1>1 DEF IInv, TriesOK, At
  <1>9. QED  BY <1>4, <1>5, <1>6, <1>7, <1>8 DEF IInv

LEMMA OutsideIInv ==
  ASSUME IInv, (\E k \in Keys : OrphanEnds(k)) \/ (\E g \in Gates : Vanish(g))
  PROVE  IInv'
  <1>1. /\ UNCHANGED <<md, json, ledger, temps, artifact, job, told, collided>>
        /\ evidence' \subseteq evidence /\ orphans' \subseteq Keys /\ faults' \in Nat
    BY DEF OrphanEnds, Vanish, record, bounds, Fault, IInv, Typed
  <1>2. Typed'
    <2>1. \A q \in Procs : JobOK(q)'
      BY <1>1, JobsOK DEF IInv
    <2>2. QED  BY <1>1, <2>1 DEF IInv, Typed
  <1>3. RecordOK'
    BY <1>1, RecordSame DEF IInv
  <1>4. BriefsChange' /\ \A q \in Procs : LogOK(q)' /\ TodoOK(q)'
    BY <1>1, LogSame
  <1>5. \A q \in Procs : TriesOK(q)' /\ FreshOK(q)'
    BY <1>1 DEF IInv, TriesOK, FreshOK, At
  <1>6. QED  BY <1>2, <1>3, <1>4, <1>5 DEF IInv

-----------------------------------------------------------------------------
(* Steps that change attempts, or begin to.                                *)

\* One file is written, torn or removed.
LEMMA PutFacts ==
  ASSUME Typed, NEW k \in Keys, NEW s \in Numbers, NEW v \in AnAttempt \cup {None, Torn},
         NEW a, a = [ledger[k] EXCEPT ![s] = v], ledger' = [ledger EXCEPT ![k] = a]
  PROVE  /\ ledger' \in [Keys -> Attempts] /\ ledger'[k][s] = v
         /\ \A n \in Numbers : n # s => ledger'[k][n] = ledger[k][n]
         /\ \A l \in Keys : l # k => ledger'[l] = ledger[l]
         /\ \A l \in Keys : ledger[l] \in Attempts
  <1>1. ledger \in [Keys -> Attempts]
    BY DEF Typed, Attempts
  <1>2. a \in Attempts /\ a[s] = v /\ \A n \in Numbers : n # s => a[n] = ledger[k][n]
    BY <1>1 DEF Attempts
  <1>3. QED  BY <1>1, <1>2

\* What it takes to log in the next state, and what it gives in this one.
LEMMA LogsNext ==
  ASSUME NEW p \in Procs, NEW k, NEW s, job'[p].key = k, job'[p].slot = s,
         job'[p].pc \in LogPcs,
         ledger'[k][s] \in AnAttempt => ~ledger'[k][s].legacy,
         \A q \in Procs : <<k, s>> \notin job'[q].todo,
         k \notin collided' => \A q \in Procs :
           job'[q].key = k /\ job'[q].pc \in LogPcs => q = p,
         k \notin collided' /\ job'[p].pc = "check attempt" => Whole(ledger'[k][s]),
         k \notin collided' /\ job'[p].pc = "log" =>
           \A n \in Numbers : ledger'[k][n] # None =>
             /\ n < s /\ Whole(ledger'[k][n])
             /\ job'[p].cause # "transient" => ledger'[k][n].brief # job'[p].brief
  PROVE  LogOK(p)'
  <1>1. k \notin collided' => {q \in Procs : job'[q].key = k /\ job'[q].pc \in LogPcs} = {p}
    OBVIOUS
  <1>2. k \notin collided' => Logging(job[p].key)' = {p}
    BY <1>1 DEF Logging, LogPcs
  <1>3. QED  BY <1>2 DEF LogOK, At

LEMMA LogsNow ==
  ASSUME IInv, NEW p \in Procs, job[p].pc \in LogPcs, NEW k, NEW s, k = job[p].key, s = job[p].slot
  PROVE  /\ ledger[k][s] \in AnAttempt => ~ledger[k][s].legacy
         /\ \A q \in Procs : <<k, s>> \notin job[q].todo
         /\ k \notin collided =>
              /\ \A q \in Procs : job[q].key = k /\ job[q].pc \in LogPcs => q = p
              /\ job[p].pc = "check attempt" => Whole(ledger[k][s])
              /\ job[p].pc = "log" =>
                   \A n \in Numbers : ledger[k][n] # None =>
                     /\ n < s /\ Whole(ledger[k][n])
                     /\ job[p].cause # "transient" => ledger[k][n].brief # job[p].brief
  <1>1. LogOK(p)
    BY DEF IInv
  <1>2. QED  BY <1>1 DEF LogOK, Logging, At, LogPcs

LEMMA LedgerStep ==
  ASSUME IInv, NEW p \in Procs, NEW j \in JobType, job' = [job EXCEPT ![p] = j],
         UNCHANGED <<record, told, artifact>>,
         temps' \subseteq Procs, orphans' \subseteq Keys, faults' \in Nat,
         ledger' \in [Keys -> Attempts], collided \subseteq collided',
         \A k \in Keys \ collided' : LastN(ledger[k]) <= LastN(ledger'[k]),
         JobOK(p)', job[p].pc \notin ChangePcs, j.pc \notin ChangePcs \cup {"running"},
         BriefsChange', \A q \in Procs : LogOK(q)' /\ TodoOK(q)', TriesOK(p)'
  PROVE  IInv'
  <1>1. /\ job' \in [Procs -> JobType] /\ job'[p] = j
        /\ \A q \in Procs : q # p => job'[q] = job[q]
    BY JobSet DEF IInv
  <1>2. Typed'
    <2>1. \A q \in Procs : JobOK(q)'
      BY <1>1, JobsOK DEF IInv
    <2>2. ledger' \in [Keys -> [Numbers -> AnAttempt \cup {None, Torn}]]
      BY DEF Attempts
    <2>3. QED  BY <1>1, <2>1, <2>2 DEF IInv, Typed, record
  <1>3. RecordOK'
    BY <1>1, RecordSame DEF IInv, record
  <1>4. \A q \in Procs : TriesOK(q)'
    BY <1>1, TriesSame
  <1>5. \A q \in Procs : FreshOK(q)'
    BY <1>1, FreshSame
  <1>6. QED  BY <1>2, <1>3, <1>4, <1>5 DEF IInv

\* A failure may be logged: the number after the last one is taken.
LEMMA TakesNumber ==
  ASSUME IInv, NEW p \in Procs, job[p].pc = "precheck",
         Permitted(ledger[job[p].key], job[p].cause, job[p].brief),
         job' = [job EXCEPT ![p].pc = "log", ![p].slot = NextAttempt(ledger[job[p].key])],
         collided' = IF Logging(job[p].key) # {} THEN collided \cup {job[p].key} ELSE collided,
         UNCHANGED <<record, ledger, told, temps, orphans, faults, artifact>>
  PROVE  IInv'
  <1> DEFINE k == job[p].key
             a == ledger[k]
             s == NextAttempt(a)
             j == [job[p] EXCEPT !.pc = "log", !.slot = s]
  <1>1. /\ job[p] \in JobType /\ k \in Keys /\ a \in Attempts /\ job[p].kind \in {"log", "run"}
        /\ job[p].tries \in Nat /\ job[p].before \in Nat
    <2>1. job[p].pc \in OnKey
      BY DEF OnKey
    <2>2. job[p].before \in {0, 1, 2, 3}
      BY ProcFacts, Cap DEF IInv
    <2>3. QED  BY <2>1, <2>2, ProcFacts DEF IInv
  <1>2. /\ s \in Numbers /\ a[s] = None /\ s = LastN(a) + 1
        /\ \A n \in Numbers : a[n] # None => n < s /\ Whole(a[n])
    <2>1. HasRoom(a)
      BY DEF Permitted
    <2>2. QED  BY <1>1, <2>1, RoomFacts, LastFacts, Files
  <1>3. \A n \in Numbers : a[n] # None /\ job[p].cause # "transient" => a[n].brief # job[p].brief
    BY DEF Permitted, BriefChanged, Existing
  <1>4. job' = [job EXCEPT ![p] = j]
    BY DEF IInv, Typed
  <1> HIDE DEF s
  <1>5. /\ j \in JobType /\ j.pc = "log" /\ j.slot = s /\ j.key = k /\ j.kind = job[p].kind
        /\ j.todo = job[p].todo /\ j.tries = job[p].tries /\ j.before = job[p].before
        /\ j.cause = job[p].cause /\ j.brief = job[p].brief
    <2>1. "log" \in Phases /\ s \in 0..RETRY_ATTEMPT_CAP
      BY <1>2, Cap DEF Phases
    <2>2. QED  BY <1>1, <2>1 DEF JobType
  <1> HIDE DEF j
  <1>6. /\ job' \in [Procs -> JobType] /\ job'[p] = j
        /\ \A q \in Procs : q # p => job'[q] = job[q]
        /\ \A q \in Procs : job'[q].todo = job[q].todo
    BY <1>4, <1>5, JobSet DEF IInv
  <1>7. JobOK(p)'
    BY <1>1, <1>2, <1>5, <1>6 DEF JobOK, At, OnKey
  <1>8. TriesOK(p)'
    <2> DEFINE last == LastN(a)
    <2> SUFFICES ASSUME k \notin collided' PROVE TriesOK(p)'
      BY <1>5, <1>6 DEF TriesOK
    <2>1. /\ job[p].tries <= 1 \/ job[p].tries + job[p].before <= RETRY_ATTEMPT_CAP
          /\ job[p].kind = "run" => job[p].tries + job[p].before <= last + 1
      BY <1>1 DEF IInv, TriesOK, At
    <2>2. /\ job'[p].tries = job[p].tries /\ job'[p].before = job[p].before
          /\ job'[p].key = k /\ job'[p].kind = job[p].kind /\ job'[p].slot = last + 1
          /\ job'[p].pc = "log" /\ LastN(ledger'[k]) = last
      BY <1>2, <1>5, <1>6
    <2> HIDE DEF last, k
    <2>3. QED  BY <2>1, <2>2 DEF TriesOK, At
  <1>9. BriefsChange'
    BY DEF IInv, BriefsChange
  <1>10. ASSUME NEW q \in Procs PROVE TodoOK(q)'
    BY <1>6 DEF IInv, TodoOK
  <1>11. LogOK(p)'
    <2>1. a[s] \notin AnAttempt /\ ~Whole(a[s])
      BY <1>2, Files DEF Whole
    <2>2. \A q \in Procs : <<k, s>> \notin job'[q].todo
      BY <1>1, <1>2, <1>6, <2>1 DEF IInv, TodoOK
    <2>3. k \notin collided' => \A q \in Procs :
            job'[q].key = k /\ job'[q].pc \in LogPcs => q = p
      <3>1. k \notin collided' => Logging(k) = {}
        OBVIOUS
      <3>2. QED  BY <1>6, <3>1 DEF Logging, LogPcs
    <2>4. ledger' = ledger /\ job'[p].pc \in LogPcs /\ job'[p].pc # "check attempt"
      BY <1>5, <1>6 DEF LogPcs
    <2> HIDE DEF k
    <2>5. job'[p].key = k /\ job'[p].slot = s /\ job'[p].brief = job[p].brief
          /\ job'[p].cause = job[p].cause /\ a = ledger'[k]
      BY <1>5, <1>6, <2>4
    <2> HIDE DEF a
    <2>6. /\ ledger'[k][s] \notin AnAttempt
          /\ \A n \in Numbers : ledger'[k][n] # None =>
               /\ n < s /\ Whole(ledger'[k][n])
               /\ job'[p].cause # "transient" => ledger'[k][n].brief # job'[p].brief
      BY <1>2, <1>3, <2>1, <2>5
    <2> HIDE <1>2, <1>3, <1>5, <1>6, <2>1
    <2>7. QED  BY <2>2, <2>3, <2>4, <2>5, <2>6, LogsNext, ZenonT(30)
  <1>12. ASSUME NEW q \in Procs, q # p, job[q].pc \in LogPcs PROVE LogOK(q)'
    <2> DEFINE l == job[q].key
               m == job[q].slot
    <2>1. job'[q] = job[q] /\ ledger' = ledger
      BY <1>6, <1>12
    <2>2. q \in Logging(l)
      BY <1>12 DEF Logging, LogPcs
    <2>3. l \notin collided' => l # k /\ l \notin collided
      BY <2>2
    <2>7. /\ ledger[l][m] \in AnAttempt => ~ledger[l][m].legacy
          /\ l \notin collided =>
               /\ job[q].pc = "check attempt" => Whole(ledger[l][m])
               /\ job[q].pc = "log" =>
                    \A n \in Numbers : ledger[l][n] # None =>
                      /\ n < m /\ Whole(ledger[l][n])
                      /\ job[q].cause # "transient" => ledger[l][n].brief # job[q].brief
      BY <1>12 DEF IInv, LogOK, At, LogPcs
    <2> HIDE DEF l, m
    <2>4. l = job[q].key /\ m = job[q].slot
      BY DEF l, m
    <2>5. l \notin collided' => \A r \in Procs :
            job'[r].key = l /\ job'[r].pc \in LogPcs => r = q
      <3>1. l \notin collided => \A r \in Procs : job[r].key = l /\ job[r].pc \in LogPcs => r = q
        BY <1>12, <2>4, LogsNow, ZenonT(30)
      <3>2. QED  BY <1>5, <1>6, <2>3, <3>1
    <2>6. \A r \in Procs : <<l, m>> \notin job'[r].todo
      BY <1>6, <1>12, <2>4, LogsNow
    <2>8. job'[q].key = l /\ job'[q].slot = m /\ job'[q].pc \in LogPcs
      BY <1>12, <2>1, <2>4
    <2> HIDE DEF k
    <2>9. QED  BY <2>1, <2>3, <2>5, <2>6, <2>7, <2>8, LogsNext, ZenonT(30)
  <1>13. ASSUME NEW q \in Procs PROVE LogOK(q)'
    <2>1. CASE q # p /\ job[q].pc \notin LogPcs
      BY <1>6, <2>1 DEF LogOK, At, LogPcs
    <2>2. QED  BY <1>11, <1>12, <2>1
  <1>14. \A l \in Keys : LastN(ledger[l]) <= LastN(ledger'[l])
    BY LastGrows DEF IInv, Typed, Attempts
  <1>15. /\ temps' \subseteq Procs /\ orphans' \subseteq Keys /\ faults' \in Nat
         /\ collided \subseteq collided' /\ ledger' \in [Keys -> Attempts]
         /\ job[p].pc \notin ChangePcs /\ j.pc \notin ChangePcs \cup {"running"}
    BY <1>5 DEF IInv, Typed, Attempts, ChangePcs
  <1>16. QED
    BY <1>4, <1>5, <1>7, <1>8, <1>9, <1>10, <1>13, <1>14, <1>15, LedgerStep

LEMMA PrecheckIInv == ASSUME IInv, NEW p \in Procs, Precheck(p) PROVE IInv'
  <1>1. /\ job[p].pc = "precheck"
        /\ UNCHANGED <<record, ledger, told, temps, orphans, faults, artifact>>
    BY DEF Precheck, At, bounds
  <1>2. job[p].pc \in OnKey /\ job[p].pc \notin ChangePcs
    BY <1>1 DEF OnKey, ChangePcs
  <1>3. CASE Permitted(ledger[job[p].key], job[p].cause, job[p].brief)
    BY <1>1, <1>3, TakesNumber DEF Precheck
  <1>4. CASE ~Permitted(ledger[job[p].key], job[p].cause, job[p].brief)
    <2>1. (Goto(p, "escalate") \/ End(p)) /\ UNCHANGED collided
      BY <1>4 DEF Precheck
    <2>2. QED  BY <1>1, <1>2, <2>1, GivesUp, Ends
  <1>5. QED  BY <1>3, <1>4

\* Who goes on logging, while another changes a file.
LEMMA LogOther ==
  ASSUME IInv, NEW q \in Procs, job'[q] = job[q], collided \subseteq collided',
         job[q].pc \in LogPcs =>
           \A r \in Procs : <<job[q].key, job[q].slot>> \notin job'[r].todo,
         \A r \in Procs : job'[r].pc \in LogPcs =>
           job[r].pc \in LogPcs /\ job'[r].key = job[r].key,
         \A l \in Keys, n \in Numbers : ledger'[l][n] \in AnAttempt /\ ledger'[l][n].legacy =>
           ledger[l][n] \in AnAttempt /\ ledger[l][n].legacy,
         job[q].pc \in LogPcs /\ job[q].key \notin collided' => \A n \in Numbers :
           /\ ledger'[job[q].key][n] # None => ledger[job[q].key][n] # None
           /\ Whole(ledger[job[q].key][n]) =>
                /\ Whole(ledger'[job[q].key][n])
                /\ ledger'[job[q].key][n].brief = ledger[job[q].key][n].brief
  PROVE  LogOK(q)'
  <1>1. CASE job[q].pc \notin LogPcs
    BY <1>1 DEF LogOK, At, LogPcs
  <1>2. CASE job[q].pc \in LogPcs
    <2> DEFINE l == job[q].key
               m == job[q].slot
    <2>1. l \in Keys /\ m \in Numbers
      <3>1. job[q].pc \in OnKey
        BY <1>2 DEF OnKey, LogPcs
      <3>2. QED  BY <1>2, <3>1, ProcFacts DEF IInv
    <2>2. /\ ledger[l][m] \in AnAttempt => ~ledger[l][m].legacy
          /\ l \notin collided =>
               /\ \A r \in Procs : job[r].key = l /\ job[r].pc \in LogPcs => r = q
               /\ job[q].pc = "check attempt" => Whole(ledger[l][m])
               /\ job[q].pc = "log" =>
                    \A n \in Numbers : ledger[l][n] # None =>
                      /\ n < m /\ Whole(ledger[l][n])
                      /\ job[q].cause # "transient" => ledger[l][n].brief # job[q].brief
      <3>1. LogOK(q)
        BY DEF IInv
      <3>2. QED  BY <1>2, <3>1 DEF LogOK, Logging, At, LogPcs
    <2>3. /\ \A r \in Procs : <<l, m>> \notin job'[r].todo
          /\ l \notin collided' => \A n \in Numbers :
               /\ ledger'[l][n] # None => ledger[l][n] # None
               /\ Whole(ledger[l][n]) =>
                    Whole(ledger'[l][n]) /\ ledger'[l][n].brief = ledger[l][n].brief
      BY <1>2
    <2>4. /\ job'[q].key = l /\ job'[q].slot = m /\ job'[q].pc \in LogPcs
          /\ l \notin collided' => l \notin collided
      BY <1>2
    <2> HIDE DEF l, m
    <2>5. ledger'[l][m] \in AnAttempt => ~ledger'[l][m].legacy
      BY <2>1, <2>2
    <2>6. l \notin collided' => \A r \in Procs :
            job'[r].key = l /\ job'[r].pc \in LogPcs => r = q
      BY <2>2, <2>4
    <2>7. l \notin collided' =>
            /\ job'[q].pc = "check attempt" => Whole(ledger'[l][m])
            /\ job'[q].pc = "log" =>
                 \A n \in Numbers : ledger'[l][n] # None =>
                   /\ n < m /\ Whole(ledger'[l][n])
                   /\ job'[q].cause # "transient" => ledger'[l][n].brief # job'[q].brief
      <3>1. job'[q] = job[q]
        OBVIOUS
      <3>2. l \notin collided' /\ job[q].pc = "check attempt" => Whole(ledger'[l][m])
        BY <2>1, <2>2, <2>3, <2>4
      <3>3. ASSUME l \notin collided', job[q].pc = "log", NEW n \in Numbers,
                   ledger'[l][n] # None
            PROVE  /\ n < m /\ Whole(ledger'[l][n])
                   /\ job[q].cause # "transient" => ledger'[l][n].brief # job[q].brief
        <4>1. ledger[l][n] # None /\ l \notin collided
          BY <2>3, <2>4, <3>3
        <4>2. /\ n < m /\ Whole(ledger[l][n])
              /\ job[q].cause # "transient" => ledger[l][n].brief # job[q].brief
          BY <2>2, <3>3, <4>1
        <4>3. QED  BY <2>3, <3>3, <4>2
      <3>4. QED  BY <3>1, <3>2, <3>3
    <2>8. QED  BY <2>3, <2>4, <2>5, <2>6, <2>7, LogsNext, ZenonT(30)
  <1>3. QED  BY <1>1, <1>2

\* The file of the number that was taken is written, or left torn.
LEMMA PutsAttempt ==
  ASSUME IInv, NEW p \in Procs, job[p].pc = "log", NEW k, NEW s, NEW v,
         k = job[p].key, s = job[p].slot,
         v \in {Torn, Attempt(job[p].cause, job[p].brief, FALSE)},
         ledger' = [ledger EXCEPT ![k][s] = v], UNCHANGED collided,
         \A q \in Procs : q # p => job'[q] = job[q],
         \A q \in Procs : job'[q].todo \subseteq job[q].todo,
         job'[p].pc \in LogPcs => job'[p].key = k
  PROVE  /\ ledger' \in [Keys -> Attempts] /\ ledger'[k][s] = v
         /\ \A l \in Keys : LastN(ledger[l]) <= LastN(ledger'[l])
         /\ BriefsChange' /\ \A q \in Procs : TodoOK(q)'
         /\ \A q \in Procs : q # p => LogOK(q)'
  <1>1. k \in Keys /\ s \in Numbers /\ job[p].brief \in Seq(Numbers) /\ job[p].cause \in Causes
    <2>1. job[p].pc \in OnKey /\ job[p].pc \in LogPcs
      BY DEF OnKey, LogPcs
    <2>2. QED  BY <2>1, ProcFacts DEF IInv
  <1> DEFINE new == Attempt(job[p].cause, job[p].brief, FALSE)
  <1>2. /\ new \in AnAttempt /\ new.cause = job[p].cause /\ new.brief = job[p].brief
        /\ new.legacy = FALSE
    BY <1>1 DEF Attempt, AnAttempt
  <1> HIDE DEF new
  <1>3. /\ v \in AnAttempt \cup {None, Torn} /\ v # None /\ (v = Torn \/ v = new)
        /\ ~Whole(Torn) /\ Whole(new) /\ Torn \notin AnAttempt
    <2>1. v \in {Torn, new}
      BY DEF new
    <2>2. ~Whole(Torn)
      BY DEF Whole
    <2>3. QED  BY <1>2, <2>1, <2>2, Files
  <1>4. /\ ledger' \in [Keys -> Attempts] /\ ledger'[k][s] = v
        /\ \A n \in Numbers : n # s => ledger'[k][n] = ledger[k][n]
        /\ \A l \in Keys : l # k => ledger'[l] = ledger[l]
        /\ \A l \in Keys : ledger[l] \in Attempts
    <2>1. Typed
      BY DEF IInv
    <2>2. v \in AnAttempt \cup {None, Torn}
      BY <1>3
    <2> DEFINE a == [ledger[k] EXCEPT ![s] = v]
    <2>3. a = [ledger[k] EXCEPT ![s] = v]
      OBVIOUS
    <2> HIDE DEF a
    <2>4. ledger' = [ledger EXCEPT ![k] = a]
      BY DEF a
    <2>5. k \in Keys /\ s \in Numbers
      BY <1>1
    <2>6. QED  BY ONLY <2>1, <2>2, <2>3, <2>4, <2>5, PutFacts
  <1>5. \A l \in Keys : LastN(ledger[l]) <= LastN(ledger'[l])
    <2>1. ASSUME NEW l \in Keys, NEW n \in Numbers, ledger[l][n] # None
          PROVE  ledger'[l][n] # None
      BY <1>3, <1>4, <2>1
    <2>2. QED  BY <1>4, <2>1, LastGrows
  <1>6. /\ \A q \in Procs : <<k, s>> \notin job[q].todo
        /\ k \notin collided =>
             /\ \A q \in Procs : job[q].key = k /\ job[q].pc \in LogPcs => q = p
             /\ \A n \in Numbers : ledger[k][n] # None =>
                  /\ n < s /\ Whole(ledger[k][n])
                  /\ job[p].cause # "transient" => ledger[k][n].brief # job[p].brief
    <2>1. job[p].pc \in LogPcs
      BY DEF LogPcs
    <2>2. LogOK(p)
      BY DEF IInv
    <2>3. QED  BY <2>1, <2>2 DEF LogOK, Logging, At, LogPcs
  <1>7. BriefsChange'
    <2>1. ASSUME NEW l \in Keys \ collided, NEW m \in Numbers, NEW n \in Numbers,
                 m < n, Whole(ledger'[l][m]), Whole(ledger'[l][n]),
                 ledger'[l][n].cause # "transient"
          PROVE  ledger'[l][m].brief # ledger'[l][n].brief
      <3>1. CASE l # k
        BY <1>4, <2>1, <3>1 DEF IInv, BriefsChange
      <3>2. CASE l = k /\ n = s
        <4>1. ledger'[k][n] = new /\ m # s
          BY <1>3, <1>4, <2>1, <3>2, Cap
        <4>2. ledger'[k][m] = ledger[k][m] /\ ledger[k][m] # None
          BY <1>4, <2>1, <3>2, <4>1 DEF Whole
        <4>3. QED  BY <1>2, <1>6, <2>1, <3>2, <4>1, <4>2
      <3>3. CASE l = k /\ n # s
        <4>1. ledger'[k][n] = ledger[k][n] /\ ledger[k][n] # None
          BY <1>4, <2>1, <3>3 DEF Whole
        <4>2. n < s
          BY <1>6, <2>1, <3>3, <4>1
        <4>3. m # s
          BY <1>1, <2>1, <4>2, Cap
        <4>4. QED  BY <1>4, <2>1, <3>3, <4>1, <4>3 DEF IInv, BriefsChange
      <3>4. QED  BY <3>1, <3>2, <3>3
    <2>2. QED  BY <2>1, ZenonT(30) DEF BriefsChange
  <1>8. ASSUME NEW q \in Procs PROVE TodoOK(q)'
    <2>1. ASSUME NEW r \in job'[q].todo PROVE Whole(ledger'[r[1]][r[2]])
      <3>1. r \in job[q].todo /\ r \in Keys \X Numbers
        BY <2>1, ProcFacts DEF IInv
      <3>2. Whole(ledger[r[1]][r[2]]) /\ r # <<k, s>>
        BY <1>6, <3>1 DEF IInv, TodoOK
      <3>3. QED  BY <1>4, <3>1, <3>2
    <2>2. QED  BY <2>1 DEF TodoOK
  <1>9. ASSUME NEW q \in Procs, q # p PROVE LogOK(q)'
    <2>1. \A r \in Procs : job'[r].pc \in LogPcs =>
            job[r].pc \in LogPcs /\ job'[r].key = job[r].key
      <3>1. job[p].pc \in LogPcs
        BY DEF LogPcs
      <3>2. QED  BY <3>1
    <2>2. job[q].pc \in LogPcs =>
            \A r \in Procs : <<job[q].key, job[q].slot>> \notin job'[r].todo
      <3>1. job[q].pc \in LogPcs =>
              \A r \in Procs : <<job[q].key, job[q].slot>> \notin job[r].todo
        BY DEF IInv, LogOK, At, LogPcs
      <3>2. QED  BY <3>1
    <2>3. ASSUME NEW l \in Keys, NEW n \in Numbers, ledger'[l][n] \in AnAttempt,
                 ledger'[l][n].legacy
          PROVE  ledger[l][n] \in AnAttempt /\ ledger[l][n].legacy
      BY <1>2, <1>3, <1>4, <2>3
    <2>4. job[q].pc \in LogPcs /\ job[q].key \notin collided' =>
            job[q].key # k /\ job[q].key \in Keys
      <3>1. job[q].pc \in LogPcs => job[q].pc \in OnKey
        BY DEF LogPcs, OnKey
      <3>2. QED  BY <1>6, <1>9, <3>1, ProcFacts DEF IInv
    <2>5. job[q].pc \in LogPcs /\ job[q].key \notin collided' =>
            ledger'[job[q].key] = ledger[job[q].key]
      BY <1>4, <2>4
    <2>6. QED  BY <1>9, <2>1, <2>2, <2>3, <2>5, LogOther
  <1>10. QED  BY <1>4, <1>5, <1>7, <1>8, <1>9

LEMMA LogAttemptIInv == ASSUME IInv, NEW p \in Procs, LogAttempt(p) PROVE IInv'
  <1> DEFINE k == job[p].key
             s == job[p].slot
             v == Attempt(job[p].cause, job[p].brief, FALSE)
             j == [job[p] EXCEPT !.pc = "check attempt"]
  <1>1. /\ job[p].pc = "log" /\ ledger' = [ledger EXCEPT ![k][s] = v]
        /\ Goto(p, "check attempt")
        /\ UNCHANGED <<record, told, collided, temps, orphans, faults, artifact>>
    BY DEF LogAttempt, At, bounds
  <1>2. /\ job' \in [Procs -> JobType] /\ job'[p] = j /\ j \in JobType
        /\ job' = [job EXCEPT ![p] = j]
        /\ \A q \in Procs : q # p => job'[q] = job[q]
        /\ j.pc = "check attempt" /\ j.kind = job[p].kind /\ j.key = k /\ j.slot = s
        /\ j.todo = job[p].todo /\ j.tries = job[p].tries /\ j.before = job[p].before
    <2>1. "check attempt" \in Phases
      BY DEF Phases
    <2>2. Typed
      BY DEF IInv
    <2>3. /\ job' \in [Procs -> JobType] /\ job'[p] = j /\ j \in JobType
          /\ job' = [job EXCEPT ![p] = j]
          /\ \A q \in Procs : q # p => job'[q] = job[q]
      BY <1>1, <2>1, <2>2, GotoFacts
    <2>4. job[p] \in JobType
      BY <2>2, ProcFacts
    <2>5. QED  BY <2>3, <2>4 DEF JobType
  <1>3. k \in Keys /\ s \in Numbers /\ job[p].kind \in {"log", "run"}
        /\ job[p].brief \in Seq(Numbers) /\ job[p].cause \in Causes
    <2>1. job[p].pc \in OnKey /\ job[p].pc \in LogPcs
      BY <1>1 DEF OnKey, LogPcs
    <2>2. QED  BY <2>1, ProcFacts DEF IInv
  <1>4. v \in AnAttempt /\ Whole(v) /\ ~v.legacy
    BY <1>3, Files DEF Attempt, AnAttempt
  <1> HIDE DEF j
  <1>5. v \in {Torn, Attempt(job[p].cause, job[p].brief, FALSE)}
    OBVIOUS
  <1> HIDE DEF v
  <1>6. /\ ledger' \in [Keys -> Attempts] /\ ledger'[k][s] = v
        /\ \A l \in Keys : LastN(ledger[l]) <= LastN(ledger'[l])
        /\ BriefsChange' /\ \A q \in Procs : TodoOK(q)'
        /\ \A q \in Procs : q # p => LogOK(q)'
    <2>1. UNCHANGED collided /\ \A q \in Procs : job'[q].todo \subseteq job[q].todo
      BY <1>1, <1>2
    <2>2. job'[p].key = k
      BY <1>2
    <2>3. QED  BY <1>1, <1>2, <1>5, <2>1, <2>2, PutsAttempt
  <1>7. JobOK(p)'
    BY <1>2, <1>3 DEF JobOK, At, OnKey
  <1>8. TriesOK(p)'
    <2>1. k \notin collided =>
            /\ job[p].tries <= 1 \/ job[p].tries + job[p].before <= RETRY_ATTEMPT_CAP
            /\ job[p].kind = "run" => job[p].tries + job[p].before <= s
      BY <1>1, <1>3 DEF IInv, TriesOK, At
    <2>2. UNCHANGED collided
      BY <1>1
    <2>3. /\ job'[p].tries = job[p].tries /\ job'[p].before = job[p].before
          /\ job'[p].key = k /\ job'[p].kind = job[p].kind /\ job'[p].slot = s
          /\ job'[p].pc = "check attempt"
      BY <1>2
    <2> HIDE DEF k, s
    <2>4. QED  BY <2>1, <2>2, <2>3 DEF TriesOK, At
  <1>9. LogOK(p)'
    <2>1. job[p].pc \in LogPcs
      BY <1>1 DEF LogPcs
    <2> HIDE DEF k, s
    <2>2. k = job[p].key /\ s = job[p].slot
      BY DEF k, s
    <2>3. /\ \A q \in Procs : <<k, s>> \notin job[q].todo
          /\ k \notin collided => \A q \in Procs : job[q].key = k /\ job[q].pc \in LogPcs => q = p
      BY <2>1, <2>2, LogsNow, ZenonT(30)
    <2>4. \A q \in Procs : <<k, s>> \notin job'[q].todo
      BY <1>2, <2>3
    <2>5. k \notin collided' => \A q \in Procs : job'[q].key = k /\ job'[q].pc \in LogPcs => q = p
      BY <1>1, <1>2, <2>3
    <2>6. job'[p].key = k /\ job'[p].slot = s /\ job'[p].pc = "check attempt"
          /\ job'[p].pc \in LogPcs
      BY <1>2 DEF LogPcs
    <2>7. (ledger'[k][s] \in AnAttempt => ~ledger'[k][s].legacy) /\ Whole(ledger'[k][s])
      BY <1>4, <1>6
    <2>8. QED  BY <2>4, <2>5, <2>6, <2>7, LogsNext, ZenonT(30)
  <1>10. /\ temps' \subseteq Procs /\ orphans' \subseteq Keys /\ faults' \in Nat
         /\ collided \subseteq collided'
         /\ job[p].pc \notin ChangePcs /\ j.pc \notin ChangePcs \cup {"running"}
         /\ UNCHANGED <<record, told, artifact>>
         /\ \A q \in Procs : LogOK(q)'
    BY <1>1, <1>2, <1>6, <1>9 DEF IInv, Typed, ChangePcs
  <1>11. QED  BY <1>2, <1>6, <1>7, <1>8, <1>10, LedgerStep

\* Only of a key that two logged at once, a file can be found torn.
LEMMA UnlogAttemptIInv == ASSUME IInv, NEW p \in Procs, UnlogAttempt(p) PROVE IInv'
  <1> DEFINE k == job[p].key
             s == job[p].slot
             a == [ledger[k] EXCEPT ![s] = None]
  <1>1. /\ job[p].pc = "check attempt" /\ ~Whole(ledger[k][s]) /\ End(p)
        /\ UNCHANGED <<record, told, collided, temps, orphans, faults, artifact>>
    BY DEF UnlogAttempt, At, bounds
  <1>2. a = [ledger[k] EXCEPT ![s] = None] /\ ledger' = [ledger EXCEPT ![k] = a]
    BY DEF UnlogAttempt
  <1>3. job[p].pc \in OnKey /\ job[p].pc \in LogPcs /\ job[p].pc \notin ChangePcs
    BY <1>1 DEF OnKey, LogPcs, ChangePcs
  <1>4. k \in Keys /\ s \in Numbers
    BY <1>3, ProcFacts DEF IInv
  <1>5. k \in collided /\ \A q \in Procs : <<k, s>> \notin job[q].todo
    BY <1>1, <1>3 DEF IInv, LogOK, At
  <1> HIDE DEF k, s, a
  <1>6. /\ ledger' \in [Keys -> Attempts] /\ ledger'[k][s] = None
        /\ \A n \in Numbers : n # s => ledger'[k][n] = ledger[k][n]
        /\ \A l \in Keys : l # k => ledger'[l] = ledger[l]
        /\ \A l \in Keys : ledger[l] \in Attempts
    BY <1>2, <1>4, PutFacts DEF IInv
  <1>7. /\ job' = [job EXCEPT ![p] = NoJob] /\ NoJob \in JobType /\ NoJob.pc = "idle"
        /\ job' \in [Procs -> JobType] /\ job'[p] = NoJob
        /\ \A q \in Procs : q # p => job'[q] = job[q]
        /\ \A q \in Procs : job'[q].todo \subseteq job[q].todo
    BY <1>1, NoJobFacts, JobSet DEF End, IInv
  <1>8. JobOK(p)' /\ TriesOK(p)'
    BY <1>7, PlainEnd
  <1>9. \A l \in Keys \ collided : ledger'[l] = ledger[l]
    BY <1>5, <1>6
  <1>10. \A l \in Keys \ collided' : LastN(ledger[l]) <= LastN(ledger'[l])
    <2>1. ASSUME NEW l \in Keys PROVE LastN(ledger[l]) <= LastN(ledger[l])
      BY <1>6, LastGrows
    <2>2. QED  BY <1>1, <1>9, <2>1
  <1>11. BriefsChange'
    <2>1. UNCHANGED collided /\ BriefsChange
      BY <1>1 DEF IInv
    <2>2. QED  BY <1>9, <2>1 DEF BriefsChange
  <1>12. ASSUME NEW q \in Procs PROVE TodoOK(q)'
    <2>1. ASSUME NEW r \in job'[q].todo PROVE Whole(ledger'[r[1]][r[2]])
      <3>1. r \in job[q].todo /\ r \in Keys \X Numbers
        BY <1>7, <2>1, ProcFacts DEF IInv
      <3>2. Whole(ledger[r[1]][r[2]]) /\ r # <<k, s>>
        BY <1>5, <3>1 DEF IInv, TodoOK
      <3>3. QED  BY <1>6, <3>1, <3>2
    <2>2. QED  BY <2>1 DEF TodoOK
  <1>13. ASSUME NEW q \in Procs PROVE LogOK(q)'
    <2>1. CASE q = p
      BY <1>7, <2>1 DEF LogOK, At
    <2>2. CASE q # p
      <3>1. \A r \in Procs : job'[r].pc \in LogPcs =>
              job[r].pc \in LogPcs /\ job'[r].key = job[r].key
        BY <1>7 DEF LogPcs
      <3>2. job[q].pc \in LogPcs =>
              \A r \in Procs : <<job[q].key, job[q].slot>> \notin job'[r].todo
        <4>1. job[q].pc \in LogPcs =>
                \A r \in Procs : <<job[q].key, job[q].slot>> \notin job[r].todo
          BY DEF IInv, LogOK, At, LogPcs
        <4>2. QED  BY <1>7, <4>1
      <3>3. ASSUME NEW l \in Keys, NEW n \in Numbers, ledger'[l][n] \in AnAttempt,
                   ledger'[l][n].legacy
            PROVE  ledger[l][n] \in AnAttempt /\ ledger[l][n].legacy
        BY <1>6, <3>3, Files
      <3>4. job[q].pc \in LogPcs /\ job[q].key \notin collided' =>
              ledger'[job[q].key] = ledger[job[q].key]
        <4>1. job[q].pc \in LogPcs => job[q].pc \in OnKey
          BY DEF LogPcs, OnKey
        <4>2. QED  BY <1>1, <1>9, <4>1, ProcFacts DEF IInv
      <3>5. UNCHANGED collided /\ job'[q] = job[q]
        BY <1>1, <1>7, <2>2
      <3>6. QED  BY <3>1, <3>2, <3>3, <3>4, <3>5, LogOther
    <2>3. QED  BY <2>1, <2>2
  <1>14. /\ temps' \subseteq Procs /\ orphans' \subseteq Keys /\ faults' \in Nat
         /\ collided \subseteq collided' /\ UNCHANGED <<record, told, artifact>>
         /\ NoJob.pc \notin ChangePcs \cup {"running"}
    BY <1>1, <1>7 DEF IInv, Typed, ChangePcs
  <1>15. QED
    BY <1>3, <1>6, <1>7, <1>8, <1>10, <1>11, <1>12, <1>13, <1>14, LedgerStep

\* Nobody is to migrate what is being logged.
LEMMA LegacyFacts ==
  ASSUME IInv
  PROVE  /\ Legacy \in SUBSET (Keys \X Numbers)
         /\ \A r \in Legacy : Whole(ledger[r[1]][r[2]])
         /\ \A q \in Procs : job[q].pc \in LogPcs => <<job[q].key, job[q].slot>> \notin Legacy
  <1>1. /\ Legacy \in SUBSET (Keys \X Numbers)
        /\ \A r \in Legacy : Whole(ledger[r[1]][r[2]]) /\ ledger[r[1]][r[2]].legacy
    BY DEF Legacy
  <1>2. ASSUME NEW q \in Procs, job[q].pc \in LogPcs
        PROVE  <<job[q].key, job[q].slot>> \notin Legacy
    <2> DEFINE k == job[q].key
               s == job[q].slot
    <2>1. k \in Keys /\ s \in Numbers
      <3>1. job[q].pc \in OnKey
        BY <1>2 DEF OnKey, LogPcs
      <3>2. QED  BY <1>2, <3>1, ProcFacts DEF IInv
    <2>2. ledger[k][s] \in AnAttempt => ~ledger[k][s].legacy
      BY <1>2 DEF IInv, LogOK, At, LogPcs
    <2> HIDE DEF k, s
    <2>3. ledger[k][s] \in AnAttempt \cup {None, Torn}
      BY <2>1 DEF IInv, Typed
    <2>4. ~(Whole(ledger[k][s]) /\ ledger[k][s].legacy)
      BY <2>2, <2>3 DEF Whole
    <2>5. <<k, s>>[1] = k /\ <<k, s>>[2] = s
      OBVIOUS
    <2>6. <<k, s>> \notin Legacy
      BY <1>1, <2>4, <2>5
    <2>7. QED  BY <2>6 DEF k, s
  <1>3. QED  BY <1>1, <1>2

LEMMA RetryMigrateIInv == ASSUME IInv, NEW p \in Procs, RetryMigrate(p) PROVE IInv'
  <1> DEFINE left == Legacy
             j == [Job("migrate", "migrate") EXCEPT !.todo = left]
  <1>1. /\ job[p].pc = "idle" /\ job' = [job EXCEPT ![p] = j]
        /\ UNCHANGED <<record, ledger, told, collided, temps, orphans, faults, artifact>>
    BY DEF RetryMigrate, Start, Starts, At
  <1>2. left \in SUBSET (Keys \X Numbers) /\ \A r \in left : Whole(ledger[r[1]][r[2]])
    BY LegacyFacts
  <1>3. \A q \in Procs : job[q].pc \in LogPcs => <<job[q].key, job[q].slot>> \notin left
    BY LegacyFacts
  <1> HIDE DEF left
  <1>4. /\ j \in JobType /\ j.pc = "migrate" /\ j.key = None /\ j.todo = left /\ j.tries = 0
    <2>1. "migrate" \in Phases /\ "migrate" \in {"new", "clear", "run", "log", "migrate"}
      BY DEF Phases
    <2> DEFINE j0 == Job("migrate", "migrate")
    <2>2. j0 \in JobType /\ j0.pc = "migrate" /\ j0.key = None /\ j0.tries = 0
      BY <2>1, JobFacts
    <2> HIDE DEF j0
    <2>3. QED  BY <1>2, <2>2 DEF JobType, j0
  <1> HIDE DEF j
  <1>5. /\ job' \in [Procs -> JobType] /\ job'[p] = j
        /\ \A q \in Procs : q # p => job'[q] = job[q]
    BY <1>1, <1>4, JobSet DEF IInv
  <1>6. JobOK(p)' /\ TriesOK(p)'
    <2>1. job'[p].pc = "migrate" /\ job'[p].key \notin Keys
      BY <1>4, <1>5, Files
    <2>2. QED  BY <2>1 DEF JobOK, TriesOK, At, OnKey
  <1>7. UNCHANGED <<ledger, collided>> /\ BriefsChange'
    <2>1. UNCHANGED <<ledger, collided>>
      BY <1>1
    <2>2. QED  BY <2>1 DEF IInv, BriefsChange
  <1>8. ASSUME NEW q \in Procs PROVE TodoOK(q)'
    <2>1. CASE q = p
      BY <1>2, <1>4, <1>5, <1>7, <2>1 DEF TodoOK
    <2>2. CASE q # p
      BY <1>5, <1>7, <2>2 DEF IInv, TodoOK
    <2>3. QED  BY <2>1, <2>2
  <1>9. ASSUME NEW q \in Procs PROVE LogOK(q)'
    <2>1. CASE q = p
      BY <1>4, <1>5, <2>1 DEF LogOK, At
    <2>2. CASE q # p
      <3>1. \A r \in Procs : job'[r].pc \in LogPcs =>
              job[r].pc \in LogPcs /\ job'[r].key = job[r].key
        BY <1>4, <1>5 DEF LogPcs
      <3>2. job[q].pc \in LogPcs =>
              \A r \in Procs : <<job[q].key, job[q].slot>> \notin job'[r].todo
        <4>1. job[q].pc \in LogPcs =>
                \A r \in Procs : <<job[q].key, job[q].slot>> \notin job[r].todo
          BY DEF IInv, LogOK, At, LogPcs
        <4>2. QED  BY <1>3, <1>4, <1>5, <4>1
      <3>3. job'[q] = job[q] /\ collided \subseteq collided'
        BY <1>5, <1>7, <2>2
      <3>4. QED  BY <1>7, <3>1, <3>2, <3>3, LogOther
    <2>3. QED  BY <2>1, <2>2
  <1>10. \A l \in Keys : LastN(ledger[l]) <= LastN(ledger'[l])
    BY <1>7, LastGrows DEF IInv, Typed, Attempts
  <1>11. /\ temps' \subseteq Procs /\ orphans' \subseteq Keys /\ faults' \in Nat
         /\ collided \subseteq collided' /\ ledger' \in [Keys -> Attempts]
         /\ UNCHANGED <<record, told, artifact>>
         /\ job[p].pc \notin ChangePcs /\ j.pc \notin ChangePcs \cup {"running"}
    BY <1>1, <1>4 DEF IInv, Typed, Attempts, ChangePcs
  <1>12. QED
    BY <1>1, <1>4, <1>6, <1>7, <1>8, <1>9, <1>10, <1>11, LedgerStep

\* A migrated record keeps what the rules look at.
LEMMA ReplaceFacts ==
  ASSUME Typed, NEW p \in Procs, TodoOK(p), NEW k \in Keys, NEW n \in Numbers,
         MigrateReplace(p, k, n)
  PROVE  /\ ledger' \in [Keys -> Attempts]
         /\ \A l \in Keys : ledger[l] \in Attempts
         /\ \A l \in Keys, m \in Numbers :
              /\ ledger'[l][m] # None <=> ledger[l][m] # None
              /\ Whole(ledger[l][m]) <=> Whole(ledger'[l][m])
              /\ Whole(ledger[l][m]) => /\ ledger'[l][m].cause = ledger[l][m].cause
                                        /\ ledger'[l][m].brief = ledger[l][m].brief
                                        /\ ledger'[l][m].legacy => ledger[l][m].legacy
  <1> DEFINE v == [ledger[k][n] EXCEPT !.legacy = FALSE]
             a == [ledger[k] EXCEPT ![n] = v]
  <1>1. ledger[k][n] \in AnAttempt
    <2>1. <<k, n>> \in job[p].todo
      BY DEF MigrateReplace
    <2>2. <<k, n>>[1] = k /\ <<k, n>>[2] = n
      OBVIOUS
    <2>3. Whole(ledger[k][n])
      BY <2>1, <2>2 DEF TodoOK
    <2>4. QED  BY <2>3 DEF Typed, Whole
  <1>2. /\ v \in AnAttempt /\ v.cause = ledger[k][n].cause /\ v.brief = ledger[k][n].brief
        /\ v.legacy = FALSE
    BY <1>1 DEF AnAttempt
  <1>3. ledger' = [ledger EXCEPT ![k] = a]
    <2>1. ledger' = [ledger EXCEPT ![k][n].legacy = FALSE]
      BY DEF MigrateReplace
    <2>2. QED  BY <2>1
  <1> HIDE DEF v
  <1>4. a = [ledger[k] EXCEPT ![n] = v]
    OBVIOUS
  <1> HIDE DEF a
  <1>5. /\ ledger' \in [Keys -> Attempts] /\ ledger'[k][n] = v
        /\ \A m \in Numbers : m # n => ledger'[k][m] = ledger[k][m]
        /\ \A l \in Keys : l # k => ledger'[l] = ledger[l]
        /\ \A l \in Keys : ledger[l] \in Attempts
    BY <1>2, <1>3, <1>4, PutFacts
  <1>6. ASSUME NEW l \in Keys, NEW m \in Numbers
        PROVE  /\ ledger'[l][m] # None <=> ledger[l][m] # None
               /\ Whole(ledger[l][m]) <=> Whole(ledger'[l][m])
               /\ Whole(ledger[l][m]) => /\ ledger'[l][m].cause = ledger[l][m].cause
                                         /\ ledger'[l][m].brief = ledger[l][m].brief
                                         /\ ledger'[l][m].legacy => ledger[l][m].legacy
    <2>1. CASE l = k /\ m = n
      BY <1>1, <1>2, <1>5, <2>1, Files
    <2>2. CASE ~(l = k /\ m = n)
      <3>1. ledger'[l][m] = ledger[l][m]
        BY <1>5, <2>2
      <3>2. QED  BY <3>1
    <2>3. QED  BY <2>1, <2>2
  <1>7. QED  BY <1>5, <1>6

LEMMA MigrateReplaceIInv ==
  ASSUME IInv, NEW p \in Procs, NEW k \in Keys, NEW n \in Numbers, MigrateReplace(p, k, n)
  PROVE  IInv'
  <1> DEFINE left == job[p].todo \ {<<k, n>>}
             j == IF left = {} THEN NoJob
                  ELSE [job[p] EXCEPT !.todo = left, !.pc = "migrate"]
  <1>1. /\ job[p].pc = "replace" /\ temps' = temps \ {p}
        /\ UNCHANGED <<record, told, collided, orphans, faults, artifact>>
    BY DEF MigrateReplace, At, bounds
  <1>2. job' = [job EXCEPT ![p] = j]
    BY DEF MigrateReplace, IInv, Typed
  <1>3. /\ ledger' \in [Keys -> Attempts]
        /\ \A l \in Keys : ledger[l] \in Attempts
        /\ \A l \in Keys, m \in Numbers :
             /\ ledger'[l][m] # None <=> ledger[l][m] # None
             /\ Whole(ledger[l][m]) <=> Whole(ledger'[l][m])
             /\ Whole(ledger[l][m]) => /\ ledger'[l][m].cause = ledger[l][m].cause
                                       /\ ledger'[l][m].brief = ledger[l][m].brief
                                       /\ ledger'[l][m].legacy => ledger[l][m].legacy
    BY ReplaceFacts DEF IInv
  <1>4. /\ j \in JobType /\ j.pc \in {"idle", "migrate"} /\ j.todo \subseteq job[p].todo
        /\ j = NoJob \/ (j.key = job[p].key /\ j.tries = job[p].tries /\ j.before = job[p].before)
    <2>1. CASE left = {}
      <3>1. j = NoJob
        BY <2>1
      <3>2. QED  BY <3>1, NoJobFacts
    <2>2. CASE left # {}
      <3>1. j = [job[p] EXCEPT !.todo = left, !.pc = "migrate"]
        BY <2>2
      <3>2. job[p] \in JobType /\ left \in SUBSET (Keys \X Numbers) /\ left \subseteq job[p].todo
        BY ProcFacts DEF IInv
      <3>3. "migrate" \in Phases
        BY DEF Phases
      <3> HIDE DEF left
      <3>4. QED  BY <3>1, <3>2, <3>3 DEF JobType
    <2>3. QED  BY <2>1, <2>2
  <1> HIDE DEF j
  <1>5. /\ job' \in [Procs -> JobType] /\ job'[p] = j
        /\ \A q \in Procs : q # p => job'[q] = job[q]
    BY <1>2, <1>4, JobSet DEF IInv
  <1>6. JobOK(p)'
    BY <1>4, <1>5 DEF JobOK, At, OnKey
  <1>7. TriesOK(p)'
    <2>1. CASE j = NoJob
      BY <1>5, <2>1, PlainEnd
    <2>2. CASE j # NoJob
      <3>1. /\ job'[p].key = job[p].key /\ job'[p].tries = job[p].tries
            /\ job'[p].before = job[p].before
            /\ job'[p].pc \notin {"dispatch", "running", "precheck", "log", "check attempt"}
            /\ UNCHANGED collided
        BY <1>1, <1>4, <1>5, <2>2, NoJobFacts
      <3>2. job[p].key \in Keys \ collided =>
              job[p].tries <= 1 \/ job[p].tries + job[p].before <= RETRY_ATTEMPT_CAP
        BY DEF IInv, TriesOK
      <3>3. QED  BY <3>1, <3>2 DEF TriesOK, At
    <2>3. QED  BY <2>1, <2>2
  <1>8. BriefsChange'
    <2>1. UNCHANGED collided /\ BriefsChange
      BY <1>1 DEF IInv
    <2>2. QED  BY <1>3, <2>1 DEF BriefsChange
  <1>9. ASSUME NEW q \in Procs PROVE TodoOK(q)'
    <2>1. ASSUME NEW r \in job'[q].todo PROVE Whole(ledger'[r[1]][r[2]])
      <3>1. r \in job[q].todo
        BY <1>4, <1>5, <2>1
      <3>2. r[1] \in Keys /\ r[2] \in Numbers
        BY <3>1, ProcFacts DEF IInv
      <3>3. Whole(ledger[r[1]][r[2]])
        BY <3>1 DEF IInv, TodoOK
      <3>4. QED  BY <1>3, <3>2, <3>3
    <2>2. QED  BY <2>1 DEF TodoOK
  <1>10. ASSUME NEW q \in Procs PROVE LogOK(q)'
    <2>1. CASE q = p
      BY <1>4, <1>5, <2>1 DEF LogOK, At
    <2>2. CASE q # p
      <3>1. \A r \in Procs : job'[r].pc \in LogPcs =>
              job[r].pc \in LogPcs /\ job'[r].key = job[r].key
        BY <1>4, <1>5 DEF LogPcs
      <3>2. job[q].pc \in LogPcs =>
              \A r \in Procs : <<job[q].key, job[q].slot>> \notin job'[r].todo
        <4>1. job[q].pc \in LogPcs =>
                \A r \in Procs : <<job[q].key, job[q].slot>> \notin job[r].todo
          BY DEF IInv, LogOK, At, LogPcs
        <4>2. QED  BY <1>4, <1>5, <4>1
      <3>3. ASSUME NEW l \in Keys, NEW m \in Numbers, ledger'[l][m] \in AnAttempt,
                   ledger'[l][m].legacy
            PROVE  ledger[l][m] \in AnAttempt /\ ledger[l][m].legacy
        <4>1. Whole(ledger'[l][m])
          BY <3>3, Files
        <4>2. Whole(ledger[l][m]) /\ ledger[l][m].legacy
          BY <1>3, <3>3, <4>1
        <4>3. QED  BY <4>2 DEF IInv, Typed, Whole
      <3>4. job[q].pc \in LogPcs => job[q].key \in Keys
        <4>1. job[q].pc \in LogPcs => job[q].pc \in OnKey
          BY DEF LogPcs, OnKey
        <4>2. QED  BY <4>1, ProcFacts DEF IInv
      <3>5. job'[q] = job[q] /\ collided \subseteq collided'
        BY <1>1, <1>5, <2>2
      <3>6. job[q].pc \in LogPcs /\ job[q].key \notin collided' => \A m \in Numbers :
              /\ ledger'[job[q].key][m] # None => ledger[job[q].key][m] # None
              /\ Whole(ledger[job[q].key][m]) =>
                   /\ Whole(ledger'[job[q].key][m])
                   /\ ledger'[job[q].key][m].brief = ledger[job[q].key][m].brief
        BY <1>3, <3>4
      <3>7. QED  BY <3>1, <3>2, <3>3, <3>5, <3>6, LogOther
    <2>3. QED  BY <2>1, <2>2
  <1>11. \A l \in Keys : LastN(ledger[l]) <= LastN(ledger'[l])
    BY <1>3, LastGrows
  <1>12. /\ temps' \subseteq Procs /\ orphans' \subseteq Keys /\ faults' \in Nat
         /\ collided \subseteq collided' /\ UNCHANGED <<record, told, artifact>>
         /\ job[p].pc \notin ChangePcs /\ j.pc \notin ChangePcs \cup {"running"}
    BY <1>1, <1>4 DEF IInv, Typed, ChangePcs
  <1>13. QED
    BY <1>2, <1>3, <1>4, <1>6, <1>7, <1>8, <1>9, <1>10, <1>11, <1>12, LedgerStep

-----------------------------------------------------------------------------
(* Steps that change the record, or begin or end a change of it.           *)

LEMMA HasChanges ==
  ASSUME Typed, NEW p \in Changing
  PROVE  job[p].rec \in Records /\ Changes(job[p]) # {}
  BY DEF Typed, JobOK, At, Changing, Changes

\* Who is not on a key has nothing to count.
LEMMA TriesEnd ==
  ASSUME IInv, NEW p \in Procs, UNCHANGED collided, job'[p].pc \notin OnKey,
         \/ job'[p].tries = 0
         \/ /\ job'[p].key = job[p].key /\ job'[p].tries = job[p].tries
            /\ job'[p].before = job[p].before
  PROVE  TriesOK(p)'
  <1>1. job'[p].pc \notin {"dispatch", "running", "precheck", "log", "check attempt"}
    BY DEF OnKey
  <1>2. CASE job'[p].tries = 0
    <2>1. job'[p].tries <= 1
      BY <1>2
    <2>2. QED  BY <1>1, <2>1 DEF TriesOK, At
  <1>3. CASE job'[p].key = job[p].key /\ job'[p].tries = job[p].tries
             /\ job'[p].before = job[p].before
    <2>1. job[p].key \in Keys \ collided =>
            job[p].tries <= 1 \/ job[p].tries + job[p].before <= RETRY_ATTEMPT_CAP
      BY DEF IInv, TriesOK
    <2>2. QED  BY <1>1, <1>3, <2>1 DEF TriesOK, At
  <1>4. QED  BY <1>2, <1>3

LEMMA RecordStep ==
  ASSUME IInv, NEW p \in Procs, NEW j \in JobType, job' = [job EXCEPT ![p] = j],
         UNCHANGED <<evidence, ledger, temps, artifact, orphans, collided>>, faults' \in Nat,
         md' \in Records \cup {None, Torn}, json' \in Records \cup {None, Torn},
         JobOK(p)', RecordOK', j.pc \notin OnKey, j.todo \subseteq job[p].todo,
         \/ j.tries = 0
         \/ j.key = job[p].key /\ j.tries = job[p].tries /\ j.before = job[p].before
  PROVE  IInv'
  <1>1. /\ job' \in [Procs -> JobType] /\ job'[p] = j
        /\ \A q \in Procs : q # p => job'[q] = job[q]
    BY JobSet DEF IInv
  <1>2. Typed'
    <2>1. \A q \in Procs : JobOK(q)'
      BY <1>1, JobsOK DEF IInv
    <2>2. QED  BY <1>1, <2>1 DEF IInv, Typed
  <1>3. j.pc \notin LogPcs /\ j.pc # "running"
    BY DEF OnKey, LogPcs
  <1>4. BriefsChange' /\ \A q \in Procs : LogOK(q)' /\ TodoOK(q)'
    BY <1>1, <1>3, LogSame
  <1>5. \A q \in Procs : TriesOK(q)'
    <2>1. ledger' \in [Keys -> Attempts]
          /\ \A k \in Keys : LastN(ledger[k]) <= LastN(ledger'[k])
      BY LastGrows DEF IInv, Typed, Attempts
    <2>2. TriesOK(p)'
      BY <1>1, TriesEnd
    <2>3. QED  BY <1>1, <2>1, <2>2, TriesSame
  <1>6. \A q \in Procs : FreshOK(q)'
    BY <1>1, <1>3, FreshSame
  <1>7. QED  BY <1>2, <1>4, <1>5, <1>6 DEF IInv

\* A change begins, with a record that holds what was acknowledged.
LEMMA Begins ==
  ASSUME IInv, NEW p \in Procs, job[p].pc \in {"idle", "escalate"},
         NEW j \in JobType, NEW rec \in Records, Change(p, j, rec), UNCHANGED faults,
         acked \ lapped \subseteq Held(rec), Changes(j) \subseteq Held(rec), j.tries = 0,
         j.kind \in {"new", "run"} \/ (j.kind = "clear" /\ j.key \in GateKeys), j.todo = {}
  PROVE  IInv'
  <1> DEFINE n == [j EXCEPT !.rec = rec, !.pc = "md"]
  <1>1. /\ lapped' = IF Changing = {} THEN lapped ELSE
             lapped \cup Changes(j) \cup UNION {Changes(job[q]) : q \in Changing}
        /\ job' = [job EXCEPT ![p] = n]
        /\ UNCHANGED <<md, json, evidence, ledger, temps, artifact, orphans, acked, refused,
                       collided>>
    BY DEF Change, record
  <1>2. /\ n \in JobType /\ n.pc = "md" /\ n.rec = rec /\ n.kind = j.kind /\ n.key = j.key
        /\ n.todo = {} /\ n.tries = 0
    BY DEF JobType, Phases
  <1> HIDE DEF n
  <1>3. Changes(n) = Changes(j)
    BY <1>2 DEF Changes
  <1>4. /\ job' \in [Procs -> JobType] /\ job'[p] = n
        /\ \A q \in Procs : q # p => job'[q] = job[q]
    BY <1>1, <1>2, JobSet DEF IInv
  <1>5. Changing' = Changing \cup {p} /\ p \notin Changing
    BY <1>2, <1>4 DEF Changing
  <1>6. JobOK(p)'
    BY <1>2, <1>4 DEF JobOK, At, OnKey
  <1>7. RecordOK'
    <2>1. lapped \subseteq lapped' /\ RecordOK
      BY <1>1 DEF IInv
    <2>2. RecordHolds' /\ (md' = None => acked' = {})
      BY <1>1, <1>5, <2>1 DEF RecordOK, RecordHolds
    <2>3. CASE Changing = {}
      <3>1. ChangeOK(p)'
        <4>1. acked' \ lapped' \subseteq Held(job'[p].rec) /\ Changes(job'[p]) \subseteq Held(job'[p].rec)
          BY <1>1, <1>2, <1>3, <1>4, <2>3
        <4>2. Changing' = {p} /\ job'[p].pc = "md"
          BY <1>2, <1>4, <1>5, <2>3
        <4>3. QED  BY <4>1, <4>2 DEF ChangeOK, At
      <3>2. QED  BY <1>5, <2>2, <2>3, <3>1 DEF RecordOK
    <2>4. CASE Changing # {}
      <3>1. Changes(j) \subseteq lapped' /\ \A q \in Changing : Changes(job[q]) \subseteq lapped'
        BY <1>1, <2>4
      <3>2. ChangeOK(p)'
        <4>1. acked' \ lapped' \subseteq Held(job'[p].rec) /\ Changes(job'[p]) \subseteq lapped'
          BY <1>1, <1>2, <1>3, <1>4, <2>1, <3>1
        <4>2. QED  BY <4>1 DEF ChangeOK
      <3>3. ASSUME NEW q \in Changing PROVE ChangeOK(q)'
        <4>1. job'[q] = job[q] /\ q \in Procs /\ ChangeOK(q)
          BY <1>4, <1>5, <2>1 DEF Changing, RecordOK
        <4>2. acked' \ lapped' \subseteq Held(job'[q].rec) /\ Changes(job'[q]) \subseteq lapped'
          BY <1>1, <2>1, <3>1, <3>3, <4>1 DEF ChangeOK
        <4>3. QED  BY <4>2 DEF ChangeOK
      <3>4. QED  BY <1>5, <2>2, <3>2, <3>3 DEF RecordOK
    <2>5. QED  BY <2>3, <2>4
  <1>8. /\ n.pc \notin OnKey /\ n.todo \subseteq job[p].todo /\ faults' \in Nat
        /\ md' \in Records \cup {None, Torn} /\ json' \in Records \cup {None, Torn}
    BY <1>1, <1>2 DEF IInv, Typed, OnKey
  <1>9. QED  BY <1>1, <1>2, <1>6, <1>7, <1>8, RecordStep

LEMMA MissionNewIInv == ASSUME IInv, NEW p \in Procs, MissionNew(p) PROVE IInv'
  <1> DEFINE j == Job("new", "md")
  <1>1. /\ md = None /\ job[p].pc = "idle" /\ UNCHANGED faults /\ Change(p, j, Blank)
    BY DEF MissionNew, Starts, At
  <1>2. /\ j \in JobType /\ j.kind = "new" /\ j.todo = {} /\ j.tries = 0
    <2>1. "md" \in Phases /\ "new" \in {"new", "clear", "run", "log", "migrate"}
      BY DEF Phases
    <2>2. QED  BY <2>1, JobFacts
  <1>3. Blank \in Records
    BY DEF Blank, Record, Records
  <1>4. acked \ lapped \subseteq Held(Blank)
    BY <1>1 DEF IInv, RecordOK
  <1>5. Changes(j) \subseteq Held(Blank)
    BY <1>2 DEF Changes, Held
  <1> HIDE DEF j
  <1>6. QED  BY <1>1, <1>2, <1>3, <1>4, <1>5, Begins

LEMMA GateClearIInv == ASSUME IInv, NEW p \in Procs, NEW g \in Gates, GateClear(p, g) PROVE IInv'
  <1> DEFINE j == [Job("clear", "md") EXCEPT !.key = <<"gate", g>>]
             rec == Cleared(md, g)
  <1>1. /\ Whole(md) /\ job[p].pc = "idle" /\ UNCHANGED faults /\ Change(p, j, rec)
    BY DEF GateClear, Starts, At
  <1>2. /\ j \in JobType /\ j.kind = "clear" /\ j.key = <<"gate", g>> /\ j.todo = {}
        /\ j.tries = 0 /\ <<"gate", g>> \in GateKeys
    <2>1. "md" \in Phases /\ "clear" \in {"new", "clear", "run", "log", "migrate"}
      BY DEF Phases
    <2> DEFINE j0 == Job("clear", "md")
               k  == <<"gate", g>>
    <2>2. j0 \in JobType /\ j0.kind = "clear" /\ j0.todo = {} /\ j0.tries = 0
      BY <2>1, JobFacts
    <2>3. k \in GateKeys
      BY DEF GateKeys
    <2> HIDE DEF j0, k
    <2>4. [j0 EXCEPT !.key = k] \in JobType
      BY <2>2, <2>3 DEF JobType
    <2>5. /\ [j0 EXCEPT !.key = k].kind = "clear" /\ [j0 EXCEPT !.key = k].key = k
          /\ [j0 EXCEPT !.key = k].todo = {} /\ [j0 EXCEPT !.key = k].tries = 0
      BY <2>2 DEF JobType
    <2>6. QED  BY <2>3, <2>4, <2>5 DEF j0, k
  <1>3. md \in Records
    BY <1>1 DEF IInv, Typed, Whole
  <1>4. rec \in Records /\ rec.cleared = md.cleared \cup {g} /\ rec.red = md.red
    BY <1>3 DEF Cleared, Records
  <1>5. acked \ lapped \subseteq Held(rec)
    <2>1. acked \ lapped \subseteq Held(md)
      BY <1>1 DEF IInv, RecordOK, RecordHolds
    <2>2. Held(md) \subseteq Held(rec)
      BY <1>4 DEF Held
    <2>3. QED  BY <2>1, <2>2
  <1>6. Changes(j) \subseteq Held(rec)
    BY <1>2, <1>4 DEF Changes, Held
  <1> HIDE DEF j, rec
  <1>7. QED  BY <1>1, <1>2, <1>4, <1>5, <1>6, Begins

LEMMA EscalateIInv == ASSUME IInv, NEW p \in Procs, Escalate(p) PROVE IInv'
  <1> DEFINE j == Job("run", "md")
             rec == CodeRed(md)
  <1>1. /\ Whole(md) /\ job[p].pc = "escalate" /\ UNCHANGED faults /\ Change(p, j, rec)
    BY DEF Escalate, bounds, At
  <1>2. /\ j \in JobType /\ j.kind = "run" /\ j.todo = {} /\ j.tries = 0
    <2>1. "md" \in Phases /\ "run" \in {"new", "clear", "run", "log", "migrate"}
      BY DEF Phases
    <2>2. QED  BY <2>1, JobFacts
  <1>3. md \in Records
    BY <1>1 DEF IInv, Typed, Whole
  <1>4. rec \in Records /\ rec.cleared = md.cleared /\ rec.red = TRUE
    BY <1>3 DEF CodeRed, Records
  <1>5. acked \ lapped \subseteq Held(rec)
    <2>1. acked \ lapped \subseteq Held(md)
      BY <1>1 DEF IInv, RecordOK, RecordHolds
    <2>2. Held(md) \subseteq Held(rec)
      BY <1>4 DEF Held
    <2>3. QED  BY <2>1, <2>2
  <1>6. Changes(j) \subseteq Held(rec)
    BY <1>2, <1>4 DEF Changes, Held
  <1> HIDE DEF j, rec
  <1>7. QED  BY <1>1, <1>2, <1>4, <1>5, <1>6, Begins

LEMMA WriteMdIInv == ASSUME IInv, NEW p \in Procs, WriteMd(p) PROVE IInv'
  <1> DEFINE j == [job[p] EXCEPT !.pc = "json"]
             rec == job[p].rec
  <1>1. /\ job[p].pc = "md" /\ md' = rec /\ Goto(p, "json")
        /\ UNCHANGED <<json, evidence, ledger, temps, artifact, orphans, faults, acked, refused,
                       lapped, collided>>
    BY DEF WriteMd, At, bounds, told
  <1>2. /\ job' \in [Procs -> JobType] /\ job'[p] = j /\ j \in JobType
        /\ job' = [job EXCEPT ![p] = j]
        /\ \A q \in Procs : q # p => job'[q] = job[q]
        /\ j.pc = "json" /\ j.kind = job[p].kind /\ j.key = job[p].key /\ j.rec = rec
        /\ j.todo = job[p].todo /\ j.tries = job[p].tries /\ j.before = job[p].before
    <2>1. "json" \in Phases
      BY DEF Phases
    <2>2. Typed
      BY DEF IInv
    <2>3. /\ job' \in [Procs -> JobType] /\ job'[p] = j /\ j \in JobType
          /\ job' = [job EXCEPT ![p] = j]
          /\ \A q \in Procs : q # p => job'[q] = job[q]
      BY <1>1, <2>1, <2>2, GotoFacts
    <2>4. job[p] \in JobType
      BY <2>2, ProcFacts
    <2>5. QED  BY <2>3, <2>4 DEF JobType
  <1> HIDE DEF j
  <1>3. p \in Changing /\ Changing' = Changing /\ ChangeOK(p) /\ RecordOK
    BY <1>1, <1>2 DEF Changing, IInv, RecordOK
  <1>4. rec \in Records
    BY <1>3, HasChanges DEF IInv
  <1>5. Changes(j) = Changes(job[p])
    BY <1>2 DEF Changes
  <1>6. JobOK(p)'
    <2>1. job[p].kind \in {"new", "run"} \/ (job[p].kind = "clear" /\ job[p].key \in GateKeys)
      BY <1>1 DEF IInv, Typed, JobOK, At
    <2>2. QED  BY <1>2, <1>4, <2>1 DEF JobOK, At, OnKey
  <1>7. RecordOK'
    <2>1. md' # None /\ acked' \ lapped' \subseteq Held(rec)
      BY <1>1, <1>3, <1>4, Files DEF ChangeOK
    <2>2. RecordHolds' /\ (md' = None => acked' = {})
      BY <1>1, <1>3, <2>1 DEF RecordOK, RecordHolds
    <2>3. ChangeOK(p)'
      <3>1. job'[p].rec = rec /\ Changes(job'[p]) = Changes(job[p]) /\ job'[p].pc = "json"
        BY <1>2, <1>5
      <3>2. Changes(job[p]) \subseteq lapped'
              \/ (Changing' = {p} /\ Changes(job[p]) \subseteq Held(rec))
        BY <1>1, <1>3 DEF ChangeOK
      <3>3. QED  BY <1>1, <2>1, <3>1, <3>2 DEF ChangeOK, At
    <2>4. ASSUME NEW q \in Changing, q # p PROVE ChangeOK(q)'
      <3>1. job'[q] = job[q] /\ ChangeOK(q)
        BY <1>2, <1>3, <2>4 DEF Changing, RecordOK
      <3>2. Changes(job[q]) \subseteq lapped /\ acked \ lapped \subseteq Held(job[q].rec)
        BY <1>3, <2>4, <3>1 DEF ChangeOK
      <3>3. QED  BY <1>1, <3>1, <3>2 DEF ChangeOK
    <2>5. QED  BY <1>3, <2>2, <2>3, <2>4 DEF RecordOK
  <1>8. /\ j.pc \notin OnKey /\ j.todo \subseteq job[p].todo /\ faults' \in Nat
        /\ md' \in Records \cup {None, Torn} /\ json' \in Records \cup {None, Torn}
    BY <1>1, <1>2, <1>4 DEF IInv, Typed, OnKey
  <1>9. QED  BY <1>1, <1>2, <1>6, <1>7, <1>8, RecordStep

LEMMA WriteJsonIInv == ASSUME IInv, NEW p \in Procs, WriteJson(p) PROVE IInv'
  <1> DEFINE j == [job[p] EXCEPT !.pc = "check record"]
             rec == job[p].rec
  <1>1. /\ job[p].pc = "json" /\ json' = rec /\ Goto(p, "check record")
        /\ UNCHANGED <<md, evidence, ledger, temps, artifact, orphans, faults, acked, refused,
                       lapped, collided>>
    BY DEF WriteJson, At, bounds, told
  <1>2. /\ job' \in [Procs -> JobType] /\ job'[p] = j /\ j \in JobType
        /\ job' = [job EXCEPT ![p] = j]
        /\ \A q \in Procs : q # p => job'[q] = job[q]
        /\ j.pc = "check record" /\ j.kind = job[p].kind /\ j.key = job[p].key /\ j.rec = rec
        /\ j.todo = job[p].todo /\ j.tries = job[p].tries /\ j.before = job[p].before
    <2>1. "check record" \in Phases
      BY DEF Phases
    <2>2. Typed
      BY DEF IInv
    <2>3. /\ job' \in [Procs -> JobType] /\ job'[p] = j /\ j \in JobType
          /\ job' = [job EXCEPT ![p] = j]
          /\ \A q \in Procs : q # p => job'[q] = job[q]
      BY <1>1, <2>1, <2>2, GotoFacts
    <2>4. job[p] \in JobType
      BY <2>2, ProcFacts
    <2>5. QED  BY <2>3, <2>4 DEF JobType
  <1> HIDE DEF j
  <1>3. p \in Changing /\ Changing' = Changing /\ ChangeOK(p) /\ RecordOK
    BY <1>1, <1>2 DEF Changing, IInv, RecordOK
  <1>4. rec \in Records
    BY <1>3, HasChanges DEF IInv
  <1>5. Changes(j) = Changes(job[p])
    BY <1>2 DEF Changes
  <1>6. JobOK(p)'
    <2>1. job[p].kind \in {"new", "run"} \/ (job[p].kind = "clear" /\ job[p].key \in GateKeys)
      BY <1>1 DEF IInv, Typed, JobOK, At
    <2>2. QED  BY <1>2, <1>4, <2>1 DEF JobOK, At, OnKey
  <1>7. RecordOK'
    <2>1. acked' \ lapped' \subseteq Held(rec)
      BY <1>1, <1>3 DEF ChangeOK
    <2>2. RecordHolds' /\ (md' = None => acked' = {})
      BY <1>1, <1>3 DEF RecordOK, RecordHolds
    <2>3. ChangeOK(p)'
      <3>1. job'[p].rec = rec /\ Changes(job'[p]) = Changes(job[p]) /\ job'[p].pc = "check record"
        BY <1>2, <1>5
      <3>2. Changes(job[p]) \subseteq lapped'
              \/ (Changing' = {p} /\ Changes(job[p]) \subseteq Held(rec) /\ md' = rec)
        BY <1>1, <1>3 DEF ChangeOK, At
      <3>3. QED  BY <1>1, <2>1, <3>1, <3>2 DEF ChangeOK, At
    <2>4. ASSUME NEW q \in Changing, q # p PROVE ChangeOK(q)'
      <3>1. job'[q] = job[q] /\ ChangeOK(q)
        BY <1>2, <1>3, <2>4 DEF Changing, RecordOK
      <3>2. Changes(job[q]) \subseteq lapped /\ acked \ lapped \subseteq Held(job[q].rec)
        BY <1>3, <2>4, <3>1 DEF ChangeOK
      <3>3. QED  BY <1>1, <3>1, <3>2 DEF ChangeOK
    <2>5. QED  BY <1>3, <2>2, <2>3, <2>4 DEF RecordOK
  <1>8. /\ j.pc \notin OnKey /\ j.todo \subseteq job[p].todo /\ faults' \in Nat
        /\ md' \in Records \cup {None, Torn} /\ json' \in Records \cup {None, Torn}
    BY <1>1, <1>2, <1>4 DEF IInv, Typed, OnKey
  <1>9. QED  BY <1>1, <1>2, <1>6, <1>7, <1>8, RecordStep

\* The job that changed the record is over: what others have to lose is lapped.
LEMMA ChangeEnds ==
  ASSUME IInv, NEW p \in Changing, End(p)
  PROVE  /\ Changing' = Changing \ {p} /\ p \in Procs
         /\ NoJob \in JobType /\ NoJob.pc \notin OnKey /\ NoJob.todo = {} /\ NoJob.tries = 0
         /\ job' = [job EXCEPT ![p] = NoJob] /\ JobOK(p)'
         /\ \A q \in Changing : q # p =>
              job'[q] = job[q] /\ Changes(job[q]) \subseteq lapped
              /\ acked \ lapped \subseteq Held(job[q].rec) /\ Changes(job[p]) \subseteq lapped
  <1>1. p \in Procs
    BY DEF Changing
  <1>2. /\ NoJob \in JobType /\ NoJob.pc = "idle" /\ NoJob.pc \notin OnKey /\ NoJob.todo = {}
        /\ NoJob.tries = 0
    BY NoJobFacts DEF OnKey
  <1>3. /\ job' = [job EXCEPT ![p] = NoJob]
        /\ job' \in [Procs -> JobType] /\ job'[p] = NoJob
        /\ \A q \in Procs : q # p => job'[q] = job[q]
    BY <1>1, <1>2, JobSet DEF IInv, End
  <1>4. Changing' = Changing \ {p}
    BY <1>1, <1>2, <1>3 DEF Changing
  <1>5. JobOK(p)'
    BY <1>1, <1>3, PlainEnd
  <1>6. ASSUME NEW q \in Changing, q # p
        PROVE  /\ job'[q] = job[q] /\ Changes(job[q]) \subseteq lapped
               /\ acked \ lapped \subseteq Held(job[q].rec) /\ Changes(job[p]) \subseteq lapped
    <2>1. job'[q] = job[q]
      BY <1>3, <1>6 DEF Changing
    <2>2. ChangeOK(q) /\ ChangeOK(p)
      BY DEF IInv, RecordOK
    <2>3. QED  BY <1>6, <2>1, <2>2 DEF ChangeOK
  <1>7. QED  BY <1>1, <1>2, <1>3, <1>4, <1>5, <1>6

LEMMA CheckRecordIInv == ASSUME IInv, NEW p \in Procs, CheckRecord(p) PROVE IInv'
  <1> DEFINE new == Changes(job[p])
  <1>1. /\ job[p].pc = "check record" /\ End(p)
        /\ UNCHANGED <<md, json, evidence, ledger, temps, artifact, orphans, faults, lapped,
                       collided>>
    BY DEF CheckRecord, At, bounds, record
  <1>2. IF Valid(md) /\ Valid(json) THEN acked' = acked \cup new /\ UNCHANGED refused
                                    ELSE refused' = refused \cup new /\ UNCHANGED acked
    BY DEF CheckRecord
  <1>3. p \in Changing
    BY <1>1 DEF Changing
  <1>4. job[p].rec \in Records /\ new # {} /\ ChangeOK(p) /\ RecordOK
    BY <1>3, HasChanges DEF IInv, RecordOK
  <1>5. \/ new \subseteq lapped
        \/ /\ Changing = {p} /\ new \subseteq Held(job[p].rec)
           /\ md = job[p].rec /\ json = job[p].rec
    BY <1>1, <1>4 DEF ChangeOK, At
  <1>6. /\ Changing' = Changing \ {p}
        /\ NoJob \in JobType /\ NoJob.pc \notin OnKey /\ NoJob.todo = {} /\ NoJob.tries = 0
        /\ job' = [job EXCEPT ![p] = NoJob] /\ JobOK(p)'
        /\ \A q \in Changing : q # p =>
             job'[q] = job[q] /\ Changes(job[q]) \subseteq lapped
             /\ acked \ lapped \subseteq Held(job[q].rec) /\ new \subseteq lapped
    BY <1>1, <1>3, ChangeEnds
  <1> HIDE DEF new
  <1>7. RecordOK'
    <2>1. Whole(md') => acked' \ lapped' \subseteq Held(md')
      <3>1. Whole(md) => acked \ lapped \subseteq Held(md)
        BY <1>4 DEF RecordOK, RecordHolds
      <3>2. Whole(md) => new \ lapped \subseteq Held(md)
        BY <1>5
      <3>3. acked' \subseteq acked \cup new /\ UNCHANGED <<md, lapped>>
        BY <1>1, <1>2
      <3>4. QED  BY <3>1, <3>2, <3>3
    <2>2. Changing' = {} /\ lapped' = {} => md' = json'
      BY <1>1, <1>4, <1>5
    <2>3. refused' # {} => evidence' # Gates \/ lapped' # {}
      <3>1. CASE Valid(md) /\ Valid(json)
        BY <1>1, <1>2, <1>4, <3>1 DEF RecordOK, RecordHolds
      <3>2. CASE ~(Valid(md) /\ Valid(json)) /\ lapped = {}
        <4>1. md = job[p].rec /\ json = job[p].rec
          BY <1>4, <1>5, <3>2
        <4>2. Whole(job[p].rec) /\ job[p].rec.cleared \subseteq Gates
          BY <1>4, Files DEF Records
        <4>3. ~(Gates \subseteq evidence)
          BY <3>2, <4>1, <4>2 DEF Valid
        <4>4. QED  BY <1>1, <4>3
      <3>3. QED  BY <1>1, <3>1, <3>2
    <2>4. md' = None => acked' = {}
      <3>1. md = None => ~Valid(md)
        BY DEF Valid, Whole
      <3>2. QED  BY <1>1, <1>2, <1>4, <3>1 DEF RecordOK
    <2>5. ASSUME NEW q \in Changing, q # p PROVE ChangeOK(q)'
      <3>1. /\ job'[q] = job[q] /\ Changes(job[q]) \subseteq lapped
            /\ acked \ lapped \subseteq Held(job[q].rec) /\ new \subseteq lapped
        BY <1>6, <2>5
      <3>2. acked' \ lapped' \subseteq acked \ lapped /\ UNCHANGED lapped
        BY <1>1, <1>2, <3>1
      <3>3. QED  BY <3>1, <3>2 DEF ChangeOK
    <2>6. QED  BY <1>6, <2>1, <2>2, <2>3, <2>4, <2>5 DEF RecordOK, RecordHolds
  <1>8. /\ NoJob.todo \subseteq job[p].todo /\ faults' \in Nat
        /\ md' \in Records \cup {None, Torn} /\ json' \in Records \cup {None, Torn}
    BY <1>1, <1>6 DEF IInv, Typed
  <1>9. QED  BY <1>1, <1>6, <1>7, <1>8, RecordStep

-----------------------------------------------------------------------------
(* A kill.                                                                 *)

LEMMA KilledChanging ==
  ASSUME IInv, NEW p \in Procs, NEW halfway \in BOOLEAN, Crash(p, halfway), p \in Changing
  PROVE  IInv'
  <1>1. /\ job[p].pc \in ChangePcs /\ md' \in {md, Torn} /\ json' \in {json, Torn}
        /\ lapped' = lapped \cup Changes(job[p]) /\ faults' = faults + 1 /\ End(p)
        /\ UNCHANGED <<evidence, ledger, temps, artifact, orphans, acked, refused, collided>>
    BY DEF Crash, Fault, At, Changing, ChangePcs
  <1>2. /\ Changing' = Changing \ {p}
        /\ NoJob \in JobType /\ NoJob.pc \notin OnKey /\ NoJob.todo = {} /\ NoJob.tries = 0
        /\ job' = [job EXCEPT ![p] = NoJob] /\ JobOK(p)'
        /\ \A q \in Changing : q # p =>
             job'[q] = job[q] /\ Changes(job[q]) \subseteq lapped
             /\ acked \ lapped \subseteq Held(job[q].rec)
    BY <1>1, ChangeEnds
  <1>3. RecordOK'
    <2>1. lapped \subseteq lapped' /\ lapped' # {} /\ RecordOK
      BY <1>1, HasChanges DEF IInv
    <2>2. Whole(md') => acked' \ lapped' \subseteq Held(md')
      <3>1. Whole(md') => md' = md
        BY <1>1 DEF Whole
      <3>2. Whole(md) => acked \ lapped \subseteq Held(md)
        BY <2>1 DEF RecordOK, RecordHolds
      <3>3. acked' \ lapped' \subseteq acked \ lapped
        BY <1>1, <2>1
      <3>4. QED  BY <3>1, <3>2, <3>3
    <2>3. md' = None => acked' = {}
      BY <1>1, <2>1, Files DEF RecordOK
    <2>4. ASSUME NEW q \in Changing, q # p PROVE ChangeOK(q)'
      <3>1. /\ job'[q] = job[q] /\ Changes(job[q]) \subseteq lapped
            /\ acked \ lapped \subseteq Held(job[q].rec)
        BY <1>2, <2>4
      <3>2. acked' \ lapped' \subseteq acked \ lapped /\ lapped \subseteq lapped'
        BY <1>1
      <3>3. QED  BY <3>1, <3>2 DEF ChangeOK
    <2>5. QED  BY <1>2, <2>1, <2>2, <2>3, <2>4 DEF RecordOK, RecordHolds
  <1>4. /\ NoJob.todo \subseteq job[p].todo /\ faults' \in Nat
        /\ md' \in Records \cup {None, Torn} /\ json' \in Records \cup {None, Torn}
    BY <1>1, <1>2 DEF IInv, Typed
  <1>5. QED  BY <1>1, <1>2, <1>3, <1>4, RecordStep

LEMMA KilledLogging ==
  ASSUME IInv, NEW p \in Procs, Crash(p, TRUE), job[p].pc = "log"
  PROVE  IInv'
  <1> DEFINE k == job[p].key
             s == job[p].slot
  <1>1. /\ ledger' = [ledger EXCEPT ![k][s] = Torn] /\ faults' = faults + 1 /\ End(p)
        /\ UNCHANGED <<md, json, evidence, temps, artifact, orphans, acked, refused, lapped,
                       collided>>
    BY DEF Crash, Fault, At, Changing
  <1>2. /\ NoJob \in JobType /\ NoJob.pc = "idle" /\ NoJob.todo = {}
        /\ job' = [job EXCEPT ![p] = NoJob]
        /\ job' \in [Procs -> JobType] /\ job'[p] = NoJob
        /\ \A q \in Procs : q # p => job'[q] = job[q]
    BY <1>1, NoJobFacts, JobSet DEF IInv, End
  <1>3. JobOK(p)' /\ TriesOK(p)'
    BY <1>2, PlainEnd
  <1>4. \A q \in Procs : job'[q].todo \subseteq job[q].todo
    BY <1>2
  <1>5. UNCHANGED collided /\ job'[p].pc \notin LogPcs
        /\ Torn \in {Torn, Attempt(job[p].cause, job[p].brief, FALSE)}
    BY <1>1, <1>2 DEF LogPcs
  <1> HIDE DEF k, s
  <1>6. k = job[p].key /\ s = job[p].slot
    BY DEF k, s
  <1>7. /\ ledger' \in [Keys -> Attempts]
        /\ \A l \in Keys : LastN(ledger[l]) <= LastN(ledger'[l])
        /\ BriefsChange' /\ \A q \in Procs : TodoOK(q)'
        /\ \A q \in Procs : q # p => LogOK(q)'
    BY <1>1, <1>2, <1>4, <1>5, <1>6, PutsAttempt
  <1>8. LogOK(p)'
    BY <1>5 DEF LogOK, At, LogPcs
  <1>9. /\ temps' \subseteq Procs /\ orphans' \subseteq Keys /\ faults' \in Nat
        /\ collided \subseteq collided' /\ NoJob.todo \subseteq job[p].todo
        /\ UNCHANGED <<record, told, artifact>> /\ \A q \in Procs : LogOK(q)'
        /\ job[p].pc \notin ChangePcs /\ NoJob.pc \notin ChangePcs \cup {"running"}
    BY <1>1, <1>2, <1>7, <1>8 DEF IInv, Typed, ChangePcs, record, told
  <1>10. QED  BY <1>2, <1>3, <1>7, <1>9, LedgerStep

LEMMA KilledElsewhere ==
  ASSUME IInv, NEW p \in Procs, NEW halfway \in BOOLEAN, Crash(p, halfway), p \notin Changing,
         ~(halfway /\ job[p].pc = "log")
  PROVE  IInv'
  <1>1. job[p].pc \notin ChangePcs
    BY DEF Changing, ChangePcs
  <1>2. /\ faults' = faults + 1 /\ End(p) /\ orphans' \subseteq orphans \cup {job[p].key}
        /\ job[p].pc = "running" \/ UNCHANGED orphans
        /\ UNCHANGED <<md, json, evidence, ledger, temps, artifact, acked, refused, lapped,
                       collided>>
    BY <1>1 DEF Crash, Fault, At, ChangePcs
  <1>3. /\ NoJob \in JobType /\ NoJob.pc = "idle" /\ NoJob.todo = {}
        /\ job' = [job EXCEPT ![p] = NoJob]
        /\ job' \in [Procs -> JobType] /\ job'[p] = NoJob
        /\ \A q \in Procs : q # p => job'[q] = job[q]
    BY <1>2, NoJobFacts, JobSet DEF IInv, End
  <1>4. JobOK(p)' /\ TriesOK(p)'
    BY <1>3, PlainEnd
  <1>5. orphans' \subseteq Keys
    <2>1. job[p].pc = "running" => job[p].key \in Keys
      <3>1. job[p].pc = "running" => job[p].pc \in OnKey
        BY DEF OnKey
      <3>2. QED  BY <3>1, ProcFacts DEF IInv
    <2>2. QED  BY <1>2, <2>1 DEF IInv, Typed
  <1>6. \A q \in Procs : FreshOK(q)'
    <2>1. UNCHANGED artifact /\ \A q \in Procs : job'[q] = job[q] \/ job'[q].pc # "running"
      BY <1>2, <1>3
    <2>2. QED  BY <2>1, FreshSame
  <1>7. /\ temps' \subseteq Procs /\ faults' \in Nat
        /\ artifact' \in [Keys -> ArtifactType \cup {None}]
        /\ \A k \in Keys : artifact'[k] # None => artifact'[k].what \in Returns(k)
        /\ NoJob.todo \subseteq job[p].todo /\ NoJob.pc \notin ChangePcs \cup LogPcs
        /\ UNCHANGED <<record, ledger, told, collided>>
    BY <1>2, <1>3 DEF IInv, Typed, ChangePcs, LogPcs, record, told
  <1>8. QED  BY <1>1, <1>3, <1>4, <1>5, <1>6, <1>7, CalmStep

LEMMA CrashIInv ==
  ASSUME IInv, NEW p \in Procs, NEW halfway \in BOOLEAN, Crash(p, halfway)
  PROVE  IInv'
  <1>1. CASE p \in Changing
    BY <1>1, KilledChanging
  <1>2. CASE p \notin Changing /\ halfway /\ job[p].pc = "log"
    <2>1. halfway = TRUE
      BY <1>2
    <2>2. Crash(p, TRUE)
      BY <2>1
    <2>3. QED  BY <1>2, <2>2, KilledLogging
  <1>3. CASE p \notin Changing /\ ~(halfway /\ job[p].pc = "log")
    BY <1>3, KilledElsewhere
  <1>4. QED  BY <1>1, <1>2, <1>3

-----------------------------------------------------------------------------
LEMMA InitIInv == Init => IInv
  <1> SUFFICES ASSUME Init PROVE IInv
    OBVIOUS
  <1>1. /\ evidence = Gates /\ temps = {} /\ artifact = [k \in Keys |-> None] /\ orphans = {}
        /\ job = [p \in Procs |-> NoJob] /\ faults = 0
        /\ acked = {} /\ refused = {} /\ lapped = {} /\ collided = {}
    BY DEF Init
  <1>2. /\ NoJob \in JobType /\ NoJob.pc = "idle" /\ NoJob.todo = {} /\ NoJob.tries = 0
        /\ NoJob.key \notin Keys
    BY NoJobFacts, Files
  <1> DEFINE old == Attempt("transient", <<>>, TRUE)
             one == [NoAttempts EXCEPT ![1] = old]
  <1>3. old \in AnAttempt
    <2>1. <<>> \in Seq(Numbers) /\ "transient" \in Causes
      BY EmptySeq DEF Causes
    <2>2. QED  BY <2>1 DEF Attempt, AnAttempt
  <1> HIDE DEF old
  <1>4. /\ NoAttempts \in Attempts /\ one \in Attempts
        /\ \A n \in Numbers : NoAttempts[n] = None /\ (n # 1 => one[n] = None)
    <2>1. 1 \in Numbers
      BY Cap
    <2>2. QED  BY <1>3, <2>1 DEF NoAttempts, Attempts
  <1> HIDE DEF one
  <1>5. ledger \in [Keys -> Attempts] /\ \A k \in Keys : ledger[k] \in {NoAttempts, one}
    <2>1. CASE ledger = [k \in Keys |-> NoAttempts]
      BY <1>4, <2>1
    <2>2. CASE \E o \in {{}, OldKeys} :
                 ledger = [k \in Keys |-> IF k \in o THEN one ELSE NoAttempts]
      BY <1>4, <2>2
    <2>3. QED  BY <2>1, <2>2 DEF Init, one, old
  <1>6. md = json /\ md \in Records \cup {None, Torn}
    <2>1. \A cleared \in {{}, {Plan[1].gate}} : Record(cleared, FALSE) \in Records
      <3>1. Plan[1] \in [gate : Gates, tasks : Seq(Tasks), verified : SUBSET Tasks]
        <4> DEFINE Stage == [gate : Gates, tasks : Seq(Tasks), verified : SUBSET Tasks]
        <4>1. Plan \in Seq(Stage) /\ Plan # <<>>
          BY ConductorAssumption
        <4> HIDE DEF Stage
        <4>2. Len(Plan) \in Nat /\ Len(Plan) # 0
          BY <4>1, EmptySeq
        <4>3. Plan[1] \in Stage
          BY <4>1, <4>2, ElementOfSeq
        <4>4. QED  BY <4>3 DEF Stage
      <3>2. Plan[1].gate \in Gates
        BY <3>1
      <3>3. QED  BY <3>2 DEF Record, Records
    <2>2. QED  BY <2>1 DEF Init
  <1>7. Changing = {} /\ \A p \in Procs : job[p] = NoJob
    BY <1>1, <1>2 DEF Changing
  <1>8. Typed
    <2>1. \A p \in Procs : JobOK(p)
      BY <1>2, <1>7 DEF JobOK, At, OnKey
    <2>2. job \in [Procs -> JobType] /\ artifact \in [Keys -> ArtifactType \cup {None}]
      BY <1>1, <1>2
    <2>3. ledger \in [Keys -> [Numbers -> AnAttempt \cup {None, Torn}]]
      BY <1>5 DEF Attempts
    <2>4. QED  BY <1>1, <1>6, <2>1, <2>2, <2>3 DEF Typed
  <1>9. RecordOK
    BY <1>1, <1>6, <1>7 DEF RecordOK, RecordHolds
  <1>10. BriefsChange
    <2>1. ASSUME NEW k \in Keys, NEW n \in Numbers, Whole(ledger[k][n]) PROVE n = 1
      BY <1>4, <1>5, <2>1 DEF Whole
    <2>2. QED  BY <2>1 DEF BriefsChange
  <1>11. \A p \in Procs : LogOK(p) /\ TodoOK(p) /\ TriesOK(p) /\ FreshOK(p)
    BY <1>2, <1>7 DEF LogOK, TodoOK, TriesOK, FreshOK, At
  <1>12. QED  BY <1>8, <1>9, <1>10, <1>11 DEF IInv

LEMMA NextIInv == IInv /\ [Next]_vars => IInv'
  <1> SUFFICES ASSUME IInv, [Next]_vars PROVE IInv'
    OBVIOUS
  <1>1. ASSUME NEW p \in Procs, Step(p) PROVE IInv'
    <2>1. CASE \/ Escalate(p) \/ EscalateFails(p) \/ WriteMd(p) \/ WriteJson(p)
               \/ CheckRecord(p)
      BY <2>1, EscalateIInv, EscalateFailsIInv, WriteMdIInv, WriteJsonIInv, CheckRecordIInv
    <2>2. CASE Precheck(p) \/ LogAttempt(p) \/ UnlogAttempt(p) \/ CheckAttempt(p)
      BY <2>2, PrecheckIInv, LogAttemptIInv, UnlogAttemptIInv, CheckAttemptIInv
    <2>3. CASE MigrateTemp(p) \/ \E k \in Keys : \E n \in Numbers : MigrateReplace(p, k, n)
      BY <2>3, MigrateTempIInv, MigrateReplaceIInv
    <2>4. CASE CheckGate(p) \/ Dispatch(p) \/ \E ok \in BOOLEAN : Returned(p, ok)
      BY <2>4, CheckGateIInv, DispatchIInv, ReturnedIInv
    <2>5. QED  BY <1>1, <2>1, <2>2, <2>3, <2>4 DEF Step
  <1>2. ASSUME NEW p \in Procs,
               \/ MissionNew(p) \/ \E g \in Gates : GateClear(p, g)
               \/ \E k \in Keys : \E cause \in Causes : RetryLog(p, k, cause)
               \/ RetryMigrate(p) \/ Run(p)
        PROVE  IInv'
    BY <1>2, MissionNewIInv, GateClearIInv, RetryLogIInv, RetryMigrateIInv, RunIInv
  <1>3. CASE UNCHANGED vars
    <2>1. Typed'
      BY <1>3 DEF vars, IInv, Typed, JobOK, At
    <2>2. RecordOK'
      BY <1>3 DEF vars, IInv, RecordOK, RecordHolds, ChangeOK, Changing, At
    <2>3. BriefsChange' /\ \A p \in Procs : LogOK(p)' /\ TodoOK(p)'
      BY <1>3, LogSame DEF vars
    <2>4. \A p \in Procs : TriesOK(p)' /\ FreshOK(p)'
      BY <1>3 DEF vars, IInv, TriesOK, FreshOK, At
    <2>5. QED  BY <2>1, <2>2, <2>3, <2>4 DEF IInv
  <1>4. QED
    BY <1>1, <1>2, <1>3, CrashIInv, WorkerWritesIInv, OutsideIInv DEF Next

\* The invariant holds of every behaviour.
THEOREM Inductive == Spec => []IInv
  BY InitIInv, NextIInv, PTL DEF Spec

\* The files, the artifacts and every command are of their type.
THEOREM TypeCorrect == Spec => []TypeOK
  <1>1. IInv => TypeOK
    <2> SUFFICES ASSUME Typed PROVE TypeOK
      BY DEF IInv
    <2>1. ASSUME NEW k \in Keys, artifact[k] # None
          PROVE  artifact[k].what \in Returns(k) /\ artifact[k].fresh \subseteq Procs
      BY <2>1 DEF Typed, ArtifactType
    <2>2. ASSUME NEW p \in Procs
          PROVE  /\ job[p].rec \in Records \cup {None} /\ job[p].brief \in Seq(Numbers)
                 /\ job[p].slot \in IF job[p].pc \in {"log", "check attempt"} THEN Numbers
                                   ELSE 0..RETRY_ATTEMPT_CAP
                 /\ job[p].before \in 0..RETRY_ATTEMPT_CAP
      <3>1. job[p] \in JobType
        BY DEF Typed
      <3>2. job[p].rec \in Records \cup {None}
        BY <3>1 DEF JobType
      <3>3. QED  BY <3>2, ProcFacts DEF LogPcs
    <2>3. \A k \in Keys, n \in Numbers :
            ledger[k][n] \in {None, Torn} \/ ledger[k][n] \in AnAttempt
      BY DEF Typed
    <2>4. DOMAIN ledger = Keys /\ {md, json} \subseteq Records \cup {None, Torn}
          /\ evidence \subseteq Gates /\ temps \subseteq Procs /\ orphans \subseteq Keys
      BY DEF Typed
    <2>5. QED  BY <2>1, <2>2, <2>3, <2>4 DEF TypeOK
  <1>2. QED  BY <1>1, Inductive, PTL

\* A change of the record that was reported done stays, one that was refused lost
\* its evidence, and at rest the two copies agree, except for changes that were
\* made at the same time or killed.
THEOREM RecordsHold == Spec => []RecordHolds
  <1>1. IInv => RecordHolds
    BY DEF IInv, RecordOK
  <1>2. QED  BY <1>1, Inductive, PTL

\* A failure that is not transient is never logged with an earlier brief.
THEOREM BriefsAlwaysChange == Spec => []BriefsChange
  <1>1. IInv => BriefsChange
    BY DEF IInv
  <1>2. QED  BY <1>1, Inductive, PTL

\* A run dispatches a key as often as the ledger had room when it came to it, and
\* once when it had none.
THEOREM TriesAreBounded == Spec => []TriesBounded
  <1>1. IInv => TriesBounded
    <2> SUFFICES ASSUME IInv, NEW p \in Procs, job[p].key \in Keys \ collided
                 PROVE  job[p].tries <= Max({1, RETRY_ATTEMPT_CAP - job[p].before})
      BY DEF TriesBounded
    <2> DEFINE room == RETRY_ATTEMPT_CAP - job[p].before
    <2>1. job[p].tries \in Nat /\ job[p].before \in {0, 1, 2, 3}
      BY ProcFacts, Cap DEF IInv
    <2>2. job[p].tries <= 1 \/ job[p].tries + job[p].before <= RETRY_ATTEMPT_CAP
      BY DEF IInv, TriesOK
    <2>3. room \in Int /\ (job[p].tries <= 1 \/ job[p].tries <= room)
      BY <2>1, <2>2, Cap
    <2> HIDE DEF room
    <2>4. Max({1, room}) >= 1 /\ Max({1, room}) >= room /\ Max({1, room}) \in Int
      BY <2>3, MaxOfTwo
    <2>5. job[p].tries <= Max({1, room})
      BY <2>1, <2>3, <2>4
    <2>6. QED  BY <2>5 DEF room
  <1>2. QED  BY <1>1, Inductive, PTL

-----------------------------------------------------------------------------
(* What a step may never do.                                               *)

\* Who changes the attempts, and who moves a process.
LEMMA LedgerMoves ==
  ASSUME Next
  PROVE  \/ UNCHANGED ledger
         \/ \E p \in Procs :
              \/ LogAttempt(p) \/ UnlogAttempt(p)
              \/ \E k \in Keys : \E n \in Numbers : MigrateReplace(p, k, n)
              \/ Crash(p, TRUE) /\ job[p].pc = "log"
  <1>1. ASSUME NEW p \in Procs, Step(p)
        PROVE  \/ UNCHANGED ledger \/ LogAttempt(p) \/ UnlogAttempt(p)
               \/ \E k \in Keys : \E n \in Numbers : MigrateReplace(p, k, n)
    BY <1>1 DEF Step, Escalate, Change, EscalateFails, WriteMd, WriteJson, CheckRecord, Precheck,
                CheckAttempt, MigrateTemp, CheckGate, Dispatch, Returned
  <1>2. ASSUME NEW p \in Procs, NEW halfway \in BOOLEAN, Crash(p, halfway)
        PROVE  UNCHANGED ledger \/ (Crash(p, TRUE) /\ job[p].pc = "log")
    <2>1. CASE halfway /\ job[p].pc = "log"
      <3>1. halfway = TRUE
        BY <2>1
      <3>2. QED  BY <1>2, <2>1, <3>1
    <2>2. CASE ~(halfway /\ job[p].pc = "log")
      BY <1>2, <2>2 DEF Crash, At
    <2>3. QED  BY <2>1, <2>2
  <1>3. ASSUME NEW p \in Procs,
               \/ MissionNew(p) \/ \E g \in Gates : GateClear(p, g)
               \/ \E k \in Keys : \E cause \in Causes : RetryLog(p, k, cause)
               \/ RetryMigrate(p) \/ Run(p)
        PROVE  UNCHANGED ledger
    BY <1>3 DEF MissionNew, GateClear, Change, RetryLog, RetryMigrate, Run
  <1>4. ASSUME NEW k \in Keys, OrphanEnds(k) \/ \E what \in Returns(k) : WorkerWrites(k, what)
        PROVE  UNCHANGED ledger
    BY <1>4 DEF OrphanEnds, WorkerWrites
  <1>5. ASSUME NEW g \in Gates, Vanish(g) PROVE UNCHANGED ledger
    BY <1>5 DEF Vanish
  <1>6. QED  BY <1>1, <1>2, <1>3, <1>4, <1>5 DEF Next

\* Of a key that no two commands were logging at once, no attempt is removed or
\* overwritten; a migration keeps what the rules look at.
THEOREM AttemptsStay == Spec => AttemptsKept
  <1> DEFINE Keeps == \A k \in Keys \ collided, n \in Numbers : Whole(ledger[k][n]) =>
                        /\ Whole(ledger'[k][n])
                        /\ ledger'[k][n].cause = ledger[k][n].cause
                        /\ ledger'[k][n].brief = ledger[k][n].brief
  <1>1. IInv /\ [Next]_vars => [Keeps]_vars
    <2> SUFFICES ASSUME IInv, Next PROVE Keeps
      OBVIOUS
    <2>1. CASE UNCHANGED ledger
      BY <2>1
    <2>2. ASSUME NEW p \in Procs, LogAttempt(p) \/ (Crash(p, TRUE) /\ job[p].pc = "log")
          PROVE  Keeps
      <3> DEFINE k == job[p].key
                 s == job[p].slot
      <3>1. job[p].pc = "log" /\ \E v : ledger' = [ledger EXCEPT ![k][s] = v]
        BY <2>2 DEF LogAttempt, Crash, At
      <3>2. job[p].pc \in LogPcs
        BY <3>1 DEF LogPcs
      <3> HIDE DEF k, s
      <3>3. k \notin collided => ~Whole(ledger[k][s])
        <4>1. k \notin collided => \A n \in Numbers : ledger[k][n] # None => n < s
          BY <3>1 DEF IInv, LogOK, At, k, s
        <4>2. s \in Numbers /\ ~(s < s)
          BY <3>2, ProcFacts, Cap DEF IInv, s
        <4>3. QED  BY <4>1, <4>2 DEF Whole
      <3>4. ASSUME NEW l \in Keys, NEW n \in Numbers, l # k \/ n # s
            PROVE  ledger'[l][n] = ledger[l][n]
        BY <3>1, <3>4 DEF IInv, Typed
      <3>5. QED  BY <3>3, <3>4
    <2>3. ASSUME NEW p \in Procs, UnlogAttempt(p) PROVE Keeps
      <3> DEFINE k == job[p].key
                 s == job[p].slot
      <3>1. ~Whole(ledger[k][s]) /\ ledger' = [ledger EXCEPT ![k][s] = None]
        BY <2>3 DEF UnlogAttempt
      <3> HIDE DEF k, s
      <3>2. ASSUME NEW l \in Keys, NEW n \in Numbers, l # k \/ n # s
            PROVE  ledger'[l][n] = ledger[l][n]
        BY <3>1, <3>2 DEF IInv, Typed
      <3>3. QED  BY <3>1, <3>2
    <2>4. ASSUME NEW p \in Procs, NEW k \in Keys, NEW n \in Numbers, MigrateReplace(p, k, n)
          PROVE  Keeps
      <3>1. Typed /\ TodoOK(p)
        BY DEF IInv
      <3>2. QED  BY <2>4, <3>1, ReplaceFacts
    <2>5. QED  BY <2>1, <2>2, <2>3, <2>4, LedgerMoves
  <1>2. QED  BY <1>1, Inductive, PTL DEF Spec, AttemptsKept

\* A return or verdict that a run goes by was written while this very dispatch was
\* under way.
THEOREM ReturnsFresh == Spec => ReturnsAreFresh
  <1> DEFINE Goes == \A p \in Procs :
               At(p, "running") /\ faults' = faults
                 /\ job'[p].pc \in {"gate", "dispatch", "escalate", "idle"}
               => p \in artifact[job[p].key].fresh
  <1>1. IInv /\ [Next]_vars => [Goes]_vars
    <2> SUFFICES ASSUME IInv, Next, NEW p \in Procs, job[p].pc = "running", faults' = faults,
                        job'[p].pc \in {"gate", "dispatch", "escalate", "idle"}
                 PROVE  p \in artifact[job[p].key].fresh
      BY DEF At
    <2>1. job \in [Procs -> JobType] /\ faults \in Nat
      BY DEF IInv, Typed
    <2>2. ASSUME NEW q \in Procs, q # p, Step(q) PROVE FALSE
      <3>1. job'[p] = job[p]
        <4>1. CASE \/ Escalate(q) \/ EscalateFails(q) \/ WriteMd(q) \/ WriteJson(q)
                   \/ CheckRecord(q)
          BY <2>1, <2>2, <4>1 DEF Escalate, Change, EscalateFails, WriteMd, WriteJson,
               CheckRecord, Goto, End
        <4>2. CASE Precheck(q) \/ LogAttempt(q) \/ UnlogAttempt(q)
          BY <2>1, <2>2, <4>2 DEF Precheck, LogAttempt, UnlogAttempt, Goto, End
        <4>3. CASE CheckAttempt(q)
          BY <2>1, <2>2, <4>3 DEF CheckAttempt, Goto, End
        <4>4. CASE MigrateTemp(q) \/ \E k \in Keys : \E n \in Numbers : MigrateReplace(q, k, n)
          BY <2>1, <2>2, <4>4 DEF MigrateTemp, MigrateReplace, Goto
        <4>5. CASE CheckGate(q) \/ Dispatch(q)
          BY <2>1, <2>2, <4>5 DEF CheckGate, Dispatch, End
        <4>6. CASE \E ok \in BOOLEAN : Returned(q, ok)
          BY <2>1, <2>2, <4>6, ReturnedWays DEF IInv, Failed, Goto
        <4>7. QED  BY <2>2, <4>1, <4>2, <4>3, <4>4, <4>5, <4>6 DEF Step
      <3>2. QED  BY <3>1
    <2>3. ASSUME Step(p) PROVE \E ok \in BOOLEAN : Returned(p, ok)
      BY <2>3 DEF Step, Escalate, EscalateFails, WriteMd, WriteJson, CheckRecord,
           Precheck, LogAttempt, UnlogAttempt, CheckAttempt, MigrateTemp, MigrateReplace,
           CheckGate, Dispatch, At
    <2>4. ASSUME NEW q \in Procs,
                 \/ MissionNew(q) \/ \E g \in Gates : GateClear(q, g)
                 \/ \E k \in Keys : \E cause \in Causes : RetryLog(q, k, cause)
                 \/ RetryMigrate(q) \/ Run(q)
          PROVE  FALSE
      <3>1. job[q].pc = "idle" /\ \E j : job' = [job EXCEPT ![q] = j]
        BY <2>4 DEF MissionNew, GateClear, Change, RetryLog, RetryMigrate, Run, Start, Starts, At
      <3>2. job'[p] = job[p]
        BY <2>1, <3>1
      <3>3. QED  BY <3>2
    <2>5. ASSUME NEW q \in Procs, NEW halfway \in BOOLEAN, Crash(q, halfway) PROVE FALSE
      BY <2>1, <2>5 DEF Crash, Fault
    <2>6. ASSUME \/ \E k \in Keys : OrphanEnds(k) \/ \E what \in Returns(k) : WorkerWrites(k, what)
                 \/ \E g \in Gates : Vanish(g)
          PROVE  FALSE
      BY <2>6 DEF OrphanEnds, WorkerWrites, Vanish
    <2>7. PICK ok \in BOOLEAN : Returned(p, ok)
      BY <2>2, <2>3, <2>4, <2>5, <2>6 DEF Next
    <2>8. artifact[job[p].key] # None
      <3> SUFFICES ASSUME artifact[job[p].key] = None PROVE FALSE
        OBVIOUS
      <3>1. Failed(p, "transient")
        BY <2>7 DEF Returned
      <3>2. job'[p].pc = "precheck"
        BY <2>1, <3>1 DEF Failed, JobType
      <3>3. QED  BY <3>2
    <2>9. QED  BY <2>8 DEF IInv, FreshOK, At
  <1>2. QED  BY <1>1, Inductive, PTL DEF Spec, ReturnsAreFresh
=============================================================================
