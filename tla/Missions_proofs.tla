--------------------------- MODULE Missions_proofs ---------------------------
(***************************************************************************)
(* Proofs about a mission, for any number of calls, processes, kills and   *)
(* faults: approvals are spent once and honoured, whatever was produced    *)
(* has its record, and a finished app is not undone by its records.        *)
(***************************************************************************)
EXTENDS Missions, FiniteSetTheorems, SequenceTheorems, TLAPS

-----------------------------------------------------------------------------
(* The inductive invariant.                                                *)

Phases == {"gate", "route", "sign", "verify", "note", "noted", "check", "spend", "spec",
           "logged", "codegen", "count", "event", "receipt", "write"}
Job == [pc : Phases, key : {"ready", "missing", "creating", "made"}, call : Calls,
        proc : Procs, id : Calls, plan : Plans, approval : Approval \cup {NoApproval},
        ordinal : Nat, logs : BOOLEAN]
Answers == {"none", "needs_clarification", "refused", "rejected", "error", "built",
            "generated"}

Signed    == Phases \ {"gate", "route", "sign"}
Handed    == Signed \ {"verify", "note"}
Accepted  == Handed \ {"noted"}
Bound     == Accepted \ {"check"}
Specced   == Bound \ {"spend", "spec"}
Generated == Specced \ {"logged", "codegen"}

Typed ==
  /\ KeyTypeOK
  /\ job \in [Slots -> Job \cup {Idle}]
  /\ calls \in 0..MaxCalls /\ faults \in 0..MaxFaults
  /\ approvals \subseteq Approval
  /\ notes \in LogOf(NoteRecord) /\ specs \in LogOf(SpecRecord)
  /\ apps \subseteq AppRecord
  /\ receipts \subseteq [call : Calls, decision : Approval, key : 1..MaxKeys, whole : BOOLEAN]
  /\ events \in Seq(0..MaxCalls) /\ lapped \subseteq {"events", "notes", "specs"}
  /\ spent \in [Procs -> SUBSET Calls] /\ raced \subseteq Calls
  /\ life \in [Procs -> Nat]
  /\ built \subseteq [call : Calls, nonce : Calls, proc : Procs, life : Nat]
  /\ answer \in [Slots -> Answers]

\* Until a key is removed, what was signed was signed with the key that is there.
KeyOK(s) ==
  /\ job[s].pc \notin KeyUses => job[s].key = "ready"
  /\ job[s].pc \in Signed => keyLost \/ (job[s].approval.key = keyFile /\ job[s].key = "ready")
  /\ job[s].pc = "write" => /\ job[s].ordinal \in 1..MaxKeys
                            /\ keyLost \/ job[s].ordinal = job[s].approval.key

\* What a call goes by is the approval of its own plan; the approval bears the
\* number of the plan, which is the call's own where the call makes an app.
ApprovalOK(s) ==
  /\ job[s].pc \notin Signed \/ job[s].pc = "codegen" => job[s].id = job[s].call
  /\ job[s].pc \in Signed => /\ job[s].approval \in Approval
                            /\ job[s].approval.plan = job[s].id
                            /\ job[s].approval.nonce = job[s].id
  /\ job[s].pc \in Handed => job[s].approval \in approvals
  /\ job[s].pc \in Accepted => job[s].approval.granted
  /\ job[s].pc \in Bound => job[s].approval.hash = job[s].plan

\* What a call has done is in the logs, if it keeps them.
DoneOK(s) ==
  /\ job[s].pc = "noted" \/ (job[s].pc \in Handed /\ job[s].logs) =>
       NoteOf(s) \in Logged(notes)
  /\ job[s].pc \in Specced /\ job[s].logs => SpecOf(s) \in Logged(specs)
  /\ job[s].pc \in Generated => \E app \in apps : app.call = job[s].call

\* A nonce that was spent since it was looked up is a raced one.
NonceOK(s) ==
  job[s].pc = "spend" /\ job[s].approval.nonce \in spent[job[s].proc] =>
    job[s].approval.nonce \in raced

\* The ordinal is the number of the line to come, unless no line comes any more.
Closed == events # <<>> /\ Last(events) = 0
OrdinalOK(s) ==
  job[s].pc = "event" =>
    job[s].ordinal \in Calls /\ ("events" \in lapped \/ Closed \/ job[s].ordinal = Len(events) + 1)

SlotOK(s) ==
  job[s] # Idle => KeyOK(s) /\ ApprovalOK(s) /\ DoneOK(s) /\ NonceOK(s) /\ OrdinalOK(s)

\* Until a key is removed, one call makes the key, and nobody else.
Makers == {s \in Slots : job[s] # Idle /\ job[s].key = "creating"}
OneMaker ==
  keyLost \/ /\ \A s \in Makers : keyFile = Empty
             /\ \A s, t \in Makers : s = t
             /\ \A a \in approvals : a.key = keyFile

\* A line for each call at most.
Counting == {s \in Slots : job[s].pc \notin {"idle", "receipt", "write"}}
LinesOK == IsFiniteSet(Counting) /\ Len(events) + Cardinality(Counting) <= calls

\* What was built in this life of a process is spent in it.
BuiltOK == \A b \in built :
  b.life <= life[b.proc] /\ (b.life = life[b.proc] => b.nonce \in spent[b.proc])

\* An approval bears the number of the plan it was signed for.
OwnNonces == \A a \in approvals : a.nonce = a.plan

\* A log ends in a newline, unless a call has yet to write it or could not.
TailsOK ==
  /\ notes.open # {} \/ notes.torn => faults > 0 \/ \E t \in Slots : At(t, "noted")
  /\ specs.open # {} \/ specs.torn => faults > 0 \/ \E t \in Slots : At(t, "logged")

IInv == /\ Typed /\ OneMaker /\ LinesOK /\ BuiltOK /\ SpentOnce /\ TrailWhole
        /\ OwnNonces /\ TailsOK
        /\ \A s \in Slots : SlotOK(s)

-----------------------------------------------------------------------------
(* What the steps have in common.                                          *)

LEMMA PhaseFacts ==
  /\ "idle" \notin Phases /\ Idle.pc = "idle"
  /\ \A j \in Job : j # Idle /\ j.pc \in Phases
  BY DEF Phases, Idle, Job

\* The phases in which a call has signed, and so on.
LEMMA Order ==
  /\ Generated \subseteq Specced /\ Specced \subseteq Bound /\ Bound \subseteq Accepted
  /\ Accepted \subseteq Handed /\ Handed \subseteq Signed /\ Signed \subseteq Phases
  /\ {"gate", "route", "sign"} \cap Signed = {} /\ {"verify", "note"} \cap Handed = {}
  /\ "noted" \in Handed \ Accepted /\ "check" \in Accepted \ Bound
  /\ {"spend", "spec"} \subseteq Bound \ Specced
  /\ {"logged", "codegen"} \subseteq Specced \ Generated
  /\ {"count", "event", "receipt", "write"} \subseteq Generated
  /\ {"verify", "note"} \subseteq Signed
  BY DEF Phases, Signed, Handed, Accepted, Bound, Specced, Generated

\* A call's part of the state is replaced.
LEMMA OneSlot ==
  ASSUME Typed, NEW s \in Slots, NEW j \in Job \cup {Idle}, job' = [job EXCEPT ![s] = j]
  PROVE  /\ job' \in [Slots -> Job \cup {Idle}]
         /\ job'[s] = j /\ \A t \in Slots \ {s} : job'[t] = job[t]
  BY DEF Typed

\* What other calls do to a call: the logs grow, nonces are spent, keys go.
LEMMA OthersOK ==
  ASSUME NEW t \in Slots, SlotOK(t), job'[t] = job[t],
         approvals \subseteq approvals', apps \subseteq apps', lapped \subseteq lapped',
         Logged(notes) \subseteq Logged(notes)', Logged(specs) \subseteq Logged(specs)',
         \/ keyLost' \/ (keyFile' = keyFile /\ keyLost' = keyLost)
         \/ job[t].pc \notin Signed,
         raced \subseteq raced',
         job[t].pc = "spend" /\ job[t].approval.nonce \in spent'[job[t].proc] =>
           job[t].approval.nonce \in spent[job[t].proc] \cup raced',
         job[t].pc = "event" => \/ "events" \in lapped' \/ Closed'
                                \/ events' = events
  PROVE  SlotOK(t)'
  <1>1. CASE job[t] = Idle
    BY <1>1 DEF SlotOK
  <1>2. CASE job[t] # Idle
    <2>1. KeyOK(t)'
      <3>1. job[t].pc \notin Signed => job[t].pc # "write"
        BY Order DEF Phases
      <3>2. KeyOK(t)
        BY <1>2 DEF SlotOK
      <3>3. QED  BY <3>1, <3>2 DEF KeyOK
    <2>2. ApprovalOK(t)'
      BY <1>2 DEF SlotOK, ApprovalOK
    <2>3. DoneOK(t)'
      BY <1>2 DEF SlotOK, DoneOK, NoteOf, SpecOf
    <2>4. NonceOK(t)'
      BY <1>2 DEF SlotOK, NonceOK
    <2>5. OrdinalOK(t)'
      BY <1>2 DEF SlotOK, OrdinalOK, Closed
    <2>6. QED  BY <2>1, <2>2, <2>3, <2>4, <2>5 DEF SlotOK
  <1>3. QED  BY <1>1, <1>2

\* Faults are counted, and a fault excuses what comes after it.
LEMMA FaultsGrow ==
  ASSUME IInv, faults' \in faults..MaxFaults
  PROVE  faults \in 0..MaxFaults /\ faults' \in 0..MaxFaults /\ (faults > 0 => faults' > 0)
  BY MissionsAssumption DEF IInv, Typed

LEMMA NoFault == ASSUME IInv, faults' = faults PROVE faults' \in faults..MaxFaults
  BY MissionsAssumption DEF IInv, Typed

\* The records stay what they were while the logs only grow.
LEMMA TrailStays ==
  ASSUME IInv, approvals \subseteq approvals', apps' = apps, receipts' = receipts,
         events' = events, lapped \subseteq lapped', keyLost => keyLost',
         Logged(notes) \subseteq Logged(notes)', Logged(specs)' = Logged(specs),
         LogsReadable'
  PROVE  TrailWhole'
  <1>1. AppsRecorded /\ SpecsRecorded /\ ReceiptsRecorded /\ EventsCounted
    BY DEF IInv, TrailWhole
  <1>2. AppsRecorded'
    BY <1>1 DEF AppsRecorded
  <1>3. SpecsRecorded'
    BY <1>1 DEF SpecsRecorded
  <1>4. ReceiptsRecorded' /\ EventsCounted'
    BY <1>1 DEF ReceiptsRecorded, EventsCounted
  <1>5. QED  BY <1>2, <1>3, <1>4 DEF TrailWhole

\* Nobody writes to the two logs.
LEMMA LogsStay ==
  ASSUME IInv, UNCHANGED <<notes, specs>>, lapped \subseteq lapped', faults' \in faults..MaxFaults
  PROVE  /\ LogsReadable'
         /\ Logged(notes)' = Logged(notes) /\ Logged(specs)' = Logged(specs)
  <1>1. LogsReadable /\ (faults > 0 => faults' > 0)
    BY FaultsGrow DEF IInv, TrailWhole
  <1>2. LogsReadable'
    BY <1>1 DEF LogsReadable
  <1>3. QED  BY <1>2

LEMMA TailsStay ==
  ASSUME IInv, NEW s \in Slots, \A t \in Slots \ {s} : job'[t] = job[t],
         UNCHANGED <<notes, specs>>, faults' \in faults..MaxFaults,
         job[s].pc \notin {"noted", "logged"}
  PROVE  TailsOK'
  <1>1. TailsOK /\ (faults > 0 => faults' > 0)
    BY FaultsGrow DEF IInv
  <1>2. \A t \in Slots :
          (At(t, "noted") => At(t, "noted")') /\ (At(t, "logged") => At(t, "logged")')
    BY DEF At
  <1>3. QED  BY <1>1, <1>2 DEF TailsOK

LEMMA FewerCounting ==
  ASSUME Typed, LinesOK, Counting' \subseteq Counting, events' = events,
         calls' = calls \/ calls' = calls + 1
  PROVE  LinesOK'
  <1>1. /\ IsFiniteSet(Counting') /\ Cardinality(Counting') <= Cardinality(Counting)
        /\ Cardinality(Counting) \in Nat /\ Cardinality(Counting') \in Nat
    BY FS_Subset, FS_CardinalityType DEF LinesOK
  <1>2. Len(events) \in Nat /\ calls \in Nat
    BY MissionsAssumption, LenProperties DEF Typed
  <1>3. QED  BY <1>1, <1>2 DEF LinesOK

\* A step of one call that touches neither key nor nonces, and may log things.
LEMMA Writes ==
  ASSUME IInv, NEW s \in Slots, NEW j \in Job \cup {Idle}, job' = [job EXCEPT ![s] = j],
         UNCHANGED <<keyVars, calls, spent, life, built, raced, events>>,
         approvals \subseteq approvals', approvals' \subseteq Approval,
         \A a \in approvals' : keyLost \/ a.key = keyFile, OwnNonces',
         Logged(notes) \subseteq Logged(notes)', Logged(specs) \subseteq Logged(specs)',
         notes' \in LogOf(NoteRecord), specs' \in LogOf(SpecRecord),
         apps \subseteq apps', apps' \subseteq AppRecord,
         lapped \subseteq lapped', lapped' \subseteq {"events", "notes", "specs"},
         receipts' \subseteq [call : Calls, decision : Approval, key : 1..MaxKeys,
                              whole : BOOLEAN],
         TrailWhole', TailsOK', answer' \in [Slots -> Answers], faults' \in faults..MaxFaults,
         s \in Counting' => s \in Counting, s \in Makers' => s \in Makers, SlotOK(s)'
  PROVE  IInv'
  <1>1. /\ job' \in [Slots -> Job \cup {Idle}]
        /\ job'[s] = j /\ \A t \in Slots \ {s} : job'[t] = job[t]
    BY OneSlot DEF IInv
  <1>2. Typed'
    <2>1. faults' \in 0..MaxFaults
      BY FaultsGrow
    <2>2. QED  BY <1>1, <2>1 DEF IInv, Typed, KeyTypeOK, keyVars
  <1>3. OneMaker'
    <2>1. Makers' \subseteq Makers
      BY <1>1 DEF Makers
    <2>2. QED  BY <2>1 DEF IInv, OneMaker, keyVars
  <1>4. LinesOK'
    <2>1. Counting' \subseteq Counting
      BY <1>1 DEF Counting
    <2>2. QED  BY <2>1, FewerCounting DEF IInv
  <1>5. BuiltOK' /\ SpentOnce'
    BY DEF IInv, BuiltOK, SpentOnce
  <1>6. \A t \in Slots : SlotOK(t)'
    <2>1. ASSUME NEW t \in Slots \ {s} PROVE SlotOK(t)'
      BY <1>1, <2>1, OthersOK DEF IInv, keyVars
    <2>2. QED  BY <2>1
  <1>7. QED  BY <1>2, <1>3, <1>4, <1>5, <1>6 DEF IInv

\* A step of one call that writes down nothing.
LEMMA Quiet ==
  ASSUME IInv, NEW s \in Slots, NEW j \in Job \cup {Idle}, job' = [job EXCEPT ![s] = j],
         job[s].pc \notin {"noted", "logged"},
         UNCHANGED <<keyVars, calls, approvals, notes, specs, apps, spent, life, built, raced,
                     events, lapped, receipts>>,
         answer' \in [Slots -> Answers], faults' \in faults..MaxFaults,
         s \in Counting' => s \in Counting, s \in Makers' => s \in Makers, SlotOK(s)'
  PROVE  IInv'
  <1>1. TrailWhole'
    BY LogsStay, TrailStays DEF keyVars
  <1>2. \A a \in approvals' : keyLost \/ a.key = keyFile
    BY DEF IInv, OneMaker
  <1>3. OwnNonces'
    BY DEF IInv, OwnNonces
  <1>4. TailsOK'
    BY OneSlot, TailsStay DEF IInv
  <1>5. QED  BY <1>1, <1>2, <1>3, <1>4, Writes DEF IInv, Typed

\* A call ends.
LEMMA Ends ==
  ASSUME IInv, NEW s \in Slots, NEW how \in Answers, Finish(s, how),
         UNCHANGED <<keyVars, calls, approvals, notes, specs, apps, spent, life, built, raced,
                     events, lapped, receipts>>,
         faults' \in faults..MaxFaults, job[s].pc \notin {"noted", "logged"}
  PROVE  IInv'
  <1>1. job' = [job EXCEPT ![s] = Idle] /\ answer' \in [Slots -> Answers]
    BY DEF Finish, IInv, Typed
  <1>2. job'[s] = Idle
    BY <1>1, OneSlot DEF IInv
  <1>3. SlotOK(s)' /\ s \notin Counting' /\ s \notin Makers'
    BY <1>2, PhaseFacts DEF SlotOK, Counting, Makers
  <1>4. QED  BY <1>1, <1>3, Quiet

LEMMA Active == ASSUME IInv, NEW s \in Slots, job[s].pc # "idle"
                PROVE  job[s] \in Job /\ job[s] # Idle /\ SlotOK(s)
  BY PhaseFacts DEF IInv, Typed

\* A call goes on to a phase with the key in hand.
LEMMA GoesOn ==
  ASSUME IInv, NEW s \in Slots, job[s].pc \notin {"idle", "noted", "logged"}, NEW pc \in Phases,
         job' = [job EXCEPT ![s].pc = pc, ![s].key = "ready"],
         UNCHANGED <<keyVars, calls, approvals, notes, specs, apps, spent, life, built, raced,
                     events, lapped, receipts, answer>>,
         faults' \in faults..MaxFaults,
         job[s].pc \in {"receipt", "write"} => pc \in {"receipt", "write"},
         SlotOK(s)'
  PROVE  IInv'
  <1> DEFINE j == [job[s] EXCEPT !.pc = pc, !.key = "ready"]
  <1>1. job[s] \in Job
    BY Active
  <1>2. j \in Job /\ j.pc = pc /\ j.key = "ready"
    BY <1>1 DEF Job
  <1>3. job' = [job EXCEPT ![s] = j]
    BY DEF IInv, Typed
  <1> HIDE DEF j
  <1>4. job'[s] = j
    BY <1>2, <1>3, OneSlot DEF IInv
  <1>5. s \notin Makers' /\ (s \in Counting' => s \in Counting)
    BY <1>2, <1>4 DEF Makers, Counting
  <1>6. answer' \in [Slots -> Answers]
    BY DEF IInv, Typed
  <1>7. QED  BY <1>2, <1>3, <1>5, <1>6, Quiet

\* What it then goes by it went by before.
LEMMA Onward ==
  ASSUME IInv, NEW s \in Slots, job[s].pc # "idle", 
         NEW pc \in Phases \ {"noted", "codegen", "event", "write"},
         job' = [job EXCEPT ![s].pc = pc, ![s].key = "ready"],
         UNCHANGED <<keyVars, calls, approvals, notes, specs, apps, spent, life, built, raced,
                     events, lapped, receipts>>,
         pc \in Signed => job[s].pc \in Signed,
         pc \notin Signed => job[s].pc \notin Signed,
         pc \in Handed => job[s].pc \in Handed \ {"noted"},
         pc \in Accepted => job[s].pc \in Accepted,
         pc \in Bound => job[s].pc \in Bound \/ job[s].approval.hash = job[s].plan,
         pc \in Specced => job[s].pc \in Specced,
         pc \in Generated => job[s].pc \in Generated,
         pc = "spend" => job[s].approval.nonce \notin spent[job[s].proc]
  PROVE  SlotOK(s)'
  <1>1. job[s] \in Job /\ job[s] # Idle /\ SlotOK(s)
    BY Active
  <1>2. job'[s] = [job[s] EXCEPT !.pc = pc, !.key = "ready"]
    BY DEF IInv, Typed
  <1>3. /\ job'[s].pc = pc /\ job'[s].key = "ready" /\ job'[s].approval = job[s].approval
        /\ job'[s].id = job[s].id /\ job'[s].plan = job[s].plan
        /\ job'[s].call = job[s].call /\ job'[s].proc = job[s].proc
        /\ job'[s].logs = job[s].logs
    <2> DEFINE j == job[s]
    <2>1. j \in Job
      BY <1>1
    <2> HIDE DEF j
    <2> DEFINE i == [j EXCEPT !.pc = pc, !.key = "ready"]
    <2>2. /\ i.pc = pc /\ i.key = "ready" /\ i.approval = j.approval /\ i.id = j.id
          /\ i.plan = j.plan /\ i.call = j.call /\ i.proc = j.proc /\ i.logs = j.logs
      BY <2>1 DEF Job
    <2> HIDE DEF i
    <2>3. job'[s] = i
      BY <1>2 DEF i, j
    <2>4. QED  BY <2>2, <2>3 DEF j
  <1>4. KeyOK(s)' /\ ApprovalOK(s)'
    <2>1. KeyOK(s) /\ ApprovalOK(s)
      BY <1>1 DEF SlotOK
    <2>2. keyFile' = keyFile /\ keyLost' = keyLost
      BY DEF keyVars
    <2>3. KeyOK(s)'
      BY <1>3, <2>1, <2>2 DEF KeyOK
    <2>4. ApprovalOK(s)'
      BY <1>3, <2>1 DEF ApprovalOK
    <2>5. QED  BY <2>3, <2>4
  <1>5. DoneOK(s)'
    BY <1>1, <1>3 DEF SlotOK, DoneOK, NoteOf, SpecOf
  <1>6. NonceOK(s)' /\ OrdinalOK(s)'
    BY <1>1, <1>3 DEF NonceOK, OrdinalOK
  <1>7. QED  BY <1>4, <1>5, <1>6 DEF SlotOK

-----------------------------------------------------------------------------
(* One lemma per action: those that write nothing down.                    *)

LEMMA InitIInv == Init => IInv
  <1> SUFFICES ASSUME Init PROVE IInv
    OBVIOUS
  <1>1. Typed
    <2>1. KeyTypeOK
      <3>1. keys \in 0..MaxKeys
        BY ApprovalKeyAssumption DEF Init, KeyInit
      <3>2. QED  BY <3>1 DEF Init, KeyInit, KeyTypeOK
    <2>0. calls \in 0..MaxCalls /\ faults \in 0..MaxFaults
      BY MissionsAssumption DEF Init
    <2>2. job \in [Slots -> Job \cup {Idle}] /\ answer \in [Slots -> Answers]
      BY DEF Init, Answers
    <2>3. spent \in [Procs -> SUBSET Calls] /\ life \in [Procs -> Nat]
      BY DEF Init
    <2>4. events \in Seq(0..MaxCalls) /\ lapped = {}
      BY EmptySeq DEF Init
    <2>5. /\ approvals = {} /\ apps = {} /\ receipts = {} /\ raced = {} /\ built = {}
      BY DEF Init
    <2>6. notes \in LogOf(NoteRecord) /\ specs \in LogOf(SpecRecord)
      BY DEF Init, NoLines, LogOf
    <2>7. QED  BY <2>0, <2>1, <2>2, <2>3, <2>4, <2>5, <2>6 DEF Typed
  <1>2. Makers = {} /\ Counting = {}
    BY DEF Init, Makers, Counting, Idle
  <1>3. LinesOK
    <2>1. IsFiniteSet(Counting) /\ Cardinality(Counting) = 0
      BY <1>2, FS_EmptySet
    <2>2. Len(events) = 0 /\ calls = 0
      BY DEF Init
    <2>3. QED  BY <2>1, <2>2 DEF LinesOK
  <1>4. OneMaker /\ BuiltOK /\ SpentOnce /\ OwnNonces /\ TailsOK
    BY <1>2 DEF Init, OneMaker, BuiltOK, SpentOnce, OwnNonces, TailsOK, NoLines
  <1>0. TrailWhole
    <2>1. Logged(notes) = {} /\ Logged(specs) = {} /\ notes.lost = {} /\ specs.lost = {}
      BY DEF Init, NoLines, Logged, Readable
    <2>2. QED
      BY <2>1 DEF Init, TrailWhole, AppsRecorded, SpecsRecorded, LogsReadable, ReceiptsRecorded,
         EventsCounted
  <1>5. \A s \in Slots : SlotOK(s)
    BY DEF Init, SlotOK
  <1>6. QED  BY <1>0, <1>1, <1>3, <1>4, <1>5 DEF IInv

LEMMA ConstructIInv == ASSUME IInv, NEW s \in Slots, Construct(s) PROVE IInv'
  <1>1. /\ job[s].pc = "gate" /\ job' = [job EXCEPT ![s].pc = "route", ![s].key = "ready"]
        /\ UNCHANGED <<keyVars, calls, approvals, notes, specs, apps, spent, life, built, raced,
                       events, lapped, receipts, answer, faults>>
    BY DEF Construct, WithKey, Next1
  <1>2. SlotOK(s)'
    BY <1>1, Onward, Order DEF Phases
  <1>3. QED  BY <1>1, <1>2, GoesOn, NoFault DEF Phases

\* Goto, with the key in hand.
LEMMA GotoFacts ==
  ASSUME IInv, NEW s \in Slots, NEW at \in Phases, NEW pc \in Phases, At(s, at), Goto(s, pc)
  PROVE  job[s].pc = at /\ job' = [job EXCEPT ![s].pc = pc, ![s].key = "ready"]
  <1>1. job[s].pc = at /\ job[s].key = "ready" /\ job' = [job EXCEPT ![s].pc = pc]
    BY DEF At, Goto
  <1>2. job[s] \in Job
    BY <1>1, Active, PhaseFacts
  <1>3. [job[s] EXCEPT !.pc = pc] = [job[s] EXCEPT !.pc = pc, !.key = "ready"]
    BY <1>1, <1>2 DEF Job
  <1>4. QED  BY <1>1, <1>3 DEF IInv, Typed

LEMMA RouteIInv == ASSUME IInv, NEW s \in Slots, Route(s) PROVE IInv'
  <1>0. "route" \in Phases /\ "sign" \in Phases
    BY DEF Phases
  <1>1. /\ job[s].pc = "route" /\ job' = [job EXCEPT ![s].pc = "sign", ![s].key = "ready"]
        /\ UNCHANGED <<keyVars, calls, approvals, notes, specs, apps, spent, life, built, raced,
                       events, lapped, receipts, answer, faults>>
    BY <1>0, GotoFacts DEF Route
  <1>2. SlotOK(s)'
    BY <1>1, Onward, Order DEF Phases
  <1>3. QED  BY <1>1, <1>2, GoesOn, NoFault DEF Phases

LEMMA ReceiptNext ==
  ASSUME IInv, NEW s \in Slots, NEW at \in {"count", "event"}, At(s, at), Goto(s, "receipt"),
         UNCHANGED <<keyVars, calls, approvals, notes, specs, apps, spent, life, built, raced,
                     events, lapped, receipts, answer>>,
         faults' \in faults..MaxFaults
  PROVE  IInv'
  <1>1. job[s].pc = at /\ job' = [job EXCEPT ![s].pc = "receipt", ![s].key = "ready"]
    <2>1. at \in Phases /\ "receipt" \in Phases
      BY DEF Phases
    <2>2. QED  BY <2>1, GotoFacts
  <1>2. SlotOK(s)'
    BY <1>1, Onward, Order DEF Phases
  <1>3. QED  BY <1>1, <1>2, GoesOn DEF Phases

LEMMA FaultFacts == ASSUME IInv, Fault PROVE faults' \in faults..MaxFaults /\ faults' > 0
  BY MissionsAssumption DEF IInv, Typed, Fault

LEMMA SkipEventIInv == ASSUME IInv, NEW s \in Slots, SkipEvent(s) PROVE IInv'
  BY ReceiptNext, NoFault DEF SkipEvent

LEMMA AppendEventFailsIInv == ASSUME IInv, NEW s \in Slots, AppendEventFails(s) PROVE IInv'
  <1>1. faults' \in faults..MaxFaults
    BY FaultFacts DEF AppendEventFails
  <1>2. QED  BY <1>1, ReceiptNext DEF AppendEventFails

\* Whatever ends a call, nothing else changes.
LEMMA EndingIInv ==
  ASSUME IInv, NEW s \in Slots,
         CreateCollides(s) \/ KeyUnreadable(s) \/ Ambiguous(s) \/ Abort(s) \/ SkipReceipt(s)
  PROVE  IInv'
  <1>1. \A b : KeyError(s, b) \in Answers
    BY DEF KeyError, Answers
  <1>2. PICK how \in Answers : Finish(s, how)
    BY <1>1 DEF CreateCollides, KeyUnreadable, Ambiguous, Abort, SkipReceipt, Answers
  <1>3. /\ UNCHANGED <<keyVars, calls, approvals, notes, specs, apps, spent, life, built, raced,
                       events, lapped, receipts>>
        /\ faults' = faults /\ job[s].pc \notin {"noted", "logged"}
    BY DEF CreateCollides, KeyUnreadable, Ambiguous, Abort, SkipReceipt, At, KeyUses
  <1>4. faults' \in faults..MaxFaults
    BY <1>3, NoFault
  <1>5. QED  BY <1>2, <1>3, <1>4, Ends

LEMMA VerifyIInv == ASSUME IInv, NEW s \in Slots, Verify(s) PROVE IInv'
  <1>1. /\ job[s].pc = "verify"
        /\ UNCHANGED <<keyVars, calls, approvals, notes, specs, apps, spent, life, built, raced,
                       events, lapped, receipts, faults>>
        /\ faults' \in faults..MaxFaults
    BY NoFault DEF Verify, WithKey
  <1>2. CASE Verified(s)
    <2>1. job' = [job EXCEPT ![s].pc = "note", ![s].key = "ready"] /\ answer' = answer
      BY <1>2 DEF Verify, Next1
    <2>2. SlotOK(s)'
      BY <1>1, <2>1, Onward, Order DEF Phases
    <2>3. QED  BY <1>1, <2>1, <2>2, GoesOn DEF Phases
  <1>3. CASE ~Verified(s)
    <2>1. Finish(s, "refused") /\ "refused" \in Answers
      BY <1>3 DEF Verify, Answers
    <2>2. QED  BY <1>1, <2>1, Ends
  <1>4. QED  BY <1>2, <1>3

LEMMA CheckIInv == ASSUME IInv, NEW s \in Slots, Check(s) PROVE IInv'
  <1>1. /\ job[s].pc = "check"
        /\ UNCHANGED <<keyVars, calls, approvals, notes, specs, apps, spent, life, built, raced,
                       events, lapped, receipts, faults>>
        /\ faults' \in faults..MaxFaults
    BY NoFault DEF Check, WithKey
  <1>2. CASE Verified(s) /\ ~NonceUsed(s)
    <2>1. /\ job' = [job EXCEPT ![s].pc = "spend", ![s].key = "ready"] /\ answer' = answer
          /\ job[s].approval.hash = job[s].plan
          /\ job[s].approval.nonce \notin spent[job[s].proc]
      BY <1>2 DEF Check, Next1, Verified, NonceUsed, PlanHash
    <2>2. SlotOK(s)'
      BY <1>1, <2>1, Onward, Order DEF Phases
    <2>3. QED  BY <1>1, <2>1, <2>2, GoesOn DEF Phases
  <1>3. CASE ~(Verified(s) /\ ~NonceUsed(s))
    <2>1. Finish(s, "refused") /\ "refused" \in Answers
      BY <1>3 DEF Check, Answers
    <2>2. QED  BY <1>1, <2>1, Ends
  <1>4. QED  BY <1>2, <1>3

LEMMA SignIInv == ASSUME IInv, NEW s \in Slots, NEW granted \in BOOLEAN, Sign(s, granted)
                  PROVE  IInv'
  <1> DEFINE a == [nonce |-> job[s].call, plan |-> job[s].id, hash |-> PlanHash(s),
                   granted |-> granted, key |-> keyFile]
             j == [job[s] EXCEPT !.pc = "verify", !.key = "ready", !.approval = a]
  <1>1. /\ job[s].pc = "sign" /\ KeyThere
        /\ job' = [job EXCEPT ![s].pc = "verify", ![s].key = "ready", ![s].approval = a]
        /\ UNCHANGED <<keyVars, calls, approvals, notes, specs, apps, spent, life, built, raced,
                       events, lapped, receipts, answer, faults>>
    BY DEF Sign, WithKey
  <1>2. job[s] \in Job /\ SlotOK(s)
    BY <1>1, Active
  <1>3. a \in Approval /\ a.plan = job[s].id /\ a.nonce = job[s].id /\ a.key = keyFile
    <2>1. job[s].id = job[s].call
      BY <1>1, <1>2, PhaseFacts, Order DEF SlotOK, ApprovalOK
    <2>2. QED  BY <1>1, <1>2, <2>1 DEF IInv, Typed, KeyTypeOK, KeyThere, Approval, PlanHash, Job
  <1> HIDE DEF a
  <1>4. /\ j \in Job /\ j.pc = "verify" /\ j.key = "ready" /\ j.approval = a
        /\ j.id = job[s].id /\ j.proc = job[s].proc
    BY <1>2, <1>3 DEF Job, Phases
  <1>5. job' = [job EXCEPT ![s] = j]
    BY <1>1 DEF IInv, Typed
  <1> HIDE DEF j
  <1>6. job'[s] = j
    BY <1>4, <1>5, OneSlot DEF IInv
  <1>7. SlotOK(s)'
    <2>1. KeyOK(s)'
      BY <1>1, <1>3, <1>4, <1>6 DEF KeyOK, keyVars, KeyUses
    <2>2. ApprovalOK(s)'
      BY <1>3, <1>4, <1>6, Order DEF ApprovalOK
    <2>3. DoneOK(s)' /\ NonceOK(s)' /\ OrdinalOK(s)'
      BY <1>4, <1>6, Order DEF DoneOK, NonceOK, OrdinalOK
    <2>4. QED  BY <2>1, <2>2, <2>3 DEF SlotOK
  <1>8. s \notin Makers' /\ s \in Counting
    BY <1>1, <1>4, <1>6 DEF Makers, Counting
  <1>9. answer' \in [Slots -> Answers] /\ faults' \in faults..MaxFaults
    BY <1>1, NoFault DEF IInv, Typed
  <1>10. QED  BY <1>1, <1>4, <1>5, <1>7, <1>8, <1>9, Quiet

LEMMA ChangePlanIInv ==
  ASSUME IInv, NEW s \in Slots, NEW content \in Plans, ChangePlan(s, content) PROVE IInv'
  <1> DEFINE j == [job[s] EXCEPT !.plan = content]
  <1>1. /\ job[s].pc = "verify" /\ job[s].key = "ready" /\ Fault
        /\ job' = [job EXCEPT ![s].plan = content]
        /\ UNCHANGED <<keyVars, calls, approvals, notes, specs, apps, spent, life, built, raced,
                       events, lapped, receipts, answer>>
    BY DEF ChangePlan, At
  <1>2. job[s] \in Job /\ SlotOK(s) /\ job[s] # Idle
    BY <1>1, Active
  <1>3. /\ j \in Job /\ j.pc = "verify" /\ j.key = "ready" /\ j.approval = job[s].approval
        /\ j.id = job[s].id /\ j.proc = job[s].proc
    BY <1>1, <1>2 DEF Job
  <1>4. job' = [job EXCEPT ![s] = j]
    BY <1>1 DEF IInv, Typed
  <1> HIDE DEF j
  <1>5. job'[s] = j
    BY <1>3, <1>4, OneSlot DEF IInv
  <1>6. SlotOK(s)'
    BY <1>1, <1>2, <1>3, <1>5
    DEF SlotOK, KeyOK, ApprovalOK, DoneOK, NonceOK, OrdinalOK, keyVars, KeyUses,
        Signed, Handed, Accepted, Bound, Specced, Generated, Phases
  <1>7. s \notin Makers' /\ s \in Counting
    BY <1>1, <1>3, <1>5 DEF Makers, Counting
  <1>8. answer' \in [Slots -> Answers] /\ faults' \in faults..MaxFaults
    BY <1>1, FaultFacts DEF IInv, Typed
  <1>9. QED  BY <1>1, <1>3, <1>4, <1>6, <1>7, <1>8, Quiet

LEMMA FindNoKeyIInv == ASSUME IInv, NEW s \in Slots, FindNoKey(s) PROVE IInv'
  <1> DEFINE j == [job[s] EXCEPT !.key = "missing"]
  <1>1. /\ job[s].pc \in KeyUses /\ job[s].key = "ready" /\ keyFile = Absent
        /\ job' = [job EXCEPT ![s].key = "missing"]
        /\ UNCHANGED <<keyVars, calls, approvals, notes, specs, apps, spent, life, built, raced,
                       events, lapped, receipts, answer, faults>>
    BY DEF FindNoKey
  <1>2. job[s] \in Job /\ SlotOK(s) /\ job[s] # Idle
    BY <1>1, Active DEF KeyUses
  <1>3. /\ j \in Job /\ j.pc = job[s].pc /\ j.key = "missing" /\ j.approval = job[s].approval
        /\ j.id = job[s].id /\ j.proc = job[s].proc /\ j.plan = job[s].plan
        /\ j.call = job[s].call /\ j.ordinal = job[s].ordinal /\ j.logs = job[s].logs
    BY <1>1, <1>2 DEF Job
  <1>4. job' = [job EXCEPT ![s] = j]
    BY <1>1 DEF IInv, Typed
  <1> HIDE DEF j
  <1>5. job'[s] = j
    BY <1>3, <1>4, OneSlot DEF IInv
  <1>6. KeyOK(s)'
    <2>1. job[s].pc \in Signed => keyLost
      BY <1>1, <1>2, ApprovalKeyAssumption DEF SlotOK, KeyOK, ApprovalOK, Approval
    <2>2. QED  BY <1>1, <1>3, <1>5, <2>1 DEF KeyOK, keyVars, KeyUses
  <1>7. ApprovalOK(s)' /\ NonceOK(s)' /\ OrdinalOK(s)'
    BY <1>1, <1>2, <1>3, <1>5 DEF SlotOK, ApprovalOK, NonceOK, OrdinalOK, KeyUses
  <1>8. DoneOK(s)'
    BY <1>1, <1>2, <1>3, <1>5 DEF SlotOK, DoneOK, NoteOf, SpecOf
  <1>9. s \notin Makers' /\ (s \in Counting' => s \in Counting)
    BY <1>1, <1>3, <1>5 DEF Makers, Counting
  <1>10. answer' \in [Slots -> Answers] /\ faults' \in faults..MaxFaults
    BY <1>1, NoFault DEF IInv, Typed
  <1>11. SlotOK(s)'
    BY <1>6, <1>7, <1>8 DEF SlotOK
  <1>12. QED  BY <1>1, <1>3, <1>4, <1>9, <1>10, <1>11, Quiet DEF KeyUses

-----------------------------------------------------------------------------
(* The key comes and goes.                                                 *)

\* Without a key nothing was signed, unless one was removed.
LEMMA Unsigned ==
  ASSUME IInv, ~keyLost, keyFile \in {Absent, Empty}
  PROVE  approvals = {} /\ \A t \in Slots : job[t].pc \notin Signed
  <1>1. keyFile \notin 1..MaxKeys
    BY ApprovalKeyAssumption
  <1>2. \A a \in Approval : a.key \in 1..MaxKeys
    BY DEF Approval
  <1>3. approvals = {}
    BY <1>1, <1>2 DEF IInv, Typed, OneMaker
  <1>4. ASSUME NEW t \in Slots, job[t].pc \in Signed PROVE FALSE
    <2>1. job[t].pc # "idle"
      BY <1>4, Order, PhaseFacts
    <2>2. SlotOK(t) /\ job[t] # Idle
      BY <2>1, Active
    <2>3. job[t].approval \in Approval /\ job[t].approval.key = keyFile
      BY <1>4, <2>2 DEF SlotOK, KeyOK, ApprovalOK
    <2>4. QED  BY <1>1, <1>2, <2>3
  <1>5. QED  BY <1>3, <1>4

\* A call makes the key: it opens the file, or fills the one it has opened.
LEMMA KeyMade ==
  ASSUME IInv, NEW s \in Slots, job[s].pc \in KeyUses, NEW k \in {"creating", "made"},
         job' = [job EXCEPT ![s].key = k],
         keyLost \/ keyFile \in {Absent, Empty},
         KeyTypeOK', keyLost' = keyLost, OneMaker',
         UNCHANGED <<calls, approvals, notes, specs, apps, spent, life, built, raced,
                     events, lapped, receipts, answer, faults>>
  PROVE  IInv'
  <1> DEFINE j == [job[s] EXCEPT !.key = k]
  <1>1. job[s] \in Job /\ SlotOK(s) /\ job[s] # Idle
    BY Active DEF KeyUses
  <1>2. /\ j \in Job /\ j.pc = job[s].pc /\ j.key = k /\ j.approval = job[s].approval
        /\ j.id = job[s].id /\ j.proc = job[s].proc /\ j.plan = job[s].plan
        /\ j.call = job[s].call /\ j.ordinal = job[s].ordinal /\ j.logs = job[s].logs
    BY <1>1 DEF Job
  <1>3. job' = [job EXCEPT ![s] = j]
    BY DEF IInv, Typed
  <1> HIDE DEF j
  <1>4. /\ job' \in [Slots -> Job \cup {Idle}]
        /\ job'[s] = j /\ \A t \in Slots \ {s} : job'[t] = job[t]
    BY <1>2, <1>3, OneSlot DEF IInv
  <1>5. keyLost \/ \A t \in Slots : job[t].pc \notin Signed
    BY Unsigned
  <1>6. Typed'
    BY <1>4 DEF IInv, Typed
  <1>7. LinesOK'
    <2>1. Counting' \subseteq Counting
      BY <1>2, <1>4 DEF Counting
    <2>2. QED  BY <2>1, FewerCounting DEF IInv
  <1>8. BuiltOK' /\ SpentOnce' /\ OwnNonces' /\ TrailWhole' /\ TailsOK'
    <2>1. BuiltOK' /\ SpentOnce' /\ OwnNonces'
      BY DEF IInv, BuiltOK, SpentOnce, OwnNonces
    <2>2. TrailWhole'
      BY LogsStay, TrailStays, NoFault
    <2>3. TailsOK'
      BY <1>4, TailsStay, NoFault DEF KeyUses
    <2>4. QED  BY <2>1, <2>2, <2>3
  <1>9. ASSUME NEW t \in Slots PROVE SlotOK(t)'
    <2>1. CASE t # s
      BY <1>4, <1>5, <2>1, OthersOK DEF IInv
    <2>2. CASE t = s
      <3>1. KeyOK(s)'
        <4>1. job[s].pc # "write"
          BY DEF KeyUses
        <4>2. QED  BY <1>2, <1>4, <1>5, <4>1 DEF KeyOK
      <3>2. ApprovalOK(s)'
        BY <1>1, <1>2, <1>4 DEF SlotOK, ApprovalOK
      <3>3. DoneOK(s)'
        BY <1>1, <1>2, <1>4 DEF SlotOK, DoneOK, NoteOf, SpecOf
      <3>4. NonceOK(s)' /\ OrdinalOK(s)'
        BY <1>2, <1>4 DEF NonceOK, OrdinalOK, KeyUses
      <3>5. QED  BY <2>2, <3>1, <3>2, <3>3, <3>4 DEF SlotOK
    <2>3. QED  BY <2>1, <2>2
  <1>10. QED  BY <1>6, <1>7, <1>8, <1>9 DEF IInv

LEMMA CreateKeyIInv == ASSUME IInv, NEW s \in Slots, CreateKey(s) PROVE IInv'
  <1>1. /\ job[s].pc \in KeyUses /\ job' = [job EXCEPT ![s].key = "creating"]
        /\ keyFile = Absent /\ keyFile' = Empty /\ keyLost' = keyLost /\ keys' = keys
        /\ UNCHANGED <<calls, approvals, notes, specs, apps, spent, life, built, raced,
                       events, lapped, receipts, answer, faults>>
    BY DEF CreateKey, OpenNew
  <1>2. KeyTypeOK'
    BY <1>1 DEF IInv, Typed, KeyTypeOK
  <1>3. OneMaker'
    <2>1. CASE ~keyLost
      <3>1. approvals' = {}
        BY <1>1, <2>1, Unsigned
      <3>2. Makers = {}
        BY <1>1, <2>1, ApprovalKeyAssumption DEF IInv, OneMaker
      <3>3. \A t \in Slots \ {s} : job'[t] = job[t]
        BY <1>1 DEF IInv, Typed
      <3>4. Makers' \subseteq {s}
        BY <3>2, <3>3 DEF Makers
      <3>5. QED  BY <1>1, <3>1, <3>4 DEF OneMaker
    <2>2. QED  BY <1>1, <2>1 DEF OneMaker
  <1>4. QED  BY <1>1, <1>2, <1>3, KeyMade

LEMMA FillKeyIInv == ASSUME IInv, NEW s \in Slots, FillKey(s) PROVE IInv'
  <1>1. /\ job[s].pc \in KeyUses /\ job' = [job EXCEPT ![s].key = "made"]
        /\ job[s].key = "creating"
        /\ keys < MaxKeys /\ keyFile' = keys + 1 /\ keyLost' = keyLost /\ keys' = keys + 1
        /\ UNCHANGED <<calls, approvals, notes, specs, apps, spent, life, built, raced,
                       events, lapped, receipts, answer, faults>>
    BY DEF FillKey, WriteKey
  <1>2. KeyTypeOK'
    <2>1. keys + 1 \in 1..MaxKeys /\ keys + 1 \in 0..MaxKeys
      BY <1>1, ApprovalKeyAssumption DEF IInv, Typed, KeyTypeOK
    <2>2. QED  BY <1>1, <2>1 DEF IInv, Typed, KeyTypeOK
  <1>3. s \in Makers
    <2>1. job[s] # Idle
      BY <1>1, Active DEF KeyUses
    <2>2. QED  BY <1>1, <2>1 DEF Makers
  <1>4. keyLost \/ (keyFile = Empty /\ Makers = {s})
    BY <1>3 DEF IInv, OneMaker
  <1>5. OneMaker'
    <2>1. CASE ~keyLost
      <3>1. approvals' = {}
        BY <1>1, <1>4, <2>1, Unsigned
      <3>2. job[s] \in Job
        BY <1>1, Active DEF KeyUses
      <3>3. job'[s].key = "made" /\ \A t \in Slots \ {s} : job'[t] = job[t]
        BY <1>1, <3>2 DEF IInv, Typed, Job
      <3>4. Makers' = {}
        BY <1>4, <2>1, <3>3 DEF Makers
      <3>5. QED  BY <1>1, <3>1, <3>4 DEF OneMaker
    <2>2. QED  BY <1>1, <2>1 DEF OneMaker
  <1>6. QED  BY <1>1, <1>2, <1>4, <1>5, KeyMade

LEMMA LoseKeyIInv == ASSUME IInv, LoseKey PROVE IInv'
  <1>1. /\ keyFile' = Absent /\ keyLost' = TRUE /\ keys' = keys /\ faults' \in faults..MaxFaults
        /\ UNCHANGED <<job, calls, approvals, notes, specs, apps, spent, life, built, raced,
                       events, lapped, receipts, answer>>
    BY FaultFacts DEF LoseKey, RemoveKey
  <1>2. Typed' /\ OneMaker'
    <2>1. faults' \in 0..MaxFaults
      BY <1>1, FaultsGrow
    <2>2. QED  BY <1>1, <2>1 DEF IInv, Typed, KeyTypeOK, OneMaker
  <1>3. LinesOK'
    BY <1>1, FewerCounting DEF Counting, IInv
  <1>4. BuiltOK' /\ SpentOnce' /\ OwnNonces' /\ TrailWhole' /\ TailsOK'
    <2>1. BuiltOK' /\ SpentOnce' /\ OwnNonces'
      BY <1>1 DEF IInv, BuiltOK, SpentOnce, OwnNonces
    <2>2. TrailWhole'
      BY <1>1, LogsStay, TrailStays
    <2>3. TailsOK'
      <3>1. TailsOK /\ (faults > 0 => faults' > 0)
        BY <1>1, FaultsGrow DEF IInv
      <3>2. QED  BY <1>1, <3>1 DEF TailsOK, At
    <2>4. QED  BY <2>1, <2>2, <2>3
  <1>5. ASSUME NEW t \in Slots PROVE SlotOK(t)'
    BY <1>1, OthersOK DEF IInv
  <1>6. QED  BY <1>2, <1>3, <1>4, <1>5 DEF IInv

-----------------------------------------------------------------------------
(* A call starts, and what it writes down.                                 *)

LEMMA Started ==
  ASSUME IInv, NEW s \in Slots, NEW j \in Job, job' = [job EXCEPT ![s] = j],
         job[s] = Idle, calls < MaxCalls, calls' = calls + 1,
         answer' = [answer EXCEPT ![s] = "none"],
         UNCHANGED <<keyVars, approvals, notes, specs, apps, spent, life, built, raced,
                     events, lapped, receipts, faults>>,
         j.key = "ready", j.logs,
         \/ j.pc = "gate" /\ j.id = j.call
         \/ j.pc = "note" /\ j.approval \in approvals /\ j.approval.plan = j.id
  PROVE  IInv'
  <1>1. /\ job' \in [Slots -> Job \cup {Idle}]
        /\ job'[s] = j /\ \A t \in Slots \ {s} : job'[t] = job[t]
    BY OneSlot DEF IInv
  <1>2. calls \in Nat /\ calls' \in 0..MaxCalls
    BY MissionsAssumption DEF IInv, Typed
  <1>3. Typed'
    <2>1. answer' \in [Slots -> Answers]
      BY DEF IInv, Typed, Answers
    <2>2. QED  BY <1>1, <1>2, <2>1 DEF IInv, Typed, KeyTypeOK, keyVars
  <1>4. OneMaker'
    <2>1. Makers' \subseteq Makers
      BY <1>1 DEF Makers
    <2>2. QED  BY <2>1 DEF IInv, OneMaker, keyVars
  <1>5. LinesOK'
    <2>1. Counting' = Counting \cup {s} /\ s \notin Counting
      BY <1>1, PhaseFacts DEF Counting
    <2>2. /\ IsFiniteSet(Counting') /\ Cardinality(Counting') = Cardinality(Counting) + 1
          /\ Cardinality(Counting) \in Nat
      BY <2>1, FS_AddElement, FS_CardinalityType DEF IInv, LinesOK
    <2>3. Len(events) \in Nat /\ Len(events') = Len(events)
      BY LenProperties DEF IInv, Typed
    <2>4. Len(events) + Cardinality(Counting) <= calls
      BY DEF IInv, LinesOK
    <2>5. QED  BY <1>2, <2>2, <2>3, <2>4 DEF LinesOK
  <1>6. BuiltOK' /\ SpentOnce' /\ OwnNonces' /\ TrailWhole' /\ TailsOK'
    <2>1. BuiltOK' /\ SpentOnce' /\ OwnNonces'
      BY DEF IInv, BuiltOK, SpentOnce, OwnNonces
    <2>2. TrailWhole'
      BY LogsStay, TrailStays, NoFault DEF keyVars
    <2>3. TailsOK'
      BY <1>1, TailsStay, NoFault DEF Idle
    <2>4. QED  BY <2>1, <2>2, <2>3
  <1>7. SlotOK(s)'
    <2>1. KeyOK(s)'
      BY <1>1 DEF IInv, OneMaker, KeyOK, keyVars, KeyUses, Signed, Phases
    <2>2. ApprovalOK(s)'
      BY <1>1, Order DEF IInv, Typed, OwnNonces, ApprovalOK
    <2>3. DoneOK(s)' /\ NonceOK(s)' /\ OrdinalOK(s)'
      BY <1>1, Order DEF DoneOK, NonceOK, OrdinalOK
    <2>4. QED  BY <2>1, <2>2, <2>3 DEF SlotOK
  <1>8. \A t \in Slots : SlotOK(t)'
    <2>1. ASSUME NEW t \in Slots \ {s} PROVE SlotOK(t)'
      BY <1>1, <2>1, OthersOK DEF IInv, keyVars
    <2>2. QED  BY <1>7, <2>1
  <1>9. QED  BY <1>3, <1>4, <1>5, <1>6, <1>8 DEF IInv

LEMMA NextCall == ASSUME IInv, calls < MaxCalls PROVE calls + 1 \in Calls
  BY MissionsAssumption DEF IInv, Typed, Calls

LEMMA BeginIInv ==
  ASSUME IInv, NEW s \in Slots, NEW p \in Procs, NEW content \in Plans, Begin(s, p, content)
  PROVE  IInv'
  <1> DEFINE j == [pc |-> "gate", key |-> "ready", call |-> calls + 1, proc |-> p,
                   id |-> calls + 1, plan |-> content, approval |-> NoApproval,
                   ordinal |-> 0, logs |-> TRUE]
  <1>1. j \in Job
    BY NextCall DEF Begin, Job, Phases
  <1>2. j.key = "ready" /\ j.pc = "gate" /\ j.id = j.call /\ j.logs
    OBVIOUS
  <1>3. job' = [job EXCEPT ![s] = j]
    BY DEF Begin
  <1> HIDE DEF j
  <1>4. QED  BY <1>1, <1>2, <1>3, Started DEF Begin

LEMMA FinalizeKeptIInv ==
  ASSUME IInv, NEW s \in Slots, NEW p \in Procs, NEW a \in approvals, NEW content \in Plans,
         FinalizeKept(s, p, a, content)
  PROVE  IInv'
  <1> DEFINE j == [pc |-> "note", key |-> "ready", call |-> calls + 1, proc |-> p,
                   id |-> a.plan, plan |-> content, approval |-> a, ordinal |-> 0,
                   logs |-> TRUE]
  <1>1. a \in Approval /\ a.plan \in Calls
    BY DEF IInv, Typed, Approval
  <1>2. j \in Job
    BY <1>1, NextCall DEF FinalizeKept, Job, Phases
  <1>3. j.key = "ready" /\ j.pc = "note" /\ j.approval = a /\ j.id = a.plan /\ j.logs
    OBVIOUS
  <1>4. job' = [job EXCEPT ![s] = j]
    BY DEF FinalizeKept
  <1> HIDE DEF j
  <1>5. QED  BY <1>2, <1>3, <1>4, Started DEF FinalizeKept

-----------------------------------------------------------------------------
(* The logs.                                                               *)

\* A record is added, or part of one, or the newline.
LEMMA WrittenFacts ==
  ASSUME NEW S, NEW log \in LogOf(S), NEW r \in S
  PROVE  /\ Written(log, r) \in LogOf(S) /\ Logged(Written(log, r)) = Logged(log) \cup {r}
         /\ Written(log, r).lost # {} => log.lost # {} \/ log.open # {} \/ log.torn
  BY DEF LogOf, Written, Logged, Readable

LEMMA HalfFacts ==
  ASSUME NEW S, NEW log \in LogOf(S)
  PROVE  HalfWritten(log) \in LogOf(S) /\ Logged(HalfWritten(log)) = Logged(log)
  BY DEF LogOf, HalfWritten, Logged, Readable

LEMMA EndedFacts ==
  ASSUME NEW S, NEW log \in LogOf(S)
  PROVE  /\ Ended(log) \in LogOf(S) /\ Logged(Ended(log)) = Logged(log)
         /\ Ended(log).lost = log.lost /\ Ended(log).open = {} /\ ~Ended(log).torn
  BY DEF LogOf, Ended, Logged, Readable

\* A call that has signed goes on to a phase, or ends, and may log things.
LEMMA Logs ==
  ASSUME IInv, NEW s \in Slots, NEW at \in Signed \ {"receipt", "write"}, At(s, at),
         NEW pc \in Phases, NEW k \in BOOLEAN, NEW how \in Answers,
         \/ /\ Goto(s, pc) \/ job' = [job EXCEPT ![s].pc = pc, ![s].logs = k]
            /\ answer' = answer /\ SlotOK(s)'
         \/ Finish(s, how),
         UNCHANGED <<keyVars, calls, spent, life, built, raced, events, receipts>>,
         approvals \subseteq approvals', approvals' \subseteq approvals \cup {job[s].approval},
         Logged(notes) \subseteq Logged(notes)', Logged(specs) \subseteq Logged(specs)',
         notes' \in LogOf(NoteRecord), specs' \in LogOf(SpecRecord),
         apps \subseteq apps', apps' \subseteq AppRecord,
         lapped \subseteq lapped', lapped' \subseteq {"events", "notes", "specs"},
         TrailWhole', TailsOK', faults' \in faults..MaxFaults
  PROVE  IInv'
  <1>1. job[s] \in Job /\ s \in Counting /\ SlotOK(s) /\ job[s] # Idle /\ job[s].pc = at
    BY Active, PhaseFacts, Order DEF At, Counting
  <1>2. /\ approvals' \subseteq Approval /\ OwnNonces'
        /\ \A a \in approvals' : keyLost \/ a.key = keyFile
    <2>1. /\ job[s].approval \in Approval /\ job[s].approval.nonce = job[s].approval.plan
          /\ keyLost \/ job[s].approval.key = keyFile
      BY <1>1 DEF SlotOK, ApprovalOK, KeyOK
    <2>2. approvals \subseteq Approval /\ OwnNonces /\ OneMaker
      BY DEF IInv, Typed
    <2>3. \A a \in approvals' : keyLost \/ a.key = keyFile
      BY <2>1, <2>2 DEF OneMaker
    <2>4. OwnNonces'
      BY <2>1, <2>2 DEF OwnNonces
    <2>5. QED  BY <2>1, <2>2, <2>3, <2>4
  <1>3. receipts' \subseteq [call : Calls, decision : Approval, key : 1..MaxKeys,
                             whole : BOOLEAN]
    BY DEF IInv, Typed
  <1>4. CASE (Goto(s, pc) \/ job' = [job EXCEPT ![s].pc = pc, ![s].logs = k])
             /\ answer' = answer /\ SlotOK(s)'
    <2>1. PICK j \in {[job[s] EXCEPT !.pc = pc], [job[s] EXCEPT !.pc = pc, !.logs = k]} :
            job' = [job EXCEPT ![s] = j]
      BY <1>4 DEF Goto, IInv, Typed
    <2>2. j \in Job /\ j.key = "ready"
      <3>1. CASE j = [job[s] EXCEPT !.pc = pc]
        BY <1>1, <3>1 DEF Job, At
      <3>2. CASE j = [job[s] EXCEPT !.pc = pc, !.logs = k]
        BY <1>1, <3>2 DEF Job, At
      <3>3. QED  BY <2>1, <3>1, <3>2
    <2>3. job'[s] = j
      BY <2>1, <2>2, OneSlot DEF IInv
    <2>4. s \notin Makers' /\ answer' \in [Slots -> Answers]
      BY <1>4, <2>2, <2>3 DEF Makers, IInv, Typed
    <2>5. QED  BY <1>1, <1>2, <1>3, <1>4, <2>1, <2>2, <2>4, Writes
  <1>5. CASE Finish(s, how)
    <2>1. job' = [job EXCEPT ![s] = Idle] /\ answer' \in [Slots -> Answers]
      BY <1>5 DEF Finish, IInv, Typed
    <2>2. job'[s] = Idle
      BY <2>1, OneSlot DEF IInv
    <2>3. SlotOK(s)' /\ s \notin Makers'
      BY <2>2 DEF SlotOK, Makers
    <2>4. QED  BY <1>1, <1>2, <1>3, <2>1, <2>3, Writes
  <1>6. QED  BY <1>4, <1>5

\* What a call that goes on leaves as it was.
Same(s) ==
  /\ job'[s].key = "ready" /\ job'[s].approval = job[s].approval /\ job'[s].id = job[s].id
  /\ job'[s].plan = job[s].plan /\ job'[s].call = job[s].call /\ job'[s].proc = job[s].proc
  /\ NoteOf(s)' = NoteOf(s) /\ SpecOf(s)' = SpecOf(s)
  /\ \A t \in Slots \ {s} : job'[t] = job[t]

LEMMA GotoJob ==
  ASSUME IInv, NEW s \in Slots, NEW at \in Phases, NEW pc \in Phases, At(s, at), Goto(s, pc)
  PROVE  /\ job[s] \in Job /\ job[s] # Idle /\ SlotOK(s) /\ job[s].pc = at
         /\ job'[s].pc = pc /\ job'[s].logs = job[s].logs /\ Same(s)
  <1> DEFINE j == [job[s] EXCEPT !.pc = pc]
  <1>1. job[s] \in Job /\ job[s] # Idle /\ SlotOK(s) /\ job[s].pc = at
    BY Active, PhaseFacts DEF At
  <1>2. /\ j.pc = pc /\ j.key = "ready" /\ j.approval = job[s].approval /\ j.id = job[s].id
        /\ j.plan = job[s].plan /\ j.call = job[s].call /\ j.proc = job[s].proc
        /\ j.logs = job[s].logs
    BY <1>1 DEF Job, At
  <1>3. job'[s] = j /\ \A t \in Slots \ {s} : job'[t] = job[t]
    BY DEF Goto, IInv, Typed
  <1> HIDE DEF j
  <1>4. QED  BY <1>1, <1>2, <1>3 DEF Same, NoteOf, SpecOf

LEMMA DecideJob ==
  ASSUME IInv, NEW s \in Slots, NEW at \in {"note", "noted"}, At(s, at), NEW k \in BOOLEAN,
         job' = [job EXCEPT ![s].pc = "check", ![s].logs = k]
  PROVE  job'[s].pc = "check" /\ job'[s].logs = k /\ Same(s)
  <1> DEFINE j == [job[s] EXCEPT !.pc = "check", !.logs = k]
  <1>1. job[s] \in Job
    BY Active DEF At
  <1>2. /\ j.pc = "check" /\ j.key = "ready" /\ j.approval = job[s].approval /\ j.id = job[s].id
        /\ j.plan = job[s].plan /\ j.call = job[s].call /\ j.proc = job[s].proc /\ j.logs = k
    BY <1>1 DEF Job, At
  <1>3. job'[s] = j /\ \A t \in Slots \ {s} : job'[t] = job[t]
    BY DEF IInv, Typed
  <1> HIDE DEF j
  <1>4. QED  BY <1>2, <1>3 DEF Same, NoteOf, SpecOf

LEMMA NoteIInv == ASSUME IInv, NEW s \in Slots, Note(s) PROVE IInv'
  <1> DEFINE r == NoteOf(s)
  <1>1. /\ At(s, "note") /\ Goto(s, "noted") /\ "note" \in Signed /\ "note" \in Phases
        /\ "noted" \in Phases /\ approvals' = approvals \cup {job[s].approval}
        /\ notes' = Written(notes, r)
        /\ lapped' = IF \E t \in Slots \ {s} : At(t, "noted")
                     THEN lapped \cup {"notes"} ELSE lapped
        /\ UNCHANGED <<keyVars, calls, specs, apps, spent, life, built, raced, events,
                       receipts, answer, faults>>
    BY Order DEF Note, Phases
  <1>2. /\ job[s] \in Job /\ job[s] # Idle /\ SlotOK(s) /\ job[s].pc = "note"
        /\ job'[s].pc = "noted" /\ Same(s)
    BY <1>1, GotoJob
  <1>3. job[s].approval \in Approval
    BY <1>1, <1>2 DEF SlotOK, ApprovalOK
  <1>4. r \in NoteRecord
    BY <1>2, <1>3 DEF NoteOf, NoteRecord, Job, Approval
  <1> HIDE DEF r
  <1>5. /\ notes' \in LogOf(NoteRecord) /\ Logged(notes)' = Logged(notes) \cup {r}
        /\ notes'.lost # {} => notes.lost # {} \/ notes.open # {} \/ notes.torn
    <2>1. notes \in LogOf(NoteRecord)
      BY DEF IInv, Typed
    <2>2. QED  BY <1>1, <1>4, <2>1, WrittenFacts
  <1>6. lapped \subseteq lapped' /\ lapped' \subseteq {"events", "notes", "specs"}
    BY <1>1 DEF IInv, Typed
  <1>7. LogsReadable'
    <2>1. LogsReadable /\ TailsOK
      BY DEF IInv, TrailWhole
    <2>2. ASSUME NEW t \in Slots, At(t, "noted") PROVE "notes" \in lapped'
      BY <1>1, <1>2, <2>2 DEF At
    <2>3. QED  BY <1>1, <1>5, <1>6, <2>1, <2>2 DEF LogsReadable, TailsOK
  <1>8. TrailWhole'
    BY <1>1, <1>5, <1>6, <1>7, TrailStays DEF keyVars
  <1>9. TailsOK'
    <2>1. At(s, "noted")' /\ \A t \in Slots : At(t, "logged") => At(t, "logged")'
      BY <1>2 DEF At, Same
    <2>2. QED  BY <1>1, <2>1 DEF IInv, TailsOK
  <1>10. SlotOK(s)'
    <2>1. KeyOK(s)'
      BY <1>1, <1>2, Order DEF SlotOK, KeyOK, Same, keyVars
    <2>2. ApprovalOK(s)'
      BY <1>1, <1>2, <1>3, Order DEF SlotOK, ApprovalOK, Same
    <2>3. DoneOK(s)' /\ NonceOK(s)' /\ OrdinalOK(s)'
      BY <1>2, <1>5, Order DEF DoneOK, NonceOK, OrdinalOK, Same, r
    <2>4. QED  BY <2>1, <2>2, <2>3 DEF SlotOK
  <1>11. QED
    BY <1>1, <1>5, <1>6, <1>8, <1>9, <1>10, Logs, NoFault DEF IInv, Typed, Answers

\* The approval is looked at, after it was logged or without that.
LEMMA DecideIInv ==
  ASSUME IInv, NEW s \in Slots, NEW at \in {"note", "noted"}, At(s, at), NEW k \in BOOLEAN,
         Decide(s, k), k => at = "noted",
         UNCHANGED <<keyVars, calls, specs, apps, spent, life, built, raced, events,
                     lapped, receipts, faults>>,
         approvals' = approvals \cup {job[s].approval},
         notes' \in LogOf(NoteRecord), Logged(notes)' = Logged(notes),
         notes'.lost = notes.lost, TailsOK'
  PROVE  IInv'
  <1>1. job[s] \in Job /\ job[s] # Idle /\ SlotOK(s) /\ job[s].pc = at /\ at \in Signed
    BY Active, Order DEF At
  <1>2. LogsReadable'
    BY DEF IInv, TrailWhole, LogsReadable
  <1>3. TrailWhole'
    BY <1>2, TrailStays DEF keyVars
  <1>4. CASE job[s].approval.granted
    <2>1. job' = [job EXCEPT ![s].pc = "check", ![s].logs = k] /\ answer' = answer
      BY <1>4 DEF Decide
    <2>2. job'[s].pc = "check" /\ job'[s].logs = k /\ Same(s)
      BY <2>1, DecideJob
    <2>3. KeyOK(s)'
      BY <1>1, <2>2, Order DEF SlotOK, KeyOK, Same, keyVars
    <2>4. ApprovalOK(s)'
      BY <1>1, <1>4, <2>2, Order DEF SlotOK, ApprovalOK, Same
    <2>5. DoneOK(s)'
      BY <1>1, <2>2, Order DEF SlotOK, DoneOK, Same
    <2>6. NonceOK(s)' /\ OrdinalOK(s)'
      BY <2>2 DEF NonceOK, OrdinalOK
    <2>7. SlotOK(s)'
      BY <2>3, <2>4, <2>5, <2>6 DEF SlotOK
    <2>8. "check" \in Phases /\ "error" \in Answers
      BY DEF Phases, Answers
    <2>9. QED  BY <1>1, <1>3, <2>1, <2>7, <2>8, Logs, NoFault DEF IInv, Typed
  <1>5. CASE ~job[s].approval.granted
    <2>1. Finish(s, "rejected") /\ "rejected" \in Answers /\ "check" \in Phases
      BY <1>5 DEF Decide, Answers, Phases
    <2>2. QED  BY <1>1, <1>3, <2>1, Logs, NoFault DEF IInv, Typed
  <1>6. QED  BY <1>4, <1>5

LEMMA EndNoteIInv == ASSUME IInv, NEW s \in Slots, EndNote(s) PROVE IInv'
  <1>1. /\ At(s, "noted") /\ Decide(s, TRUE) /\ notes' = Ended(notes)
        /\ UNCHANGED <<keyVars, calls, approvals, specs, apps, spent, life, built,
                       raced, events, lapped, receipts, faults>>
    BY DEF EndNote
  <1>2. job[s].approval \in approvals /\ job[s].pc = "noted"
    BY <1>1, Active, Order DEF At, SlotOK, ApprovalOK
  <1>3. /\ notes' \in LogOf(NoteRecord) /\ Logged(notes)' = Logged(notes)
        /\ notes'.lost = notes.lost /\ notes'.open = {} /\ ~notes'.torn
    <2>1. notes \in LogOf(NoteRecord)
      BY DEF IInv, Typed
    <2>2. QED  BY <1>1, <2>1, EndedFacts
  <1>4. \A t \in Slots \ {s} : job'[t] = job[t]
    BY <1>1 DEF Decide, Finish, IInv, Typed
  <1>5. TailsOK'
    <2>1. \A t \in Slots : At(t, "logged") => At(t, "logged")'
      BY <1>2, <1>4 DEF At
    <2>2. QED  BY <1>1, <1>3, <2>1 DEF IInv, TailsOK
  <1>6. approvals' = approvals \cup {job[s].approval}
    BY <1>1, <1>2
  <1>7. QED  BY <1>1, <1>3, <1>5, <1>6, DecideIInv

LEMMA SkipLogsIInv == ASSUME IInv, NEW s \in Slots, SkipLogs(s) PROVE IInv'
  <1>1. /\ At(s, "note") /\ Decide(s, FALSE) /\ approvals' = approvals \cup {job[s].approval}
        /\ UNCHANGED <<keyVars, calls, notes, specs, apps, spent, life, built,
                       raced, events, lapped, receipts, faults>>
    BY DEF SkipLogs
  <1>2. \A t \in Slots \ {s} : job'[t] = job[t]
    BY <1>1 DEF Decide, Finish, IInv, Typed
  <1>3. TailsOK'
    BY <1>1, <1>2, TailsStay, NoFault DEF At
  <1>4. QED  BY <1>1, <1>3, DecideIInv DEF IInv, Typed

LEMMA LogSpecIInv == ASSUME IInv, NEW s \in Slots, LogSpec(s) PROVE IInv'
  <1> DEFINE r == SpecOf(s)
             a == job[s].approval
  <1>1. /\ At(s, "spec") /\ job[s].logs /\ Goto(s, "logged") /\ "spec" \in Signed
        /\ "spec" \in Phases /\ "logged" \in Phases /\ specs' = Written(specs, r)
        /\ lapped' = IF \E t \in Slots \ {s} : At(t, "logged")
                     THEN lapped \cup {"specs"} ELSE lapped
        /\ UNCHANGED <<keyVars, calls, approvals, notes, apps, spent, life, built, raced, events,
                       receipts, answer, faults>>
    BY Order DEF LogSpec, Phases
  <1>2. /\ job[s] \in Job /\ job[s] # Idle /\ SlotOK(s) /\ job[s].pc = "spec"
        /\ job'[s].pc = "logged" /\ job'[s].logs /\ Same(s)
    BY <1>1, GotoJob
  <1>3. /\ a \in Approval /\ a.plan = job[s].id /\ a \in approvals
        /\ a.granted /\ a.hash = job[s].plan /\ NoteOf(s) \in Logged(notes)
    BY <1>1, <1>2, Order DEF SlotOK, ApprovalOK, DoneOK
  <1>4. /\ r \in SpecRecord /\ r.call = job[s].call /\ r.plan = job[s].id
        /\ r.content = job[s].plan /\ r.nonce = a.nonce
    BY <1>2, <1>3 DEF SpecOf, SpecRecord, Job, Approval
  <1> HIDE DEF r
  <1>5. /\ specs' \in LogOf(SpecRecord) /\ Logged(specs)' = Logged(specs) \cup {r}
        /\ specs'.lost # {} => specs.lost # {} \/ specs.open # {} \/ specs.torn
    <2>1. specs \in LogOf(SpecRecord)
      BY DEF IInv, Typed
    <2>2. QED  BY <1>1, <1>4, <2>1, WrittenFacts
  <1>6. lapped \subseteq lapped' /\ lapped' \subseteq {"events", "notes", "specs"}
    BY <1>1 DEF IInv, Typed
  <1>7. TrailWhole'
    <2>1. TrailWhole /\ TailsOK
      BY DEF IInv
    <2>2. AppsRecorded'
      BY <1>1, <1>5, <2>1 DEF TrailWhole, AppsRecorded
    <2>3. SpecsRecorded'
      <3>1. \E note \in Logged(notes) : note.call = r.call /\ note.nonce = r.nonce /\ note.granted
        BY <1>3, <1>4 DEF NoteOf
      <3>2. QED  BY <1>1, <1>3, <1>4, <1>5, <2>1, <3>1 DEF TrailWhole, SpecsRecorded
    <2>4. LogsReadable'
      <3>1. ASSUME NEW t \in Slots, At(t, "logged") PROVE "specs" \in lapped'
        BY <1>1, <1>2, <3>1 DEF At
      <3>2. QED  BY <1>1, <1>5, <1>6, <2>1, <3>1 DEF TrailWhole, LogsReadable, TailsOK
    <2>5. ReceiptsRecorded' /\ EventsCounted'
      BY <1>1, <1>6, <2>1 DEF TrailWhole, ReceiptsRecorded, EventsCounted, keyVars
    <2>6. QED  BY <2>2, <2>3, <2>4, <2>5 DEF TrailWhole
  <1>8. TailsOK'
    <2>1. At(s, "logged")' /\ \A t \in Slots : At(t, "noted") => At(t, "noted")'
      BY <1>2 DEF At, Same
    <2>2. QED  BY <1>1, <2>1 DEF IInv, TailsOK
  <1>9. SlotOK(s)'
    <2>1. KeyOK(s)'
      BY <1>1, <1>2, Order DEF SlotOK, KeyOK, Same, keyVars
    <2>2. ApprovalOK(s)'
      BY <1>1, <1>2, <1>3, Order DEF SlotOK, ApprovalOK, Same
    <2>3. DoneOK(s)'
      BY <1>1, <1>2, <1>3, <1>5, Order DEF DoneOK, Same, r
    <2>4. NonceOK(s)' /\ OrdinalOK(s)'
      BY <1>2 DEF NonceOK, OrdinalOK
    <2>5. QED  BY <2>1, <2>2, <2>3, <2>4 DEF SlotOK
  <1>10. QED
    BY <1>1, <1>5, <1>6, <1>7, <1>8, <1>9, Logs, NoFault DEF IInv, Typed, Answers

\* The spec is handed over, after it was logged or without that.
LEMMA HandOverIInv ==
  ASSUME IInv, NEW s \in Slots, NEW at \in {"spec", "logged"}, At(s, at), HandOver(s),
         at = "logged" \/ ~job[s].logs,
         UNCHANGED <<keyVars, calls, approvals, notes, apps, spent, life, built, raced, events,
                     lapped, receipts, faults>>,
         specs' \in LogOf(SpecRecord), Logged(specs)' = Logged(specs),
         specs'.lost = specs.lost, TailsOK'
  PROVE  IInv'
  <1>1. /\ job[s] \in Job /\ job[s] # Idle /\ SlotOK(s) /\ job[s].pc = at
        /\ at \in Signed /\ at \in Phases /\ "codegen" \in Phases /\ "built" \in Answers
    BY Active, Order DEF At, Phases, Answers
  <1>2. LogsReadable'
    BY DEF IInv, TrailWhole, LogsReadable
  <1>3. TrailWhole'
    BY <1>2, TrailStays DEF keyVars
  <1>4. CASE job[s].id = job[s].call
    <2>1. Goto(s, "codegen") /\ answer' = answer
      BY <1>4 DEF HandOver
    <2>2. job'[s].pc = "codegen" /\ job'[s].logs = job[s].logs /\ Same(s)
      BY <1>1, <2>1, GotoJob
    <2>3. KeyOK(s)'
      BY <1>1, <2>2, Order DEF SlotOK, KeyOK, Same, keyVars
    <2>4. ApprovalOK(s)'
      BY <1>1, <1>4, <2>2, Order DEF SlotOK, ApprovalOK, Same
    <2>5. DoneOK(s)'
      BY <1>1, <2>2, Order DEF SlotOK, DoneOK, Same
    <2>6. NonceOK(s)' /\ OrdinalOK(s)'
      BY <2>2 DEF NonceOK, OrdinalOK
    <2>7. SlotOK(s)'
      BY <2>3, <2>4, <2>5, <2>6 DEF SlotOK
    <2>8. QED  BY <1>1, <1>3, <2>1, <2>7, Logs, NoFault DEF IInv, Typed
  <1>5. CASE job[s].id # job[s].call
    <2>1. Finish(s, "built")
      BY <1>5 DEF HandOver
    <2>2. QED  BY <1>1, <1>3, <2>1, Logs, NoFault DEF IInv, Typed
  <1>6. QED  BY <1>4, <1>5

LEMMA EndSpecIInv == ASSUME IInv, NEW s \in Slots, EndSpec(s) PROVE IInv'
  <1>1. /\ At(s, "logged") /\ HandOver(s) /\ specs' = Ended(specs) /\ job[s].pc = "logged"
        /\ UNCHANGED <<keyVars, calls, approvals, notes, apps, spent, life, built,
                       raced, events, lapped, receipts, faults>>
    BY DEF EndSpec, At
  <1>2. /\ specs' \in LogOf(SpecRecord) /\ Logged(specs)' = Logged(specs)
        /\ specs'.lost = specs.lost /\ specs'.open = {} /\ ~specs'.torn
    <2>1. specs \in LogOf(SpecRecord)
      BY DEF IInv, Typed
    <2>2. QED  BY <1>1, <2>1, EndedFacts
  <1>3. \A t \in Slots \ {s} : job'[t] = job[t]
    BY <1>1 DEF HandOver, Goto, Finish, IInv, Typed
  <1>4. TailsOK'
    <2>1. \A t \in Slots : At(t, "noted") => At(t, "noted")'
      BY <1>1, <1>3 DEF At
    <2>2. QED  BY <1>1, <1>2, <2>1 DEF IInv, TailsOK
  <1>5. QED  BY <1>1, <1>2, <1>4, HandOverIInv

LEMMA SkipSpecIInv == ASSUME IInv, NEW s \in Slots, SkipSpec(s) PROVE IInv'
  <1>1. /\ At(s, "spec") /\ ~job[s].logs /\ HandOver(s)
        /\ UNCHANGED <<keyVars, calls, approvals, notes, specs, apps, spent, life, built,
                       raced, events, lapped, receipts, faults>>
    BY DEF SkipSpec
  <1>2. \A t \in Slots \ {s} : job'[t] = job[t]
    BY <1>1 DEF HandOver, Goto, Finish, IInv, Typed
  <1>3. TailsOK'
    BY <1>1, <1>2, TailsStay, NoFault DEF At
  <1>4. QED  BY <1>1, <1>3, HandOverIInv DEF IInv, Typed

LEMMA GenerateIInv == ASSUME IInv, NEW s \in Slots, Generate(s) PROVE IInv'
  <1> DEFINE app == [call |-> job[s].call, content |-> job[s].plan, logged |-> job[s].logs]
  <1>1. /\ At(s, "codegen") /\ "codegen" \in Phases /\ "count" \in Phases /\ "error" \in Answers
        /\ "codegen" \in Signed /\ Goto(s, "count") /\ apps' = apps \cup {app}
        /\ UNCHANGED <<keyVars, calls, approvals, notes, specs, spent, life, built, raced, events,
                       lapped, receipts, answer, faults>>
    BY Order DEF Generate, Phases, Answers
  <1>2. /\ job[s] \in Job /\ job[s] # Idle /\ SlotOK(s) /\ job[s].pc = "codegen"
        /\ job'[s].pc = "count" /\ job'[s].logs = job[s].logs /\ Same(s)
    BY <1>1, GotoJob
  <1>3. /\ app \in AppRecord /\ app.call = job[s].call /\ app.content = job[s].plan
        /\ app.logged = job[s].logs
    BY <1>2 DEF AppRecord, Job
  <1> HIDE DEF app
  <1>4. TrailWhole'
    <2>1. TrailWhole
      BY DEF IInv
    <2>2. AppsRecorded'
      <3>1. \E a \in approvals : a.granted /\ a.nonce = app.call /\ a.hash = app.content
        BY <1>2, <1>3, Order DEF SlotOK, ApprovalOK
      <3>2. app.logged =>
              \E spec \in Logged(specs) : spec.call = app.call /\ spec.content = app.content
        BY <1>2, <1>3, Order DEF SlotOK, DoneOK, SpecOf
      <3>3. QED  BY <1>1, <2>1, <3>1, <3>2 DEF TrailWhole, AppsRecorded
    <2>3. SpecsRecorded' /\ LogsReadable' /\ EventsCounted'
      BY <1>1, <2>1 DEF TrailWhole, SpecsRecorded, LogsReadable, EventsCounted
    <2>4. ReceiptsRecorded'
      BY <1>1, <2>1 DEF TrailWhole, ReceiptsRecorded, keyVars
    <2>5. QED  BY <2>2, <2>3, <2>4 DEF TrailWhole
  <1>5. TailsOK'
    BY <1>1, <1>2, TailsStay, NoFault DEF Same
  <1>6. SlotOK(s)'
    <2>1. KeyOK(s)'
      BY <1>1, <1>2, Order DEF SlotOK, KeyOK, Same, keyVars
    <2>2. ApprovalOK(s)'
      BY <1>1, <1>2, Order DEF SlotOK, ApprovalOK, Same
    <2>3. DoneOK(s)'
      BY <1>1, <1>2, <1>3, Order DEF SlotOK, DoneOK, Same
    <2>4. NonceOK(s)' /\ OrdinalOK(s)'
      BY <1>2 DEF NonceOK, OrdinalOK
    <2>5. QED  BY <2>1, <2>2, <2>3, <2>4 DEF SlotOK
  <1>7. apps' \subseteq AppRecord
    BY <1>1, <1>3 DEF IInv, Typed
  <1>8. QED  BY <1>1, <1>4, <1>5, <1>6, <1>7, Logs, NoFault DEF IInv, Typed

\* What may be left of a log when a call that was writing it ends.
LEMMA CutFacts ==
  ASSUME IInv, notes' = notes \/ notes' = HalfWritten(notes),
         specs' = specs \/ specs' = HalfWritten(specs), faults' > 0
  PROVE  /\ notes' \in LogOf(NoteRecord) /\ Logged(notes)' = Logged(notes)
         /\ specs' \in LogOf(SpecRecord) /\ Logged(specs)' = Logged(specs)
         /\ LogsReadable' /\ TailsOK'
  <1>1. notes \in LogOf(NoteRecord) /\ specs \in LogOf(SpecRecord)
    BY DEF IInv, Typed
  <1>2. notes' \in LogOf(NoteRecord) /\ Logged(notes)' = Logged(notes)
    BY <1>1, HalfFacts
  <1>3. specs' \in LogOf(SpecRecord) /\ Logged(specs)' = Logged(specs)
    BY <1>1, HalfFacts
  <1>4. LogsReadable' /\ TailsOK'
    BY DEF LogsReadable, TailsOK
  <1>5. QED  BY <1>2, <1>3, <1>4

LEMMA BuildFailsIInv ==
  ASSUME IInv, NEW s \in Slots, NEW halfway \in BOOLEAN, BuildFails(s, halfway) PROVE IInv'
  <1>1. PICK at \in {"note", "noted", "logged", "codegen", "spec"} : At(s, at)
    BY DEF BuildFails
  <1>2. /\ notes' = notes \/ notes' = HalfWritten(notes)
        /\ specs' = specs \/ specs' = HalfWritten(specs)
        /\ Finish(s, "error")
        /\ UNCHANGED <<keyVars, calls, approvals, apps, spent, life, built, raced, events,
                       lapped, receipts>>
        /\ faults' \in faults..MaxFaults /\ faults' > 0
    BY FaultFacts DEF BuildFails
  <1>3. /\ notes' \in LogOf(NoteRecord) /\ Logged(notes)' = Logged(notes)
        /\ specs' \in LogOf(SpecRecord) /\ Logged(specs)' = Logged(specs)
        /\ LogsReadable' /\ TailsOK'
    BY <1>2, CutFacts
  <1>4. TrailWhole'
    BY <1>2, <1>3, TrailStays DEF keyVars
  <1>5. at \in Signed \ {"receipt", "write"} /\ "error" \in Answers /\ "gate" \in Phases
    BY Order DEF Answers, Phases
  <1>6. QED  BY <1>1, <1>2, <1>3, <1>4, <1>5, Logs DEF IInv, Typed

\* The receipt, whole or cut off.
LEMMA ReceiptOfFacts ==
  ASSUME IInv, NEW s \in Slots, At(s, "write"), NEW whole \in BOOLEAN
  PROVE  /\ ReceiptOf(s, whole) \in [call : Calls, decision : Approval, key : 1..MaxKeys,
                                     whole : BOOLEAN]
         /\ ReceiptOf(s, whole).whole <=> whole
         /\ \E app \in apps : app.call = ReceiptOf(s, whole).call
         /\ keyLost \/ ReceiptOf(s, whole).key = ReceiptOf(s, whole).decision.key
  <1>1. job[s] \in Job /\ job[s] # Idle /\ SlotOK(s) /\ job[s].pc = "write"
    BY Active DEF At
  <1>2. /\ job[s].approval \in Approval /\ job[s].ordinal \in 1..MaxKeys
        /\ keyLost \/ job[s].ordinal = job[s].approval.key
    BY <1>1, Order DEF SlotOK, KeyOK, ApprovalOK
  <1>3. \E app \in apps : app.call = job[s].call
    BY <1>1, Order DEF SlotOK, DoneOK, NoteOf, SpecOf
  <1>4. job[s].call \in Calls
    BY <1>1 DEF Job
  <1>5. QED  BY <1>2, <1>3, <1>4 DEF ReceiptOf

LEMMA BuildReceiptIInv == ASSUME IInv, NEW s \in Slots, BuildReceipt(s) PROVE IInv'
  <1> DEFINE j == [job[s] EXCEPT !.pc = "write", !.key = "ready", !.ordinal = keyFile]
  <1>1. /\ job[s].pc = "receipt" /\ KeyThere
        /\ job' = [job EXCEPT ![s].pc = "write", ![s].key = "ready", ![s].ordinal = keyFile]
        /\ UNCHANGED <<keyVars, calls, approvals, notes, specs, apps, spent, life, built, raced,
                       events, lapped, receipts, answer, faults>>
    BY DEF BuildReceipt, WithKey
  <1>2. job[s] \in Job /\ SlotOK(s) /\ job[s] # Idle
    BY <1>1, Active
  <1>3. keyFile \in 1..MaxKeys /\ keyFile \in Nat
    <2>1. keyFile \in 1..MaxKeys
      BY <1>1 DEF KeyThere, IInv, Typed, KeyTypeOK
    <2>2. QED  BY <2>1, ApprovalKeyAssumption
  <1>4. /\ j \in Job /\ j.pc = "write" /\ j.key = "ready" /\ j.approval = job[s].approval
        /\ j.id = job[s].id /\ j.plan = job[s].plan /\ j.call = job[s].call
        /\ j.ordinal = keyFile /\ j.logs = job[s].logs
    BY <1>2, <1>3 DEF Job, Phases
  <1>5. job' = [job EXCEPT ![s] = j]
    BY <1>1 DEF IInv, Typed
  <1> HIDE DEF j
  <1>6. job'[s] = j
    BY <1>4, <1>5, OneSlot DEF IInv
  <1>7. KeyOK(s)'
    <2>1. keyLost \/ job[s].approval.key = keyFile
      BY <1>1, <1>2, Order DEF SlotOK, KeyOK
    <2>2. keyLost' = keyLost /\ keyFile' = keyFile
      BY <1>1 DEF keyVars
    <2>3. QED  BY <1>3, <1>4, <1>6, <2>1, <2>2 DEF KeyOK
  <1>8. ApprovalOK(s)' /\ DoneOK(s)'
    <2>1. ApprovalOK(s) /\ DoneOK(s)
      BY <1>2 DEF SlotOK
    <2>2. ApprovalOK(s)'
      BY <1>1, <1>4, <1>6, <2>1, Order DEF ApprovalOK
    <2>3. DoneOK(s)'
      BY <1>1, <1>4, <1>6, <2>1, Order DEF DoneOK, NoteOf, SpecOf
    <2>4. QED  BY <2>2, <2>3
  <1>9. NonceOK(s)' /\ OrdinalOK(s)' /\ s \notin Makers' /\ s \notin Counting'
    BY <1>4, <1>6 DEF NonceOK, OrdinalOK, Makers, Counting
  <1>10. SlotOK(s)'
    BY <1>7, <1>8, <1>9 DEF SlotOK
  <1>11. answer' \in [Slots -> Answers] /\ faults' \in faults..MaxFaults
    BY <1>1, NoFault DEF IInv, Typed
  <1>12. QED  BY <1>1, <1>4, <1>5, <1>9, <1>10, <1>11, Quiet

LEMMA ReceiptEnds ==
  ASSUME IInv, NEW s \in Slots, WriteReceipt(s) \/ WriteReceiptFails(s)
  PROVE  IInv'
  <1>1. PICK whole \in BOOLEAN : receipts' = receipts \cup {ReceiptOf(s, whole)}
    BY DEF WriteReceipt, WriteReceiptFails
  <1>2. /\ At(s, "write") /\ Finish(s, "generated")
        /\ UNCHANGED <<keyVars, calls, approvals, notes, specs, apps, spent, life, built, raced,
                       events, lapped>>
    BY DEF WriteReceipt, WriteReceiptFails
  <1>3. faults' \in faults..MaxFaults
    BY FaultFacts, NoFault DEF WriteReceipt, WriteReceiptFails
  <1> DEFINE r == ReceiptOf(s, whole)
  <1>4. /\ r \in [call : Calls, decision : Approval, key : 1..MaxKeys, whole : BOOLEAN]
        /\ \E app \in apps : app.call = r.call
        /\ keyLost \/ r.key = r.decision.key
    BY <1>2, ReceiptOfFacts
  <1> HIDE DEF r
  <1>5. receipts' = receipts \cup {r}
    BY <1>1 DEF r
  <1>6. TrailWhole'
    <2>1. \A x \in receipts' : x.whole =>
            (\E app \in apps' : app.call = x.call) /\ (x.key = x.decision.key \/ keyLost')
      BY <1>2, <1>4, <1>5 DEF IInv, TrailWhole, ReceiptsRecorded, keyVars
    <2>2. LogsReadable'
      BY <1>2, <1>3, LogsStay
    <2>3. QED
      BY <1>2, <2>1, <2>2
      DEF IInv, TrailWhole, AppsRecorded, SpecsRecorded, ReceiptsRecorded, EventsCounted
  <1>7. /\ job' = [job EXCEPT ![s] = Idle] /\ answer' \in [Slots -> Answers]
        /\ receipts' \subseteq [call : Calls, decision : Approval, key : 1..MaxKeys,
                                whole : BOOLEAN]
    BY <1>2, <1>4, <1>5 DEF Finish, IInv, Typed, Answers
  <1>8. job'[s] = Idle
    BY <1>7, OneSlot DEF IInv
  <1>9. SlotOK(s)' /\ s \notin Makers' /\ s \notin Counting'
    BY <1>8, PhaseFacts DEF SlotOK, Makers, Counting
  <1>10. OwnNonces' /\ \A b \in approvals' : keyLost \/ b.key = keyFile
    BY <1>2 DEF IInv, OneMaker, OwnNonces
  <1>11. TailsOK'
    BY <1>2, <1>3, <1>7, OneSlot, TailsStay DEF IInv, At
  <1>12. QED  BY <1>2, <1>3, <1>6, <1>7, <1>9, <1>10, <1>11, Writes DEF IInv, Typed

-----------------------------------------------------------------------------
(* The telemetry log.                                                      *)

\* There is a line to come for every call that has not passed the log.
LEMMA RoomForLine ==
  ASSUME IInv, NEW s \in Slots, s \in Counting
  PROVE  Len(events) \in Nat /\ Len(events) + 1 \in Calls
  <1>1. /\ IsFiniteSet(Counting) /\ Cardinality(Counting) \in Nat
        /\ Len(events) \in Nat /\ Len(events) + Cardinality(Counting) <= calls
    BY FS_CardinalityType, LenProperties DEF IInv, LinesOK, Typed
  <1>2. Cardinality(Counting) # 0
    BY <1>1, FS_EmptySet
  <1>3. calls \in Nat /\ calls <= MaxCalls /\ MaxCalls \in Nat
    BY MissionsAssumption DEF IInv, Typed
  <1>4. QED  BY <1>1, <1>2, <1>3 DEF Calls

LEMMA CountIInv == ASSUME IInv, NEW s \in Slots, Count(s) PROVE IInv'
  <1>1. /\ At(s, "count")
        /\ UNCHANGED <<keyVars, calls, approvals, notes, specs, apps, spent, life, built, raced,
                       events, lapped, receipts, answer, faults>>
        /\ faults' \in faults..MaxFaults
    BY NoFault DEF Count
  <1>2. CASE 0 \in ToSet(events)
    BY <1>1, <1>2, ReceiptNext DEF Count
  <1>3. CASE 0 \notin ToSet(events)
    <2> DEFINE j == [job[s] EXCEPT !.pc = "event", !.ordinal = Ordinal]
    <2>1. job[s] \in Job /\ SlotOK(s) /\ job[s] # Idle /\ s \in Counting /\ job[s].pc = "count"
      BY <1>1, Active DEF At, Counting
    <2>2. Ordinal \in Calls /\ Ordinal \in Nat
      BY <2>1, RoomForLine DEF Ordinal
    <2>3. /\ j \in Job /\ j.pc = "event" /\ j.key = "ready" /\ j.approval = job[s].approval
          /\ j.id = job[s].id /\ j.plan = job[s].plan /\ j.call = job[s].call
          /\ j.ordinal = Ordinal /\ j.logs = job[s].logs
      BY <1>1, <2>1, <2>2 DEF Job, Phases, At
    <2>4. job' = [job EXCEPT ![s] = j]
      BY <1>3 DEF Count, IInv, Typed
    <2> HIDE DEF j
    <2>5. job'[s] = j
      BY <2>3, <2>4, OneSlot DEF IInv
    <2>6. KeyOK(s)'
      <3>1. keyLost \/ job[s].approval.key = keyFile
        BY <2>1, Order DEF SlotOK, KeyOK
      <3>2. keyLost' = keyLost /\ keyFile' = keyFile
        BY <1>1 DEF keyVars
      <3>3. QED  BY <2>3, <2>5, <3>1, <3>2 DEF KeyOK
    <2>7. ApprovalOK(s)' /\ DoneOK(s)'
      <3>1. ApprovalOK(s) /\ DoneOK(s)
        BY <2>1 DEF SlotOK
      <3>2. ApprovalOK(s)'
        BY <1>1, <2>1, <2>3, <2>5, <3>1, Order DEF ApprovalOK
      <3>3. DoneOK(s)'
        BY <1>1, <2>1, <2>3, <2>5, <3>1, Order DEF DoneOK, NoteOf, SpecOf
      <3>4. QED  BY <3>2, <3>3
    <2>8. NonceOK(s)' /\ s \notin Makers'
      BY <2>3, <2>5 DEF NonceOK, Makers
    <2>9. OrdinalOK(s)'
      BY <1>1, <2>2, <2>3, <2>5 DEF OrdinalOK, Ordinal
    <2>10. SlotOK(s)'
      BY <2>6, <2>7, <2>8, <2>9 DEF SlotOK
    <2>11. answer' \in [Slots -> Answers]
      BY <1>1 DEF IInv, Typed
    <2>12. QED  BY <1>1, <2>1, <2>3, <2>4, <2>8, <2>10, <2>11, Quiet
  <1>4. QED  BY <1>2, <1>3

\* A line is added, or the log is closed.
LEMMA WithLineFacts ==
  ASSUME IInv, NEW n \in 0..MaxCalls, events' = WithLine(events, n)
  PROVE  /\ events' \in Seq(0..MaxCalls)
         /\ Len(events) \in Nat /\ Len(events') \in Nat /\ Len(events') <= Len(events) + 1
         /\ Closed => events' = events
         /\ ~Closed => /\ Len(events') = Len(events) + 1 /\ events'[Len(events) + 1] = n
                       /\ \A i \in 1..Len(events) : events'[i] = events[i]
         /\ n = 0 => Closed'
  <1>1. events \in Seq(0..MaxCalls) /\ Len(events) \in Nat
    BY LenProperties DEF IInv, Typed
  <1>2. CASE Closed
    <2>1. events' = events
      BY <1>2 DEF WithLine, Closed
    <2>2. QED  BY <1>1, <1>2, <2>1 DEF Closed
  <1>3. CASE ~Closed
    <2>1. events' = Append(events, n)
      BY <1>3 DEF WithLine, Closed
    <2>2. /\ events' \in Seq(0..MaxCalls) /\ Len(events') = Len(events) + 1
          /\ events'[Len(events) + 1] = n
          /\ \A i \in 1..Len(events) : events'[i] = events[i]
      BY <1>1, <2>1, AppendProperties
    <2>3. n = 0 => Closed'
      <3>1. events' # <<>>
        BY <1>1, <2>2
      <3>2. Last(events') = n
        BY <2>2 DEF Last
      <3>3. QED  BY <3>1, <3>2 DEF Closed
    <2>4. QED  BY <1>1, <1>3, <2>2, <2>3
  <1>4. QED  BY <1>2, <1>3

\* One call the fewer that has its line to come.
LEMMA OneFewer ==
  ASSUME IInv, NEW s \in Slots, s \in Counting, Counting' \subseteq Counting \ {s},
         Len(events') \in Nat, Len(events') <= Len(events) + 1, calls' = calls
  PROVE  LinesOK'
  <1>1. /\ IsFiniteSet(Counting) /\ Cardinality(Counting) \in Nat
        /\ Len(events) + Cardinality(Counting) <= calls
    BY FS_CardinalityType DEF IInv, LinesOK
  <1>2. /\ IsFiniteSet(Counting \ {s})
        /\ Cardinality(Counting \ {s}) = Cardinality(Counting) - 1
    BY <1>1, FS_RemoveElement
  <1>3. /\ IsFiniteSet(Counting') /\ Cardinality(Counting') \in Nat
        /\ Cardinality(Counting') <= Cardinality(Counting) - 1
    BY <1>2, FS_Subset, FS_CardinalityType
  <1>4. Len(events) \in Nat /\ calls \in Nat
    BY MissionsAssumption, LenProperties DEF IInv, Typed
  <1>5. QED  BY <1>1, <1>3, <1>4 DEF LinesOK

LEMMA AppendEventIInv == ASSUME IInv, NEW s \in Slots, AppendEvent(s) PROVE IInv'
  <1>1. /\ At(s, "event") /\ Goto(s, "receipt") /\ events' = WithLine(events, job[s].ordinal)
        /\ lapped' = IF \E t \in Slots \ {s} : At(t, "event")
                     THEN lapped \cup {"events"} ELSE lapped
        /\ UNCHANGED <<keyVars, calls, approvals, notes, specs, apps, spent, life, built, raced,
                       receipts, answer, faults>>
        /\ "event" \in Phases /\ "receipt" \in Phases
    BY DEF AppendEvent, Phases
  <1>2. /\ job[s] \in Job /\ job[s] # Idle /\ SlotOK(s) /\ job[s].pc = "event"
        /\ job'[s].pc = "receipt" /\ job'[s].logs = job[s].logs /\ Same(s)
    BY <1>1, GotoJob
  <1>3. /\ job' \in [Slots -> Job \cup {Idle}]
        /\ \A t \in Slots \ {s} : job'[t] = job[t]
    <2> DEFINE j == [job[s] EXCEPT !.pc = "receipt"]
    <2>1. j \in Job
      BY <1>1, <1>2 DEF Job
    <2>2. job' = [job EXCEPT ![s] = j]
      BY <1>1 DEF Goto, IInv, Typed
    <2> HIDE DEF j
    <2>3. QED  BY <2>1, <2>2, OneSlot DEF IInv
  <1>4. /\ job[s].ordinal \in Calls /\ job[s].ordinal \in 0..MaxCalls
        /\ "events" \in lapped \/ Closed \/ job[s].ordinal = Len(events) + 1
    <2>1. /\ job[s].ordinal \in Calls
          /\ "events" \in lapped \/ Closed \/ job[s].ordinal = Len(events) + 1
      BY <1>2 DEF SlotOK, OrdinalOK
    <2>2. QED  BY <2>1, MissionsAssumption DEF Calls
  <1> DEFINE n == job[s].ordinal
  <1>5. /\ events' \in Seq(0..MaxCalls)
        /\ Len(events) \in Nat /\ Len(events') \in Nat /\ Len(events') <= Len(events) + 1
        /\ Closed => events' = events
        /\ ~Closed => /\ Len(events') = Len(events) + 1 /\ events'[Len(events) + 1] = n
                      /\ \A i \in 1..Len(events) : events'[i] = events[i]
    BY <1>1, <1>4, WithLineFacts
  <1> HIDE DEF n
  <1>6. Typed'
    <2>1. lapped' \subseteq {"events", "notes", "specs"}
      BY <1>1 DEF IInv, Typed
    <2>2. QED  BY <1>1, <1>3, <1>5, <2>1 DEF IInv, Typed, KeyTypeOK, keyVars
  <1>7. OneMaker'
    <2>1. Makers' \subseteq Makers
      BY <1>2, <1>3 DEF Makers, Same
    <2>2. QED  BY <1>1, <2>1 DEF IInv, OneMaker, keyVars
  <1>8. LinesOK'
    <2>1. s \in Counting /\ Counting' \subseteq Counting \ {s}
      BY <1>2, <1>3 DEF Counting
    <2>2. calls' = calls
      BY <1>1
    <2>3. QED  BY <1>5, <2>1, <2>2, OneFewer
  <1>9. BuiltOK' /\ SpentOnce'
    BY <1>1 DEF IInv, BuiltOK, SpentOnce
  <1>10. TrailWhole'
    <2>1. "events" \in lapped' \/ \A i \in DOMAIN events' : events'[i] \in {0, i}
      <3>1. CASE "events" \in lapped
        BY <1>1, <3>1
      <3>2. CASE "events" \notin lapped /\ Closed
        BY <1>5, <3>2 DEF IInv, TrailWhole, EventsCounted
      <3>3. CASE "events" \notin lapped /\ ~Closed
        <4>1. n = Len(events) + 1
          BY <1>4, <3>3 DEF n
        <4>2. DOMAIN events = 1..Len(events) /\ DOMAIN events' = 1..(Len(events) + 1)
          BY <1>5, <3>3, LenProperties DEF IInv, Typed
        <4>3. ASSUME NEW i \in DOMAIN events' PROVE events'[i] \in {0, i}
          <5>1. i \in 1..Len(events) \/ i = Len(events) + 1
            BY <1>5, <4>2
          <5>2. CASE i \in 1..Len(events)
            <6>1. events'[i] = events[i] /\ i \in DOMAIN events
              BY <1>5, <3>3, <4>2, <5>2
            <6>2. QED  BY <3>3, <6>1 DEF IInv, TrailWhole, EventsCounted
          <5>3. CASE i = Len(events) + 1
            BY <1>5, <3>3, <4>1, <5>3
          <5>4. QED  BY <5>1, <5>2, <5>3
        <4>4. QED  BY <4>3
      <3>4. QED  BY <3>1, <3>2, <3>3
    <2>2. LogsReadable'
      BY <1>1, LogsStay, NoFault
    <2>3. QED
      BY <1>1, <2>1, <2>2
      DEF IInv, TrailWhole, AppsRecorded, SpecsRecorded, ReceiptsRecorded, EventsCounted, keyVars
  <1>11. SlotOK(s)'
    <2>1. KeyOK(s)'
      BY <1>1, <1>2, Order DEF SlotOK, KeyOK, Same, keyVars
    <2>2. ApprovalOK(s)'
      BY <1>1, <1>2, Order DEF SlotOK, ApprovalOK, Same
    <2>3. DoneOK(s)'
      BY <1>1, <1>2, Order DEF SlotOK, DoneOK, Same
    <2>4. NonceOK(s)' /\ OrdinalOK(s)'
      BY <1>2 DEF NonceOK, OrdinalOK
    <2>5. QED  BY <2>1, <2>2, <2>3, <2>4 DEF SlotOK
  <1>12. ASSUME NEW t \in Slots \ {s} PROVE SlotOK(t)'
    <2>1. job[t].pc = "event" => "events" \in lapped'
      <3>1. ASSUME job[t].pc = "event" PROVE At(t, "event")
        <4>1. SlotOK(t) /\ job[t] # Idle
          BY <3>1, Active
        <4>2. QED  BY <3>1, <4>1 DEF SlotOK, KeyOK, KeyUses, At
      <3>2. QED  BY <1>1, <3>1
    <2>2. lapped \subseteq lapped'
      BY <1>1
    <2>3. QED  BY <1>1, <1>3, <2>1, <2>2, OthersOK DEF IInv, keyVars
  <1>13. \A t \in Slots : SlotOK(t)'
    BY <1>11, <1>12
  <1>14. OwnNonces' /\ TailsOK'
    <2>1. OwnNonces'
      BY <1>1 DEF IInv, OwnNonces
    <2>2. TailsOK'
      BY <1>1, <1>2, <1>3, TailsStay, NoFault
    <2>3. QED  BY <2>1, <2>2
  <1>15. QED  BY <1>6, <1>7, <1>8, <1>9, <1>10, <1>13, <1>14 DEF IInv

-----------------------------------------------------------------------------
(* Nonces.                                                                 *)

LEMMA SpendIInv == ASSUME IInv, NEW s \in Slots, Spend(s) PROVE IInv'
  <1> DEFINE p == job[s].proc
             n == job[s].approval.nonce
             b == [call |-> job[s].call, nonce |-> n, proc |-> p, life |-> life[p]]
  <1>1. /\ At(s, "spend") /\ Goto(s, "spec") /\ spent' = [spent EXCEPT ![p] = @ \cup {n}]
        /\ built' = built \cup {b}
        /\ raced' = IF \E t \in Slots \ {s} : /\ At(t, "spend")
                                              /\ job[t].proc = p /\ job[t].approval.nonce = n
                    THEN raced \cup {n} ELSE raced
        /\ UNCHANGED <<keyVars, calls, approvals, notes, specs, apps, life, events, lapped,
                       receipts, answer, faults>>
        /\ "spend" \in Phases /\ "spec" \in Phases
    BY DEF Spend, Phases
  <1>2. /\ job[s] \in Job /\ job[s] # Idle /\ SlotOK(s) /\ job[s].pc = "spend"
        /\ job'[s].pc = "spec" /\ job'[s].logs = job[s].logs /\ Same(s)
    BY <1>1, GotoJob
  <1>3. /\ job' \in [Slots -> Job \cup {Idle}]
        /\ \A t \in Slots \ {s} : job'[t] = job[t]
    <2> DEFINE j == [job[s] EXCEPT !.pc = "spec"]
    <2>1. j \in Job
      BY <1>1, <1>2 DEF Job
    <2>2. job' = [job EXCEPT ![s] = j]
      BY <1>1 DEF Goto, IInv, Typed
    <2> HIDE DEF j
    <2>3. QED  BY <2>1, <2>2, OneSlot DEF IInv
  <1>4. p \in Procs /\ n \in Calls /\ life[p] \in Nat /\ job[s].call \in Calls
    <2>1. job[s].approval \in Approval
      BY <1>2, Order DEF SlotOK, ApprovalOK, Same
    <2>2. p \in Procs /\ n \in Calls /\ job[s].call \in Calls
      BY <1>2, <2>1 DEF Job, Approval
    <2>3. QED  BY <2>2 DEF IInv, Typed
  <1>5. /\ b \in [call : Calls, nonce : Calls, proc : Procs, life : Nat]
        /\ b.nonce = n /\ b.proc = p /\ b.life = life[p]
    BY <1>4
  <1>6. n \in spent[p] => n \in raced
    BY <1>2 DEF SlotOK, NonceOK
  <1> HIDE DEF b
  <1>7. /\ spent' \in [Procs -> SUBSET Calls]
        /\ spent'[p] = spent[p] \cup {n}
        /\ \A q \in Procs : q # p => spent'[q] = spent[q]
    BY <1>1, <1>4 DEF IInv, Typed
  <1>8. raced \subseteq raced' /\ raced' \subseteq Calls
    BY <1>1, <1>4 DEF IInv, Typed
  <1>9. Typed'
    <2>1. built' \subseteq [call : Calls, nonce : Calls, proc : Procs, life : Nat]
      BY <1>1, <1>5 DEF IInv, Typed
    <2>2. QED  BY <1>1, <1>3, <1>7, <1>8, <2>1 DEF IInv, Typed, KeyTypeOK, keyVars
  <1>10. OneMaker'
    <2>1. Makers' \subseteq Makers
      BY <1>2, <1>3 DEF Makers, Same
    <2>2. QED  BY <1>1, <2>1 DEF IInv, OneMaker, keyVars
  <1>11. LinesOK'
    <2>1. Counting' \subseteq Counting
      BY <1>2, <1>3 DEF Counting
    <2>2. QED  BY <1>1, <2>1, FewerCounting DEF IInv
  <1>12. BuiltOK'
    <2>1. ASSUME NEW c \in built'
          PROVE  c.life <= life'[c.proc] /\ (c.life = life'[c.proc] => c.nonce \in spent'[c.proc])
      <3>1. CASE c \in built
        <4>1. c.proc \in Procs
          BY <3>1 DEF IInv, Typed
        <4>2. c.life <= life[c.proc] /\ (c.life = life[c.proc] => c.nonce \in spent[c.proc])
          BY <3>1 DEF IInv, BuiltOK
        <4>3. spent[c.proc] \subseteq spent'[c.proc] /\ life' = life
          BY <1>1, <1>7, <4>1
        <4>4. QED  BY <4>2, <4>3
      <3>2. CASE c = b
        <4>1. life[p] <= life[p]
          BY <1>4
        <4>2. QED  BY <1>1, <1>5, <1>7, <3>2, <4>1
      <3>3. QED  BY <1>1, <2>1, <3>1, <3>2
    <2>2. QED  BY <2>1 DEF BuiltOK
  <1>13. SpentOnce'
    <2>1. ASSUME NEW c \in built, c.nonce = n, c.proc = p, c.life = life[p]
          PROVE  n \in raced'
      <3>1. n \in spent[p]
        BY <2>1 DEF IInv, BuiltOK
      <3>2. QED  BY <1>6, <1>8, <3>1
    <2>2. ASSUME NEW c \in built', NEW d \in built', c # d,
                 c.nonce = d.nonce, c.proc = d.proc, c.life = d.life
          PROVE  c.nonce \in raced'
      <3>1. CASE c \in built /\ d \in built
        BY <1>8, <2>2, <3>1 DEF IInv, SpentOnce
      <3>2. CASE c = b /\ d \in built
        BY <1>5, <2>1, <2>2, <3>2
      <3>3. CASE d = b /\ c \in built
        BY <1>5, <2>1, <2>2, <3>3
      <3>4. QED  BY <1>1, <2>2, <3>1, <3>2, <3>3
    <2>3. QED  BY <2>2 DEF SpentOnce
  <1>14. TrailWhole' /\ OwnNonces' /\ TailsOK'
    <2>1. TrailWhole'
      BY <1>1, LogsStay, TrailStays, NoFault DEF keyVars
    <2>2. OwnNonces'
      BY <1>1 DEF IInv, OwnNonces
    <2>3. TailsOK'
      BY <1>1, <1>2, <1>3, TailsStay, NoFault
    <2>4. QED  BY <2>1, <2>2, <2>3
  <1>15. SlotOK(s)'
    <2>1. KeyOK(s)'
      BY <1>1, <1>2, Order DEF SlotOK, KeyOK, Same, keyVars
    <2>2. ApprovalOK(s)'
      BY <1>1, <1>2, Order DEF SlotOK, ApprovalOK, Same
    <2>3. DoneOK(s)' /\ NonceOK(s)' /\ OrdinalOK(s)'
      BY <1>1, <1>2, Order DEF SlotOK, DoneOK, NonceOK, OrdinalOK, Same
    <2>4. QED  BY <2>1, <2>2, <2>3 DEF SlotOK
  <1>16. ASSUME NEW t \in Slots \ {s} PROVE SlotOK(t)'
    <2>1. job[t].pc = "spend" /\ job[t].approval.nonce \in spent'[job[t].proc] =>
            job[t].approval.nonce \in spent[job[t].proc] \cup raced'
      <3>1. ASSUME job[t].pc = "spend", job[t].approval.nonce \in spent'[job[t].proc]
            PROVE  job[t].approval.nonce \in spent[job[t].proc] \cup raced'
        <4>1. job[t] \in Job /\ job[t] # Idle /\ SlotOK(t)
          BY <3>1, Active
        <4>2. At(t, "spend") /\ job[t].proc \in Procs
          BY <3>1, <4>1 DEF SlotOK, KeyOK, KeyUses, At, Job
        <4>3. CASE job[t].proc = p /\ job[t].approval.nonce = n
          <5>1. n \in raced'
            BY <1>1, <1>16, <4>2, <4>3
          <5>2. QED  BY <4>3, <5>1
        <4>4. CASE job[t].proc = p /\ job[t].approval.nonce # n
          BY <1>7, <3>1, <4>4
        <4>5. CASE job[t].proc # p
          BY <1>7, <3>1, <4>2, <4>5
        <4>6. QED  BY <4>3, <4>4, <4>5
      <3>2. QED  BY <3>1
    <2>2. QED  BY <1>1, <1>3, <1>8, <2>1, OthersOK DEF IInv, keyVars
  <1>17. \A t \in Slots : SlotOK(t)'
    BY <1>15, <1>16
  <1>18. QED  BY <1>9, <1>10, <1>11, <1>12, <1>13, <1>14, <1>17 DEF IInv

-----------------------------------------------------------------------------
(* A process dies.                                                         *)

LEMMA KillIInv == ASSUME IInv, NEW p \in Procs, NEW halfway \in BOOLEAN, Kill(p, halfway)
                  PROVE  IInv'
  <1> DEFINE cut == {ReceiptOf(s, FALSE) : s \in {t \in In(p) : halfway /\ At(t, "write")}}
             line == halfway /\ \E s \in In(p) : At(s, "event")
  <1>1. /\ job' = [s \in Slots |-> IF s \in In(p) THEN Idle ELSE job[s]]
        /\ answer' = [s \in Slots |-> IF s \in In(p) THEN "none" ELSE answer[s]]
        /\ spent' = [spent EXCEPT ![p] = {}] /\ life' = [life EXCEPT ![p] = @ + 1]
        /\ events' = IF line THEN WithLine(events, 0) ELSE events
        /\ receipts' = receipts \cup cut
        /\ notes' = notes \/ notes' = HalfWritten(notes)
        /\ specs' = specs \/ specs' = HalfWritten(specs)
        /\ UNCHANGED <<keyVars, calls, approvals, apps, built, raced, lapped>>
        /\ faults' \in faults..MaxFaults /\ faults' > 0
    BY FaultFacts DEF Kill
  <1>0. /\ notes' \in LogOf(NoteRecord) /\ Logged(notes)' = Logged(notes)
        /\ specs' \in LogOf(SpecRecord) /\ Logged(specs)' = Logged(specs)
        /\ LogsReadable' /\ TailsOK'
    BY <1>1, CutFacts
  <1>2. /\ job' \in [Slots -> Job \cup {Idle}] /\ answer' \in [Slots -> Answers]
        /\ \A t \in Slots : t \in In(p) => job'[t] = Idle
        /\ \A t \in Slots : t \notin In(p) => job'[t] = job[t]
    <2>1. job \in [Slots -> Job \cup {Idle}] /\ answer \in [Slots -> Answers]
      BY DEF IInv, Typed
    <2>2. "none" \in Answers
      BY DEF Answers
    <2>3. QED  BY <1>1, <2>1, <2>2
  <1>3. /\ spent' \in [Procs -> SUBSET Calls] /\ life' \in [Procs -> Nat]
        /\ life[p] \in Nat /\ life'[p] = life[p] + 1
        /\ \A q \in Procs \ {p} : spent'[q] = spent[q] /\ life'[q] = life[q]
    BY <1>1 DEF IInv, Typed
  <1>4. ASSUME NEW r \in cut
        PROVE  /\ r \in [call : Calls, decision : Approval, key : 1..MaxKeys, whole : BOOLEAN]
               /\ ~r.whole
    <2>1. PICK s \in In(p) : At(s, "write") /\ r = ReceiptOf(s, FALSE)
      BY <1>4
    <2>2. s \in Slots /\ FALSE \in BOOLEAN
      BY DEF In
    <2>3. QED  BY <2>1, <2>2, ReceiptOfFacts
  <1> HIDE DEF cut
  <1>5. ASSUME line
        PROVE  /\ events' \in Seq(0..MaxCalls) /\ LinesOK' /\ (Closed' \/ events' = events)
               /\ "events" \in lapped \/ \A i \in DOMAIN events' : events'[i] \in {0, i}
    <2>1. PICK s \in In(p) : At(s, "event")
      BY <1>5
    <2>2. s \in Slots /\ s \in Counting
      BY <2>1 DEF In, At, Counting
    <2>3. events' = WithLine(events, 0) /\ 0 \in 0..MaxCalls
      BY <1>1, <1>5, MissionsAssumption
    <2>4. /\ events' \in Seq(0..MaxCalls)
          /\ Len(events) \in Nat /\ Len(events') \in Nat /\ Len(events') <= Len(events) + 1
          /\ Closed => events' = events
          /\ ~Closed => /\ Len(events') = Len(events) + 1 /\ events'[Len(events) + 1] = 0
                        /\ \A i \in 1..Len(events) : events'[i] = events[i]
          /\ Closed'
      BY <2>3, WithLineFacts
    <2>5. "events" \in lapped \/ \A i \in DOMAIN events' : events'[i] \in {0, i}
      <3>1. CASE Closed
        BY <2>4, <3>1 DEF IInv, TrailWhole, EventsCounted
      <3>2. CASE ~Closed
        <4>1. DOMAIN events = 1..Len(events) /\ DOMAIN events' = 1..(Len(events) + 1)
          BY <2>4, <3>2, LenProperties DEF IInv, Typed
        <4>2. ASSUME NEW i \in DOMAIN events', "events" \notin lapped PROVE events'[i] \in {0, i}
          <5>1. i \in 1..Len(events) \/ i = Len(events) + 1
            BY <2>4, <4>1
          <5>2. CASE i \in 1..Len(events)
            <6>1. events'[i] = events[i] /\ i \in DOMAIN events
              BY <2>4, <3>2, <4>1, <5>2
            <6>2. QED  BY <4>2, <6>1 DEF IInv, TrailWhole, EventsCounted
          <5>3. CASE i = Len(events) + 1
            BY <2>4, <3>2, <5>3
          <5>4. QED  BY <5>1, <5>2, <5>3
        <4>3. QED  BY <4>2
      <3>3. QED  BY <3>1, <3>2
    <2>6. LinesOK'
      <3>1. Counting' \subseteq Counting \ {s}
        BY <1>2, <2>1, <2>2, PhaseFacts DEF Counting
      <3>2. calls' = calls
        BY <1>1
      <3>3. QED  BY <2>2, <2>4, <3>1, <3>2, OneFewer
    <2>7. QED  BY <2>4, <2>5, <2>6
  <1>6. ASSUME ~line
        PROVE  /\ events' \in Seq(0..MaxCalls) /\ LinesOK' /\ (Closed' \/ events' = events)
               /\ "events" \in lapped \/ \A i \in DOMAIN events' : events'[i] \in {0, i}
    <2>1. events' = events /\ calls' = calls
      BY <1>1, <1>6
    <2>2. Counting' \subseteq Counting
      BY <1>2, PhaseFacts DEF Counting
    <2>3. LinesOK'
      BY <2>1, <2>2, FewerCounting DEF IInv
    <2>4. QED  BY <2>1, <2>3 DEF IInv, Typed, TrailWhole, EventsCounted
  <1>7. /\ events' \in Seq(0..MaxCalls) /\ LinesOK' /\ (Closed' \/ events' = events)
        /\ "events" \in lapped \/ \A i \in DOMAIN events' : events'[i] \in {0, i}
    BY <1>5, <1>6
  <1> HIDE DEF line
  <1>8. Typed'
    <2>1. receipts' \subseteq [call : Calls, decision : Approval, key : 1..MaxKeys,
                               whole : BOOLEAN]
      BY <1>1, <1>4 DEF IInv, Typed
    <2>2. faults' \in 0..MaxFaults
      BY <1>1, FaultsGrow
    <2>3. QED  BY <1>0, <1>1, <1>2, <1>3, <1>7, <2>1, <2>2 DEF IInv, Typed, KeyTypeOK, keyVars
  <1>9. OneMaker'
    <2>1. Makers' \subseteq Makers
      BY <1>2 DEF Makers
    <2>2. QED  BY <1>1, <2>1 DEF IInv, OneMaker, keyVars
  <1>10. BuiltOK'
    <2>1. ASSUME NEW c \in built
          PROVE  c.life <= life'[c.proc] /\ (c.life = life'[c.proc] => c.nonce \in spent'[c.proc])
      <3>1. c.proc \in Procs /\ c.life \in Nat
        BY DEF IInv, Typed
      <3>2. c.life <= life[c.proc] /\ (c.life = life[c.proc] => c.nonce \in spent[c.proc])
        BY DEF IInv, BuiltOK
      <3>3. CASE c.proc = p
        <4>1. c.life <= life[p]
          BY <3>2, <3>3
        <4>2. c.life <= life'[p] /\ c.life # life'[p]
          BY <1>3, <3>1, <4>1
        <4>3. QED  BY <3>3, <4>2
      <3>4. CASE c.proc # p
        BY <1>3, <3>1, <3>2, <3>4
      <3>5. QED  BY <3>3, <3>4
    <2>2. QED  BY <1>1, <2>1 DEF BuiltOK
  <1>11. SpentOnce'
    BY <1>1 DEF IInv, SpentOnce
  <1>12. TrailWhole'
    <2>1. \A r \in receipts' : r.whole =>
            (\E app \in apps' : app.call = r.call) /\ (r.key = r.decision.key \/ keyLost')
      BY <1>1, <1>4 DEF IInv, TrailWhole, ReceiptsRecorded, keyVars
    <2>2. QED
      BY <1>0, <1>1, <1>7, <2>1
      DEF IInv, TrailWhole, AppsRecorded, SpecsRecorded, ReceiptsRecorded, EventsCounted
  <1>13. ASSUME NEW t \in Slots PROVE SlotOK(t)'
    <2>1. CASE t \in In(p)
      BY <1>2, <2>1 DEF SlotOK
    <2>2. CASE t \notin In(p)
      <3>1. job'[t] = job[t]
        BY <1>2, <2>2
      <3>2. ASSUME job[t].pc = "spend" PROVE spent'[job[t].proc] = spent[job[t].proc]
        <4>1. job[t] \in Job /\ job[t] # Idle
          BY <3>2, Active
        <4>2. job[t].proc \in Procs \ {p}
          BY <2>2, <4>1 DEF In, Job
        <4>3. QED  BY <1>3, <4>2
      <3>3. job[t].pc = "spend" /\ job[t].approval.nonce \in spent'[job[t].proc] =>
              job[t].approval.nonce \in spent[job[t].proc] \cup raced'
        BY <3>2
      <3>4. SlotOK(t)
        BY DEF IInv
      <3>5. QED  BY <1>0, <1>1, <1>7, <3>1, <3>3, <3>4, OthersOK DEF keyVars
    <2>3. QED  BY <2>1, <2>2
  <1>14. OwnNonces'
    BY <1>1 DEF IInv, OwnNonces
  <1>15. QED  BY <1>0, <1>7, <1>8, <1>9, <1>10, <1>11, <1>12, <1>13, <1>14 DEF IInv

-----------------------------------------------------------------------------
(* The theorems.                                                           *)

LEMMA StepIInv == ASSUME IInv, NEW s \in Slots, Step(s) PROVE IInv'
  BY FindNoKeyIInv, CreateKeyIInv, FillKeyIInv, EndingIInv, ConstructIInv, RouteIInv,
     SignIInv, VerifyIInv, NoteIInv, EndNoteIInv, SkipLogsIInv, CheckIInv, SpendIInv,
     LogSpecIInv, EndSpecIInv, SkipSpecIInv, GenerateIInv, BuildFailsIInv, CountIInv,
     SkipEventIInv, AppendEventIInv, AppendEventFailsIInv, BuildReceiptIInv, ReceiptEnds
  DEF Step

LEMMA StutterIInv == ASSUME IInv, UNCHANGED vars PROVE IInv'
  <1>1. /\ Typed' /\ OneMaker' /\ BuiltOK' /\ SpentOnce' /\ OwnNonces' /\ TailsOK'
    BY DEF vars, keyVars, IInv, Typed, KeyTypeOK, OneMaker, Makers, BuiltOK, SpentOnce, OwnNonces,
           TailsOK, At
  <1>0. TrailWhole'
    BY LogsStay, TrailStays, NoFault DEF vars, keyVars
  <1>2. LinesOK'
    BY FewerCounting DEF vars, IInv, Counting
  <1>3. \A s \in Slots : SlotOK(s)'
    BY OthersOK DEF vars, keyVars, IInv
  <1>4. QED  BY <1>0, <1>1, <1>2, <1>3 DEF IInv

LEMMA NextIInv == IInv /\ [Next]_vars => IInv'
  <1> SUFFICES ASSUME IInv, [Next]_vars PROVE IInv'
    OBVIOUS
  <1>1. CASE \E s \in Slots, p \in Procs, content \in Plans :
               \/ Begin(s, p, content)
               \/ \E a \in approvals : FinalizeKept(s, p, a, content)
    BY <1>1, BeginIInv, FinalizeKeptIInv
  <1>2. CASE \E s \in Slots : Step(s) \/ \E content \in Plans : ChangePlan(s, content)
    BY <1>2, StepIInv, ChangePlanIInv
  <1>3. CASE \E p \in Procs, halfway \in BOOLEAN : Kill(p, halfway)
    BY <1>3, KillIInv
  <1>4. CASE LoseKey
    BY <1>4, LoseKeyIInv
  <1>5. CASE UNCHANGED vars
    BY <1>5, StutterIInv
  <1>6. QED  BY <1>1, <1>2, <1>3, <1>4, <1>5 DEF Next

\* The strengthened invariant is inductive: whatever calls of whatever
\* processes do, and whatever fails, is killed or removed in between.
THEOREM Inductive == Spec => []IInv
  BY InitIInv, NextIInv, PTL DEF Spec

\* The key file, the logs and every call are of their type.
THEOREM TypeCorrect == Spec => []TypeOK
  <1>1. IInv => TypeOK
    <2> SUFFICES ASSUME IInv PROVE TypeOK
      OBVIOUS
    <2>1. ASSUME NEW s \in Slots, job[s] # Idle
          PROVE  /\ job[s].key \in {"ready", "missing", "creating", "made"}
                 /\ job[s].call \in Calls /\ job[s].id \in Calls
                 /\ job[s].proc \in Procs /\ job[s].plan \in Plans
                 /\ job[s].approval \in Approval \cup {NoApproval}
                 /\ job[s].ordinal \in Nat /\ job[s].logs \in BOOLEAN
      <3>1. job[s] \in Job
        BY <2>1 DEF IInv, Typed
      <3>2. QED  BY <3>1 DEF Job
    <2>2. QED  BY <2>1 DEF IInv, Typed, TypeOK
  <1>2. QED  BY <1>1, Inductive, PTL

\* While a process lives, no two specs are built from one approval, unless
\* their calls looked the nonce up at once.
THEOREM NoncesSpentOnce == Spec => []SpentOnce
  <1>1. IInv => SpentOnce
    BY DEF IInv
  <1>2. QED  BY <1>1, Inductive, PTL

\* What was produced has its record, whatever is cut off halfway: an app was
\* granted, and a logged one has its spec in the log and the approval of that
\* before it; a record that cannot be read takes a fault or two calls at once
\* in its log; a receipt has its app, and an event its number.
THEOREM TrailsWhole == Spec => []TrailWhole
  <1>1. IInv => TrailWhole
    BY DEF IInv
  <1>2. QED  BY <1>1, Inductive, PTL

\* A step of one call leaves the other calls alone.
LEMMA OthersStay ==
  ASSUME NEW s \in Slots, job \in [Slots -> Job \cup {Idle}],
         Step(s) \/ \E content \in Plans : ChangePlan(s, content),
         NEW t \in Slots \ {s}
  PROVE  job'[t] = job[t]
  <1>1. ASSUME \E content \in Plans : ChangePlan(s, content) PROVE job'[t] = job[t]
    BY <1>1 DEF ChangePlan
  <1>2. ASSUME FindNoKey(s) \/ CreateKey(s) \/ FillKey(s) \/ Construct(s) \/ Route(s)
               \/ (\E granted \in BOOLEAN : Sign(s, granted)) \/ Spend(s) \/ Generate(s)
               \/ Note(s) \/ LogSpec(s) \/ SkipEvent(s) \/ AppendEvent(s) \/ AppendEventFails(s)
               \/ BuildReceipt(s)
        PROVE  job'[t] = job[t]
    BY <1>2 DEF FindNoKey, CreateKey, FillKey, Construct, Next1, Route, Goto, Sign, Spend, Generate,
       Note, LogSpec, SkipEvent, AppendEvent, AppendEventFails, BuildReceipt
  <1>3. ASSUME CreateCollides(s) \/ KeyUnreadable(s) \/ Ambiguous(s) \/ Abort(s)
               \/ (\E halfway \in BOOLEAN : BuildFails(s, halfway))
               \/ SkipReceipt(s) \/ WriteReceipt(s) \/ WriteReceiptFails(s)
        PROVE  job'[t] = job[t]
    BY <1>3 DEF CreateCollides, KeyUnreadable, Ambiguous, Abort, BuildFails, SkipReceipt,
       WriteReceipt, WriteReceiptFails, Finish
  <1>4. ASSUME \/ Verify(s) \/ EndNote(s) \/ SkipLogs(s) \/ Check(s) \/ EndSpec(s)
               \/ SkipSpec(s) \/ Count(s)
        PROVE  job'[t] = job[t]
    BY <1>4 DEF Verify, EndNote, SkipLogs, Decide, Check, EndSpec, SkipSpec, HandOver, Count,
       Next1, Goto, Finish
  <1>5. QED  BY <1>1, <1>2, <1>3, <1>4 DEF Step

\* The steps a call can end by.
Enders(s) ==
  \/ CreateCollides(s) \/ KeyUnreadable(s) \/ Ambiguous(s) \/ Abort(s)
  \/ Verify(s) /\ ~Verified(s)
  \/ Check(s) /\ ~(Verified(s) /\ ~NonceUsed(s))
  \/ EndNote(s) \/ SkipLogs(s) \/ EndSpec(s) \/ SkipSpec(s)
  \/ \E halfway \in BOOLEAN : BuildFails(s, halfway)
  \/ SkipReceipt(s) \/ WriteReceipt(s) \/ WriteReceiptFails(s)

LEMMA EndsBy ==
  ASSUME IInv, NEW s \in Slots, job[s] # Idle, job'[s] = Idle,
         Step(s) \/ \E content \in Plans : ChangePlan(s, content)
  PROVE  Enders(s)
  <1>1. job[s] \in Job /\ job \in [Slots -> Job \cup {Idle}]
    BY DEF IInv, Typed
  <1>2. job[s].pc \in Phases /\ job'[s].pc \notin Phases
    BY <1>1, PhaseFacts
  <1>3. ASSUME NEW pc \in Phases, job' = [job EXCEPT ![s].pc = pc] PROVE FALSE
    BY <1>1, <1>2, <1>3 DEF Job
  <1>4. ASSUME NEW pc \in Phases, Next1(s, pc) PROVE FALSE
    BY <1>1, <1>2, <1>4 DEF Job, Next1
  <1>5. ASSUME NEW k, job' = [job EXCEPT ![s].key = k] PROVE FALSE
    BY <1>1, <1>2, <1>5 DEF Job
  <1>6. ~(FindNoKey(s) \/ CreateKey(s) \/ FillKey(s))
    BY <1>5 DEF FindNoKey, CreateKey, FillKey
  <1>7. ~(Construct(s) \/ (Verify(s) /\ Verified(s)) \/ (Check(s) /\ Verified(s) /\ ~NonceUsed(s)))
    BY <1>4 DEF Construct, Verify, Check, Phases
  <1>8. ~(\/ Route(s) \/ Note(s) \/ LogSpec(s) \/ Spend(s) \/ Generate(s) \/ SkipEvent(s)
          \/ AppendEvent(s) \/ AppendEventFails(s))
    BY <1>3
    DEF Route, Note, LogSpec, Spend, Generate, SkipEvent, AppendEvent, AppendEventFails, Goto, Phases
  <1>9. ~Count(s)
    <2>1. ASSUME job' = [job EXCEPT ![s].pc = "event", ![s].ordinal = Ordinal] PROVE FALSE
      BY <1>1, <1>2, <2>1 DEF Job, Phases
    <2>2. QED  BY <1>3, <2>1 DEF Count, Goto, Phases
  <1>10. ~BuildReceipt(s)
    BY <1>1, <1>2 DEF BuildReceipt, Job, Phases
  <1>11. ~\E granted \in BOOLEAN : Sign(s, granted)
    BY <1>1, <1>2 DEF Sign, Job, Phases
  <1>12. ~\E content \in Plans : ChangePlan(s, content)
    BY <1>1, <1>2 DEF ChangePlan, Job
  <1>13. QED  BY <1>6, <1>7, <1>8, <1>9, <1>10, <1>11, <1>12 DEF Step, Enders

\* A call that is under way ends by a step of its own or with its process.
LEMMA HowItEnds ==
  ASSUME IInv, Next, NEW s \in Slots, job[s].pc # "idle", job'[s] = Idle
  PROVE  Enders(s) \/ answer'[s] = "none"
  <1>1. job[s] # Idle /\ job \in [Slots -> Job \cup {Idle}] /\ answer \in [Slots -> Answers]
    BY PhaseFacts DEF IInv, Typed
  <1>2. CASE \E t \in Slots, p \in Procs, content \in Plans :
               \/ Begin(t, p, content)
               \/ \E a \in approvals : FinalizeKept(t, p, a, content)
    <2>1. PICK t \in Slots : job[t] = Idle /\ \A u \in Slots \ {t} : job'[u] = job[u]
      BY <1>1, <1>2 DEF Begin, FinalizeKept
    <2>2. QED  BY <1>1, <2>1
  <1>3. CASE \E t \in Slots : Step(t) \/ \E content \in Plans : ChangePlan(t, content)
    <2>1. PICK t \in Slots : Step(t) \/ \E content \in Plans : ChangePlan(t, content)
      BY <1>3
    <2>2. CASE t = s
      BY <1>1, <2>1, <2>2, EndsBy
    <2>3. CASE t # s
      BY <1>1, <2>1, <2>3, OthersStay
    <2>4. QED  BY <2>2, <2>3
  <1>4. CASE \E p \in Procs, halfway \in BOOLEAN : Kill(p, halfway)
    BY <1>1, <1>4 DEF Kill
  <1>5. CASE LoseKey
    BY <1>1, <1>5 DEF LoseKey
  <1>6. QED  BY <1>2, <1>3, <1>4, <1>5 DEF Next

\* Once the app is there, neither the event nor the receipt makes the call
\* fail, unless a key was removed.
THEOREM MissionsKept == Spec => MissionKept
  <1>1. ASSUME IInv, Next, NEW s \in Slots,
               job[s].pc \in {"count", "event", "receipt", "write"}, job'[s] = Idle,
               ~keyLost
        PROVE  answer'[s] \in {"generated", "none"}
    <2>1. SlotOK(s) /\ job[s] # Idle /\ (Enders(s) \/ answer'[s] = "none")
      BY <1>1, Active, HowItEnds
    <2>2. job[s].key # "missing"
      BY <1>1, <2>1, Order DEF SlotOK, KeyOK
    <2>3. CASE Enders(s)
      <3>1. KeyUnreadable(s) \/ SkipReceipt(s) \/ WriteReceipt(s) \/ WriteReceiptFails(s)
        BY <1>1, <2>2, <2>3
        DEF Enders, CreateCollides, Ambiguous, Abort, Verify, EndNote, SkipLogs, Check, EndSpec,
            SkipSpec, BuildFails, At, WithKey
      <3>2. Finish(s, "generated")
        BY <1>1, <3>1 DEF KeyUnreadable, SkipReceipt, WriteReceipt, WriteReceiptFails, KeyUses
      <3>3. QED  BY <1>1, <3>2 DEF Finish, IInv, Typed
    <2>4. QED  BY <2>1, <2>3
  <1>2. IInv /\ [Next]_vars =>
          [\A s \in Slots :
             job[s].pc \in {"count", "event", "receipt", "write"} /\ job'[s] = Idle =>
               answer'[s] \in {"generated", "none"} \/ keyLost]_vars
    BY <1>1
  <1>3. QED  BY <1>2, Inductive, PTL DEF Spec, MissionKept

\* A call that signed an approval is refused only for a changed plan, a spent
\* nonce, or a key that someone removed; never because of other calls.
THEOREM ApprovalsHonoured == Spec => ApprovalHonoured
  <1>1. ASSUME IInv, Next, NEW s \in Slots, job[s].pc \in {"verify", "check"}, job'[s] = Idle,
               answer'[s] = "refused", ~keyLost
        PROVE  job[s].plan # job[s].approval.hash \/ NonceUsed(s)
    <2>1. SlotOK(s) /\ job[s] # Idle /\ Enders(s)
      BY <1>1, Active, HowItEnds
    <2>2. /\ job[s].key = "ready" /\ job[s].approval.key = keyFile
          /\ job[s].approval \in Approval /\ job[s].approval.plan = job[s].id
      BY <1>1, <2>1, Order DEF SlotOK, KeyOK, ApprovalOK
    <2>3. keyFile # Empty
      BY <2>2, ApprovalKeyAssumption DEF Approval
    <2>4. ~KeyUnreadable(s) /\ ~CreateCollides(s)
      BY <1>1, <2>2, <2>3 DEF KeyUnreadable, CreateCollides
    <2>5. (Verify(s) /\ ~Verified(s)) \/ (Check(s) /\ ~(Verified(s) /\ ~NonceUsed(s)))
      BY <1>1, <2>1, <2>4
      DEF Enders, Ambiguous, Abort, EndNote, SkipLogs, Decide, Finish, EndSpec, SkipSpec, BuildFails,
          SkipReceipt, WriteReceipt, WriteReceiptFails, At
    <2>6. QED  BY <2>2, <2>5 DEF Verified, PlanHash
  <1>2. IInv /\ [Next]_vars =>
          [\A s \in Slots :
             job[s].pc \in {"verify", "check"} /\ job'[s] = Idle /\ answer'[s] = "refused" =>
               \/ keyLost
               \/ job[s].plan # job[s].approval.hash
               \/ NonceUsed(s)]_vars
    BY <1>1
  <1>3. QED  BY <1>2, Inductive, PTL DEF Spec, ApprovalHonoured
=============================================================================
