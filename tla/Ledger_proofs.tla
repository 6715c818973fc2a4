---------------------------- MODULE Ledger_proofs ----------------------------
(***************************************************************************)
(* Proofs about the accountability ledger, for any number of processes,    *)
(* shards, appends, crashes and faults.                                    *)
(***************************************************************************)
EXTENDS Ledger, SequenceTheorems, WellFoundedInduction, TLAPS

-----------------------------------------------------------------------------
(* The inductive invariant.                                                *)

Job == [shard : Shards \cup {NoMark}, ev : Events \cup {NoMark}, prev : Hashes, seq : Nat]

VerifyState == [at : {"idle", "next", "tip", "registry", "done"}, todo : SUBSET Shards,
                names : SUBSET Shards, shard : Shards \cup {NoMark}, count : Nat,
                last : Hashes, alarm : BOOLEAN, quiet : BOOLEAN]

Typed ==
  /\ TypeOK
  /\ job \in [Procs -> Job]
  /\ issued \in 0..MaxAppends
  /\ acked \in SUBSET Events /\ dirty \in SUBSET Shards /\ damaged \in SUBSET Shards
  /\ relinked \in SUBSET Shards /\ glued \in SUBSET Shards

\* The appends that have written their line, and have not returned yet.
Recording == {"tip", "reglock", "regread", "regwrite", "return"}

\* A running append has a shard, and an event of it that nobody else has.
JobsApart ==
  /\ \A p \in Procs : pc[p] # "idle" =>
       Shard(p) \in Shards /\ \E n \in 1..issued : job[p].ev = <<n, Shard(p)>>
  /\ \A p, q \in Procs : pc[p] # "idle" /\ pc[q] # "idle" /\ p # q => job[p].ev # job[q].ev

\* Whoever has read the registry holds its lock, and it is still as it was read.
RegistryHeld ==
  \A p \in Procs :
    /\ pc[p] \in {"regread", "regwrite"} => regLock = p
    /\ pc[p] = "regwrite" => seen[p] = registry

\* The events of a shard are its own, and those of appends that wrote a line.
EventsOwned ==
  /\ \A s \in Shards : \A i \in 1..Len(lines[s]) :
       lines[s][i].ev[2] = s /\ lines[s][i].ev[1] \in (0..issued) \cup {n \in Nat : n > MaxAppends}
  /\ \A p \in Procs : pc[p] \in {"lock", "tail", "line"} =>
       \A s \in Shards : job[p].ev \notin EventsOf(lines[s])

\* A shard with half a line at its end takes no line, and this is remembered.
TornKnown ==
  /\ \A s \in Shards : lines[s] # <<>> => s \in present
  /\ \A s \in unended : lines[s] # <<>>
  /\ torn \subseteq dirty \cup glued \cup damaged
  /\ \A p \in Procs : pc[p] = "line" => Shard(p) \notin torn
  /\ \A p \in Procs : pc[p] \in Recording /\ Shard(p) \in torn => Shard(p) \in glued

\* What an append has worked out from the tail of its shard still fits it.
LinksFit ==
  \A p \in Procs : pc[p] = "line" /\ Shard(p) \notin damaged =>
    job[p].prev = TailHash(lines[Shard(p)]) /\ job[p].seq = Len(lines[Shard(p)])

Describes(m, ls) == m.count \in 1..Len(ls) /\ m.hash = ls[m.count].hash

Exact(s) == tip[s] # NoMark => tip[s].count = Len(lines[s]) /\ registry[s] = tip[s]

\* MarksTrail, for a shard that is being appended to as well.
MarksFollow ==
  \A s \in Shards \ (damaged \cup glued) :
    /\ \A m \in {tip[s], registry[s]} \ {NoMark} : Describes(m, lines[s])
    /\ registry[s] # NoMark => tip[s] # NoMark /\ registry[s].count <= tip[s].count
    /\ s \notin dirty /\ (\A p \in Procs : pc[p] \in Recording => Shard(p) # s) => Exact(s)

\* The line, then the tip, then the registry entry of an append are in place.
RecordInPlace ==
  \A p \in Procs : pc[p] \in Recording /\ Shard(p) \notin damaged \cup glued =>
    /\ Describes(NewMark(job[p]), lines[Shard(p)])
    /\ NewMark(job[p]).count = Len(lines[Shard(p)])
    /\ pc[p] # "tip" => tip[Shard(p)] = NewMark(job[p])

\* The hash of a line stands for every event before it, whatever was done to
\* the file since; so does what an append read from the tail.
HashesRemember ==
  /\ \A s \in Shards : \A i \in 1..Len(lines[s]) : \A j \in 1..i :
       lines[s][j].ev \in ToSet(lines[s][i].hash) \cup {Garbled(s)}
  /\ \A p \in Procs : pc[p] = "line" =>
       EventsOf(lines[Shard(p)]) \subseteq ToSet(job[p].prev) \cup {Garbled(Shard(p))}

AckedIn(s) == {e \in acked : e[2] = s}

\* The registry, outside the shards, remembers every event that was acked, and
\* an append that is under way will not make it forget one.
RegistryRemembers ==
  /\ \A e \in acked : e[1] # 0
  /\ \A p \in Procs : pc[p] = "return" => registry[Shard(p)] = NewMark(job[p])
  /\ \A s \in Shards \ relinked :
       AckedIn(s) # {} => /\ registry[s] # NoMark /\ registry[s].count > 0
                          /\ AckedIn(s) \subseteq ToSet(registry[s].hash)
  /\ \A p \in Procs : pc[p] \in {"line"} \cup Recording /\ Shard(p) \notin relinked =>
       AckedIn(Shard(p)) \subseteq ToSet(job[p].prev)

\* What a verify that nothing disturbed has established so far.
Agrees(s) ==
  WalkOK(lines[s]) /\ ~Disagrees(registry[s], Len(lines[s]), TailHash(lines[s]))

Current == IF v.at \in {"tip", "registry"} THEN {v.shard} ELSE {}

VerifySound ==
  v.at # "idle" /\ v.quiet =>
    /\ \A p \in Procs : pc[p] = "idle"
    /\ v.names = present /\ v.todo \subseteq present
    /\ \A s \in Current : /\ s \in present /\ WalkOK(lines[s])
                          /\ v.count = Len(lines[s]) /\ v.last = TailHash(lines[s])
    /\ ~v.alarm => \A s \in present \ (v.todo \cup Current) : Agrees(s)
    /\ v.at = "done" => v.todo = {}
    /\ v.at = "done" /\ ~v.alarm => \A s \in Shards \ present : registry[s] = NoMark
    /\ damaged \cup dirty \cup glued = {} => ~v.alarm

\* What holds of the ledger, and what holds of verify on top of it.
Core ==
  /\ Typed /\ JobsApart /\ RegistryHeld /\ EventsOwned /\ TornKnown
  /\ ChainIntact /\ LinksFit /\ MarksFollow /\ RecordInPlace
  /\ HashesRemember /\ RegistryRemembers

IInv == Core /\ v \in VerifyState /\ VerifySound

-----------------------------------------------------------------------------
(* Sequences of lines, and the histories they stand for.                   *)

\* A nonempty set of numbers has a least one: the form in which induction over
\* the lines of a shard is used here.
LEMMA LeastNumber ==
  ASSUME NEW T \in SUBSET Nat, T # {}
  PROVE  \E n \in T : \A m \in T : n <= m
  <1> DEFINE R == {ss \in Nat \X Nat : ss[1] < ss[2]}
  <1>1. IsWellFoundedOn(R, Nat)
    BY NatLessThanWellFounded DEF OpToRel
  <1>2. PICK n \in T : \A m \in T : <<m, n>> \notin R
    BY <1>1, WFMin
  <1>3. ASSUME NEW m \in T PROVE n <= m
    <2>1. ~(m < n)
      BY <1>2
    <2>2. QED  BY <2>1
  <1>4. QED  BY <1>3

LEMMA LinesFacts ==
  ASSUME NEW ls \in Seq(Line)
  PROVE  /\ Len(ls) \in Nat /\ (ls = <<>> <=> Len(ls) = 0)
         /\ \A i \in 1..Len(ls) : ls[i] \in Line
         /\ ls # <<>> => TailHash(ls) = ls[Len(ls)].hash
         /\ TailHash(ls) \in Hashes
  <1>1. /\ Len(ls) \in Nat /\ (ls = <<>> <=> Len(ls) = 0)
        /\ \A i \in 1..Len(ls) : ls[i] \in Line
    BY EmptySeq, ElementOfSeq
  <1>2. ls # <<>> => TailHash(ls) = ls[Len(ls)].hash
    BY DEF TailHash, Last
  <1>3. TailHash(ls) \in Hashes
    <2>1. CASE ls = <<>>
      BY <2>1, EmptySeq DEF TailHash, Genesis, Hashes
    <2>2. CASE ls # <<>>
      <3>1. ls[Len(ls)] \in Line
        BY <1>1, <2>2
      <3>2. QED  BY <1>2, <2>2, <3>1 DEF Line
    <2>3. QED  BY <2>1, <2>2
  <1>4. QED  BY <1>1, <1>2, <1>3

LEMMA HashFacts ==
  ASSUME NEW h \in Hashes, NEW e \in Events
  PROVE  /\ EventHash(h, e) \in Hashes
         /\ ToSet(EventHash(h, e)) = ToSet(h) \cup {e}
  <1>1. EventHash(h, e) \in Hashes
    BY AppendProperties DEF EventHash, Hashes
  <1>2. /\ DOMAIN h = 1..Len(h) /\ Len(h) \in Nat
        /\ DOMAIN EventHash(h, e) = 1..(Len(h) + 1)
        /\ \A i \in 1..Len(h) : EventHash(h, e)[i] = h[i]
        /\ EventHash(h, e)[Len(h) + 1] = e
    BY LenProperties, AppendProperties DEF EventHash, Hashes
  <1>3. QED  BY <1>1, <1>2 DEF ToSet

\* The next line, and what it makes of a chain that is whole.
LEMMA AppendLine ==
  ASSUME NEW ls \in Seq(Line), NEW l \in Line
  PROVE  /\ Append(ls, l) \in Seq(Line) /\ Append(ls, l) # <<>>
         /\ Len(Append(ls, l)) = Len(ls) + 1
         /\ \A i \in 1..Len(ls) : Append(ls, l)[i] = ls[i]
         /\ Append(ls, l)[Len(ls) + 1] = l
         /\ EventsOf(Append(ls, l)) = EventsOf(ls) \cup {l.ev}
         /\ /\ WalkOK(ls) /\ l.prev = TailHash(ls) /\ l.seq = Len(ls)
            /\ l.hash = EventHash(l.prev, l.ev)
            => WalkOK(Append(ls, l))
  <1> DEFINE new == Append(ls, l)
  <1>1. /\ new \in Seq(Line) /\ new # <<>> /\ Len(new) = Len(ls) + 1
        /\ \A i \in 1..Len(ls) : new[i] = ls[i]
        /\ new[Len(ls) + 1] = l
        /\ Len(ls) \in Nat
    BY AppendProperties, LinesFacts
  <1> HIDE DEF new
  <1>2. EventsOf(new) = EventsOf(ls) \cup {l.ev}
    BY <1>1 DEF EventsOf
  <1>3. ASSUME WalkOK(ls), l.prev = TailHash(ls), l.seq = Len(ls),
               l.hash = EventHash(l.prev, l.ev)
        PROVE  WalkOK(new)
    <2>1. ASSUME NEW i \in 1..Len(ls)
          PROVE  /\ new[i].prev = IF i = 1 THEN Genesis ELSE new[i - 1].hash
                 /\ new[i].seq \in {NoSeq, i - 1}
                 /\ new[i].hash = EventHash(new[i].prev, new[i].ev)
      <3>1. new[i] = ls[i] /\ (i # 1 => i - 1 \in 1..Len(ls) /\ new[i - 1] = ls[i - 1])
        BY <1>1
      <3>2. QED  BY <1>3, <3>1 DEF WalkOK
    <2>2. /\ l.prev = IF Len(ls) + 1 = 1 THEN Genesis ELSE new[Len(ls)].hash
          /\ l.seq = (Len(ls) + 1) - 1
      BY <1>1, <1>3, LinesFacts DEF TailHash
    <2>3. ASSUME NEW i \in 1..Len(new), i \notin 1..Len(ls)
          PROVE  /\ new[i].prev = IF i = 1 THEN Genesis ELSE new[i - 1].hash
                 /\ new[i].seq \in {NoSeq, i - 1}
                 /\ new[i].hash = EventHash(new[i].prev, new[i].ev)
      <3>1. i = Len(ls) + 1 /\ i - 1 = Len(ls) /\ new[i] = l
        BY <1>1, <2>3
      <3>2. QED  BY <1>3, <2>2, <3>1
    <2>4. QED  BY <2>1, <2>3 DEF WalkOK
  <1>4. QED  BY <1>1, <1>2, <1>3 DEF new

LEMMA FrontLine ==
  ASSUME NEW ls \in Seq(Line), ls # <<>>
  PROVE  /\ Front(ls) \in Seq(Line) /\ Len(Front(ls)) = Len(ls) - 1
         /\ \A i \in 1..(Len(ls) - 1) : Front(ls)[i] = ls[i]
         /\ EventsOf(Front(ls)) \subseteq EventsOf(ls)
         /\ WalkOK(ls) => WalkOK(Front(ls))
  <1> DEFINE new == Front(ls)
  <1>1. /\ Len(ls) \in Nat \ {0} /\ \A i \in 1..Len(ls) : ls[i] \in Line
    BY LinesFacts
  <1>2. /\ new \in Seq(Line) /\ Len(new) = Len(ls) - 1
        /\ \A i \in 1..(Len(ls) - 1) : new[i] = ls[i]
    <2>1. /\ 1 \in Int /\ Len(ls) - 1 \in Int
          /\ \A i \in 1..(Len(ls) - 1) : ls[i] \in Line
      BY <1>1
    <2>2. /\ new \in Seq(Line)
          /\ Len(new) = IF 1 <= Len(ls) - 1 THEN (Len(ls) - 1) - 1 + 1 ELSE 0
          /\ \A i \in 1..((Len(ls) - 1) - 1 + 1) : new[i] = ls[1 + i - 1]
      <3>1. new = SubSeq(ls, 1, Len(ls) - 1)
        BY DEF Front
      <3> HIDE DEF new
      <3>2. QED  BY <2>1, <3>1, SubSeqProperties
    <2>3. Len(new) = Len(ls) - 1
      <3>1. \A k \in Nat \ {0} : (IF 1 <= k - 1 THEN (k - 1) - 1 + 1 ELSE 0) = k - 1
        OBVIOUS
      <3>2. Len(ls) \in Nat \ {0}
        BY <1>1
      <3>3. QED  BY <2>2, <3>1, <3>2
    <2>4. ASSUME NEW i \in 1..(Len(ls) - 1) PROVE new[i] = ls[i]
      <3>1. i \in 1..((Len(ls) - 1) - 1 + 1) /\ 1 + i - 1 = i
        BY <1>1
      <3>2. QED  BY <2>2, <3>1
    <2>5. QED  BY <2>2, <2>3, <2>4
  <1> HIDE DEF new
  <1>3. \A i \in 1..Len(new) : i \in 1..Len(ls) /\ new[i] = ls[i]
    BY <1>1, <1>2
  <1>4. EventsOf(new) \subseteq EventsOf(ls)
    BY <1>3 DEF EventsOf
  <1>5. ASSUME WalkOK(ls) PROVE WalkOK(new)
    <2>1. ASSUME NEW i \in 1..Len(new)
          PROVE  /\ new[i].prev = IF i = 1 THEN Genesis ELSE new[i - 1].hash
                 /\ new[i].seq \in {NoSeq, i - 1}
                 /\ new[i].hash = EventHash(new[i].prev, new[i].ev)
      <3>1. i # 1 => i - 1 \in 1..Len(new)
        BY <1>1, <1>2
      <3>2. i \in 1..Len(ls) /\ new[i] = ls[i] /\ (i # 1 => new[i - 1] = ls[i - 1])
        BY <1>3, <3>1
      <3>3. QED  BY <1>5, <3>2 DEF WalkOK
    <2>2. QED  BY <2>1 DEF WalkOK
  <1>6. QED  BY <1>2, <1>4, <1>5 DEF new

LEMMA RemoveLine ==
  ASSUME NEW ls \in Seq(Line), NEW i \in 1..Len(ls)
  PROVE  /\ RemoveAt(ls, i) \in Seq(Line) /\ Len(RemoveAt(ls, i)) = Len(ls) - 1
         /\ \A j \in 1..(Len(ls) - 1) :
              RemoveAt(ls, i)[j] = IF j < i THEN ls[j] ELSE ls[j + 1]
         /\ EventsOf(RemoveAt(ls, i)) \subseteq EventsOf(ls)
  <1> DEFINE a == SubSeq(ls, 1, i - 1)
             b == SubSeq(ls, i + 1, Len(ls))
             new == RemoveAt(ls, i)
  <1>1. Len(ls) \in Nat /\ i \in Nat /\ \A j \in 1..Len(ls) : ls[j] \in Line
    BY LinesFacts
  <1>2. /\ a \in Seq(Line) /\ Len(a) = i - 1
        /\ \A j \in 1..(i - 1) : a[j] = ls[j]
    <2>1. 1 \in Int /\ i - 1 \in Int /\ \A j \in 1..(i - 1) : ls[j] \in Line
      BY <1>1
    <2>2. /\ a \in Seq(Line)
          /\ Len(a) = IF 1 <= i - 1 THEN (i - 1) - 1 + 1 ELSE 0
          /\ \A j \in 1..((i - 1) - 1 + 1) : a[j] = ls[1 + j - 1]
      BY <2>1, SubSeqProperties
    <2>3. QED  BY <1>1, <2>2
  <1>3. /\ b \in Seq(Line) /\ Len(b) = Len(ls) - i
        /\ \A j \in 1..(Len(ls) - i) : b[j] = ls[i + j]
    <2>1. i + 1 \in Int /\ Len(ls) \in Int /\ \A j \in (i + 1)..Len(ls) : ls[j] \in Line
      BY <1>1
    <2>2. /\ b \in Seq(Line)
          /\ Len(b) = IF i + 1 <= Len(ls) THEN Len(ls) - (i + 1) + 1 ELSE 0
          /\ \A j \in 1..(Len(ls) - (i + 1) + 1) : b[j] = ls[(i + 1) + j - 1]
      BY <2>1, SubSeqProperties
    <2>3. QED  BY <1>1, <2>2
  <1> HIDE DEF a, b
  <1>4. /\ new \in Seq(Line) /\ Len(new) = Len(a) + Len(b)
        /\ \A j \in 1..(Len(a) + Len(b)) : new[j] = IF j <= Len(a) THEN a[j] ELSE b[j - Len(a)]
    BY <1>2, <1>3, ConcatProperties DEF RemoveAt, a, b
  <1> HIDE DEF new
  <1>5. ASSUME NEW j \in 1..(Len(ls) - 1)
        PROVE  new[j] = IF j < i THEN ls[j] ELSE ls[j + 1]
    <2>0. j \in 1..(Len(a) + Len(b)) /\ j \in Nat /\ i \in Nat /\ Len(ls) \in Nat
      BY <1>1, <1>2, <1>3
    <2>1. CASE j < i
      <3>1. j <= Len(a) /\ j \in 1..(i - 1)
        BY <1>2, <2>0, <2>1
      <3>2. QED  BY <1>2, <1>4, <2>0, <2>1, <3>1
    <2>2. CASE ~(j < i)
      <3>1. new[j] = b[j - (i - 1)]
        <4>1. ~(j <= Len(a))
          BY <1>2, <2>0, <2>2
        <4>2. QED  BY <1>2, <1>4, <2>0, <4>1
      <3>2. j - (i - 1) \in 1..(Len(ls) - i) /\ i + (j - (i - 1)) = j + 1
        BY <1>1, <2>2
      <3>3. QED  BY <1>3, <2>2, <3>1, <3>2
    <2>3. QED  BY <2>1, <2>2
  <1>6. Len(new) = Len(ls) - 1
    BY <1>1, <1>2, <1>3, <1>4
  <1>7. EventsOf(new) \subseteq EventsOf(ls)
    <2>1. ASSUME NEW j \in 1..Len(new)
          PROVE  \E k \in 1..Len(ls) : new[j] = ls[k]
      <3>1. j \in 1..(Len(ls) - 1) /\ j \in 1..Len(ls) /\ j + 1 \in 1..Len(ls)
        BY <1>1, <1>6
      <3>2. QED  BY <1>5, <3>1
    <2>2. QED  BY <2>1 DEF EventsOf
  <1>8. QED  BY <1>4, <1>5, <1>6, <1>7 DEF new

\* On a chain that is whole the number of the next line is that of the lines.
LEMMA NextSeqFacts ==
  ASSUME NEW ls \in Seq(Line)
  PROVE  /\ NextSeq(ls) \in Nat
         /\ WalkOK(ls) => NextSeq(ls) = Len(ls)
  <1>1. CASE ls = <<>>
    BY <1>1, LinesFacts DEF NextSeq
  <1>2. CASE ls # <<>>
    <2>1. /\ Len(ls) \in Nat \ {0} /\ Last(ls) = ls[Len(ls)] /\ ls[Len(ls)] \in Line
      BY <1>2, LinesFacts DEF Last
    <2>2. NextSeq(ls) = IF ls[Len(ls)].seq = NoSeq THEN Len(ls) ELSE ls[Len(ls)].seq + 1
      BY <1>2, <2>1 DEF NextSeq
    <2>3. WalkOK(ls) => ls[Len(ls)].seq \in {NoSeq, Len(ls) - 1}
      BY <2>1 DEF WalkOK
    <2>4. ls[Len(ls)].seq \in Nat \cup {NoSeq}
      BY <2>1 DEF Line
    <2>5. QED  BY <2>1, <2>2, <2>3, <2>4
  <1>3. QED  BY <1>1, <1>2

\* A chain that the walk accepts has every event its hashes stand for.
LEMMA WalkRemembers ==
  ASSUME NEW ls \in Seq(Line), WalkOK(ls), NEW k \in 1..Len(ls)
  PROVE  ToSet(ls[k].hash) \subseteq EventsOf(ls)
  <1> SUFFICES ASSUME NEW e \in ToSet(ls[k].hash), e \notin EventsOf(ls)
               PROVE  FALSE
    OBVIOUS
  <1> DEFINE T == {i \in 1..Len(ls) : e \in ToSet(ls[i].hash)}
  <1>1. PICK n \in T : \A m \in T : n <= m
    <2>1. T \in SUBSET Nat /\ T # {}
      BY LinesFacts
    <2>2. QED  BY <2>1, LeastNumber
  <1>2. /\ ls[n].prev \in Hashes /\ ls[n].ev \in Events
        /\ ls[n].hash = EventHash(ls[n].prev, ls[n].ev)
        /\ ls[n].prev = IF n = 1 THEN Genesis ELSE ls[n - 1].hash
    BY LinesFacts DEF WalkOK, Line
  <1>3. e # ls[n].ev
    BY DEF EventsOf
  <1>4. e \in ToSet(ls[n].prev)
    BY <1>2, <1>3, HashFacts
  <1>5. n # 1
    BY <1>2, <1>4 DEF ToSet, Genesis
  <1>6. n - 1 \in T
    BY <1>2, <1>4, <1>5, LinesFacts
  <1>7. QED  BY <1>1, <1>6

-----------------------------------------------------------------------------
(* What a running append has, and what it leaves alone.                    *)

LEMMA ProcFacts ==
  ASSUME Core, NEW p \in Procs, pc[p] # "idle"
  PROVE  /\ Shard(p) \in Shards /\ lines[Shard(p)] \in Seq(Line)
         /\ job[p] \in Job /\ job[p].prev \in Hashes /\ job[p].seq \in Nat
         /\ job[p].ev \in Events /\ job[p].ev[2] = Shard(p)
         /\ job[p].ev[1] \in 1..issued /\ job[p].ev[1] \in 1..MaxAppends
         /\ NewLine(job[p]) \in Line /\ NewMark(job[p]) \in Mark
  <1>1. /\ Shard(p) \in Shards /\ job[p] \in Job /\ issued \in 0..MaxAppends
        /\ lines \in [Shards -> Seq(Line)]
    BY DEF Core, Typed, TypeOK, JobsApart
  <1>2. PICK n \in 1..issued : job[p].ev = <<n, Shard(p)>>
    BY DEF Core, JobsApart
  <1>3. n \in 1..MaxAppends /\ n \in 0..(MaxAppends + MaxLegacy)
    BY <1>1, LedgerAssumption
  <1>4. job[p].ev \in Events /\ job[p].ev[2] = Shard(p) /\ job[p].ev[1] = n
    BY <1>1, <1>2, <1>3 DEF Events
  <1>5. job[p].prev \in Hashes /\ job[p].seq \in Nat
    BY <1>1 DEF Job
  <1>6. EventHash(job[p].prev, job[p].ev) \in Hashes
    BY <1>4, <1>5, HashFacts
  <1>7. NewLine(job[p]) \in Line /\ NewMark(job[p]) \in Mark
    BY <1>4, <1>5, <1>6 DEF NewLine, NewMark, Line, Mark
  <1>8. QED  BY <1>1, <1>3, <1>4, <1>5, <1>7

\* The shard lock keeps two appends apart.
LEMMA Alone ==
  ASSUME Core, NEW p \in Procs, NEW q \in Procs, p # q, pc[p] \in Busy, pc[q] \in Busy
  PROVE  Shard(p) # Shard(q)
  BY DEF Core, Typed, TypeOK

\* A step that touches no file but the locks: an append comes, waits, goes on,
\* gives up or is killed.
LEMMA NoFileTouched ==
  ASSUME Core, NEW p \in Procs,
         UNCHANGED <<disk, acked, damaged, relinked, glued>>, dirty \subseteq dirty',
         \A q \in Procs \ {p} : pc'[q] = pc[q] /\ job'[q] = job[q],
         \/ pc'[p] \in {"idle", "lock", "tail"}
         \/ /\ pc[p] \in {"reglock", "regread", "regwrite"}
            /\ pc'[p] \in {"reglock", "regread", "regwrite"}
            /\ job'[p] = job[p],
         pc[p] \in Recording \ {"return"} /\ pc'[p] \notin Recording => Shard(p) \in dirty'
  PROVE  /\ TornKnown' /\ ChainIntact' /\ LinksFit' /\ MarksFollow' /\ RecordInPlace'
         /\ HashesRemember' /\ RegistryRemembers'
  <1>1. TornKnown'
    BY DEF Core, TornKnown, Recording, Shard, disk
  <1>2. ChainIntact'
    BY DEF Core, ChainIntact, disk
  <1>3. LinksFit'
    BY DEF Core, LinksFit, Shard, disk
  <1>4. MarksFollow'
    <2>1. ASSUME NEW s \in Shards \ (damaged \cup glued), s \notin dirty',
                 \A q \in Procs : pc'[q] \in Recording => job'[q].shard # s
          PROVE  Exact(s)
      <3>1. CASE \A q \in Procs : pc[q] \in Recording => Shard(q) # s
        BY <2>1, <3>1 DEF Core, MarksFollow
      <3>2. CASE ~\A q \in Procs : pc[q] \in Recording => Shard(q) # s
        <4>1. Shard(p) = s /\ pc[p] = "return"
          BY <2>1, <3>2 DEF Shard, Recording
        <4>2. QED  BY <4>1 DEF Core, RecordInPlace, RegistryRemembers, Exact, Recording
      <3>3. QED  BY <3>1, <3>2
    <2>2. QED  BY <2>1 DEF Core, MarksFollow, Exact, Describes, Shard, disk
  <1>5. RecordInPlace'
    BY DEF Core, RecordInPlace, Recording, Describes, Shard, disk
  <1>6. HashesRemember'
    BY DEF Core, HashesRemember, Shard, disk
  <1>7. RegistryRemembers'
    BY DEF Core, RegistryRemembers, AckedIn, Recording, Shard, disk
  <1>8. QED  BY <1>1, <1>2, <1>3, <1>4, <1>5, <1>6, <1>7

\* A step that takes one process further, with its events as they were.
LEMMA SameEvents ==
  ASSUME Core, NEW p \in Procs, pc[p] # "idle", issued' = issued, lines' = lines,
         \A q \in Procs \ {p} : pc'[q] = pc[q] /\ job'[q] = job[q],
         pc'[p] = "idle" \/ (job'[p].shard = job[p].shard /\ job'[p].ev = job[p].ev),
         pc'[p] \in {"lock", "tail", "line"} => pc[p] \in {"lock", "tail", "line"}
  PROVE  JobsApart' /\ EventsOwned'
  <1>1. JobsApart'
    BY DEF Core, JobsApart, Shard
  <1>2. EventsOwned'
    BY DEF Core, EventsOwned
  <1>3. QED  BY <1>1, <1>2

-----------------------------------------------------------------------------
(* One lemma per step of an append.                                        *)

LEMMA BeginCore == ASSUME Core, NEW p \in Procs, Begin(p) PROVE Core'
  <1>1. PICK s \in Shards :
          job' = [job EXCEPT ![p] = [NoJob EXCEPT !.shard = s, !.ev = <<issued + 1, s>>]]
    BY DEF Begin
  <1> DEFINE j == [NoJob EXCEPT !.shard = s, !.ev = <<issued + 1, s>>]
  <1>2. /\ pc[p] = "idle" /\ issued' = issued + 1 /\ issued < MaxAppends
        /\ pc' = [pc EXCEPT ![p] = "lock"]
        /\ UNCHANGED <<disk, locks, seen, ghosts, crashes, faults>>
        /\ issued \in Nat /\ issued + 1 \in 0..MaxAppends
    BY LedgerAssumption DEF Begin, Core, Typed
  <1>3. j \in Job /\ j.shard = s /\ j.ev = <<issued + 1, s>>
    <2>1. <<issued + 1, s>> \in Events
      BY <1>2, LedgerAssumption DEF Events
    <2>2. <<>> \in Hashes
      BY EmptySeq DEF Hashes
    <2>3. QED  BY <2>1, <2>2 DEF Job, NoJob, Genesis
  <1> HIDE DEF j
  <1>4. /\ pc'[p] = "lock" /\ job'[p] = j
        /\ \A q \in Procs \ {p} : pc'[q] = pc[q] /\ job'[q] = job[q]
        /\ pc' \in [Procs -> Busy \cup {"idle", "lock"}] /\ job' \in [Procs -> Job]
    BY <1>1, <1>2, <1>3 DEF Core, Typed, TypeOK, j
  <1>5. Typed'
    BY <1>2, <1>4 DEF Core, Typed, TypeOK, Busy, Shard, disk, locks, ghosts
  <1>6. JobsApart'
    <2>1. \A q \in Procs : pc[q] # "idle" => job[q].ev[1] \in 1..issued
      BY ProcFacts
    <2>2. job'[p].ev = <<issued + 1, s>> /\ job'[p].ev[1] = issued + 1 /\ job'[p].shard = s
      BY <1>3, <1>4
    <2>3. \A q \in Procs \ {p} : pc'[q] # "idle" => job'[q].ev # job'[p].ev
      BY <1>2, <1>4, <2>1, <2>2
    <2>4. \A q \in Procs : pc'[q] # "idle" =>
            job'[q].shard \in Shards /\ \E n \in 1..(issued + 1) : job'[q].ev = <<n, job'[q].shard>>
      <3>1. \A n \in 1..issued : n \in 1..(issued + 1)
        BY <1>2
      <3>2. issued + 1 \in 1..(issued + 1)
        BY <1>2
      <3>3. QED  BY <1>2, <1>4, <2>2, <3>1, <3>2 DEF Core, JobsApart, Shard
    <2>5. QED  BY <1>2, <1>4, <2>3, <2>4 DEF Core, JobsApart, Shard
  <1>7. RegistryHeld'
    BY <1>2, <1>4 DEF Core, RegistryHeld, disk, locks
  <1>8. EventsOwned'
    <2>1. \A t \in Shards : \A i \in 1..Len(lines[t]) :
            lines[t][i].ev[1] \in (0..issued) \cup {n \in Nat : n > MaxAppends}
      BY DEF Core, EventsOwned
    <2>2. \A t \in Shards : <<issued + 1, s>> \notin EventsOf(lines[t])
      <3>1. issued + 1 \notin 0..issued
        BY <1>2
      <3>2. issued + 1 <= MaxAppends /\ MaxAppends \in Nat
        BY <1>2, LedgerAssumption
      <3>3. issued + 1 \notin {n \in Nat : n > MaxAppends}
        BY <1>2, <3>2
      <3>4. QED  BY <2>1, <3>1, <3>3 DEF EventsOf
    <2>3. (0..issued) \subseteq 0..(issued + 1)
      BY <1>2
    <2>4. QED  BY <1>2, <1>3, <1>4, <2>2, <2>3 DEF Core, EventsOwned, disk
  <1>9. /\ TornKnown' /\ ChainIntact' /\ LinksFit' /\ MarksFollow' /\ RecordInPlace'
        /\ HashesRemember' /\ RegistryRemembers'
    BY <1>2, <1>4, NoFileTouched DEF Recording, ghosts
  <1>10. QED  BY <1>5, <1>6, <1>7, <1>8, <1>9 DEF Core

LEMMA LockShardCore == ASSUME Core, NEW p \in Procs, LockShard(p) PROVE Core'
  <1>1. /\ pc[p] = "lock" /\ shardLock[Shard(p)] = NoProc
        /\ shardLock' = [shardLock EXCEPT ![Shard(p)] = p]
        /\ pc' = [pc EXCEPT ![p] = "tail"]
        /\ UNCHANGED <<disk, regLock, job, seen, ghosts, bounds>>
    BY DEF LockShard
  <1>2. /\ pc'[p] = "tail" /\ \A q \in Procs \ {p} : pc'[q] = pc[q]
        /\ pc' \in [Procs -> Busy \cup {"idle", "lock"}] /\ job' = job
    BY <1>1 DEF Core, Typed, TypeOK, Busy
  <1>3. Typed'
    <2>1. \A q \in Procs : pc'[q] \in Busy => shardLock'[job'[q].shard] = q
      BY <1>1, <1>2, ProcFacts, LedgerAssumption DEF Core, Typed, TypeOK, Shard, Busy
    <2>2. QED  BY <1>1, <1>2, <2>1 DEF Core, Typed, TypeOK, Shard, disk, ghosts, bounds
  <1>4. JobsApart' /\ EventsOwned'
    BY <1>1, <1>2, SameEvents DEF disk, bounds
  <1>5. RegistryHeld'
    BY <1>1, <1>2 DEF Core, RegistryHeld, disk
  <1>6. /\ TornKnown' /\ ChainIntact' /\ LinksFit' /\ MarksFollow' /\ RecordInPlace'
        /\ HashesRemember' /\ RegistryRemembers'
    BY <1>1, <1>2, NoFileTouched DEF Recording, ghosts
  <1>7. QED  BY <1>3, <1>4, <1>5, <1>6 DEF Core

LEMMA ReadTailCore == ASSUME Core, NEW p \in Procs, ReadTail(p) PROVE Core'
  <1> DEFINE s == Shard(p)
             j == [job[p] EXCEPT !.prev = TailHash(lines[s]), !.seq = NextSeq(lines[s])]
  <1>1. /\ pc[p] = "tail" /\ s \notin torn
        /\ relinked' = IF BuildsOnLoss(s) THEN relinked \cup {s} ELSE relinked
        /\ pc' = [pc EXCEPT ![p] = "line"]
        /\ UNCHANGED <<disk, locks, seen, acked, dirty, damaged, glued, bounds>>
    BY DEF ReadTail
  <1>2. s \in Shards /\ lines[s] \in Seq(Line) /\ job[p] \in Job
    BY <1>1, ProcFacts
  <1>3. /\ j \in Job /\ j.shard = s /\ j.ev = job[p].ev
        /\ j.prev = TailHash(lines[s]) /\ j.seq = NextSeq(lines[s])
    <2>1. TailHash(lines[s]) \in Hashes /\ NextSeq(lines[s]) \in Nat
      BY <1>2, LinesFacts, NextSeqFacts
    <2>2. QED  BY <1>2, <2>1 DEF Job, Shard
  <1>4. job' = [job EXCEPT ![p] = j]
    BY DEF ReadTail, Core, Typed, Job
  <1> HIDE DEF j
  <1>5. /\ pc'[p] = "line" /\ job'[p] = j
        /\ \A q \in Procs \ {p} : pc'[q] = pc[q] /\ job'[q] = job[q]
        /\ pc' \in [Procs -> Busy \cup {"idle", "lock"}] /\ job' \in [Procs -> Job]
    BY <1>1, <1>3, <1>4 DEF Core, Typed, TypeOK, Busy
  <1>6. Typed'
    <2>1. \A q \in Procs : pc'[q] \in Busy => shardLock'[job'[q].shard] = q
      BY <1>1, <1>3, <1>5 DEF Core, Typed, TypeOK, Shard, Busy, locks
    <2>2. relinked' \in SUBSET Shards
      BY <1>1, <1>2 DEF Core, Typed
    <2>3. QED  BY <1>1, <1>5, <2>1, <2>2 DEF Core, Typed, TypeOK, Shard, disk, locks, bounds
  <1>7. JobsApart' /\ EventsOwned'
    BY <1>1, <1>3, <1>5, SameEvents DEF Shard, disk, bounds
  <1>8. RegistryHeld'
    BY <1>1, <1>5 DEF Core, RegistryHeld, disk, locks
  <1>9. TornKnown'
    BY <1>1, <1>3, <1>5 DEF Core, TornKnown, Recording, Shard, disk
  <1>10. ChainIntact' /\ MarksFollow' /\ RecordInPlace'
    <2>1. ChainIntact'
      BY <1>1 DEF Core, ChainIntact, disk
    <2>2. MarksFollow'
      BY <1>1, <1>5 DEF Core, MarksFollow, Exact, Describes, Recording, Shard, disk
    <2>3. RecordInPlace'
      BY <1>1, <1>5 DEF Core, RecordInPlace, Describes, Recording, Shard, disk
    <2>4. QED  BY <2>1, <2>2, <2>3
  <1>11. LinksFit'
    <2>1. s \notin damaged => WalkOK(lines[s])
      BY <1>2 DEF Core, ChainIntact
    <2>2. s \notin damaged => j.prev = TailHash(lines[s]) /\ j.seq = Len(lines[s])
      BY <1>2, <1>3, <2>1, NextSeqFacts
    <2>3. QED  BY <1>1, <1>3, <1>5, <2>2 DEF Core, LinksFit, Shard, disk
  <1>12. EventsOf(lines[s]) \subseteq ToSet(j.prev) \cup {Garbled(s)}
    <2>1. ASSUME NEW i \in 1..Len(lines[s])
          PROVE  lines[s][i].ev \in ToSet(j.prev) \cup {Garbled(s)}
      <3>1. Len(lines[s]) \in 1..Len(lines[s]) /\ i \in 1..Len(lines[s])
            /\ j.prev = lines[s][Len(lines[s])].hash
        BY <1>2, <1>3, LinesFacts
      <3>2. QED  BY <1>2, <3>1, LinesFacts DEF Core, HashesRemember
    <2>2. QED  BY <2>1 DEF EventsOf
  <1>13. HashesRemember'
    BY <1>1, <1>3, <1>5, <1>12 DEF Core, HashesRemember, Shard, disk
  <1>14. RegistryRemembers'
    <2>1. ASSUME s \notin relinked' PROVE AckedIn(s) \subseteq ToSet(j.prev)
      <3>1. ~BuildsOnLoss(s)
        BY <1>1, <2>1
      <3>2. AckedIn(s) \subseteq EventsOf(lines[s])
        BY <3>1 DEF BuildsOnLoss, AckedIn
      <3>3. Garbled(s) \notin AckedIn(s)
        BY DEF Garbled, AckedIn, Core, RegistryRemembers
      <3>4. QED  BY <1>12, <3>2, <3>3
    <2>2. relinked \subseteq relinked'
      BY <1>1
    <2>3. QED  BY <1>1, <1>3, <1>5, <2>1, <2>2
               DEF Core, RegistryRemembers, AckedIn, Recording, Shard, disk
  <1>15. QED  BY <1>6, <1>7, <1>8, <1>9, <1>10, <1>11, <1>13, <1>14 DEF Core

LEMMA RefuseCore == ASSUME Core, NEW p \in Procs, Refuse(p) PROVE Core'
  <1>1. /\ pc[p] = "tail"
        /\ shardLock' = [shardLock EXCEPT ![Shard(p)] = NoProc]
        /\ job' = [job EXCEPT ![p] = NoJob] /\ pc' = [pc EXCEPT ![p] = "idle"]
        /\ UNCHANGED <<disk, regLock, seen, ghosts, bounds>>
    BY DEF Refuse
  <1>2. NoJob \in Job
    BY EmptySeq DEF Job, NoJob, Genesis, Hashes
  <1>3. /\ pc'[p] = "idle" /\ \A q \in Procs \ {p} : pc'[q] = pc[q] /\ job'[q] = job[q]
        /\ pc' \in [Procs -> Busy \cup {"idle", "lock"}] /\ job' \in [Procs -> Job]
    BY <1>1, <1>2 DEF Core, Typed, TypeOK
  <1>4. Typed'
    <2>1. \A q \in Procs : pc'[q] \in Busy => shardLock'[job'[q].shard] = q
      BY <1>1, <1>3, Alone DEF Core, Typed, TypeOK, Shard, Busy
    <2>2. QED  BY <1>1, <1>3, <2>1 DEF Core, Typed, TypeOK, Shard, disk, ghosts, bounds
  <1>5. JobsApart' /\ EventsOwned'
    BY <1>1, <1>3, SameEvents DEF disk, bounds
  <1>6. RegistryHeld'
    BY <1>1, <1>3 DEF Core, RegistryHeld, disk
  <1>7. /\ TornKnown' /\ ChainIntact' /\ LinksFit' /\ MarksFollow' /\ RecordInPlace'
        /\ HashesRemember' /\ RegistryRemembers'
    BY <1>1, <1>3, NoFileTouched DEF Recording, ghosts
  <1>8. QED  BY <1>4, <1>5, <1>6, <1>7 DEF Core

LEMMA LockRegistryCore == ASSUME Core, NEW p \in Procs, LockRegistry(p) PROVE Core'
  <1>1. /\ pc[p] = "reglock" /\ regLock = NoProc /\ regLock' = p
        /\ pc' = [pc EXCEPT ![p] = "regread"]
        /\ UNCHANGED <<disk, shardLock, job, seen, ghosts, bounds>>
    BY DEF LockRegistry
  <1>2. /\ pc'[p] = "regread" /\ \A q \in Procs \ {p} : pc'[q] = pc[q]
        /\ pc' \in [Procs -> Busy \cup {"idle", "lock"}] /\ job' = job
    BY <1>1 DEF Core, Typed, TypeOK, Busy
  <1>3. Typed'
    BY <1>1, <1>2 DEF Core, Typed, TypeOK, Shard, Busy, disk, ghosts, bounds
  <1>4. JobsApart' /\ EventsOwned'
    BY <1>1, <1>2, SameEvents DEF disk, bounds
  <1>5. RegistryHeld'
    BY <1>1, <1>2, LedgerAssumption DEF Core, RegistryHeld, disk
  <1>6. /\ TornKnown' /\ ChainIntact' /\ LinksFit' /\ MarksFollow' /\ RecordInPlace'
        /\ HashesRemember' /\ RegistryRemembers'
    BY <1>1, <1>2, NoFileTouched DEF Recording, ghosts
  <1>7. QED  BY <1>3, <1>4, <1>5, <1>6 DEF Core

LEMMA ReadRegistryCore == ASSUME Core, NEW p \in Procs, ReadRegistry(p) PROVE Core'
  <1>1. /\ pc[p] = "regread" /\ seen' = [seen EXCEPT ![p] = registry]
        /\ pc' = [pc EXCEPT ![p] = "regwrite"]
        /\ UNCHANGED <<disk, locks, job, ghosts, bounds>>
    BY DEF ReadRegistry
  <1>2. /\ pc'[p] = "regwrite" /\ \A q \in Procs \ {p} : pc'[q] = pc[q] /\ seen'[q] = seen[q]
        /\ seen'[p] = registry /\ seen' \in [Procs -> [Shards -> Mark \cup {NoMark}]]
        /\ pc' \in [Procs -> Busy \cup {"idle", "lock"}] /\ job' = job
    BY <1>1 DEF Core, Typed, TypeOK, Busy
  <1>3. Typed'
    BY <1>1, <1>2 DEF Core, Typed, TypeOK, Shard, Busy, disk, locks, ghosts, bounds
  <1>4. JobsApart' /\ EventsOwned'
    BY <1>1, <1>2, SameEvents DEF disk, bounds
  <1>5. RegistryHeld'
    BY <1>1, <1>2 DEF Core, RegistryHeld, disk, locks
  <1>6. /\ TornKnown' /\ ChainIntact' /\ LinksFit' /\ MarksFollow' /\ RecordInPlace'
        /\ HashesRemember' /\ RegistryRemembers'
    BY <1>1, <1>2, NoFileTouched DEF Recording, ghosts
  <1>7. QED  BY <1>3, <1>4, <1>5, <1>6 DEF Core

LEMMA WriteTipCore == ASSUME Core, NEW p \in Procs, WriteTip(p) PROVE Core'
  <1> DEFINE s == Shard(p)
             m == NewMark(job[p])
  <1>1. /\ pc[p] = "tip" /\ tip' = [tip EXCEPT ![s] = m]
        /\ pc' = [pc EXCEPT ![p] = "reglock"]
        /\ UNCHANGED <<present, lines, torn, unended, registry, locks, job, seen, ghosts, bounds>>
    BY DEF WriteTip
  <1>2. /\ pc'[p] = "reglock" /\ \A q \in Procs \ {p} : pc'[q] = pc[q]
        /\ pc' \in [Procs -> Busy \cup {"idle", "lock"}] /\ job' = job
    BY <1>1 DEF Core, Typed, TypeOK, Busy
  <1>3. /\ s \in Shards /\ m \in Mark /\ m # NoMark
        /\ tip'[s] = m /\ \A t \in Shards \ {s} : tip'[t] = tip[t]
        /\ tip' \in [Shards -> Mark \cup {NoMark}]
    BY <1>1, ProcFacts, NoMarkAssumption DEF Core, Typed, TypeOK
  <1> HIDE DEF m
  <1>4. Typed'
    BY <1>1, <1>2, <1>3 DEF Core, Typed, TypeOK, Shard, Busy, locks, ghosts, bounds
  <1>5. JobsApart' /\ EventsOwned'
    BY <1>1, <1>2, SameEvents DEF bounds
  <1>6. RegistryHeld'
    BY <1>1, <1>2 DEF Core, RegistryHeld, locks
  <1>7. TornKnown' /\ ChainIntact' /\ LinksFit' /\ HashesRemember'
    BY <1>1, <1>2 DEF Core, TornKnown, ChainIntact, LinksFit, HashesRemember, Recording, Shard, ghosts
  <1>8. s \notin damaged \cup glued => Describes(m, lines[s]) /\ m.count = Len(lines[s])
    BY <1>1 DEF Core, RecordInPlace, Recording, m
  <1>9. MarksFollow'
    <2>1. ASSUME s \notin damaged \cup glued, registry[s] # NoMark
          PROVE  Describes(registry[s], lines[s]) /\ registry[s].count <= m.count
      <3>1. Describes(registry[s], lines[s])
        BY <1>3, <2>1 DEF Core, MarksFollow
      <3>2. registry[s].count \in 1..Len(lines[s])
        BY <3>1 DEF Describes
      <3>3. QED  BY <1>3, <1>8, <2>1, <3>1, <3>2
    <2>2. ASSUME NEW t \in Shards \ (damaged \cup glued)
          PROVE  /\ \A n \in {tip'[t], registry[t]} \ {NoMark} : Describes(n, lines[t])
                 /\ registry[t] # NoMark => tip'[t] # NoMark /\ registry[t].count <= tip'[t].count
      BY <1>3, <1>8, <2>1, <2>2 DEF Core, MarksFollow
    <2>3. ASSUME NEW t \in Shards \ (damaged \cup glued), t \notin dirty,
                 \A q \in Procs : pc'[q] \in Recording => Shard(q) # t
          PROVE  tip'[t] # NoMark => tip'[t].count = Len(lines[t]) /\ registry[t] = tip'[t]
      <3>1. t # s /\ \A q \in Procs : pc[q] \in Recording => Shard(q) # t
        BY <1>1, <1>2, <2>3 DEF Recording
      <3>2. QED  BY <1>3, <2>3, <3>1 DEF Core, MarksFollow, Exact
    <2>4. QED  BY <1>1, <1>2, <2>2, <2>3 DEF MarksFollow, Exact, Describes, Shard, ghosts
  <1>10. RecordInPlace'
    <2>1. ASSUME NEW q \in Procs, pc'[q] \in Recording, Shard(q) \notin damaged \cup glued
          PROVE  /\ Describes(NewMark(job[q]), lines[Shard(q)])
                 /\ NewMark(job[q]).count = Len(lines[Shard(q)])
                 /\ pc'[q] # "tip" => tip'[Shard(q)] = NewMark(job[q])
      <3>1. CASE q = p
        BY <1>3, <1>8, <2>1, <3>1 DEF m
      <3>2. CASE q # p
        <4>1. pc[q] \in Recording /\ Shard(q) \in Shards \ {s}
          BY <1>1, <1>2, <2>1, <3>2, Alone, ProcFacts DEF Busy, Recording
        <4>2. QED  BY <1>2, <1>3, <2>1, <3>2, <4>1 DEF Core, RecordInPlace
      <3>3. QED  BY <3>1, <3>2
    <2>2. QED  BY <1>1, <1>2, <2>1 DEF RecordInPlace, Describes, Shard, ghosts
  <1>11. RegistryRemembers'
    BY <1>1, <1>2 DEF Core, RegistryRemembers, AckedIn, Recording, Shard, ghosts
  <1>12. QED  BY <1>4, <1>5, <1>6, <1>7, <1>9, <1>10, <1>11 DEF Core

LEMMA WriteRegistryCore == ASSUME Core, NEW p \in Procs, WriteRegistry(p) PROVE Core'
  <1> DEFINE s == Shard(p)
             m == NewMark(job[p])
  <1>1. /\ pc[p] = "regwrite" /\ registry' = [seen[p] EXCEPT ![s] = m]
        /\ seen' = [seen EXCEPT ![p] = NoEntries] /\ regLock' = NoProc
        /\ pc' = [pc EXCEPT ![p] = "return"]
        /\ UNCHANGED <<present, lines, torn, unended, tip, shardLock, job, ghosts, bounds>>
    BY DEF WriteRegistry
  <1>2. seen[p] = registry /\ regLock = p
    BY <1>1 DEF Core, RegistryHeld
  <1>3. /\ pc'[p] = "return" /\ \A q \in Procs \ {p} : pc'[q] = pc[q] /\ seen'[q] = seen[q]
        /\ pc' \in [Procs -> Busy \cup {"idle", "lock"}] /\ job' = job
    BY <1>1 DEF Core, Typed, TypeOK, Busy
  <1>4. /\ s \in Shards /\ m \in Mark /\ m # NoMark
        /\ registry'[s] = m /\ \A t \in Shards \ {s} : registry'[t] = registry[t]
        /\ registry' \in [Shards -> Mark \cup {NoMark}]
    BY <1>1, <1>2, ProcFacts, NoMarkAssumption DEF Core, Typed, TypeOK
  <1> HIDE DEF m
  <1>5. Typed'
    <2>1. seen' \in [Procs -> [Shards -> Mark \cup {NoMark}]]
      BY <1>1 DEF Core, Typed, TypeOK, NoEntries
    <2>2. QED  BY <1>1, <1>3, <1>4, <2>1 DEF Core, Typed, TypeOK, Shard, Busy, ghosts, bounds
  <1>6. JobsApart' /\ EventsOwned'
    BY <1>1, <1>3, SameEvents DEF bounds
  <1>7. RegistryHeld'
    BY <1>1, <1>2, <1>3 DEF Core, RegistryHeld
  <1>8. TornKnown' /\ ChainIntact' /\ LinksFit' /\ HashesRemember' /\ RecordInPlace'
    <2>1. TornKnown' /\ ChainIntact' /\ LinksFit' /\ HashesRemember'
      BY <1>1, <1>3 DEF Core, TornKnown, ChainIntact, LinksFit, HashesRemember, Recording, Shard, ghosts
    <2>2. RecordInPlace'
      BY <1>1, <1>3 DEF Core, RecordInPlace, Describes, Recording, Shard, ghosts
    <2>3. QED  BY <2>1, <2>2
  <1>9. s \notin damaged \cup glued =>
          Describes(m, lines[s]) /\ m.count = Len(lines[s]) /\ tip[s] = m
    BY <1>1 DEF Core, RecordInPlace, Recording, m
  <1>10. m.count \in Nat
    BY <1>4 DEF Mark
  <1>11. MarksFollow'
    <2>1. ASSUME NEW t \in Shards \ (damaged \cup glued)
          PROVE  /\ \A n \in {tip[t], registry'[t]} \ {NoMark} : Describes(n, lines[t])
                 /\ registry'[t] # NoMark => tip[t] # NoMark /\ registry'[t].count <= tip[t].count
      <3>1. CASE t = s
        BY <1>4, <1>9, <1>10, <2>1, <3>1
      <3>2. CASE t # s
        BY <1>4, <2>1, <3>2 DEF Core, MarksFollow
      <3>3. QED  BY <3>1, <3>2
    <2>2. ASSUME NEW t \in Shards \ (damaged \cup glued), t \notin dirty,
                 \A q \in Procs : pc'[q] \in Recording => Shard(q) # t
          PROVE  tip[t] # NoMark => tip[t].count = Len(lines[t]) /\ registry'[t] = tip[t]
      <3>1. t # s /\ \A q \in Procs : pc[q] \in Recording => Shard(q) # t
        BY <1>1, <1>3, <2>2 DEF Recording
      <3>2. QED  BY <1>4, <2>2, <3>1 DEF Core, MarksFollow, Exact
    <2>3. QED  BY <1>1, <1>3, <2>1, <2>2 DEF MarksFollow, Exact, Describes, Shard, ghosts
  <1>12. RegistryRemembers'
    <2>1. ASSUME NEW q \in Procs, pc'[q] = "return" PROVE registry'[Shard(q)] = NewMark(job[q])
      <3>1. CASE q = p
        BY <1>4, <3>1 DEF m
      <3>2. CASE q # p
        <4>1. pc[q] = "return" /\ Shard(q) \in Shards \ {s}
          BY <1>1, <1>3, <2>1, <3>2, Alone, ProcFacts DEF Busy
        <4>2. QED  BY <1>4, <4>1 DEF Core, RegistryRemembers
      <3>3. QED  BY <3>1, <3>2
    <2>2. ASSUME s \notin relinked, AckedIn(s) # {}
          PROVE  m.count > 0 /\ AckedIn(s) \subseteq ToSet(m.hash)
      <3>1. AckedIn(s) \subseteq ToSet(job[p].prev)
        BY <1>1, <2>2 DEF Core, RegistryRemembers, Recording
      <3>2. /\ m.hash = EventHash(job[p].prev, job[p].ev) /\ m.count = job[p].seq + 1
            /\ job[p].seq \in Nat /\ ToSet(m.hash) = ToSet(job[p].prev) \cup {job[p].ev}
        BY <1>1, ProcFacts, HashFacts DEF m, NewMark
      <3>3. QED  BY <3>1, <3>2
    <2>3. ASSUME NEW t \in Shards \ relinked, AckedIn(t) # {}
          PROVE  /\ registry'[t] # NoMark /\ registry'[t].count > 0
                 /\ AckedIn(t) \subseteq ToSet(registry'[t].hash)
      <3>1. CASE t = s
        BY <1>4, <2>2, <2>3, <3>1
      <3>2. CASE t # s
        BY <1>4, <2>3, <3>2 DEF Core, RegistryRemembers
      <3>3. QED  BY <3>1, <3>2
    <2>4. QED  BY <1>1, <1>3, <2>1, <2>3 DEF Core, RegistryRemembers, AckedIn, Recording, Shard, ghosts
  <1>13. QED  BY <1>5, <1>6, <1>7, <1>8, <1>11, <1>12 DEF Core

LEMMA ReturnCore == ASSUME Core, NEW p \in Procs, Return(p) PROVE Core'
  <1> DEFINE s == Shard(p)
             e == job[p].ev
  <1>1. /\ pc[p] = "return" /\ acked' = acked \cup {e} /\ dirty' = dirty \ {s}
        /\ shardLock' = [shardLock EXCEPT ![s] = NoProc]
        /\ job' = [job EXCEPT ![p] = NoJob] /\ pc' = [pc EXCEPT ![p] = "idle"]
        /\ UNCHANGED <<disk, regLock, seen, damaged, relinked, glued, bounds>>
    BY DEF Return
  <1>2. NoJob \in Job
    BY EmptySeq DEF Job, NoJob, Genesis, Hashes
  <1>3. /\ pc'[p] = "idle" /\ \A q \in Procs \ {p} : pc'[q] = pc[q] /\ job'[q] = job[q]
        /\ pc' \in [Procs -> Busy \cup {"idle", "lock"}] /\ job' \in [Procs -> Job]
    BY <1>1, <1>2 DEF Core, Typed, TypeOK
  <1>4. /\ s \in Shards /\ e \in Events /\ e[2] = s /\ e[1] # 0
        /\ job[p].prev \in Hashes /\ job[p].seq \in Nat
    BY <1>1, ProcFacts
  <1>5. \A q \in Procs \ {p} : pc[q] \in Busy => Shard(q) # s
    BY <1>1, Alone DEF Busy
  <1>6. Typed'
    <2>1. \A q \in Procs : pc'[q] \in Busy => shardLock'[job'[q].shard] = q
      BY <1>1, <1>3, <1>5 DEF Core, Typed, TypeOK, Shard, Busy
    <2>2. QED  BY <1>1, <1>3, <1>4, <2>1 DEF Core, Typed, TypeOK, Shard, disk, bounds
  <1>7. JobsApart' /\ EventsOwned'
    BY <1>1, <1>3, SameEvents DEF disk, bounds
  <1>8. RegistryHeld'
    BY <1>1, <1>3 DEF Core, RegistryHeld, disk
  <1>9. TornKnown'
    <2>1. s \in torn => s \in glued
      BY <1>1, <1>4 DEF Core, TornKnown, Recording
    <2>2. torn \subseteq (dirty \ {s}) \cup glued \cup damaged
      BY <2>1 DEF Core, TornKnown
    <2>3. QED  BY <1>1, <1>3, <2>2 DEF Core, TornKnown, Recording, Shard, disk
  <1>10. ChainIntact' /\ LinksFit' /\ HashesRemember'
    BY <1>1, <1>3 DEF Core, ChainIntact, LinksFit, HashesRemember, Shard, disk
  <1>11. RecordInPlace'
    BY <1>1, <1>3 DEF Core, RecordInPlace, Describes, Recording, Shard, disk
  <1>12. MarksFollow'
    <2>1. s \notin damaged \cup glued => Exact(s)
      BY <1>1, <1>4 DEF Core, RecordInPlace, RegistryRemembers, Exact, Recording
    <2>2. ASSUME NEW t \in Shards \ (damaged \cup glued), t \notin dirty \ {s},
                 \A q \in Procs : pc'[q] \in Recording => job'[q].shard # t
          PROVE  Exact(t)
      <3>1. CASE t = s
        BY <2>1, <2>2, <3>1
      <3>2. CASE t # s
        BY <1>3, <2>2, <3>2 DEF Core, MarksFollow, Shard
      <3>3. QED  BY <3>1, <3>2
    <2>3. QED  BY <1>1, <2>2 DEF Core, MarksFollow, Exact, Describes, Shard, disk
  <1>13. RegistryRemembers'
    <2>1. /\ {x \in acked' : x[2] = s} = AckedIn(s) \cup {e}
          /\ \A t \in Shards \ {s} : {x \in acked' : x[2] = t} = AckedIn(t)
      BY <1>1, <1>4 DEF AckedIn
    <2>2. /\ registry[s] = NewMark(job[p]) /\ registry[s] # NoMark /\ registry[s].count > 0
          /\ ToSet(registry[s].hash) = ToSet(job[p].prev) \cup {e}
      <3>1. registry[s] = NewMark(job[p]) /\ NewMark(job[p]) # NoMark
        BY <1>1, ProcFacts, NoMarkAssumption DEF Core, RegistryRemembers
      <3>2. ToSet(EventHash(job[p].prev, e)) = ToSet(job[p].prev) \cup {e}
        BY <1>4, HashFacts
      <3>3. QED  BY <1>4, <3>1, <3>2 DEF NewMark
    <2>3. s \notin relinked => AckedIn(s) \subseteq ToSet(job[p].prev)
      BY <1>1 DEF Core, RegistryRemembers, Recording
    <2>4. ASSUME NEW t \in Shards \ relinked, {x \in acked' : x[2] = t} # {}
          PROVE  /\ registry[t] # NoMark /\ registry[t].count > 0
                 /\ {x \in acked' : x[2] = t} \subseteq ToSet(registry[t].hash)
      <3>1. CASE t = s
        BY <2>1, <2>2, <2>3, <2>4, <3>1
      <3>2. CASE t # s
        BY <2>1, <2>4, <3>2 DEF Core, RegistryRemembers
      <3>3. QED  BY <3>1, <3>2
    <2>5. ASSUME NEW q \in Procs, pc'[q] \in {"line"} \cup Recording, job'[q].shard \notin relinked
          PROVE  {x \in acked' : x[2] = job'[q].shard} \subseteq ToSet(job'[q].prev)
      <3>1. q # p /\ pc[q] = pc'[q] /\ job'[q] = job[q]
        BY <1>3, <2>5 DEF Recording
      <3>2. Shard(q) \in Shards \ {s} /\ job'[q].shard = Shard(q)
        BY <1>5, <2>5, <3>1, ProcFacts DEF Busy, Recording, Shard
      <3>3. AckedIn(Shard(q)) \subseteq ToSet(job[q].prev)
        BY <2>5, <3>1, <3>2 DEF Core, RegistryRemembers
      <3>4. QED  BY <2>1, <3>1, <3>2, <3>3 DEF AckedIn
    <2>6. QED  BY <1>1, <1>3, <1>4, <2>4, <2>5 DEF Core, RegistryRemembers, AckedIn, Shard, disk
  <1>14. QED  BY <1>6, <1>7, <1>8, <1>9, <1>10, <1>11, <1>12, <1>13 DEF Core

-----------------------------------------------------------------------------
(* Appends cut short, and files changed from outside.                      *)

\* A killed process gives up its locks, and is as if it had not come.
LEMMA StopFacts ==
  ASSUME Core, NEW p \in Procs, Stop(p), present' \in SUBSET Shards
  PROVE  /\ pc'[p] = "idle" /\ \A q \in Procs \ {p} : pc'[q] = pc[q] /\ job'[q] = job[q]
         /\ pc' \in [Procs -> Busy \cup {"idle", "lock"}] /\ job' \in [Procs -> Job]
         /\ seen' \in [Procs -> [Shards -> Mark \cup {NoMark}]]
         /\ shardLock' \in [Shards -> Procs \cup {NoProc}] /\ regLock' \in Procs \cup {NoProc}
         /\ \A q \in Procs : pc'[q] \in Busy => shardLock'[job'[q].shard] = q
         /\ registry' = registry => RegistryHeld'
  <1>1. /\ shardLock' = [s \in Shards |-> IF shardLock[s] = p THEN NoProc ELSE shardLock[s]]
        /\ regLock' = IF regLock = p THEN NoProc ELSE regLock
        /\ pc' = [pc EXCEPT ![p] = "idle"] /\ job' = [job EXCEPT ![p] = NoJob]
        /\ seen' = [seen EXCEPT ![p] = NoEntries]
    BY DEF Stop
  <1>2. NoJob \in Job
    BY EmptySeq DEF Job, NoJob, Genesis, Hashes
  <1>3. /\ pc'[p] = "idle" /\ \A q \in Procs \ {p} : pc'[q] = pc[q] /\ job'[q] = job[q]
        /\ pc' \in [Procs -> Busy \cup {"idle", "lock"}] /\ job' \in [Procs -> Job]
    BY <1>1, <1>2 DEF Core, Typed, TypeOK
  <1>4. /\ seen' \in [Procs -> [Shards -> Mark \cup {NoMark}]]
        /\ shardLock' \in [Shards -> Procs \cup {NoProc}] /\ regLock' \in Procs \cup {NoProc}
    BY <1>1 DEF Core, Typed, TypeOK, NoEntries
  <1>5. ASSUME NEW q \in Procs, pc'[q] \in Busy PROVE shardLock'[job'[q].shard] = q
    <2>1. q # p /\ pc[q] \in Busy /\ job'[q] = job[q]
      BY <1>3, <1>5 DEF Busy
    <2>2. Shard(q) \in Shards /\ shardLock[Shard(q)] = q
      BY <2>1, ProcFacts DEF Core, Typed, TypeOK, Busy
    <2>3. QED  BY <1>1, <2>1, <2>2 DEF Shard
  <1>6. registry' = registry => RegistryHeld'
    BY <1>1, <1>3 DEF Core, Typed, TypeOK, RegistryHeld
  <1>7. QED  BY <1>3, <1>4, <1>5, <1>6

LEMMA CrashCore == ASSUME Core, NEW p \in Procs, Crash(p) PROVE Core'
  <1>1. /\ pc[p] # "idle" /\ Stop(p)
        /\ dirty' = IF pc[p] \in {"tip", "reglock", "regread", "regwrite"}
                    THEN dirty \cup {Shard(p)} ELSE dirty
        /\ UNCHANGED <<disk, glued>> /\ UNCHANGED <<acked, damaged, relinked, issued>>
    BY DEF Crash, Stop
  <1>2. /\ pc'[p] = "idle" /\ \A q \in Procs \ {p} : pc'[q] = pc[q] /\ job'[q] = job[q]
        /\ RegistryHeld'
    BY <1>1, StopFacts DEF Core, Typed, TypeOK, disk
  <1>3. Typed'
    <2>1. dirty' \in SUBSET Shards
      BY <1>1, ProcFacts DEF Core, Typed
    <2>2. QED  BY <1>1, <2>1, StopFacts DEF Core, Typed, TypeOK, Shard, disk
  <1>4. JobsApart' /\ EventsOwned'
    BY <1>1, <1>2, SameEvents DEF disk
  <1>5. /\ TornKnown' /\ ChainIntact' /\ LinksFit' /\ MarksFollow' /\ RecordInPlace'
        /\ HashesRemember' /\ RegistryRemembers'
    <2>1. dirty \subseteq dirty'
      BY <1>1
    <2>2. pc[p] \in Recording \ {"return"} => Shard(p) \in dirty'
      BY <1>1 DEF Recording
    <2>3. QED  BY <1>1, <1>2, <2>1, <2>2, NoFileTouched
  <1>6. QED  BY <1>2, <1>3, <1>4, <1>5 DEF Core

\* A whole line is added by an append that goes on, or is killed after it.
LEMMA LineAdded ==
  ASSUME Core, NEW p \in Procs, pc[p] = "line", NEW s \in Shards, s = Shard(p),
         lines' = [lines EXCEPT ![s] = Append(@, NewLine(job[p]))],
         present' = present \cup {s}, unended' \in {unended, unended \cup {s}},
         UNCHANGED <<torn, glued, tip, registry, acked, damaged, relinked, issued>>,
         \A q \in Procs \ {p} : pc'[q] = pc[q] /\ job'[q] = job[q],
         dirty \subseteq dirty',
         (pc'[p] = "tip" /\ job'[p] = job[p]) \/ (pc'[p] = "idle" /\ s \in dirty')
  PROVE  /\ lines' \in [Shards -> Seq(Line)] /\ unended' \subseteq present'
         /\ JobsApart' /\ EventsOwned' /\ TornKnown' /\ ChainIntact' /\ LinksFit'
         /\ MarksFollow' /\ RecordInPlace' /\ HashesRemember' /\ RegistryRemembers'
  <1> DEFINE ls == lines[s]
             l == NewLine(job[p])
             new == Append(ls, l)
  <1>1. /\ ls \in Seq(Line) /\ l \in Line /\ Len(ls) \in Nat
        /\ lines' \in [Shards -> Seq(Line)]
        /\ lines'[s] = new /\ \A t \in Shards \ {s} : lines'[t] = lines[t]
    <2>1. ls \in Seq(Line) /\ l \in Line /\ Len(ls) \in Nat
      BY ProcFacts, LinesFacts
    <2>2. new \in Seq(Line)
      BY <2>1, AppendLine
    <2>3. QED  BY <2>1, <2>2 DEF Core, Typed, TypeOK
  <1>2. /\ new \in Seq(Line) /\ new # <<>> /\ Len(new) = Len(ls) + 1
        /\ \A i \in 1..Len(ls) : new[i] = ls[i]
        /\ new[Len(ls) + 1] = l
        /\ EventsOf(new) = EventsOf(ls) \cup {l.ev}
    BY <1>1, AppendLine
  <1>3. /\ l.ev = job[p].ev /\ l.prev = job[p].prev /\ l.seq = job[p].seq
        /\ l.hash = EventHash(l.prev, l.ev) /\ job[p].shard = s
    BY DEF NewLine, Shard
  <1>4. s \notin damaged => /\ l.prev = TailHash(ls) /\ l.seq = Len(ls)
                            /\ WalkOK(ls) /\ WalkOK(new)
    <2>1. s \notin damaged => l.prev = TailHash(ls) /\ l.seq = Len(ls)
      BY <1>3 DEF Core, LinksFit
    <2>2. s \notin damaged => WalkOK(ls)
      BY DEF Core, ChainIntact
    <2>3. QED  BY <1>1, <1>3, <2>1, <2>2, AppendLine
  <1> HIDE DEF new, l
  <1>5. \A q \in Procs \ {p} : pc'[q] \in Busy => job'[q].shard \in Shards \ {s}
    BY Alone, ProcFacts DEF Busy, Shard
  <1>6. \A i \in 1..Len(new) : i \in 1..Len(ls) \/ i = Len(ls) + 1
    BY <1>1, <1>2
  <1>7. JobsApart'
    BY DEF Core, JobsApart, Shard
  <1>8. EventsOwned'
    <2>1. l.ev[2] = s /\ l.ev[1] \in 0..issued
      <3>1. l.ev[2] = s /\ l.ev[1] \in 1..issued /\ issued \in Nat
        BY <1>3, ProcFacts, LedgerAssumption DEF Core, Typed
      <3>2. QED  BY <3>1
    <2>2. ASSUME NEW t \in Shards, NEW i \in 1..Len(lines'[t])
          PROVE  /\ lines'[t][i].ev[2] = t
                 /\ lines'[t][i].ev[1] \in (0..issued) \cup {n \in Nat : n > MaxAppends}
      <3>1. CASE t # s
        BY <1>1, <2>2, <3>1 DEF Core, EventsOwned
      <3>2. CASE t = s /\ i \in 1..Len(ls)
        BY <1>1, <1>2, <3>2 DEF Core, EventsOwned
      <3>3. CASE t = s /\ i = Len(ls) + 1
        BY <1>1, <1>2, <2>1, <3>3
      <3>4. QED  BY <1>1, <1>6, <2>2, <3>1, <3>2, <3>3
    <2>3. ASSUME NEW q \in Procs, pc'[q] \in {"lock", "tail", "line"}, NEW t \in Shards
          PROVE  job'[q].ev \notin EventsOf(lines'[t])
      <3>1. q # p /\ pc[q] = pc'[q] /\ job'[q] = job[q]
        BY <2>3
      <3>2. job[q].ev # l.ev
        BY <1>3, <2>3, <3>1 DEF Core, JobsApart
      <3>3. job[q].ev \notin EventsOf(lines[t])
        BY <2>3, <3>1 DEF Core, EventsOwned
      <3>4. CASE t = s
        <4>1. EventsOf(lines'[t]) = EventsOf(ls) \cup {l.ev}
          BY <1>1, <1>2, <3>4
        <4>2. QED  BY <3>1, <3>2, <3>3, <3>4, <4>1
      <3>5. CASE t # s
        <4>1. lines'[t] = lines[t]
          BY <1>1, <3>5
        <4>2. QED  BY <3>1, <3>3, <4>1
      <3>6. QED  BY <3>4, <3>5
    <2>4. QED  BY <2>2, <2>3 DEF EventsOwned
  <1>9. TornKnown'
    <2>1. s \notin torn
      BY DEF Core, TornKnown
    <2>2. \A q \in Procs : pc'[q] \in {"line"} \cup Recording /\ q # p =>
            pc[q] = pc'[q] /\ job'[q] = job[q]
      OBVIOUS
    <2>3. /\ \A q \in Procs : pc'[q] = "line" => job'[q].shard \notin torn
          /\ \A q \in Procs : pc'[q] \in Recording /\ job'[q].shard \in torn => job'[q].shard \in glued
      BY <1>3, <2>1 DEF Core, TornKnown, Shard, Recording
    <2>4. /\ \A t \in Shards : lines'[t] # <<>> => t \in present'
          /\ \A t \in unended' : lines'[t] # <<>>
      <3>1. unended \subseteq Shards
        BY DEF Core, Typed, TypeOK
      <3>2. QED  BY <1>1, <1>2, <3>1 DEF Core, TornKnown
    <2>5. torn \subseteq dirty' \cup glued \cup damaged
      BY DEF Core, TornKnown
    <2>6. QED  BY <2>3, <2>4, <2>5 DEF TornKnown, Shard
  <1>10. ChainIntact'
    BY <1>1, <1>4 DEF Core, ChainIntact
  <1>11. LinksFit'
    <2>1. ASSUME NEW q \in Procs, pc'[q] = "line", job'[q].shard \notin damaged
          PROVE  /\ job'[q].prev = TailHash(lines'[job'[q].shard])
                 /\ job'[q].seq = Len(lines'[job'[q].shard])
      <3>1. q # p /\ pc[q] = "line" /\ job'[q] = job[q]
        BY <2>1
      <3>2. job'[q].shard \in Shards \ {s}
        BY <1>5, <2>1, <3>1 DEF Busy
      <3>3. QED  BY <1>1, <2>1, <3>1, <3>2 DEF Core, LinksFit, Shard
    <2>2. QED  BY <2>1 DEF LinksFit, Shard
  <1>12. MarksFollow'
    <2>1. \A m : Describes(m, ls) => Describes(m, new)
      <3>1. \A i \in 1..Len(ls) : i \in 1..Len(new)
        BY <1>1, <1>2
      <3>2. QED  BY <1>2, <3>1 DEF Describes
    <2>2. ASSUME NEW t \in Shards \ (damaged \cup glued)
          PROVE  /\ \A m \in {tip[t], registry[t]} \ {NoMark} : Describes(m, lines'[t])
                 /\ registry[t] # NoMark => tip[t] # NoMark /\ registry[t].count <= tip[t].count
      BY <1>1, <2>1 DEF Core, MarksFollow
    <2>3. ASSUME NEW t \in Shards \ (damaged \cup glued), t \notin dirty',
                 \A q \in Procs : pc'[q] \in Recording => job'[q].shard # t
          PROVE  tip[t] # NoMark => tip[t].count = Len(lines'[t]) /\ registry[t] = tip[t]
      <3>1. t # s
        BY <1>3, <2>3 DEF Recording
      <3>2. \A q \in Procs : pc[q] \in Recording => Shard(q) # t
        BY <2>3 DEF Recording, Shard
      <3>3. QED  BY <1>1, <2>3, <3>1, <3>2 DEF Core, MarksFollow, Exact
    <2>4. QED  BY <2>2, <2>3 DEF MarksFollow, Exact, Shard
  <1>13. RecordInPlace'
    <2>1. ASSUME NEW q \in Procs, pc'[q] \in Recording, job'[q].shard \notin damaged \cup glued
          PROVE  /\ Describes(NewMark(job'[q]), lines'[job'[q].shard])
                 /\ NewMark(job'[q]).count = Len(lines'[job'[q].shard])
                 /\ pc'[q] # "tip" => tip[job'[q].shard] = NewMark(job'[q])
      <3>1. CASE q = p
        <4>1. pc'[p] = "tip" /\ job'[p] = job[p]
          BY <2>1, <3>1 DEF Recording
        <4>2. NewMark(job[p]).count = Len(new) /\ NewMark(job[p]).hash = l.hash
          BY <1>1, <1>2, <1>3, <1>4, <2>1, <3>1, <4>1 DEF NewMark
        <4>3. Describes(NewMark(job[p]), new)
          BY <1>1, <1>2, <4>2 DEF Describes
        <4>4. QED  BY <1>1, <1>3, <3>1, <4>1, <4>2, <4>3
      <3>2. CASE q # p
        <4>1. pc[q] = pc'[q] /\ job'[q] = job[q] /\ job'[q].shard \in Shards \ {s}
          BY <1>5, <2>1, <3>2 DEF Busy, Recording
        <4>2. QED  BY <1>1, <2>1, <4>1 DEF Core, RecordInPlace, Shard
      <3>3. QED  BY <3>1, <3>2
    <2>2. QED  BY <2>1 DEF RecordInPlace, Shard
  <1>14. HashesRemember'
    <2>1. /\ EventsOf(ls) \subseteq ToSet(job[p].prev) \cup {Garbled(s)}
          /\ ToSet(l.hash) = ToSet(job[p].prev) \cup {l.ev}
      <3>1. job[p].prev \in Hashes /\ job[p].ev \in Events
        BY ProcFacts
      <3>2. QED  BY <1>3, <3>1, HashFacts DEF Core, HashesRemember
    <2>2. ASSUME NEW i \in 1..Len(new), NEW j \in 1..i
          PROVE  new[j].ev \in ToSet(new[i].hash) \cup {Garbled(s)}
      <3>1. CASE i \in 1..Len(ls)
        <4>1. j \in 1..Len(ls)
          BY <1>1, <3>1
        <4>2. QED  BY <1>2, <3>1, <4>1 DEF Core, HashesRemember
      <3>2. CASE i = Len(ls) + 1
        <4>1. j \in 1..Len(ls) \/ j = Len(ls) + 1
          BY <1>1, <3>2
        <4>2. new[j].ev \in EventsOf(ls) \cup {l.ev} /\ new[i] = l
          BY <1>2, <3>2, <4>1 DEF EventsOf
        <4>3. QED  BY <2>1, <4>2
      <3>3. QED  BY <1>6, <3>1, <3>2
    <2>3. ASSUME NEW q \in Procs, pc'[q] = "line"
          PROVE  EventsOf(lines'[job'[q].shard]) \subseteq
                   ToSet(job'[q].prev) \cup {Garbled(job'[q].shard)}
      <3>1. q # p /\ pc[q] = "line" /\ job'[q] = job[q] /\ job'[q].shard \in Shards \ {s}
        BY <1>5, <2>3 DEF Busy
      <3>2. QED  BY <1>1, <3>1 DEF Core, HashesRemember, Shard
    <2>4. \A t \in Shards : \A i \in 1..Len(lines'[t]) : \A j \in 1..i :
            lines'[t][j].ev \in ToSet(lines'[t][i].hash) \cup {Garbled(t)}
      BY <1>1, <2>2 DEF Core, HashesRemember
    <2>5. QED  BY <2>3, <2>4 DEF HashesRemember, Shard, Garbled
  <1>15. RegistryRemembers'
    BY DEF Core, RegistryRemembers, AckedIn, Recording, Shard
  <1>16. unended' \subseteq present'
    BY DEF Core, Typed, TypeOK
  <1>17. QED  BY <1>1, <1>7, <1>8, <1>9, <1>10, <1>11, <1>12, <1>13, <1>14, <1>15, <1>16

\* A line is written onto one without a newline: both are lost.
LEMMA LineGlued ==
  ASSUME Core, NEW p \in Procs, pc[p] = "line", NEW s \in Shards, s = Shard(p), Glue(s),
         present' = present \cup {s},
         UNCHANGED <<tip, registry, acked, damaged, relinked, issued>>,
         \A q \in Procs \ {p} : pc'[q] = pc[q] /\ job'[q] = job[q],
         dirty \subseteq dirty',
         (pc'[p] = "tip" /\ job'[p] = job[p]) \/ pc'[p] = "idle"
  PROVE  /\ lines' \in [Shards -> Seq(Line)] /\ unended' \subseteq present'
         /\ torn' \in SUBSET Shards /\ glued' \in SUBSET Shards
         /\ JobsApart' /\ EventsOwned' /\ TornKnown' /\ ChainIntact' /\ LinksFit'
         /\ MarksFollow' /\ RecordInPlace' /\ HashesRemember' /\ RegistryRemembers'
  <1> DEFINE ls == lines[s]
             new == Front(ls)
  <1>1. /\ s \in unended /\ unended' = unended \ {s} /\ lines' = [lines EXCEPT ![s] = Front(@)]
        /\ torn' = torn \cup {s} /\ glued' = glued \cup {s}
    BY DEF Glue
  <1>2. ls \in Seq(Line) /\ ls # <<>> /\ Len(ls) \in Nat
    BY <1>1, LinesFacts DEF Core, Typed, TypeOK, TornKnown
  <1>3. /\ new \in Seq(Line) /\ Len(new) = Len(ls) - 1
        /\ \A i \in 1..(Len(ls) - 1) : new[i] = ls[i]
        /\ EventsOf(new) \subseteq EventsOf(ls)
        /\ WalkOK(ls) => WalkOK(new)
    BY <1>2, FrontLine
  <1>4. /\ lines' \in [Shards -> Seq(Line)]
        /\ lines'[s] = new /\ \A t \in Shards \ {s} : lines'[t] = lines[t]
    BY <1>1, <1>3 DEF Core, Typed, TypeOK
  <1> HIDE DEF new
  <1>5. \A q \in Procs \ {p} : pc'[q] \in Busy => job'[q].shard \in Shards \ {s}
    BY Alone, ProcFacts DEF Busy, Shard
  <1>6. \A i \in 1..Len(new) : i \in 1..Len(ls) /\ new[i] = ls[i]
    BY <1>2, <1>3
  <1>7. JobsApart'
    BY DEF Core, JobsApart, Shard
  <1>8. EventsOwned'
    <2>1. \A t \in Shards : EventsOf(lines'[t]) \subseteq EventsOf(lines[t])
      BY <1>3, <1>4
    <2>2. ASSUME NEW t \in Shards, NEW i \in 1..Len(lines'[t])
          PROVE  i \in 1..Len(lines[t]) /\ lines'[t][i] = lines[t][i]
      BY <1>4, <1>6, <2>2
    <2>3. \A q \in Procs : pc'[q] \in {"lock", "tail", "line"} =>
            pc[q] = pc'[q] /\ job'[q] = job[q]
      OBVIOUS
    <2>4. \A t \in Shards : \A i \in 1..Len(lines'[t]) :
            /\ lines'[t][i].ev[2] = t
            /\ lines'[t][i].ev[1] \in (0..issued) \cup {n \in Nat : n > MaxAppends}
      BY <2>2 DEF Core, EventsOwned
    <2>5. \A q \in Procs : pc'[q] \in {"lock", "tail", "line"} =>
            \A t \in Shards : job'[q].ev \notin EventsOf(lines'[t])
      BY <2>1, <2>3 DEF Core, EventsOwned
    <2>6. QED  BY <2>4, <2>5 DEF EventsOwned
  <1>9. TornKnown'
    <2>1. /\ \A q \in Procs : pc'[q] = "line" => job'[q].shard \notin torn'
          /\ \A q \in Procs : pc'[q] \in Recording /\ job'[q].shard \in torn' => job'[q].shard \in glued'
      <3>1. \A q \in Procs : pc'[q] = "line" => job'[q].shard \notin torn'
        BY <1>1, <1>5 DEF Core, TornKnown, Shard, Busy
      <3>2. ASSUME NEW q \in Procs, pc'[q] \in Recording, job'[q].shard \in torn'
            PROVE  job'[q].shard \in glued'
        <4>1. CASE q = p
          BY <1>1, <3>2, <4>1 DEF Recording, Shard
        <4>2. CASE q # p
          BY <1>1, <3>2, <4>2 DEF Core, TornKnown, Shard
        <4>3. QED  BY <4>1, <4>2
      <3>3. QED  BY <3>1, <3>2
    <2>2. /\ \A t \in Shards : lines'[t] # <<>> => t \in present'
          /\ \A t \in unended' : lines'[t] # <<>>
      <3>1. unended \subseteq Shards
        BY DEF Core, Typed, TypeOK
      <3>2. QED  BY <1>1, <1>4, <3>1 DEF Core, TornKnown
    <2>3. torn' \subseteq dirty' \cup glued' \cup damaged
      BY <1>1 DEF Core, TornKnown
    <2>4. QED  BY <2>1, <2>2, <2>3 DEF TornKnown, Shard
  <1>10. ChainIntact'
    BY <1>3, <1>4 DEF Core, ChainIntact
  <1>11. LinksFit'
    <2>1. ASSUME NEW q \in Procs, pc'[q] = "line", job'[q].shard \notin damaged
          PROVE  /\ job'[q].prev = TailHash(lines'[job'[q].shard])
                 /\ job'[q].seq = Len(lines'[job'[q].shard])
      <3>1. pc[q] = "line" /\ job'[q] = job[q] /\ job'[q].shard \in Shards \ {s}
        BY <1>5, <2>1 DEF Busy
      <3>2. QED  BY <1>4, <2>1, <3>1 DEF Core, LinksFit, Shard
    <2>2. QED  BY <2>1 DEF LinksFit, Shard
  <1>12. MarksFollow'
    <2>1. ASSUME NEW t \in Shards \ (damaged \cup glued')
          PROVE  /\ lines'[t] = lines[t]
                 /\ (\A q \in Procs : pc'[q] \in Recording => job'[q].shard # t)
                      => \A q \in Procs : pc[q] \in Recording => Shard(q) # t
      BY <1>1, <1>4, <2>1 DEF Recording, Shard
    <2>2. QED  BY <1>1, <2>1 DEF Core, MarksFollow, Exact, Shard
  <1>13. RecordInPlace'
    <2>1. ASSUME NEW q \in Procs, pc'[q] \in Recording, job'[q].shard \notin damaged \cup glued'
          PROVE  /\ Describes(NewMark(job'[q]), lines'[job'[q].shard])
                 /\ NewMark(job'[q]).count = Len(lines'[job'[q].shard])
                 /\ pc'[q] # "tip" => tip[job'[q].shard] = NewMark(job'[q])
      <3>1. q # p
        BY <1>1, <2>1 DEF Recording, Shard
      <3>2. pc[q] = pc'[q] /\ job'[q] = job[q] /\ job'[q].shard \in Shards \ {s}
        BY <1>5, <2>1, <3>1 DEF Busy, Recording
      <3>3. QED  BY <1>1, <1>4, <2>1, <3>2 DEF Core, RecordInPlace, Shard
    <2>2. QED  BY <2>1 DEF RecordInPlace, Shard
  <1>14. HashesRemember'
    <2>1. ASSUME NEW i \in 1..Len(new), NEW j \in 1..i
          PROVE  new[j].ev \in ToSet(new[i].hash) \cup {Garbled(s)}
      <3>1. i \in 1..Len(ls) /\ new[i] = ls[i] /\ new[j] = ls[j]
        <4>1. j \in 1..Len(new)
          BY <1>2, <1>3
        <4>2. QED  BY <1>6, <4>1
      <3>2. QED  BY <3>1 DEF Core, HashesRemember
    <2>2. ASSUME NEW q \in Procs, pc'[q] = "line"
          PROVE  EventsOf(lines'[job'[q].shard]) \subseteq
                   ToSet(job'[q].prev) \cup {Garbled(job'[q].shard)}
      <3>1. pc[q] = "line" /\ job'[q] = job[q] /\ job'[q].shard \in Shards \ {s}
        BY <1>5, <2>2 DEF Busy
      <3>2. QED  BY <1>4, <3>1 DEF Core, HashesRemember, Shard
    <2>3. \A t \in Shards : \A i \in 1..Len(lines'[t]) : \A j \in 1..i :
            lines'[t][j].ev \in ToSet(lines'[t][i].hash) \cup {Garbled(t)}
      BY <1>4, <2>1 DEF Core, HashesRemember
    <2>4. QED  BY <2>2, <2>3 DEF HashesRemember, Shard, Garbled
  <1>15. RegistryRemembers'
    BY DEF Core, RegistryRemembers, AckedIn, Recording, Shard
  <1>16. unended' \subseteq present' /\ torn' \in SUBSET Shards /\ glued' \in SUBSET Shards
    BY <1>1 DEF Core, Typed, TypeOK
  <1>17. QED  BY <1>4, <1>7, <1>8, <1>9, <1>10, <1>11, <1>12, <1>13, <1>14, <1>15, <1>16

\* Part of a line reaches the disk: the shard takes no more of them.
LEMMA LineTorn ==
  ASSUME Core, NEW p \in Procs, pc[p] = "line", NEW s \in Shards, s = Shard(p),
         torn' = torn \cup {s}, present' = present \cup {s},
         UNCHANGED <<lines, unended, glued, tip, registry, acked, damaged, relinked, issued>>,
         pc'[p] = "idle", \A q \in Procs \ {p} : pc'[q] = pc[q] /\ job'[q] = job[q],
         dirty' = dirty \cup {s}
  PROVE  /\ JobsApart' /\ EventsOwned' /\ TornKnown' /\ ChainIntact' /\ LinksFit'
         /\ MarksFollow' /\ RecordInPlace' /\ HashesRemember' /\ RegistryRemembers'
  <1>1. \A q \in Procs \ {p} : pc'[q] \in Busy => job'[q].shard # s
    BY Alone, ProcFacts DEF Busy, Shard
  <1>2. JobsApart' /\ EventsOwned'
    BY SameEvents
  <1>3. TornKnown'
    <2>1. /\ \A q \in Procs : pc'[q] = "line" => job'[q].shard \notin torn'
          /\ \A q \in Procs : pc'[q] \in Recording /\ job'[q].shard \in torn' => job'[q].shard \in glued
      BY <1>1 DEF Core, TornKnown, Shard, Busy, Recording
    <2>2. QED  BY <2>1 DEF Core, TornKnown, Shard
  <1>4. ChainIntact' /\ LinksFit'
    BY DEF Core, ChainIntact, LinksFit, Shard
  <1>5. MarksFollow'
    BY DEF Core, MarksFollow, Exact, Describes, Recording, Shard
  <1>6. RecordInPlace'
    BY DEF Core, RecordInPlace, Describes, Recording, Shard
  <1>7. HashesRemember' /\ RegistryRemembers'
    BY DEF Core, HashesRemember, RegistryRemembers, AckedIn, Recording, Shard
  <1>8. QED  BY <1>2, <1>3, <1>4, <1>5, <1>6, <1>7

LEMMA WriteLineCore == ASSUME Core, NEW p \in Procs, WriteLine(p) PROVE Core'
  <1>1. /\ pc[p] = "line" /\ (AddLine(p) \/ Glue(Shard(p)))
        /\ present' = present \cup {Shard(p)} /\ pc' = [pc EXCEPT ![p] = "tip"]
        /\ UNCHANGED <<tip, registry, locks, job, seen, acked, dirty, damaged, relinked, bounds>>
    BY DEF WriteLine
  <1>2. /\ Shard(p) \in Shards /\ pc'[p] = "tip" /\ \A q \in Procs \ {p} : pc'[q] = pc[q]
        /\ pc' \in [Procs -> Busy \cup {"idle", "lock"}] /\ job' = job
    BY <1>1, ProcFacts DEF Core, Typed, TypeOK, Busy
  <1>3. /\ lines' \in [Shards -> Seq(Line)] /\ unended' \subseteq present'
        /\ torn' \in SUBSET Shards /\ glued' \in SUBSET Shards
        /\ JobsApart' /\ EventsOwned' /\ TornKnown' /\ ChainIntact' /\ LinksFit'
        /\ MarksFollow' /\ RecordInPlace' /\ HashesRemember' /\ RegistryRemembers'
    <2>1. CASE AddLine(p)
      <3>1. /\ lines' = [lines EXCEPT ![Shard(p)] = Append(@, NewLine(job[p]))]
            /\ UNCHANGED <<torn, unended, glued>>
        BY <2>1 DEF AddLine
      <3>2. torn \in SUBSET Shards /\ glued \in SUBSET Shards
        BY DEF Core, Typed, TypeOK
      <3>3. QED  BY <1>1, <1>2, <3>1, <3>2, LineAdded DEF bounds
    <2>2. CASE Glue(Shard(p))
      BY <1>1, <1>2, <2>2, LineGlued DEF bounds
    <2>3. QED  BY <1>1, <2>1, <2>2
  <1>4. Typed'
    <2>1. present' \in SUBSET Shards
      BY <1>1, <1>2 DEF Core, Typed, TypeOK
    <2>2. QED  BY <1>1, <1>2, <1>3, <2>1 DEF Core, Typed, TypeOK, Shard, Busy, locks, bounds
  <1>5. RegistryHeld'
    BY <1>1, <1>2 DEF Core, RegistryHeld, locks
  <1>6. QED  BY <1>3, <1>4, <1>5 DEF Core

LEMMA CrashWritingCore == ASSUME Core, NEW p \in Procs, CrashWriting(p) PROVE Core'
  <1>1. /\ pc[p] = "line" /\ Stop(p)
        /\ present' = present \cup {Shard(p)} /\ dirty' = dirty \cup {Shard(p)}
        /\ UNCHANGED <<tip, registry>> /\ UNCHANGED <<acked, damaged, relinked, issued>>
    BY DEF CrashWriting, Stop
  <1>2. Shard(p) \in Shards /\ present' \in SUBSET Shards /\ dirty' \in SUBSET Shards
    BY <1>1, ProcFacts DEF Core, Typed, TypeOK
  <1>3. /\ pc'[p] = "idle" /\ \A q \in Procs \ {p} : pc'[q] = pc[q] /\ job'[q] = job[q]
        /\ RegistryHeld'
    BY <1>1, <1>2, StopFacts
  <1>4. torn \in SUBSET Shards /\ glued \in SUBSET Shards /\ unended \subseteq present
    BY DEF Core, Typed, TypeOK
  <1>5. /\ lines' \in [Shards -> Seq(Line)] /\ unended' \subseteq present'
        /\ torn' \in SUBSET Shards /\ glued' \in SUBSET Shards
        /\ JobsApart' /\ EventsOwned' /\ TornKnown' /\ ChainIntact' /\ LinksFit'
        /\ MarksFollow' /\ RecordInPlace' /\ HashesRemember' /\ RegistryRemembers'
    <2>1. CASE torn' = torn \cup {Shard(p)} /\ UNCHANGED <<lines, unended, glued>>
      <3>1. lines \in [Shards -> Seq(Line)]
        BY DEF Core, Typed, TypeOK
      <3>2. QED  BY <1>1, <1>2, <1>3, <1>4, <2>1, <3>1, LineTorn
    <2>2. CASE /\ lines' = [lines EXCEPT ![Shard(p)] = Append(@, NewLine(job[p]))]
               /\ unended' = unended \cup {Shard(p)} /\ UNCHANGED <<torn, glued>>
      BY <1>1, <1>2, <1>3, <1>4, <2>2, LineAdded
    <2>3. CASE Glue(Shard(p))
      <3>1. dirty \subseteq dirty'
        BY <1>1
      <3>2. QED  BY <1>1, <1>2, <1>3, <2>3, <3>1, LineGlued
    <2>4. QED  BY <2>1, <2>2, <2>3 DEF CrashWriting
  <1>6. Typed'
    BY <1>1, <1>2, <1>5, StopFacts DEF Core, Typed, TypeOK, Shard
  <1>7. QED  BY <1>3, <1>5, <1>6 DEF Core

\* What the three kinds of fault have in common.
LEMMA FaultFacts ==
  ASSUME Core, NEW s \in Shards, Fault(s)
  PROVE  /\ lines' \in [Shards -> Seq(Line)] /\ \A t \in Shards \ {s} : lines'[t] = lines[t]
         /\ EventsOf(lines'[s]) \subseteq EventsOf(lines[s]) \cup {Garbled(s)}
         /\ \A i \in 1..Len(lines'[s]) : \A j \in 1..i :
              lines'[s][j].ev \in ToSet(lines'[s][i].hash) \cup {Garbled(s)}
         /\ present' \in {present, present \ {s}} /\ torn' \in {torn, torn \ {s}}
         /\ unended' \in {unended, unended \ {s}}
         /\ s \in unended' => lines'[s] # <<>>
         /\ lines'[s] # <<>> => s \in present'
         /\ s \in unended' => s \in present'
         /\ tip' \in [Shards -> Mark \cup {NoMark}] /\ \A t \in Shards \ {s} : tip'[t] = tip[t]
  <1> DEFINE ls == lines[s]
  <1>1. /\ s \in present /\ ls \in Seq(Line) /\ Len(ls) \in Nat
        /\ lines \in [Shards -> Seq(Line)] /\ tip \in [Shards -> Mark \cup {NoMark}]
        /\ \A i \in 1..Len(ls) : ls[i] \in Line
    BY LinesFacts DEF Fault, Core, Typed, TypeOK
  <1>2. \A i \in 1..Len(ls) : \A j \in 1..i : ls[j].ev \in ToSet(ls[i].hash) \cup {Garbled(s)}
    BY DEF Core, HashesRemember
  <1>3. ASSUME NEW i \in 1..Len(ls), lines' = [lines EXCEPT ![s] = RemoveAt(@, i)],
               unended' = IF i = Len(ls) THEN unended \ {s} ELSE unended,
               UNCHANGED <<present, tip, torn>>
        PROVE  /\ lines' \in [Shards -> Seq(Line)] /\ \A t \in Shards \ {s} : lines'[t] = lines[t]
               /\ EventsOf(lines'[s]) \subseteq EventsOf(ls) \cup {Garbled(s)}
               /\ \A k \in 1..Len(lines'[s]) : \A j \in 1..k :
                    lines'[s][j].ev \in ToSet(lines'[s][k].hash) \cup {Garbled(s)}
               /\ s \in unended' => lines'[s] # <<>>
    <2> DEFINE new == RemoveAt(ls, i)
    <2>1. /\ new \in Seq(Line) /\ Len(new) = Len(ls) - 1 /\ EventsOf(new) \subseteq EventsOf(ls)
          /\ \A j \in 1..(Len(ls) - 1) : new[j] = IF j < i THEN ls[j] ELSE ls[j + 1]
      BY <1>1, RemoveLine
    <2> HIDE DEF new
    <2>2. lines'[s] = new /\ lines' \in [Shards -> Seq(Line)]
      BY <1>1, <1>3, <2>1 DEF new
    <2>3. ASSUME NEW k \in 1..Len(new), NEW j \in 1..k
          PROVE  new[j].ev \in ToSet(new[k].hash) \cup {Garbled(s)}
      <3>1. PICK a \in 1..Len(ls), b \in 1..Len(ls) : b <= a /\ new[j] = ls[b] /\ new[k] = ls[a]
        <4>1. /\ j \in 1..(Len(ls) - 1) /\ k \in 1..(Len(ls) - 1) /\ j <= k
              /\ i \in Nat /\ j \in Nat /\ k \in Nat
          BY <1>1, <2>1
        <4>2. /\ new[j] = IF j < i THEN ls[j] ELSE ls[j + 1]
              /\ new[k] = IF k < i THEN ls[k] ELSE ls[k + 1]
          BY <2>1, <4>1
        <4>3. /\ j \in 1..Len(ls) /\ j + 1 \in 1..Len(ls) /\ k \in 1..Len(ls) /\ k + 1 \in 1..Len(ls)
              /\ j <= k + 1 /\ j + 1 <= k + 1
          BY <1>1, <4>1
        <4>4. ~(k < i /\ ~(j < i))
          BY <4>1
        <4>5. CASE k < i
          BY <4>1, <4>2, <4>3, <4>4, <4>5
        <4>6. CASE ~(k < i) /\ j < i
          BY <4>2, <4>3, <4>6
        <4>7. CASE ~(k < i) /\ ~(j < i)
          BY <4>2, <4>3, <4>7
        <4>8. QED  BY <4>5, <4>6, <4>7
      <3>2. b \in 1..a
        BY <3>1
      <3>3. QED  BY <1>2, <3>1, <3>2
    <2>4. s \in unended' => new # <<>>
      <3>1. s \in unended' => Len(new) > 0
        BY <1>1, <1>3, <2>1
      <3>2. QED  BY <2>1, <3>1, LinesFacts
    <2>5. QED  BY <1>3, <2>1, <2>2, <2>3, <2>4
  <1>4. ASSUME NEW i \in 1..Len(ls), lines' = [lines EXCEPT ![s][i].ev = Garbled(s)],
               UNCHANGED <<present, tip, torn, unended>>
        PROVE  /\ lines' \in [Shards -> Seq(Line)] /\ \A t \in Shards \ {s} : lines'[t] = lines[t]
               /\ EventsOf(lines'[s]) \subseteq EventsOf(ls) \cup {Garbled(s)}
               /\ \A k \in 1..Len(lines'[s]) : \A j \in 1..k :
                    lines'[s][j].ev \in ToSet(lines'[s][k].hash) \cup {Garbled(s)}
               /\ s \in unended' => lines'[s] # <<>>
    <2> DEFINE l == [ls[i] EXCEPT !.ev = Garbled(s)]
               new == [ls EXCEPT ![i] = l]
    <2>1. l \in Line /\ l.ev = Garbled(s) /\ l.hash = ls[i].hash
      <3>1. Garbled(s) \in Events
        BY LedgerAssumption DEF Garbled, Events
      <3>2. QED  BY <1>1, <3>1 DEF Line
    <2> HIDE DEF l
    <2>2. /\ new \in Seq(Line) /\ Len(new) = Len(ls)
          /\ \A k \in 1..Len(ls) : new[k] = IF k = i THEN l ELSE ls[k]
      BY <1>1, <2>1, ExceptSeq
    <2> HIDE DEF new
    <2>3. lines'[s] = new /\ lines' = [lines EXCEPT ![s] = new]
      BY <1>1, <1>4 DEF l, new
    <2>4. \A k \in 1..Len(ls) : /\ new[k].ev \in {ls[k].ev, Garbled(s)}
                                /\ new[k].hash = ls[k].hash
      BY <2>1, <2>2
    <2>5. EventsOf(new) \subseteq EventsOf(ls) \cup {Garbled(s)}
      BY <2>2, <2>4 DEF EventsOf
    <2>6. ASSUME NEW k \in 1..Len(new), NEW j \in 1..k
          PROVE  new[j].ev \in ToSet(new[k].hash) \cup {Garbled(s)}
      <3>1. k \in 1..Len(ls) /\ j \in 1..Len(ls)
        BY <1>1, <2>2
      <3>2. QED  BY <1>2, <2>4, <3>1
    <2>7. new # <<>>
      <3>1. Len(new) # 0
        BY <1>1, <2>2
      <3>2. QED  BY <2>2, <3>1, LinesFacts
    <2>8. QED  BY <1>1, <2>2, <2>3, <2>5, <2>6, <2>7
  <1>5. ASSUME lines' = [lines EXCEPT ![s] = <<>>], unended' = unended \ {s}
        PROVE  /\ lines' \in [Shards -> Seq(Line)] /\ \A t \in Shards \ {s} : lines'[t] = lines[t]
               /\ EventsOf(lines'[s]) \subseteq EventsOf(ls) \cup {Garbled(s)}
               /\ \A k \in 1..Len(lines'[s]) : \A j \in 1..k :
                    lines'[s][j].ev \in ToSet(lines'[s][k].hash) \cup {Garbled(s)}
               /\ s \in unended' => lines'[s] # <<>>
    <2>1. lines'[s] = <<>> /\ <<>> \in Seq(Line) /\ Len(<<>>) = 0
      BY <1>1, <1>5, EmptySeq
    <2>2. QED  BY <1>1, <1>5, <2>1 DEF EventsOf
  <1>6. /\ lines' \in [Shards -> Seq(Line)] /\ \A t \in Shards \ {s} : lines'[t] = lines[t]
        /\ EventsOf(lines'[s]) \subseteq EventsOf(ls) \cup {Garbled(s)}
        /\ \A k \in 1..Len(lines'[s]) : \A j \in 1..k :
             lines'[s][j].ev \in ToSet(lines'[s][k].hash) \cup {Garbled(s)}
        /\ s \in unended' => lines'[s] # <<>>
    BY <1>3, <1>4, <1>5 DEF Fault
  <1>7. /\ present' \in {present, present \ {s}} /\ torn' \in {torn, torn \ {s}}
        /\ unended' \in {unended, unended \ {s}}
        /\ lines'[s] # <<>> => s \in present'
        /\ s \in unended' => s \in present'
        /\ tip' \in [Shards -> Mark \cup {NoMark}] /\ \A t \in Shards \ {s} : tip'[t] = tip[t]
    BY <1>1 DEF Fault
  <1>8. QED  BY <1>6, <1>7

LEMMA FaultCore == ASSUME Core, NEW s \in Shards, Fault(s) PROVE Core'
  <1>1. /\ damaged' = damaged \cup {s}
        /\ UNCHANGED <<registry, locks, pc, job, seen, acked, dirty, relinked, glued, issued, crashes>>
    BY DEF Fault
  <1>2. Typed'
    BY <1>1, FaultFacts DEF Core, Typed, TypeOK, Shard, locks
  <1>3. JobsApart' /\ RegistryHeld'
    BY <1>1 DEF Core, JobsApart, RegistryHeld, Shard, locks
  <1>4. \A t \in Shards : EventsOf(lines'[t]) \subseteq EventsOf(lines[t]) \cup {Garbled(t)}
    BY FaultFacts
  <1>5. EventsOwned'
    <2>1. ASSUME NEW t \in Shards, NEW i \in 1..Len(lines'[t])
          PROVE  /\ lines'[t][i].ev[2] = t
                 /\ lines'[t][i].ev[1] \in (0..issued) \cup {n \in Nat : n > MaxAppends}
      <3>1. lines'[t][i].ev \in EventsOf(lines[t]) \cup {Garbled(t)}
        BY <1>4 DEF EventsOf
      <3>2. CASE lines'[t][i].ev \in EventsOf(lines[t])
        BY <3>2 DEF EventsOf, Core, EventsOwned
      <3>3. CASE lines'[t][i].ev = Garbled(t)
        <4>1. 0 \in 0..issued
          BY LedgerAssumption DEF Core, Typed
        <4>2. QED  BY <3>3, <4>1 DEF Garbled
      <3>4. QED  BY <3>1, <3>2, <3>3
    <2>2. ASSUME NEW q \in Procs, pc[q] \in {"lock", "tail", "line"}, NEW t \in Shards
          PROVE  job[q].ev \notin EventsOf(lines'[t])
      <3>1. job[q].ev \notin EventsOf(lines[t]) /\ job[q].ev # Garbled(t)
        BY <2>2, ProcFacts DEF Core, EventsOwned, Garbled
      <3>2. QED  BY <1>4, <3>1
    <2>3. QED  BY <1>1, <2>1, <2>2 DEF EventsOwned
  <1>6. TornKnown'
    <2>1. /\ \A t \in Shards : lines'[t] # <<>> => t \in present'
          /\ \A t \in unended' : lines'[t] # <<>>
          /\ torn' \subseteq torn
      <3>1. unended \subseteq Shards
        BY DEF Core, Typed, TypeOK
      <3>2. QED  BY <3>1, FaultFacts DEF Core, TornKnown
    <2>2. QED  BY <1>1, <2>1 DEF Core, TornKnown, Shard
  <1>7. ChainIntact' /\ LinksFit' /\ MarksFollow' /\ RecordInPlace'
    <2>1. \A t \in Shards \ damaged' : lines'[t] = lines[t] /\ tip'[t] = tip[t] /\ t \notin damaged
      BY <1>1, FaultFacts
    <2>2. ChainIntact'
      BY <2>1 DEF Core, ChainIntact
    <2>3. LinksFit'
      BY <1>1, <2>1, ProcFacts DEF Core, LinksFit, Shard
    <2>4. MarksFollow'
      BY <1>1, <2>1 DEF Core, MarksFollow, Exact, Describes, Shard
    <2>5. RecordInPlace'
      BY <1>1, <2>1, ProcFacts DEF Core, RecordInPlace, Describes, Recording, Shard
    <2>6. QED  BY <2>2, <2>3, <2>4, <2>5
  <1>8. HashesRemember'
    <2>1. \A t \in Shards : \A i \in 1..Len(lines'[t]) : \A j \in 1..i :
            lines'[t][j].ev \in ToSet(lines'[t][i].hash) \cup {Garbled(t)}
      BY FaultFacts DEF Core, HashesRemember
    <2>2. \A q \in Procs : pc[q] = "line" =>
            EventsOf(lines'[Shard(q)]) \subseteq ToSet(job[q].prev) \cup {Garbled(Shard(q))}
      BY <1>4, ProcFacts DEF Core, HashesRemember
    <2>3. QED  BY <1>1, <2>1, <2>2 DEF HashesRemember, Shard, Garbled
  <1>9. RegistryRemembers'
    BY <1>1 DEF Core, RegistryRemembers, AckedIn, Recording, Shard
  <1>10. QED  BY <1>2, <1>3, <1>5, <1>6, <1>7, <1>8, <1>9 DEF Core

-----------------------------------------------------------------------------
(* `log verify`.                                                           *)

\* The files, the appends and what is remembered of them.
ledger == <<disk, locks, pc, job, seen, ghosts, bounds>>

LEMMA CoreKept == ASSUME Core, UNCHANGED ledger PROVE Core'
  <1>1. UNCHANGED <<present, lines, torn, unended, tip, registry, shardLock, regLock, pc, job,
                    seen, issued, acked, dirty, damaged, relinked, glued>>
    BY DEF ledger, disk, locks, ghosts, bounds
  <1>2. Typed'
    BY <1>1 DEF Core, Typed, TypeOK, Shard
  <1>3. JobsApart' /\ RegistryHeld' /\ EventsOwned' /\ TornKnown'
    BY <1>1 DEF Core, JobsApart, RegistryHeld, EventsOwned, TornKnown, Shard
  <1>4. ChainIntact' /\ LinksFit' /\ HashesRemember'
    BY <1>1 DEF Core, ChainIntact, LinksFit, HashesRemember, Shard
  <1>5. MarksFollow' /\ RecordInPlace'
    BY <1>1 DEF Core, MarksFollow, RecordInPlace, Exact, Describes, Shard
  <1>6. RegistryRemembers'
    BY <1>1 DEF Core, RegistryRemembers, AckedIn, Shard
  <1>7. QED  BY <1>2, <1>3, <1>4, <1>5, <1>6 DEF Core

\* While nothing is under way in a ledger that nothing has harmed, the tip and
\* the registry entry of a shard agree with its tail, and a shard that is not
\* there has no entry.
LEMMA Harmless ==
  ASSUME Core, \A p \in Procs : pc[p] = "idle", damaged \cup dirty \cup glued = {}, NEW s \in Shards
  PROVE  /\ s \notin torn /\ WalkOK(lines[s])
         /\ ~Disagrees(tip[s], Len(lines[s]), TailHash(lines[s]))
         /\ ~Disagrees(registry[s], Len(lines[s]), TailHash(lines[s]))
         /\ s \notin present => registry[s] = NoMark
  <1>1. s \notin torn /\ WalkOK(lines[s])
    BY DEF Core, TornKnown, ChainIntact
  <1>2. /\ \A m \in {tip[s], registry[s]} \ {NoMark} : Describes(m, lines[s])
        /\ registry[s] # NoMark => tip[s] # NoMark
        /\ tip[s] # NoMark => tip[s].count = Len(lines[s]) /\ registry[s] = tip[s]
    BY DEF Core, MarksFollow, Exact, Recording
  <1>3. lines[s] \in Seq(Line)
    BY DEF Core, Typed, TypeOK
  <1>4. ASSUME tip[s] # NoMark
        PROVE  tip[s].count = Len(lines[s]) /\ tip[s].hash = TailHash(lines[s])
               /\ lines[s] # <<>> /\ registry[s] = tip[s]
    <2>1. tip[s].count \in 1..Len(lines[s]) /\ tip[s].hash = lines[s][tip[s].count].hash
      BY <1>2, <1>4 DEF Describes
    <2>2. lines[s] # <<>>
      BY <1>3, <2>1, LinesFacts
    <2>3. QED  BY <1>2, <1>3, <1>4, <2>1, <2>2, LinesFacts
  <1>5. registry[s] # NoMark => tip[s] # NoMark /\ registry[s] = tip[s]
    BY <1>2
  <1>6. s \notin present => registry[s] = NoMark
    BY <1>4, <1>5 DEF Core, TornKnown
  <1>7. QED  BY <1>1, <1>4, <1>5, <1>6 DEF Disagrees

VerifyInv == v \in VerifyState /\ VerifySound

\* Only a verify that is not disturbed must be right.
LEMMA DisturbVerify == ASSUME VerifyInv, Disturb PROVE VerifyInv'
  <1>1. v' = [v EXCEPT !.quiet = FALSE] /\ v \in VerifyState
    BY DEF Disturb, VerifyInv
  <1>2. v' \in VerifyState /\ v'.quiet = FALSE
    BY <1>1 DEF VerifyState
  <1>3. QED  BY <1>2 DEF VerifyInv, VerifySound

LEMMA VerifyStartSound == ASSUME Core, VerifyInv, VerifyStart, UNCHANGED ledger PROVE VerifyInv'
  <1>1. /\ v'.at = "next" /\ v'.todo = present /\ v'.names = present /\ v'.alarm = FALSE
        /\ v'.quiet => \A p \in Procs : pc[p] = "idle"
        /\ v' \in VerifyState
    <2>1. <<>> \in Hashes
      BY EmptySeq DEF Hashes
    <2>2. present \in SUBSET Shards
      BY DEF Core, Typed, TypeOK
    <2>3. QED  BY <2>1, <2>2 DEF VerifyStart, Idle, VerifyState, Genesis
  <1>2. QED  BY <1>1 DEF VerifyInv, VerifySound, Current, ledger, disk

LEMMA VerifyWalkSound == ASSUME Core, VerifyInv, VerifyWalk, UNCHANGED ledger PROVE VerifyInv'
  <1>1. UNCHANGED <<present, lines, registry, pc, damaged, dirty, glued>>
    BY DEF ledger, disk, ghosts
  <1>2. PICK s \in v.todo :
          v' = [v EXCEPT !.at = IF s \notin torn /\ WalkOK(lines[s]) THEN "tip" ELSE "next",
                         !.todo = @ \ {s}, !.shard = s,
                         !.count = Len(lines[s]), !.last = TailHash(lines[s]),
                         !.alarm = @ \/ s \in torn \/ ~WalkOK(lines[s])]
    BY DEF VerifyWalk
  <1>3. v.at = "next" /\ v \in VerifyState /\ s \in Shards /\ lines[s] \in Seq(Line)
    BY DEF VerifyWalk, VerifyInv, VerifyState, Core, Typed, TypeOK
  <1> DEFINE whole == s \notin torn /\ WalkOK(lines[s])
  <1>4. /\ v' \in VerifyState
        /\ v'.at = IF whole THEN "tip" ELSE "next"
        /\ v'.todo = v.todo \ {s} /\ v'.shard = s /\ v'.names = v.names /\ v'.quiet = v.quiet
        /\ v'.count = Len(lines[s]) /\ v'.last = TailHash(lines[s])
        /\ v'.alarm <=> v.alarm \/ ~whole
    BY <1>2, <1>3, LinesFacts DEF VerifyState
  <1> HIDE DEF whole
  <1>5. ASSUME v.quiet PROVE VerifySound'
    <2>1. /\ \A p \in Procs : pc[p] = "idle"
          /\ v.names = present /\ v.todo \subseteq present
          /\ ~v.alarm => \A t \in present \ v.todo : Agrees(t)
          /\ damaged \cup dirty \cup glued = {} => ~v.alarm
      BY <1>3, <1>5 DEF VerifyInv, VerifySound, Current
    <2>2. damaged \cup dirty \cup glued = {} => whole
      BY <1>3, <2>1, Harmless DEF whole
    <2>3. CASE whole
      BY <1>1, <1>4, <2>1, <2>2, <2>3 DEF VerifySound, Current, Agrees, whole
    <2>4. CASE ~whole
      BY <1>1, <1>4, <2>1, <2>2, <2>4 DEF VerifySound, Current
    <2>5. QED  BY <2>3, <2>4
  <1>6. ~v.quiet => VerifySound'
    BY <1>4 DEF VerifySound
  <1>7. QED  BY <1>4, <1>5, <1>6 DEF VerifyInv

LEMMA VerifyTipSound == ASSUME Core, VerifyInv, VerifyTip, UNCHANGED ledger PROVE VerifyInv'
  <1> DEFINE bad == Disagrees(tip[v.shard], v.count, v.last)
  <1>1. UNCHANGED <<present, lines, registry, pc, damaged, dirty, glued>>
    BY DEF ledger, disk, ghosts
  <1>2. v.at = "tip" /\ v \in VerifyState
        /\ v' = [v EXCEPT !.at = IF bad THEN "next" ELSE "registry", !.alarm = @ \/ bad]
    BY DEF VerifyTip, VerifyInv
  <1> HIDE DEF bad
  <1>3. /\ v' \in VerifyState /\ v'.at = IF bad THEN "next" ELSE "registry"
        /\ v'.alarm <=> v.alarm \/ bad
        /\ v'.todo = v.todo /\ v'.shard = v.shard /\ v'.names = v.names /\ v'.quiet = v.quiet
        /\ v'.count = v.count /\ v'.last = v.last
    BY <1>2 DEF VerifyState
  <1>4. ASSUME v.quiet PROVE VerifySound'
    <2>1. /\ \A p \in Procs : pc[p] = "idle"
          /\ v.names = present /\ v.todo \subseteq present
          /\ v.shard \in present /\ WalkOK(lines[v.shard])
          /\ v.count = Len(lines[v.shard]) /\ v.last = TailHash(lines[v.shard])
          /\ ~v.alarm => \A t \in present \ (v.todo \cup {v.shard}) : Agrees(t)
          /\ damaged \cup dirty \cup glued = {} => ~v.alarm
      BY <1>2, <1>4 DEF VerifyInv, VerifySound, Current
    <2>2. damaged \cup dirty \cup glued = {} => ~bad
      <3>1. v.shard \in Shards
        BY <2>1 DEF Core, Typed, TypeOK
      <3>2. QED  BY <2>1, <3>1, Harmless DEF bad
    <2>3. CASE bad
      BY <1>1, <1>3, <2>1, <2>2, <2>3 DEF VerifySound, Current
    <2>4. CASE ~bad
      BY <1>1, <1>3, <2>1, <2>2, <2>4 DEF VerifySound, Current, Agrees
    <2>5. QED  BY <2>3, <2>4
  <1>5. ~v.quiet => VerifySound'
    BY <1>3 DEF VerifySound
  <1>6. QED  BY <1>3, <1>4, <1>5 DEF VerifyInv

LEMMA VerifyEntrySound == ASSUME Core, VerifyInv, VerifyEntry, UNCHANGED ledger PROVE VerifyInv'
  <1> DEFINE bad == Disagrees(registry[v.shard], v.count, v.last)
  <1>1. UNCHANGED <<present, lines, registry, pc, damaged, dirty, glued>>
    BY DEF ledger, disk, ghosts
  <1>2. v.at = "registry" /\ v \in VerifyState /\ v' = [v EXCEPT !.at = "next", !.alarm = @ \/ bad]
    BY DEF VerifyEntry, VerifyInv
  <1> HIDE DEF bad
  <1>3. /\ v' \in VerifyState /\ v'.at = "next" /\ (v'.alarm <=> v.alarm \/ bad)
        /\ v'.todo = v.todo /\ v'.shard = v.shard /\ v'.names = v.names /\ v'.quiet = v.quiet
        /\ v'.count = v.count /\ v'.last = v.last
    BY <1>2 DEF VerifyState
  <1>4. ASSUME v.quiet PROVE VerifySound'
    <2>1. /\ \A p \in Procs : pc[p] = "idle"
          /\ v.names = present /\ v.todo \subseteq present
          /\ v.shard \in present /\ WalkOK(lines[v.shard])
          /\ v.count = Len(lines[v.shard]) /\ v.last = TailHash(lines[v.shard])
          /\ ~v.alarm => \A t \in present \ (v.todo \cup {v.shard}) : Agrees(t)
          /\ damaged \cup dirty \cup glued = {} => ~v.alarm
      BY <1>2, <1>4 DEF VerifyInv, VerifySound, Current
    <2>2. damaged \cup dirty \cup glued = {} => ~bad
      <3>1. v.shard \in Shards
        BY <2>1 DEF Core, Typed, TypeOK
      <3>2. QED  BY <2>1, <3>1, Harmless DEF bad
    <2>3. ~bad => Agrees(v.shard)
      BY <2>1 DEF Agrees, bad
    <2>4. QED  BY <1>1, <1>3, <2>1, <2>2, <2>3 DEF VerifySound, Current, Agrees
  <1>5. ~v.quiet => VerifySound'
    BY <1>3 DEF VerifySound
  <1>6. QED  BY <1>3, <1>4, <1>5 DEF VerifyInv

LEMMA VerifyMissingSound ==
  ASSUME Core, VerifyInv, VerifyMissing, UNCHANGED ledger PROVE VerifyInv'
  <1> DEFINE bad == \E s \in Shards \ v.names : registry[s] # NoMark
  <1>1. UNCHANGED <<present, lines, registry, pc, damaged, dirty, glued>>
    BY DEF ledger, disk, ghosts
  <1>2. /\ v.at = "next" /\ v.todo = {} /\ v \in VerifyState
        /\ v' = [v EXCEPT !.at = "done", !.shard = NoMark, !.count = 0, !.last = Genesis,
                          !.alarm = @ \/ bad]
    BY DEF VerifyMissing, VerifyInv
  <1> HIDE DEF bad
  <1>3. /\ v' \in VerifyState /\ v'.at = "done" /\ (v'.alarm <=> v.alarm \/ bad)
        /\ v'.todo = v.todo /\ v'.names = v.names /\ v'.quiet = v.quiet
    <2>1. Genesis \in Hashes
      BY EmptySeq DEF Genesis, Hashes
    <2>2. QED  BY <1>2, <2>1 DEF VerifyState
  <1>4. ASSUME v.quiet PROVE VerifySound'
    <2>1. /\ \A p \in Procs : pc[p] = "idle"
          /\ v.names = present /\ v.todo \subseteq present
          /\ ~v.alarm => \A t \in present \ v.todo : Agrees(t)
          /\ damaged \cup dirty \cup glued = {} => ~v.alarm
      BY <1>2, <1>4 DEF VerifyInv, VerifySound, Current
    <2>2. damaged \cup dirty \cup glued = {} => ~bad
      BY <2>1, Harmless DEF bad
    <2>3. ~bad => \A s \in Shards \ present : registry[s] = NoMark
      BY <2>1 DEF bad
    <2>4. QED  BY <1>1, <1>2, <1>3, <2>1, <2>2, <2>3 DEF VerifySound, Current, Agrees
  <1>5. ~v.quiet => VerifySound'
    BY <1>3 DEF VerifySound
  <1>6. QED  BY <1>3, <1>4, <1>5 DEF VerifyInv

LEMMA IdleFacts == Idle \in VerifyState /\ Idle.at = "idle"
  <1>1. Genesis \in Hashes
    BY EmptySeq DEF Genesis, Hashes
  <1>2. QED  BY <1>1 DEF VerifyState, Idle

-----------------------------------------------------------------------------
(* The first states.                                                       *)

\* The lines an old shard starts with are a chain.
LEMMA LegacyFacts ==
  ASSUME NEW s \in Shards, NEW k \in 0..MaxLegacy
  PROVE  /\ LegacyLines(s, k) \in Seq(Line) /\ Len(LegacyLines(s, k)) = k
         /\ \A i \in 1..k : LegacyLines(s, k)[i].ev = <<MaxAppends + i, s>>
         /\ WalkOK(LegacyLines(s, k))
         /\ \A i \in 1..k : \A j \in 1..i :
              LegacyLines(s, k)[j].ev \in ToSet(LegacyLines(s, k)[i].hash)
  <1> DEFINE H(i) == LegacyEvents(s, i)
             ls == LegacyLines(s, k)
  <1>1. /\ MaxAppends \in Nat /\ MaxLegacy \in Nat /\ k \in Nat /\ k <= MaxLegacy
    BY LedgerAssumption
  <1>2. \A i \in 1..k : <<MaxAppends + i, s>> \in Events
    <2>1. ASSUME NEW i \in 1..k PROVE MaxAppends + i \in 0..(MaxAppends + MaxLegacy)
      BY <1>1
    <2>2. QED  BY <2>1 DEF Events
  <1>3. ASSUME NEW i \in 0..k
        PROVE  /\ H(i) \in Hashes /\ Len(H(i)) = i
               /\ \A j \in 1..i : H(i)[j] = <<MaxAppends + j, s>>
    <2>1. i \in Nat /\ \A j \in 1..i : j \in 1..k
      BY <1>1
    <2>2. H(i) \in [1..i -> Events]
      BY <1>2, <2>1 DEF LegacyEvents
    <2>3. H(i) \in Seq(Events) /\ DOMAIN H(i) = 1..i
      BY <2>1, <2>2, SeqDef
    <2>4. Len(H(i)) = i
      BY <2>1, <2>3, LenProperties
    <2>5. QED  BY <2>3, <2>4 DEF Hashes, LegacyEvents
  <1>4. /\ ls \in Seq(Line) /\ Len(ls) = k
        /\ \A i \in 1..k : ls[i] = [seq |-> NoSeq, prev |-> H(i - 1),
                                    ev |-> <<MaxAppends + i, s>>, hash |-> H(i)]
    <2>1. ASSUME NEW i \in 1..k
          PROVE  [seq |-> NoSeq, prev |-> H(i - 1), ev |-> <<MaxAppends + i, s>>, hash |-> H(i)]
                   \in Line
      <3>1. i - 1 \in 0..k /\ i \in 0..k
        BY <1>1
      <3>2. H(i - 1) \in Hashes /\ H(i) \in Hashes
        BY <1>3, <3>1
      <3>3. QED  BY <1>2, <3>2 DEF Line
    <2>2. ls \in [1..k -> Line]
      BY <2>1 DEF LegacyLines
    <2>3. ls \in Seq(Line) /\ DOMAIN ls = 1..k
      BY <1>1, <2>2, SeqDef
    <2>4. Len(ls) = k
      BY <1>1, <2>3, LenProperties
    <2>5. QED  BY <2>3, <2>4 DEF LegacyLines
  <1>5. ASSUME NEW i \in 1..k PROVE H(i) = EventHash(H(i - 1), <<MaxAppends + i, s>>)
    <2>1. i \in Nat /\ i - 1 \in 0..k /\ i \in 0..k
      BY <1>1
    <2>2. /\ H(i - 1) \in Seq(Events) /\ Len(H(i - 1)) = i - 1
          /\ H(i) \in Seq(Events) /\ Len(H(i)) = i
      BY <1>3, <2>1 DEF Hashes
    <2> DEFINE h == EventHash(H(i - 1), <<MaxAppends + i, s>>)
    <2>3. /\ h \in Seq(Events) /\ Len(h) = (i - 1) + 1 /\ h[(i - 1) + 1] = <<MaxAppends + i, s>>
          /\ \A j \in 1..(i - 1) : h[j] = H(i - 1)[j]
      BY <1>2, <2>2, AppendProperties DEF EventHash
    <2>4. (i - 1) + 1 = i
      BY <2>1
    <2> HIDE DEF h, H
    <2>5. ASSUME NEW j \in 1..Len(h) PROVE h[j] = H(i)[j]
      <3>1. H(i)[j] = <<MaxAppends + j, s>>
        BY <1>3, <2>1, <2>3, <2>4
      <3>2. CASE j = i
        BY <2>3, <2>4, <3>1, <3>2
      <3>3. CASE j # i
        <4>1. j \in 1..(i - 1)
          BY <2>1, <2>3, <2>4, <3>3
        <4>2. QED  BY <1>3, <2>1, <2>3, <3>1, <4>1
      <3>4. QED  BY <3>2, <3>3
    <2>6. Len(h) = Len(H(i))
      BY <2>2, <2>3, <2>4
    <2>7. h = H(i)
      BY <2>2, <2>3, <2>5, <2>6, SeqEqual
    <2>8. QED  BY <2>7 DEF h
  <1>6. H(0) = Genesis
    <2>1. 0 \in 0..k
      BY <1>1
    <2>2. H(0) \in Seq(Events) /\ Len(H(0)) = 0
      BY <1>3, <2>1 DEF Hashes
    <2>3. QED  BY <2>2, EmptySeq DEF Genesis
  <1> HIDE DEF H, ls
  <1>7. WalkOK(ls)
    <2>1. ASSUME NEW i \in 1..k
          PROVE  /\ ls[i].prev = IF i = 1 THEN Genesis ELSE ls[i - 1].hash
                 /\ ls[i].seq \in {NoSeq, i - 1}
                 /\ ls[i].hash = EventHash(ls[i].prev, ls[i].ev)
      <3>1. CASE i = 1
        BY <1>4, <1>5, <1>6, <3>1
      <3>2. CASE i # 1
        <4>1. i - 1 \in 1..k
          BY <1>1, <3>2
        <4>2. QED  BY <1>4, <1>5, <3>2, <4>1
      <3>3. QED  BY <3>1, <3>2
    <2>2. QED  BY <1>4, <2>1 DEF WalkOK
  <1>8. ASSUME NEW i \in 1..k, NEW j \in 1..i PROVE ls[j].ev \in ToSet(ls[i].hash)
    <2>1. i \in 0..k /\ j \in 1..k
      BY <1>1
    <2>2. /\ H(i) \in Seq(Events) /\ Len(H(i)) = i /\ H(i)[j] = <<MaxAppends + j, s>>
      BY <1>3, <2>1 DEF Hashes
    <2>3. ls[j].ev = <<MaxAppends + j, s>> /\ ls[i].hash = H(i)
      BY <1>4, <2>1
    <2>4. j \in DOMAIN H(i)
      BY <2>2, LenProperties
    <2>5. QED  BY <2>2, <2>3, <2>4 DEF ToSet
  <1>9. QED  BY <1>4, <1>7, <1>8 DEF ls

LEMMA InitCore == ASSUME Init PROVE Core
  <1>1. PICK k \in [Shards -> 0..MaxLegacy] :
          /\ lines = [s \in Shards |-> LegacyLines(s, k[s])]
          /\ present = {s \in Shards : k[s] > 0}
    BY DEF Init
  <1>2. /\ torn = {} /\ unended = {} /\ tip = NoEntries /\ registry = NoEntries
        /\ shardLock = [s \in Shards |-> NoProc] /\ regLock = NoProc
        /\ pc = [p \in Procs |-> "idle"] /\ job = [p \in Procs |-> NoJob]
        /\ seen = [p \in Procs |-> NoEntries] /\ issued = 0
        /\ acked = {} /\ dirty = {} /\ damaged = {} /\ relinked = {} /\ glued = {}
    BY DEF Init
  <1>3. /\ lines \in [Shards -> Seq(Line)]
        /\ \A s \in Shards : lines[s] = LegacyLines(s, k[s]) /\ k[s] \in 0..MaxLegacy
    BY <1>1, LegacyFacts
  <1>4. \A p \in Procs : pc[p] = "idle"
    BY <1>2
  <1>5. Typed
    <2>1. NoJob \in Job
      BY EmptySeq DEF Job, NoJob, Genesis, Hashes
    <2>2. issued \in 0..MaxAppends
      BY <1>2, LedgerAssumption
    <2>3. QED  BY <1>1, <1>2, <1>3, <2>1, <2>2 DEF Typed, TypeOK, NoEntries, Busy
  <1>6. JobsApart /\ RegistryHeld /\ LinksFit /\ RecordInPlace
    BY <1>4 DEF JobsApart, RegistryHeld, LinksFit, RecordInPlace, Recording
  <1>7. EventsOwned
    <2>1. ASSUME NEW s \in Shards, NEW i \in 1..Len(lines[s])
          PROVE  /\ lines[s][i].ev[2] = s
                 /\ lines[s][i].ev[1] \in (0..issued) \cup {n \in Nat : n > MaxAppends}
      <3>1. lines[s][i].ev = <<MaxAppends + i, s>> /\ i \in 1..k[s] /\ k[s] \in 0..MaxLegacy
        BY <1>3, LegacyFacts
      <3>2. MaxAppends + i \in Nat /\ MaxAppends + i > MaxAppends
        BY <3>1, LedgerAssumption
      <3>3. QED  BY <3>1, <3>2
    <2>2. QED  BY <1>4, <2>1 DEF EventsOwned
  <1>8. TornKnown
    <2>1. ASSUME NEW s \in Shards, lines[s] # <<>> PROVE s \in present
      <3>1. Len(lines[s]) = k[s] /\ lines[s] \in Seq(Line)
        BY <1>3, LegacyFacts
      <3>2. k[s] > 0
        BY <1>3, <2>1, <3>1, LinesFacts
      <3>3. QED  BY <1>1, <3>2
    <2>2. QED  BY <1>2, <1>4, <2>1 DEF TornKnown, Recording
  <1>9. ChainIntact
    BY <1>3, LegacyFacts DEF ChainIntact
  <1>10. MarksFollow
    BY <1>2 DEF MarksFollow, Exact, NoEntries
  <1>11. HashesRemember
    <2>1. ASSUME NEW s \in Shards, NEW i \in 1..Len(lines[s]), NEW j \in 1..i
          PROVE  lines[s][j].ev \in ToSet(lines[s][i].hash)
      BY <1>3, LegacyFacts
    <2>2. QED  BY <1>4, <2>1 DEF HashesRemember
  <1>12. RegistryRemembers
    BY <1>2, <1>4 DEF RegistryRemembers, AckedIn, Recording
  <1>13. QED  BY <1>5, <1>6, <1>7, <1>8, <1>9, <1>10, <1>11, <1>12 DEF Core

-----------------------------------------------------------------------------
(* The invariant is inductive.                                             *)

LEMMA InitInvariant == Init => IInv
  <1> SUFFICES ASSUME Init PROVE IInv
    OBVIOUS
  <1>1. v = Idle
    BY DEF Init
  <1>2. QED  BY <1>1, InitCore, IdleFacts DEF IInv, VerifySound

LEMMA NextInvariant == IInv /\ [Next]_vars => IInv'
  <1> SUFFICES ASSUME IInv, [Next]_vars PROVE IInv'
    OBVIOUS
  <1>1. Core /\ VerifyInv
    BY DEF IInv, VerifyInv
  <1>2. ASSUME NEW p \in Procs, AppendStep(p) \/ Crash(p) \/ CrashWriting(p), Disturb PROVE IInv'
    <2>1. Core'
      <3>1. CASE Begin(p)          BY <1>1, <3>1, BeginCore
      <3>2. CASE LockShard(p)      BY <1>1, <3>2, LockShardCore
      <3>3. CASE ReadTail(p)       BY <1>1, <3>3, ReadTailCore
      <3>4. CASE Refuse(p)         BY <1>1, <3>4, RefuseCore
      <3>5. CASE WriteLine(p)      BY <1>1, <3>5, WriteLineCore
      <3>6. CASE WriteTip(p)       BY <1>1, <3>6, WriteTipCore
      <3>7. CASE LockRegistry(p)   BY <1>1, <3>7, LockRegistryCore
      <3>8. CASE ReadRegistry(p)   BY <1>1, <3>8, ReadRegistryCore
      <3>9. CASE WriteRegistry(p)  BY <1>1, <3>9, WriteRegistryCore
      <3>10. CASE Return(p)        BY <1>1, <3>10, ReturnCore
      <3>11. CASE Crash(p)         BY <1>1, <3>11, CrashCore
      <3>12. CASE CrashWriting(p)  BY <1>1, <3>12, CrashWritingCore
      <3>13. QED  BY <1>2, <3>1, <3>2, <3>3, <3>4, <3>5, <3>6, <3>7, <3>8, <3>9, <3>10, <3>11, <3>12
                  DEF AppendStep
    <2>2. VerifyInv'
      BY <1>1, <1>2, DisturbVerify
    <2>3. QED  BY <2>1, <2>2 DEF IInv, VerifyInv
  <1>3. ASSUME NEW s \in Shards, Fault(s), Disturb PROVE IInv'
    <2>1. Core' /\ VerifyInv'
      BY <1>1, <1>3, FaultCore, DisturbVerify
    <2>2. QED  BY <2>1 DEF IInv, VerifyInv
  <1>4. ASSUME Verify, UNCHANGED ledger PROVE IInv'
    <2>1. Core'
      BY <1>1, <1>4, CoreKept
    <2>2. VerifyInv'
      <3>1. CASE VerifyStart    BY <1>1, <1>4, <3>1, VerifyStartSound
      <3>2. CASE VerifyWalk     BY <1>1, <1>4, <3>2, VerifyWalkSound
      <3>3. CASE VerifyTip      BY <1>1, <1>4, <3>3, VerifyTipSound
      <3>4. CASE VerifyEntry    BY <1>1, <1>4, <3>4, VerifyEntrySound
      <3>5. CASE VerifyMissing  BY <1>1, <1>4, <3>5, VerifyMissingSound
      <3>6. CASE VerifyExit
        <4>1. v' \in VerifyState /\ v'.at = "idle"
          BY <3>6, IdleFacts DEF VerifyExit
        <4>2. QED  BY <4>1 DEF VerifyInv, VerifySound
      <3>7. QED  BY <1>4, <3>1, <3>2, <3>3, <3>4, <3>5, <3>6 DEF Verify
    <2>3. QED  BY <2>1, <2>2 DEF IInv, VerifyInv
  <1>5. CASE UNCHANGED vars
    <2>1. UNCHANGED ledger /\ v' = v
      BY <1>5 DEF vars, ledger
    <2>2. Core'
      BY <1>1, <2>1, CoreKept
    <2>3. VerifyInv'
      <3>1. UNCHANGED <<present, lines, registry, pc, damaged, dirty, glued>>
        BY <2>1 DEF ledger, disk, ghosts
      <3>2. QED  BY <1>1, <2>1, <3>1 DEF VerifyInv, VerifySound, Current, Agrees
    <2>4. QED  BY <2>2, <2>3 DEF IInv, VerifyInv
  <1>6. QED  BY <1>2, <1>3, <1>4, <1>5 DEF Next, ledger

\* The invariant of the ledger: what an append knows still fits the files,
\* the marks follow the lines, and the hashes remember what was written.
THEOREM Inductive == Spec => []IInv
  BY InitInvariant, NextInvariant, PTL DEF Spec

\* The state keeps its shape, and whoever is inside an append holds its shard's
\* lock, for any number of processes, shards, appends, crashes and faults.
THEOREM TypeCorrect == Spec => []TypeOK
  <1>1. IInv => TypeOK
    BY DEF IInv, Core, Typed
  <1>2. QED  BY <1>1, Inductive, PTL

\* However many appends interleave and crash, the lines of a shard nobody
\* touched from outside form one chain that the walk of `log verify` accepts.
THEOREM ChainsStayWhole == Spec => []ChainIntact
  <1>1. IInv => ChainIntact
    BY DEF IInv, Core
  <1>2. QED  BY <1>1, Inductive, PTL

\* Tip and registry entry describe lines that are there, the registry is never
\* ahead of the tip, and both are exact when no append is under way or half done.
THEOREM MarksFollowTrail == Spec => []MarksTrail
  <1>1. IInv => MarksTrail
    <2> SUFFICES ASSUME IInv, NEW s \in Shards \ (damaged \cup glued)
                 PROVE  /\ \A m \in {tip[s], registry[s]} \ {NoMark} :
                             m.count \in 1..Len(lines[s]) /\ m.hash = lines[s][m.count].hash
                        /\ registry[s] # NoMark =>
                             tip[s] # NoMark /\ registry[s].count <= tip[s].count
                        /\ shardLock[s] = NoProc /\ s \notin dirty /\ tip[s] # NoMark =>
                             tip[s].count = Len(lines[s]) /\ registry[s] = tip[s]
      BY DEF MarksTrail
    <2>1. MarksFollow /\ TypeOK
      BY DEF IInv, Core, Typed
    <2>2. shardLock[s] = NoProc => \A p \in Procs : pc[p] \in Recording => Shard(p) # s
      BY <2>1, LedgerAssumption DEF TypeOK, Busy, Recording
    <2>3. QED  BY <2>1, <2>2 DEF MarksFollow, Exact, Describes
  <1>2. QED  BY <1>1, Inductive, PTL

\* A verify that nothing disturbed raises no alarm over a ledger that nobody
\* changed from outside and in which no crash left an append half recorded.
THEOREM NoFalseAlarms == Spec => []NoFalseAlarm
  <1>1. IInv => NoFalseAlarm
    BY DEF IInv, VerifySound, NoFalseAlarm
  <1>2. QED  BY <1>1, Inductive, PTL

\* A verify that nothing disturbed answers OK only if every event whose append
\* returned is still in its shard, unless an append was built on the loss.
THEOREM LossIsReported == Spec => []LossReported
  <1>1. IInv => LossReported
    <2> SUFFICES ASSUME IInv, v.at = "done", v.quiet, ~v.alarm,
                        NEW s \in Shards \ relinked, NEW e \in acked, e[2] = s
                 PROVE  e \in EventsOf(lines[s])
      BY DEF LossReported
    <2>1. /\ v.todo = {} /\ \A t \in present : Agrees(t)
          /\ \A t \in Shards \ present : registry[t] = NoMark
      BY DEF IInv, VerifySound, Current
    <2>2. registry[s] # NoMark /\ registry[s].count > 0 /\ e \in ToSet(registry[s].hash)
      BY DEF IInv, Core, RegistryRemembers, AckedIn
    <2>3. WalkOK(lines[s]) /\ ~Disagrees(registry[s], Len(lines[s]), TailHash(lines[s]))
      BY <2>1, <2>2 DEF Agrees
    <2>4. lines[s] \in Seq(Line)
      BY DEF IInv, Core, Typed, TypeOK
    <2>5. Len(lines[s]) > 0 /\ registry[s].hash = TailHash(lines[s])
      BY <2>2, <2>3, <2>4, LinesFacts DEF Disagrees
    <2>6. Len(lines[s]) \in 1..Len(lines[s]) /\ TailHash(lines[s]) = lines[s][Len(lines[s])].hash
      BY <2>4, <2>5, LinesFacts
    <2>7. QED  BY <2>2, <2>3, <2>4, <2>5, <2>6, WalkRemembers
  <1>2. QED  BY <1>1, Inductive, PTL

-----------------------------------------------------------------------------
(* The ledger implements the append-only event log.                        *)

EventSeq(ls) == [i \in 1..Len(ls) |-> ls[i].ev]

logOf == [s \in Shards |-> EventSeq(lines[s])]

LEMMA EventSeqFacts ==
  ASSUME NEW ls \in Seq(Line)
  PROVE  /\ EventSeq(ls) \in Seq(Events) /\ Len(EventSeq(ls)) = Len(ls)
         /\ \A i \in 1..Len(ls) : EventSeq(ls)[i] = ls[i].ev
         /\ \A l \in Line : EventSeq(Append(ls, l)) = Append(EventSeq(ls), l.ev)
         /\ ls # <<>> => EventSeq(Front(ls)) = Front(EventSeq(ls))
  <1>1. ASSUME NEW xs \in Seq(Line)
        PROVE  /\ EventSeq(xs) \in Seq(Events) /\ Len(EventSeq(xs)) = Len(xs)
               /\ \A i \in 1..Len(xs) : EventSeq(xs)[i] = xs[i].ev
    <2>1. Len(xs) \in Nat /\ \A i \in 1..Len(xs) : xs[i].ev \in Events
      BY LinesFacts DEF Line
    <2>2. EventSeq(xs) \in [1..Len(xs) -> Events]
      BY <2>1 DEF EventSeq
    <2>3. EventSeq(xs) \in Seq(Events) /\ DOMAIN EventSeq(xs) = 1..Len(xs)
      BY <2>1, <2>2, SeqDef
    <2>4. QED  BY <2>1, <2>3, LenProperties DEF EventSeq
  <1>2. ASSUME NEW l \in Line PROVE EventSeq(Append(ls, l)) = Append(EventSeq(ls), l.ev)
    <2> DEFINE a == EventSeq(Append(ls, l))
               b == Append(EventSeq(ls), l.ev)
    <2>1. /\ Len(ls) \in Nat /\ Append(ls, l) \in Seq(Line) /\ Len(Append(ls, l)) = Len(ls) + 1
          /\ \A i \in 1..Len(ls) : Append(ls, l)[i] = ls[i]
          /\ Append(ls, l)[Len(ls) + 1] = l
      BY LinesFacts, AppendLine
    <2>2. /\ a \in Seq(Events) /\ Len(a) = Len(ls) + 1
          /\ \A i \in 1..(Len(ls) + 1) : a[i] = Append(ls, l)[i].ev
      BY <1>1, <2>1
    <2>3. l.ev \in Events /\ EventSeq(ls) \in Seq(Events) /\ Len(EventSeq(ls)) = Len(ls)
      BY <1>1 DEF Line
    <2>4. /\ b \in Seq(Events) /\ Len(b) = Len(ls) + 1 /\ b[Len(ls) + 1] = l.ev
          /\ \A i \in 1..Len(ls) : b[i] = EventSeq(ls)[i]
      BY <2>3, AppendProperties
    <2> HIDE DEF a, b
    <2>5. ASSUME NEW i \in 1..Len(a) PROVE a[i] = b[i]
      <3>1. i \in 1..Len(ls) \/ i = Len(ls) + 1
        BY <2>1, <2>2
      <3>2. CASE i \in 1..Len(ls)
        <4>1. i \in 1..(Len(ls) + 1)
          BY <2>2
        <4>2. a[i] = ls[i].ev
          BY <2>1, <2>2, <3>2, <4>1
        <4>3. b[i] = ls[i].ev
          BY <1>1, <2>4, <3>2
        <4>4. QED  BY <4>2, <4>3
      <3>3. CASE i = Len(ls) + 1
        BY <2>1, <2>2, <2>4, <3>3
      <3>4. QED  BY <3>1, <3>2, <3>3
    <2>6. a = b
      BY <2>2, <2>4, <2>5, SeqEqual
    <2>7. QED  BY <2>6 DEF a, b
  <1>3. ASSUME ls # <<>> PROVE EventSeq(Front(ls)) = Front(EventSeq(ls))
    <2> DEFINE a == EventSeq(Front(ls))
               es == EventSeq(ls)
    <2>1. /\ Len(ls) \in Nat \ {0} /\ Front(ls) \in Seq(Line) /\ Len(Front(ls)) = Len(ls) - 1
          /\ \A i \in 1..(Len(ls) - 1) : Front(ls)[i] = ls[i]
      BY <1>3, LinesFacts, FrontLine
    <2>2. /\ a \in Seq(Events) /\ Len(a) = Len(ls) - 1
          /\ \A i \in 1..(Len(ls) - 1) : a[i] = Front(ls)[i].ev
      BY <1>1, <2>1
    <2>3. /\ es \in Seq(Events) /\ Len(es) = Len(ls)
          /\ \A i \in 1..Len(ls) : es[i] = ls[i].ev
      BY <1>1
    <2> HIDE DEF a, es
    <2>4. /\ 1 \in Int /\ Len(ls) - 1 \in Int
          /\ \A i \in 1..(Len(ls) - 1) : i \in 1..Len(ls) /\ es[i] \in Events
      <3>1. \A i \in 1..Len(es) : es[i] \in Events
        BY <2>3, ElementOfSeq
      <3>2. QED  BY <2>1, <2>3, <3>1
    <2> DEFINE b == SubSeq(es, 1, Len(ls) - 1)
    <2>5. /\ b \in Seq(Events)
          /\ Len(b) = IF 1 <= Len(ls) - 1 THEN (Len(ls) - 1) - 1 + 1 ELSE 0
          /\ \A i \in 1..((Len(ls) - 1) - 1 + 1) : b[i] = es[1 + i - 1]
      BY <2>4, SubSeqProperties
    <2> HIDE DEF b
    <2>6. Len(b) = Len(ls) - 1
      <3>1. (IF 1 <= Len(ls) - 1 THEN (Len(ls) - 1) - 1 + 1 ELSE 0) = Len(ls) - 1
        BY <2>1
      <3>2. QED  BY <2>5, <3>1
    <2>7. ASSUME NEW i \in 1..Len(a) PROVE a[i] = b[i]
      <3>1. i \in 1..(Len(ls) - 1) /\ i \in 1..((Len(ls) - 1) - 1 + 1) /\ 1 + i - 1 = i
            /\ i \in 1..Len(ls)
        BY <2>1, <2>2
      <3>2. a[i] = ls[i].ev
        BY <2>1, <2>2, <3>1
      <3>3. QED  BY <2>3, <2>5, <3>1, <3>2
    <2>8. a = b
      BY <2>2, <2>5, <2>6, <2>7, SeqEqual
    <2>9. QED  BY <2>3, <2>8 DEF a, b, es, Front
  <1>4. QED  BY <1>1, <1>2, <1>3

LEMMA LogInit == ASSUME Init PROVE Log!Init
  <1>1. PICK k \in [Shards -> 0..MaxLegacy] : lines = [s \in Shards |-> LegacyLines(s, k[s])]
    BY DEF Init
  <1>2. \A s \in Shards : /\ lines[s] \in Seq(Line)
                          /\ \A i \in 1..Len(lines[s]) : lines[s][i].ev = <<MaxAppends + i, s>>
    BY <1>1, LegacyFacts
  <1>3. /\ logOf \in [Shards -> Seq(Events)]
        /\ \A s \in Shards : Len(logOf[s]) = Len(lines[s])
        /\ \A s \in Shards : \A i \in 1..Len(lines[s]) : logOf[s][i] = <<MaxAppends + i, s>>
    BY <1>2, EventSeqFacts DEF logOf
  <1>4. ASSUME NEW s \in Shards, NEW t \in Shards, NEW i \in DOMAIN logOf[s],
               NEW j \in DOMAIN logOf[t], logOf[s][i] = logOf[t][j]
        PROVE  s = t /\ i = j
    <2>1. i \in 1..Len(lines[s]) /\ j \in 1..Len(lines[t])
      BY <1>3, LenProperties
    <2>2. i \in Nat /\ j \in Nat
      BY <1>2, <2>1, LinesFacts
    <2>3. <<MaxAppends + i, s>> = <<MaxAppends + j, t>>
      BY <1>3, <1>4, <2>1
    <2>4. MaxAppends + i = MaxAppends + j /\ s = t
      BY <2>3
    <2>5. QED  BY <2>2, <2>4, LedgerAssumption
  <1>5. torn = {} /\ unended = {} /\ damaged = {}
    BY DEF Init
  <1>6. QED  BY <1>3, <1>4, <1>5 DEF Log!Init, logOf, EventSeq

\* A whole line is one event more at the end of its shard, and none like it
\* was in any shard before.
LEMMA LogAdd ==
  ASSUME Core, NEW p \in Procs, pc[p] = "line", NEW s, s = Shard(p), NEW e, e = job[p].ev,
         s \notin unended, lines' = [lines EXCEPT ![s] = Append(@, NewLine(job[p]))],
         UNCHANGED <<torn, damaged>>
  PROVE  Log!Add(s, e)
  <1>1. /\ s \in Shards /\ NewLine(job[p]) \in Line /\ NewLine(job[p]).ev = e
        /\ lines \in [Shards -> Seq(Line)] /\ s \notin torn
    BY ProcFacts DEF NewLine, Core, Typed, TypeOK, TornKnown
  <1>2. /\ lines'[s] = Append(lines[s], NewLine(job[p]))
        /\ \A t \in Shards \ {s} : lines'[t] = lines[t]
    BY <1>1
  <1>3. EventSeq(lines'[s]) = Append(EventSeq(lines[s]), e)
    BY <1>1, <1>2, EventSeqFacts
  <1>4. [t \in Shards |-> EventSeq(lines'[t])] = [logOf EXCEPT ![s] = Append(@, e)]
    BY <1>1, <1>2, <1>3 DEF logOf
  <1>5. \A t \in Shards : ~Contains(logOf[t], e)
    <2>1. \A t \in Shards : \A i \in 1..Len(lines[t]) : lines[t][i].ev # e
      BY DEF Core, EventsOwned, EventsOf
    <2>2. \A t \in Shards : /\ Len(logOf[t]) = Len(lines[t])
                            /\ \A i \in 1..Len(lines[t]) : logOf[t][i] = lines[t][i].ev
      BY <1>1, EventSeqFacts DEF logOf
    <2>3. QED  BY <2>1, <2>2 DEF Contains
  <1>6. QED  BY <1>1, <1>4, <1>5 DEF Log!Add, Log!Contains, Contains, logOf, EventSeq

LEMMA LogSwallow ==
  ASSUME Core, NEW p \in Procs, pc[p] = "line", NEW s, s = Shard(p), Glue(s), UNCHANGED damaged
  PROVE  Log!Swallow(s)
  <1>1. /\ s \in unended /\ unended' = unended \ {s} /\ torn' = torn \cup {s}
        /\ lines' = [lines EXCEPT ![s] = Front(@)]
    BY DEF Glue
  <1>2. s \in Shards /\ lines \in [Shards -> Seq(Line)] /\ lines[s] # <<>>
    BY <1>1, ProcFacts DEF Core, Typed, TypeOK, TornKnown
  <1>3. /\ EventSeq(lines'[s]) = Front(EventSeq(lines[s]))
        /\ \A t \in Shards \ {s} : lines'[t] = lines[t]
    BY <1>1, <1>2, EventSeqFacts
  <1>4. [t \in Shards |-> EventSeq(lines'[t])] = [logOf EXCEPT ![s] = Front(@)]
    BY <1>2, <1>3 DEF logOf
  <1>5. QED  BY <1>1, <1>4 DEF Log!Swallow, Log!Front, Front, logOf, EventSeq

LEMMA LogDamage == ASSUME Core, NEW s \in Shards, Fault(s) PROVE Log!Damage(s)
  <1>1. \A t \in Shards \ {s} : [t2 \in Shards |-> EventSeq(lines'[t2])][t] = logOf[t]
    BY FaultFacts DEF logOf
  <1>2. /\ damaged' = damaged \cup {s}
        /\ torn' \in {torn, torn \ {s}} /\ unended' \in {unended, unended \ {s}}
    BY FaultFacts DEF Fault
  <1>3. QED  BY <1>1, <1>2 DEF Log!Damage, logOf, EventSeq

LEMMA LogStep == IInv /\ [Next]_vars => [Log!Next]_Log!vars
  <1> SUFFICES ASSUME IInv, [Next]_vars PROVE [Log!Next]_Log!vars
    OBVIOUS
  <1>1. Core
    BY DEF IInv
  <1>2. ASSUME UNCHANGED <<lines, torn, unended, damaged>> PROVE UNCHANGED Log!vars
    BY <1>2 DEF Log!vars
  <1>3. ASSUME NEW p \in Procs, WriteLine(p) PROVE Log!Next
    <2>1. pc[p] = "line" /\ damaged' = damaged
      BY <1>3 DEF WriteLine
    <2> PICK s \in Shards, e \in Events : s = Shard(p) /\ e = job[p].ev
      BY <1>1, <2>1, ProcFacts
    <2>2. CASE AddLine(p)
      <3>1. Log!Write(s, e)
        BY <1>1, <2>1, <2>2, LogAdd DEF AddLine, Log!Write
      <3>2. QED  BY <3>1 DEF Log!Next
    <2>3. CASE Glue(s)
      BY <1>1, <2>1, <2>3, LogSwallow DEF Log!Next
    <2>4. QED  BY <1>3, <2>2, <2>3 DEF WriteLine
  <1>4. ASSUME NEW p \in Procs, CrashWriting(p) PROVE Log!Next
    <2>1. pc[p] = "line" /\ damaged' = damaged
      BY <1>4 DEF CrashWriting, Stop
    <2> PICK s \in Shards, e \in Events : s = Shard(p) /\ e = job[p].ev
      BY <1>1, <2>1, ProcFacts
    <2>2. CASE s \notin unended /\ torn' = torn \cup {s} /\ UNCHANGED <<lines, unended, glued>>
      <3>1. Log!Tear(s)
        BY <2>1, <2>2 DEF Log!Tear
      <3>2. QED  BY <3>1 DEF Log!Next
    <2>3. CASE /\ s \notin unended
               /\ lines' = [lines EXCEPT ![s] = Append(@, NewLine(job[p]))]
               /\ unended' = unended \cup {s} /\ UNCHANGED <<torn, glued>>
      <3>1. Log!WriteUnended(s, e)
        BY <1>1, <2>1, <2>3, LogAdd DEF Log!WriteUnended
      <3>2. QED  BY <3>1 DEF Log!Next
    <2>4. CASE Glue(s)
      BY <1>1, <2>1, <2>4, LogSwallow DEF Log!Next
    <2>5. QED  BY <1>4, <2>2, <2>3, <2>4 DEF CrashWriting
  <1>5. ASSUME NEW p \in Procs,
               \/ Begin(p) \/ LockShard(p) \/ ReadTail(p) \/ Refuse(p) \/ WriteTip(p)
               \/ LockRegistry(p) \/ ReadRegistry(p) \/ WriteRegistry(p) \/ Return(p) \/ Crash(p)
        PROVE  UNCHANGED <<lines, torn, unended, damaged>>
    BY <1>5 DEF Begin, LockShard, ReadTail, Refuse, WriteTip, LockRegistry, ReadRegistry,
                WriteRegistry, Return, Crash, Stop, disk, ghosts
  <1>6. ASSUME NEW s \in Shards, Fault(s) PROVE Log!Next
    BY <1>1, <1>6, LogDamage DEF Log!Next
  <1>7. CASE (Verify /\ UNCHANGED <<disk, locks, pc, job, seen, ghosts, bounds>>) \/ UNCHANGED vars
    BY <1>2, <1>7 DEF vars, disk, ghosts
  <1>8. CASE \E p \in Procs : (AppendStep(p) \/ Crash(p) \/ CrashWriting(p)) /\ Disturb
    BY <1>2, <1>3, <1>4, <1>5, <1>8 DEF AppendStep
  <1>9. CASE \E s \in Shards : Fault(s) /\ Disturb
    BY <1>6, <1>9
  <1>10. QED  BY <1>7, <1>8, <1>9 DEF Next

\* Every behaviour of the ledger is one of the append-only event log: an event
\* that was written stays where it is, and is written once.
THEOREM EventLogImplemented == Spec => LogSpec
  <1>1. Init => Log!Init
    BY LogInit
  <1>2. IInv /\ [Next]_vars => [Log!Next]_Log!vars
    BY LogStep
  <1>3. QED  BY <1>1, <1>2, Inductive, PTL DEF Spec, LogSpec, Log!Spec
=============================================================================
