------------------------------- MODULE Ledger -------------------------------
(***************************************************************************)
(* The accountability ledger under .tess/state/ledger: hash-chained JSONL  *)
(* shards, a .tip file beside each shard, and one registry of all shards.  *)
(* Several processes append; `log verify` reads without taking a lock; a   *)
(* crash can stop an append between any two of its steps; a file can lose  *)
(* or change a line behind the engine's back.                              *)
(*                                                                         *)
(* The flocks are taken to exclude (StateLock says when they do).  Hashes  *)
(* are collision free: the hash of a line is the history it stands for.    *)
(***************************************************************************)
EXTENDS Naturals, Sequences, SequencesExt

CONSTANTS
  Procs,
  Shards,      \* <YYYY-MM>.<origin>.jsonl
  NoProc,
  NoSeq,       \* a line written before lines carried a seq
  NoMark,      \* no tip file, no registry entry
  MaxLegacy,   \* bound: seq-less lines a shard may start with
  MaxAppends,  \* bound: appends begun
  MaxCrashes,  \* bound: appends cut short
  MaxFaults,   \* bound: changes made to a shard from outside
  Overlap      \* bound: whether appends, crashes and faults go on during a verify

ASSUME LedgerAssumption ==
  /\ NoProc \notin Procs
  /\ NoSeq \notin Nat
  /\ MaxLegacy \in Nat /\ MaxAppends \in Nat /\ MaxCrashes \in Nat /\ MaxFaults \in Nat
  /\ Overlap \in BOOLEAN

\* An event is its number and its shard; number 0 is what no append wrote.
Events == (0..(MaxAppends + MaxLegacy)) \X Shards
Garbled(s) == <<0, s>>
Hashes == Seq(Events)
Genesis == <<>>
Line == [seq : Nat \cup {NoSeq}, prev : Hashes, ev : Events, hash : Hashes]
Mark == [count : Nat, hash : Hashes]

ASSUME NoMarkAssumption == NoMark \notin Mark

VARIABLES
  present,    \* shards whose file exists
  lines,      \* lines[s]: the parseable lines of shard s
  torn,       \* shards whose last line is not JSON
  unended,    \* shards whose last line lacks its newline
  tip,        \* tip[s]: the .tip file of shard s
  registry,   \* .registry.json
  shardLock,  \* holder of locks/ledger-<shard>.lock
  regLock,    \* holder of locks/ledger-registry.lock
  pc, job,    \* where each append is and what it has worked out so far
  seen,       \* seen[p]: the registry as p read it
  issued,     \* appends begun
  v,          \* the run of `log verify`
  acked,      \* events whose append returned
  dirty,      \* shards in which a crash left an append half recorded
  damaged,    \* shards changed from outside
  relinked,   \* shards appended to after their tail had been lost
  glued,      \* shards in which a line was written onto one without a newline
  crashes, faults

disk == <<present, lines, torn, unended, tip, registry>>
locks == <<shardLock, regLock>>
ghosts == <<acked, dirty, damaged, relinked, glued>>
bounds == <<issued, crashes, faults>>
vars == <<disk, locks, pc, job, seen, v, ghosts, bounds>>

-----------------------------------------------------------------------------
(* The chain.                                                              *)

\* _ledger_event_hash: of everything in the line but the hash itself.
EventHash(prev, ev) == Append(prev, ev)

TailHash(ls) == IF ls = <<>> THEN Genesis ELSE Last(ls).hash

\* Mutant: after a seq-less line, start again at 0.
NextSeqFromZero(ls) == IF ls = <<>> \/ Last(ls).seq = NoSeq THEN 0 ELSE Last(ls).seq + 1

\* _ledger_tail_state: after a seq-less line, count the lines.
NextSeq(ls) ==
  IF ls = <<>> THEN 0 ELSE IF Last(ls).seq = NoSeq THEN Len(ls) ELSE Last(ls).seq + 1

\* The walk of _ledger_verify_shard.
WalkOK(ls) ==
  \A i \in 1..Len(ls) :
    /\ ls[i].prev = IF i = 1 THEN Genesis ELSE ls[i - 1].hash
    /\ ls[i].seq \in {NoSeq, i - 1}
    /\ ls[i].hash = EventHash(ls[i].prev, ls[i].ev)

\* A tip or registry entry that does not describe this tail.
Disagrees(mark, count, last) ==
  /\ mark # NoMark
  /\ mark.count # count \/ (count > 0 /\ mark.hash # last)

EventsOf(ls) == {ls[i].ev : i \in 1..Len(ls)}

-----------------------------------------------------------------------------
Idle == [at |-> "idle", todo |-> {}, names |-> {}, shard |-> NoMark, count |-> 0,
         last |-> Genesis, alarm |-> FALSE, quiet |-> FALSE]

NoJob == [shard |-> NoMark, ev |-> NoMark, prev |-> Genesis, seq |-> 0]

NoEntries == [s \in Shards |-> NoMark]

\* The k seq-less lines an old shard starts with.
LegacyEvents(s, k) == [i \in 1..k |-> <<MaxAppends + i, s>>]
LegacyLines(s, k) ==
  [i \in 1..k |-> [seq |-> NoSeq, prev |-> LegacyEvents(s, i - 1),
                   ev |-> <<MaxAppends + i, s>>, hash |-> LegacyEvents(s, i)]]

Init ==
  /\ \E k \in [Shards -> 0..MaxLegacy] :
       /\ lines = [s \in Shards |-> LegacyLines(s, k[s])]
       /\ present = {s \in Shards : k[s] > 0}
  /\ torn = {} /\ unended = {}
  /\ tip = NoEntries
  /\ registry = NoEntries
  /\ shardLock = [s \in Shards |-> NoProc]
  /\ regLock = NoProc
  /\ pc = [p \in Procs |-> "idle"]
  /\ job = [p \in Procs |-> NoJob]
  /\ seen = [p \in Procs |-> NoEntries]
  /\ issued = 0 /\ crashes = 0 /\ faults = 0
  /\ v = Idle
  /\ acked = {} /\ dirty = {} /\ damaged = {} /\ relinked = {} /\ glued = {}

-----------------------------------------------------------------------------
(* _log_append_event.                                                      *)

Shard(p) == job[p].shard

Begin(p) ==
  /\ pc[p] = "idle"
  /\ issued < MaxAppends
  /\ issued' = issued + 1
  /\ \E s \in Shards : job' = [job EXCEPT ![p] = [NoJob EXCEPT !.shard = s, !.ev = <<issued + 1, s>>]]
  /\ pc' = [pc EXCEPT ![p] = "lock"]
  /\ UNCHANGED <<disk, locks, seen, ghosts, crashes, faults>>

\* Mutant: an append that does not wait for its shard.
LockShardNow(p) ==
  /\ pc[p] = "lock"
  /\ shardLock' = [shardLock EXCEPT ![Shard(p)] = p]
  /\ pc' = [pc EXCEPT ![p] = "tail"]
  /\ UNCHANGED <<disk, regLock, job, seen, ghosts, bounds>>

LockShard(p) ==
  /\ pc[p] = "lock"
  /\ shardLock[Shard(p)] = NoProc
  /\ shardLock' = [shardLock EXCEPT ![Shard(p)] = p]
  /\ pc' = [pc EXCEPT ![p] = "tail"]
  /\ UNCHANGED <<disk, regLock, job, seen, ghosts, bounds>>

\* The file is lost or its tail is gone, and the append is about to build on
\* what is left of it.
BuildsOnLoss(s) ==
  \E e \in acked : e[2] = s /\ e \notin EventsOf(lines[s])

ReadTail(p) ==
  /\ pc[p] = "tail"
  /\ Shard(p) \notin torn
  /\ job' = [job EXCEPT ![p].prev = TailHash(lines[Shard(p)]),
                        ![p].seq = NextSeq(lines[Shard(p)])]
  /\ relinked' = IF BuildsOnLoss(Shard(p)) THEN relinked \cup {Shard(p)} ELSE relinked
  /\ pc' = [pc EXCEPT ![p] = "line"]
  /\ UNCHANGED <<disk, locks, seen, acked, dirty, damaged, glued, bounds>>

\* LedgerError: the tail line is not valid JSON.
Refuse(p) ==
  /\ pc[p] = "tail"
  /\ Shard(p) \in torn
  /\ shardLock' = [shardLock EXCEPT ![Shard(p)] = NoProc]
  /\ job' = [job EXCEPT ![p] = NoJob]
  /\ pc' = [pc EXCEPT ![p] = "idle"]
  /\ UNCHANGED <<disk, regLock, seen, ghosts, bounds>>

NewLine(j) == [seq |-> j.seq, prev |-> j.prev, ev |-> j.ev, hash |-> EventHash(j.prev, j.ev)]
\* Mutant: the index of the last line in place of the number of lines.
NewMarkIndex(j) == [count |-> j.seq, hash |-> EventHash(j.prev, j.ev)]
NewMark(j) == [count |-> j.seq + 1, hash |-> EventHash(j.prev, j.ev)]

\* Mutant: the shard is opened to be written anew.
WriteLineAnew(p) ==
  /\ pc[p] = "line"
  /\ lines' = [lines EXCEPT ![Shard(p)] = <<NewLine(job[p])>>]
  /\ present' = present \cup {Shard(p)}
  /\ pc' = [pc EXCEPT ![p] = "tip"]
  /\ UNCHANGED <<torn, unended, tip, registry, locks, job, seen, ghosts, bounds>>

\* The new line follows the last newline of its shard.
AddLine(p) ==
  /\ Shard(p) \notin unended
  /\ lines' = [lines EXCEPT ![Shard(p)] = Append(@, NewLine(job[p]))]
  /\ UNCHANGED <<torn, unended, glued>>

\* It continues a line that has no newline: together they are not JSON.
Glue(s) ==
  /\ s \in unended /\ unended' = unended \ {s}
  /\ lines' = [lines EXCEPT ![s] = Front(@)]
  /\ torn' = torn \cup {s}
  /\ glued' = glued \cup {s}

\* One write, flushed and fsynced; it creates a missing file.
WriteLine(p) ==
  /\ pc[p] = "line"
  /\ AddLine(p) \/ Glue(Shard(p))
  /\ present' = present \cup {Shard(p)}
  /\ pc' = [pc EXCEPT ![p] = "tip"]
  /\ UNCHANGED <<tip, registry, locks, job, seen, acked, dirty, damaged, relinked, bounds>>

WriteTip(p) ==
  /\ pc[p] = "tip"
  /\ tip' = [tip EXCEPT ![Shard(p)] = NewMark(job[p])]
  /\ pc' = [pc EXCEPT ![p] = "reglock"]
  /\ UNCHANGED <<present, lines, torn, unended, registry, locks, job, seen, ghosts, bounds>>

\* Mutant: the registry is read and written without waiting for its lock.
LockRegistryNow(p) ==
  /\ pc[p] = "reglock"
  /\ regLock' = p
  /\ pc' = [pc EXCEPT ![p] = "regread"]
  /\ UNCHANGED <<disk, shardLock, job, seen, ghosts, bounds>>

\* _ledger_update_registry: a read-modify-write of the whole registry.
LockRegistry(p) ==
  /\ pc[p] = "reglock"
  /\ regLock = NoProc
  /\ regLock' = p
  /\ pc' = [pc EXCEPT ![p] = "regread"]
  /\ UNCHANGED <<disk, shardLock, job, seen, ghosts, bounds>>

ReadRegistry(p) ==
  /\ pc[p] = "regread"
  /\ seen' = [seen EXCEPT ![p] = registry]
  /\ pc' = [pc EXCEPT ![p] = "regwrite"]
  /\ UNCHANGED <<disk, locks, job, ghosts, bounds>>

WriteRegistry(p) ==
  /\ pc[p] = "regwrite"
  /\ registry' = [seen[p] EXCEPT ![Shard(p)] = NewMark(job[p])]
  /\ seen' = [seen EXCEPT ![p] = NoEntries]
  /\ regLock' = NoProc
  /\ pc' = [pc EXCEPT ![p] = "return"]
  /\ UNCHANGED <<present, lines, torn, unended, tip, shardLock, job, ghosts, bounds>>

Return(p) ==
  /\ pc[p] = "return"
  /\ acked' = acked \cup {job[p].ev}
  /\ dirty' = dirty \ {Shard(p)}
  /\ shardLock' = [shardLock EXCEPT ![Shard(p)] = NoProc]
  /\ job' = [job EXCEPT ![p] = NoJob]
  /\ pc' = [pc EXCEPT ![p] = "idle"]
  /\ UNCHANGED <<disk, regLock, seen, damaged, relinked, glued, bounds>>

-----------------------------------------------------------------------------
(* A process killed in the middle, and files changed from outside.         *)

Stop(p) ==
  /\ crashes < MaxCrashes
  /\ crashes' = crashes + 1
  /\ shardLock' = [s \in Shards |-> IF shardLock[s] = p THEN NoProc ELSE shardLock[s]]
  /\ regLock' = IF regLock = p THEN NoProc ELSE regLock
  /\ pc' = [pc EXCEPT ![p] = "idle"]
  /\ job' = [job EXCEPT ![p] = NoJob]
  /\ seen' = [seen EXCEPT ![p] = NoEntries]
  /\ UNCHANGED <<acked, damaged, relinked, issued, faults>>

\* Between two steps; from the line on, tip and registry may be left behind.
Crash(p) ==
  /\ pc[p] # "idle"
  /\ Stop(p)
  /\ dirty' = IF pc[p] \in {"tip", "reglock", "regread", "regwrite"}
              THEN dirty \cup {Shard(p)} ELSE dirty
  /\ UNCHANGED <<disk, glued>>

\* Inside the write of the line: part of it reaches the disk, or all of it but
\* the newline.
CrashWriting(p) ==
  /\ pc[p] = "line"
  /\ Stop(p)
  /\ \/ /\ Shard(p) \notin unended
        /\ torn' = torn \cup {Shard(p)}
        /\ UNCHANGED <<lines, unended, glued>>
     \/ /\ Shard(p) \notin unended
        /\ lines' = [lines EXCEPT ![Shard(p)] = Append(@, NewLine(job[p]))]
        /\ unended' = unended \cup {Shard(p)}
        /\ UNCHANGED <<torn, glued>>
     \/ Glue(Shard(p))
  /\ present' = present \cup {Shard(p)}
  /\ dirty' = dirty \cup {Shard(p)}
  /\ UNCHANGED <<tip, registry>>

\* A line is removed or rewritten, or the shard disappears with its tip.
Fault(s) ==
  /\ s \in present
  /\ faults < MaxFaults
  /\ faults' = faults + 1
  /\ damaged' = damaged \cup {s}
  /\ \/ /\ \E i \in 1..Len(lines[s]) :
             /\ lines' = [lines EXCEPT ![s] = RemoveAt(@, i)]
             /\ unended' = IF i = Len(lines[s]) THEN unended \ {s} ELSE unended
        /\ UNCHANGED <<present, tip, torn>>
     \/ /\ \E i \in 1..Len(lines[s]) :
             lines' = [lines EXCEPT ![s][i].ev = Garbled(s)]
        /\ UNCHANGED <<present, tip, torn, unended>>
     \/ /\ lines' = [lines EXCEPT ![s] = <<>>]
        /\ present' = present \ {s}
        /\ tip' = [tip EXCEPT ![s] = NoMark]
        /\ torn' = torn \ {s} /\ unended' = unended \ {s}
  /\ UNCHANGED <<registry, locks, pc, job, seen, acked, dirty, relinked, glued, issued, crashes>>

-----------------------------------------------------------------------------
(* _cmd_log_verify: every shard file found, one after the other, then the  *)
(* registry's names.  It takes no lock.                                    *)

VerifyStart ==
  /\ v.at = "idle"
  /\ v' = [Idle EXCEPT !.at = "next", !.todo = present, !.names = present,
                       !.quiet = \A p \in Procs : pc[p] = "idle"]

\* The walk over the shard's lines as they are now.
VerifyWalk ==
  /\ v.at = "next"
  /\ \E s \in v.todo :
       v' = [v EXCEPT !.at = IF s \notin torn /\ WalkOK(lines[s]) THEN "tip" ELSE "next",
                      !.todo = @ \ {s}, !.shard = s,
                      !.count = Len(lines[s]), !.last = TailHash(lines[s]),
                      !.alarm = @ \/ s \in torn \/ ~WalkOK(lines[s])]

VerifyTip ==
  /\ v.at = "tip"
  /\ LET bad == Disagrees(tip[v.shard], v.count, v.last)
     IN  v' = [v EXCEPT !.at = IF bad THEN "next" ELSE "registry", !.alarm = @ \/ bad]

VerifyEntry ==
  /\ v.at = "registry"
  /\ v' = [v EXCEPT !.at = "next",
                    !.alarm = @ \/ Disagrees(registry[v.shard], v.count, v.last)]

\* Mutant: only the shards that are there are verified.
VerifyFoundOnly ==
  /\ v.at = "next"
  /\ v.todo = {}
  /\ v' = [v EXCEPT !.at = "done", !.shard = NoMark, !.count = 0, !.last = Genesis]

\* A shard the registry knows and the directory listing did not have: MISSING.
VerifyMissing ==
  /\ v.at = "next"
  /\ v.todo = {}
  /\ v' = [v EXCEPT !.at = "done", !.shard = NoMark, !.count = 0, !.last = Genesis,
                    !.alarm = @ \/ \E s \in Shards \ v.names : registry[s] # NoMark]

VerifyExit ==
  /\ v.at = "done"
  /\ v' = Idle

Verify == VerifyStart \/ VerifyWalk \/ VerifyTip \/ VerifyEntry \/ VerifyMissing \/ VerifyExit

-----------------------------------------------------------------------------
AppendStep(p) ==
  Begin(p) \/ LockShard(p) \/ ReadTail(p) \/ Refuse(p) \/ WriteLine(p) \/ WriteTip(p)
    \/ LockRegistry(p) \/ ReadRegistry(p) \/ WriteRegistry(p) \/ Return(p)

\* Anything that happens during a run of verify disturbs it.
Disturb == /\ Overlap \/ v.at = "idle"
           /\ v' = [v EXCEPT !.quiet = FALSE]

Next ==
  \/ \E p \in Procs : (AppendStep(p) \/ Crash(p) \/ CrashWriting(p)) /\ Disturb
  \/ \E s \in Shards : Fault(s) /\ Disturb
  \/ Verify /\ UNCHANGED <<disk, locks, pc, job, seen, ghosts, bounds>>

Spec == Init /\ [][Next]_vars

-----------------------------------------------------------------------------
(* Properties.                                                             *)

Busy == {"tail", "line", "tip", "reglock", "regread", "regwrite", "return"}

\* The type invariant; whoever is inside an append holds its shard's lock.
TypeOK ==
  /\ present \in SUBSET Shards /\ torn \in SUBSET Shards /\ unended \subseteq present
  /\ lines \in [Shards -> Seq(Line)]
  /\ tip \in [Shards -> Mark \cup {NoMark}]
  /\ registry \in [Shards -> Mark \cup {NoMark}]
  /\ shardLock \in [Shards -> Procs \cup {NoProc}]
  /\ regLock \in Procs \cup {NoProc}
  /\ pc \in [Procs -> Busy \cup {"idle", "lock"}]
  /\ seen \in [Procs -> [Shards -> Mark \cup {NoMark}]]
  /\ \A p \in Procs : pc[p] \in Busy => shardLock[Shard(p)] = p

\* However appends interleave and wherever crashes strike, the lines of a shard
\* nobody touched from outside form one unbroken chain.
ChainIntact == \A s \in Shards \ damaged : WalkOK(lines[s])

\* Tip and registry describe lines that are there, the registry never ahead of
\* the tip, and both are exact once no append is under way or left half done;
\* where a line was glued to another, they describe one that cannot be read.
MarksTrail ==
  \A s \in Shards \ (damaged \cup glued) :
    /\ \A m \in {tip[s], registry[s]} \ {NoMark} :
         m.count \in 1..Len(lines[s]) /\ m.hash = lines[s][m.count].hash
    /\ registry[s] # NoMark => tip[s] # NoMark /\ registry[s].count <= tip[s].count
    /\ shardLock[s] = NoProc /\ s \notin dirty /\ tip[s] # NoMark =>
         tip[s].count = Len(lines[s]) /\ registry[s] = tip[s]

\* A verify that nothing disturbed raises an alarm only over a shard that was
\* changed from outside or in which a crash left an append half recorded: the
\* next append that completes clears the latter, unless the crash cut a line
\* just before its newline.
NoFalseAlarm ==
  v.at = "done" /\ v.quiet /\ v.alarm => damaged \cup dirty \cup glued # {}

\* A verify that nothing disturbed reports OK only if every event whose append
\* returned is still in its shard, unless the shard was appended to after its
\* tail was lost: that append rewrites tip and registry over the loss.
LossReported ==
  v.at = "done" /\ v.quiet /\ ~v.alarm =>
    \A s \in Shards \ relinked : \A e \in acked : e[2] = s => e \in EventsOf(lines[s])

\* The comment at the tip update says verify always sees a tip that is
\* consistent with the line it describes: the tip it reads describes the lines
\* it has walked, if they are the lines that are there.
VerifyNeverSeesHalf ==
  v.at = "tip" /\ v.last = TailHash(lines[v.shard]) /\ damaged \cup dirty \cup glued = {} =>
    ~Disagrees(tip[v.shard], v.count, v.last)

\* The ledger implements the append-only event log.
Log == INSTANCE EventLog WITH
         log <- [s \in Shards |-> [i \in 1..Len(lines[s]) |-> lines[s][i].ev]],
         refusing <- torn
LogSpec == Log!Spec
=============================================================================
