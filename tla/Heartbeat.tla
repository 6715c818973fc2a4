----------------------------- MODULE Heartbeat -----------------------------
(***************************************************************************)
(* The memory-continuity heartbeat (scripts/heartbeat): passes of run.py    *)
(* over the project cards, the stall verdict, the alarms and the daily      *)
(* recompile, among people who edit the same files, work that goes on in    *)
(* the repositories, failing tools and kills.                              *)
(*                                                                         *)
(* Time counts days: a pass is timed by the day it began. Only one pass     *)
(* works at a time (lock.py: a second one exits at once), so pass is the    *)
(* state of the one that holds the lock.                                   *)
(***************************************************************************)
EXTENDS Naturals, Sequences, FiniteSets

CONSTANTS CardOrder,                \* the card files, sorted by name
          StallAfter,               \* days of silence a card allows
          Tier2Reasons,             \* what Tier-2 may answer
          Killable,                 \* whether passes may be killed
          MaxTime, MaxWork, MaxEdits, MaxFaults       \* bounds of a run

ESCALATE_AFTER  == 2                \* 48 hours
REMIND_COOLDOWN == 1                \* 24 hours
ReminderClass   == {"awaiting-decision", "frontier-reached"}
External        == "blocked-external"

Cards   == {CardOrder[k] : k \in DOMAIN CardOrder}
Prose   == "tail"                   \* the hand-written end of registry.md
Never   == 0                        \* time begins at 1

ASSUME HeartbeatAssumption ==
    /\ CardOrder \in Seq(STRING) /\ Prose \notin Cards
    /\ \A j, k \in DOMAIN CardOrder : CardOrder[j] = CardOrder[k] => j = k
    /\ {StallAfter, MaxTime, MaxWork, MaxEdits, MaxFaults} \subseteq Nat
    /\ MaxTime >= 1
    /\ Killable \in BOOLEAN

VARIABLES clock,
          works,
          evidence,   \* the newest commit or pull request of each repository
          card,       \* the card files
          registry,   \* registry.md: its shape and the edits in its tail
          store,      \* state.json: last_alarm and last_recompile_date
          pass,       \* the pass at work
          faults,
          edited,     \* the file of each edit made so far
          paged,      \* history: when each card was last announced
          lost,       \* history: cards whose alarm record never got to disk
          excused     \* history: edits between a pass's read and its write, or
                      \* in a file whose write a kill cut short

vars == <<clock, works, evidence, card, registry, store, pass, faults, edited,
          paged, lost, excused>>
files   == <<card, registry, store>>
world   == <<clock, works, evidence, faults, edited>>
history == <<paged, lost, excused>>

(* "odd": a field the runner rewrites has no line or two lines of its name; *)
(* "torn": what a kill inside write_text leaves.                           *)
Card(last, stalled, reason, edits, shape) ==
    [last |-> last, stalled |-> stalled, reason |-> reason,
     edits |-> edits, shape |-> shape]
NoReason  == "none"
FreshCard == Card(1, FALSE, NoReason, {}, "good")
TornCard  == Card(1, FALSE, NoReason, {}, "torn")

NoAlarms == [alarm |-> [c \in Cards |-> Never], day |-> Never]   \* load of no file

Off == [pc |-> "off", now |-> Never, k |-> 0,
        copy |-> FreshCard,        \* the card as it was read
        new |-> FreshCard,         \* the card as it will be written
        page |-> FALSE,            \* whether an announcement follows
        mind |-> NoAlarms,         \* state.json as loaded and changed since
        tail |-> {},               \* the tail of registry.md as read
        said |-> {},               \* history: the cards it announced
        outdated |-> FALSE]        \* history: work since the probe of this card

Init ==
    /\ clock = 1 /\ works = 0 /\ evidence = [c \in Cards |-> 1]
    /\ card = [c \in Cards |-> FreshCard]
    /\ registry = [shape |-> "good", edits |-> {}]
    /\ store = NoAlarms
    /\ pass = Off
    /\ faults = 0 /\ edited = <<>>
    /\ paged = [c \in Cards |-> Never] /\ lost = {} /\ excused = {}

-----------------------------------------------------------------------------
(* One pass                                                                *)

At(p)   == pass.pc = p
Slug    == CardOrder[pass.k]
Read    == pass.copy
NextCard == [pass EXCEPT !.pc = "read", !.k = @ + 1, !.copy = FreshCard,
                         !.new = FreshCard, !.page = FALSE, !.outdated = FALSE]

(* An exception nobody catches, or a kill: the lock is released, state.json *)
(* stays as it was.                                                        *)
Abort ==
    /\ pass' = Off
    /\ lost' = lost \cup pass.said
    /\ UNCHANGED <<paged, excused>>

Fault == faults < MaxFaults /\ faults' = faults + 1
SameWorld == UNCHANGED <<clock, works, evidence, edited>>

(* main: the time is read and state.json loaded once, at the start.        *)
Start ==
    /\ At("off")
    /\ pass' = [Off EXCEPT !.pc = "read", !.now = clock, !.k = 1, !.mind = store]
    /\ UNCHANGED <<files, world, history>>

\* Mutant: a card that does not parse ends the pass.
ReadCardOrStop ==
    /\ At("read") /\ pass.k \in DOMAIN CardOrder
    /\ IF card[Slug].shape = "torn" THEN Abort
       ELSE /\ pass' = [pass EXCEPT !.pc = "probe", !.copy = card[Slug]]
            /\ UNCHANGED history
    /\ UNCHANGED <<files, world>>

ReadCard ==
    /\ At("read") /\ pass.k \in DOMAIN CardOrder
    /\ pass' = IF card[Slug].shape = "torn" THEN NextCard
               ELSE [pass EXCEPT !.pc = "probe", !.copy = card[Slug]]
    /\ UNCHANGED <<files, world, history>>

\* Mutant: a probe without news forgets the activity on record.
NewestProbed(c) == IF evidence[c] > Read.last THEN evidence[c] ELSE Never

(* process_card, from the evidence to the verdict: refresh, clear, a new    *)
(* stall, or the repeated one that escalation.decide judges.                *)
Newest(c)  == IF evidence[c] > Read.last THEN evidence[c] ELSE Read.last
Within(t)  == pass.now <= t + StallAfter
Since(t)   == t + StallAfter

\* Mutant: reminder-class stalls are never announced again.
DecideNoReminder(c, t) ==
    /\ Read.reason \notin ReminderClass \cup {External}
    /\ pass.mind.alarm[c] = Never \/ pass.now >= pass.mind.alarm[c] + REMIND_COOLDOWN

Decide(c, t) ==
    /\ Read.reason # External
    /\ Read.reason \in ReminderClass => pass.now >= Since(t) + ESCALATE_AFTER
    /\ pass.mind.alarm[c] = Never \/ pass.now >= pass.mind.alarm[c] + REMIND_COOLDOWN

Verdict(c, t) ==
    LET seen == [Read EXCEPT !.last = t] IN
    IF Within(t)
    THEN [pass EXCEPT !.pc = "update",
                      !.new = [seen EXCEPT !.stalled = FALSE,
                                 !.reason = IF Read.stalled THEN NoReason ELSE @]]
    ELSE IF ~Read.stalled
    THEN [pass EXCEPT !.pc = "classify", !.new = [seen EXCEPT !.stalled = TRUE]]
    ELSE [pass EXCEPT !.pc = "update", !.new = seen, !.page = Decide(c, t)]

Probe ==
    /\ At("probe")
    /\ pass' = Verdict(Slug, Newest(Slug))
    /\ UNCHANGED <<files, world, history>>

\* Mutant: a probe that fails is read as no new activity.
ProbeFailsSilent ==
    /\ At("probe") /\ Fault
    /\ pass' = Verdict(Slug, Read.last)
    /\ SameWorld /\ UNCHANGED <<files, history>>

(* A probe that fails skips the card.                                      *)
ProbeFails ==
    /\ At("probe") /\ Fault
    /\ pass' = NextCard
    /\ SameWorld /\ UNCHANGED <<files, history>>

(* classify_stall asks a model: minutes, and any answer.                   *)
Classify ==
    /\ At("classify")
    /\ \E r \in Tier2Reasons, notify \in BOOLEAN :
         pass' = [pass EXCEPT !.pc = "update", !.new.reason = r, !.page = notify]
    /\ UNCHANGED <<files, world, history>>

ClassifyFails ==
    /\ At("classify") /\ Fault
    /\ Abort
    /\ SameWorld /\ UNCHANGED files

(* apply_updates refuses an odd card; nothing catches what it raises.       *)
Update ==
    /\ At("update")
    /\ IF pass.new = Read
       THEN /\ pass' = [pass EXCEPT !.pc = "notify"]
            /\ UNCHANGED <<files, history>>
       ELSE IF Read.shape = "odd"
       THEN Abort /\ UNCHANGED files
       ELSE /\ pass' = [pass EXCEPT !.pc = "notify"]
            /\ card' = [card EXCEPT ![Slug] = pass.new]
            /\ UNCHANGED <<registry, store, history>>
    /\ UNCHANGED world

(* notify.send, then record_alarm whether or not it was sent.              *)
Notify ==
    /\ At("notify")
    /\ IF pass.page
       THEN /\ pass' = [NextCard EXCEPT !.mind.alarm[Slug] = pass.now,
                                        !.said = @ \cup {Slug}]
            /\ paged' = [paged EXCEPT ![Slug] = pass.now]
       ELSE pass' = NextCard /\ UNCHANGED paged
    /\ UNCHANGED <<files, world, lost, excused>>

(* A webhook that takes the message and does not answer in time: urlopen    *)
(* raises a timeout that is no URLError.                                   *)
NotifyRaises ==
    /\ At("notify") /\ pass.page /\ Fault
    /\ paged' = [paged EXCEPT ![Slug] = pass.now]
    /\ lost' = lost \cup pass.said \cup {Slug}
    /\ pass' = Off
    /\ SameWorld /\ UNCHANGED <<files, excused>>

-----------------------------------------------------------------------------
(* The daily recompile                                                     *)

(* All cards are read again, and registry.md with its tail; a card that     *)
(* does not parse, or a registry without the tail's marker, raises.         *)
Recompile ==
    /\ At("read") /\ pass.k \notin DOMAIN CardOrder
    /\ IF pass.mind.day = pass.now
       THEN pass' = [pass EXCEPT !.pc = "save"] /\ UNCHANGED history
       ELSE IF registry.shape = "headless" \/ \E c \in Cards : card[c].shape = "torn"
       THEN Abort
       ELSE pass' = [pass EXCEPT !.pc = "digest", !.tail = registry.edits]
            /\ UNCHANGED history
    /\ UNCHANGED <<files, world>>

\* Mutant: the registry is generated anew, without the tail.
DigestAnew ==
    /\ At("digest")
    /\ registry' = [shape |-> "good", edits |-> {}]
    /\ pass' = [pass EXCEPT !.pc = "save", !.mind.day = pass.now]
    /\ UNCHANGED <<card, store, world, history>>

(* Synthesis and digest take minutes; then registry.md is written.         *)
Digest ==
    /\ At("digest")
    /\ registry' = [shape |-> "good", edits |-> pass.tail]
    /\ pass' = [pass EXCEPT !.pc = "save", !.mind.day = pass.now]
    /\ UNCHANGED <<card, store, world, history>>

DigestFails ==
    /\ At("digest") /\ Fault
    /\ Abort
    /\ SameWorld /\ UNCHANGED files

\* Mutant: only the date of the recompile is written back.
SaveDay ==
    /\ At("save")
    /\ store' = [store EXCEPT !.day = pass.mind.day]
    /\ pass' = Off
    /\ lost' = lost \ pass.said
    /\ UNCHANGED <<card, registry, world, paged, excused>>

(* state_store.save                                                         *)
Save ==
    /\ At("save")
    /\ store' = pass.mind
    /\ pass' = Off
    /\ lost' = lost \ pass.said
    /\ UNCHANGED <<card, registry, world, paged, excused>>

PassStep ==
    \/ ReadCard \/ Probe \/ Classify \/ Update \/ Notify
    \/ Recompile \/ Digest \/ Save

-----------------------------------------------------------------------------
(* The world around the passes                                             *)

Numbered(f) == {n \in DOMAIN edited : edited[n] = f}

Kill ==
    /\ ~At("off") /\ Killable /\ Fault
    /\ Abort
    /\ SameWorld /\ UNCHANGED files

(* write_text truncates before it writes: a kill in between leaves a card   *)
(* that does not parse, a registry.md that is empty or ends before its      *)
(* marker, or a state.json from which load starts anew.                    *)
Cut(p) == /\ At(p) /\ Killable /\ Fault
          /\ pass' = Off
          /\ UNCHANGED paged /\ SameWorld

CutCard ==
    /\ Cut("update") /\ pass.new # Read /\ Read.shape # "odd"
    /\ card' = [card EXCEPT ![Slug] = TornCard]
    /\ excused' = excused \cup Numbered(Slug)
    /\ lost' = lost \cup pass.said
    /\ UNCHANGED <<registry, store>>

CutRegistry ==
    /\ Cut("digest")
    /\ \E s \in {"empty", "headless"} : registry' = [shape |-> s, edits |-> {}]
    /\ excused' = excused \cup Numbered(Prose)
    /\ lost' = lost \cup pass.said
    /\ UNCHANGED <<card, store>>

CutState ==
    /\ Cut("save")
    /\ store' = NoAlarms
    /\ lost' = Cards
    /\ UNCHANGED <<card, registry, excused>>

\* A pass takes minutes and reads the clock once: days pass between passes.
Tick ==
    /\ At("off") /\ clock < MaxTime
    /\ clock' = clock + 1
    /\ UNCHANGED <<works, evidence, faults, edited, files, pass, history>>

Work(c) ==
    /\ evidence[c] < clock /\ works < MaxWork /\ works' = works + 1
    /\ evidence' = [evidence EXCEPT ![c] = clock]
    /\ pass' = [pass EXCEPT !.outdated =
                  @ \/ (pass.pc \in {"classify", "update"} /\ Slug = c)]
    /\ UNCHANGED <<clock, faults, edited, files, history>>

(* A person or an agent edits a card, or the tail of registry.md; an edit   *)
(* of a torn file writes it anew.                                          *)
Write(f) ==
    /\ Len(edited) < MaxEdits
    /\ edited' = Append(edited, f)
    /\ UNCHANGED <<clock, works, evidence, faults, store, pass, paged, lost>>

EditCard(c) ==
    /\ Write(c)
    /\ \E s \in {"good", "odd"} :
         card' = [card EXCEPT ![c].edits = @ \cup {Len(edited')}, ![c].shape = s]
    /\ excused' = IF pass.pc \in {"probe", "classify", "update"} /\ Slug = c
                  THEN excused \cup {Len(edited')} ELSE excused
    /\ UNCHANGED registry

EditTail ==
    /\ Write(Prose)
    /\ registry' = [shape |-> "good", edits |-> registry.edits \cup {Len(edited')}]
    /\ excused' = IF At("digest")
                  THEN excused \cup {Len(edited')} ELSE excused
    /\ UNCHANGED card

Next ==
    \/ Start \/ PassStep
    \/ ProbeFails \/ ClassifyFails \/ NotifyRaises \/ DigestFails
    \/ Kill \/ CutCard \/ CutRegistry \/ CutState
    \/ Tick \/ \E c \in Cards : Work(c) \/ EditCard(c)
    \/ EditTail

(* A timer starts passes for ever, and a pass runs as long as nothing       *)
(* stops it.                                                               *)
Fairness == WF_vars(Start) /\ WF_vars(PassStep)
Spec == Init /\ [][Next]_vars /\ Fairness

-----------------------------------------------------------------------------
(* Properties                                                              *)

Shapes == {"good", "odd", "torn"}
CardType == [last : 1..MaxTime, stalled : BOOLEAN, reason : Tier2Reasons \cup {NoReason},
             edits : SUBSET (1..MaxEdits), shape : Shapes]
StoreType == [alarm : [Cards -> 0..MaxTime], day : 0..MaxTime]

TypeOK ==
    /\ clock \in 1..MaxTime /\ evidence \in [Cards -> 1..MaxTime]
    /\ card \in [Cards -> CardType]
    /\ registry \in [shape : {"good", "empty", "headless"}, edits : SUBSET (1..MaxEdits)]
    /\ store \in StoreType
    /\ pass \in [pc : {"off", "read", "probe", "classify", "update", "notify",
                        "digest", "save"},
                  now : 0..MaxTime, k : 0..(Len(CardOrder) + 1), copy : CardType,
                  new : CardType, page : BOOLEAN, mind : StoreType,
                  tail : SUBSET (1..MaxEdits), said : SUBSET Cards, outdated : BOOLEAN]
    /\ paged \in [Cards -> 0..MaxTime] /\ lost \subseteq Cards
    /\ excused \subseteq DOMAIN edited

(* No edit of a card or of the registry's tail is lost, except one made     *)
(* while a pass had the file read and not yet written (it asks GitHub and a *)
(* model in between), or one in a file whose write was cut short: nothing   *)
(* is written aside and renamed.                                           *)
EditsKept ==
    \A n \in DOMAIN edited :
        \/ n \in excused
        \/ IF edited[n] = Prose
           THEN n \in registry.edits ELSE n \in card[edited[n]].edits

(* A card is only ever written down as stalled if its repository had been   *)
(* silent for longer than the card allows: no failed probe, and nothing the *)
(* card remembers wrongly, is taken for silence (probes.py).               *)
StallsAreReal ==
    [][At("update") /\ pass'.pc = "notify" /\ card'[Slug].stalled =>
          pass.outdated \/ evidence[Slug] + StallAfter < pass.now]_vars

(* Two announcements of one stall are a cooldown apart, unless the record   *)
(* of the first never reached state.json.                                  *)
Reminding == At("notify") /\ pass.page /\ pass.copy.stalled /\ paged[Slug] # Never
RemindersSpaced ==
    Reminding /\ Slug \notin lost => pass.now >= paged[Slug] + REMIND_COOLDOWN

(* A pass gets to a card unless an earlier card, or the card itself, cannot *)
(* be rewritten, or the card does not parse.                               *)
Blocked(c) ==
    \/ \E k \in DOMAIN CardOrder :
         /\ \E j \in DOMAIN CardOrder : CardOrder[j] = c /\ k <= j
         /\ card[CardOrder[k]].shape = "odd"
    \/ card[c].shape = "torn"

Silent(c) == evidence[c] + StallAfter < clock

(* Silence beyond what the card allows is noticed, through failing probes,  *)
(* failing models, kills and torn neighbours, as long as these end.        *)
StallNoticed ==
    \A c \in Cards : Silent(c) ~> card[c].stalled \/ ~Silent(c) \/ Blocked(c)

(* A stall that has stood for two days is announced, though the pass that   *)
(* wrote it down was killed before it said a word; blocked-external never.  *)
StallAnnounced ==
    \A c \in Cards :
        card[c].stalled /\ clock >= card[c].last + StallAfter + ESCALATE_AFTER
          ~> \/ paged[c] # Never
             \/ ~card[c].stalled \/ card[c].reason = External \/ Blocked(c)
=============================================================================
