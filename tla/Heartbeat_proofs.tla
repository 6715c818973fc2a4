-------------------------- MODULE Heartbeat_proofs --------------------------
(***************************************************************************)
(* Proofs about the heartbeat, for any cards, edits, work, kills and       *)
(* failing tools: edits are kept, reminders are spaced, and silence that   *)
(* is written down was real.                                               *)
(***************************************************************************)
EXTENDS Heartbeat, SequenceTheorems, TLAPS

-----------------------------------------------------------------------------
(* The inductive invariant.                                                *)

PassType == [pc : {"off", "read", "probe", "classify", "update", "notify",
                    "digest", "save"},
             now : 0..MaxTime, k : 0..(Len(CardOrder) + 1), copy : CardType,
             new : CardType, page : BOOLEAN, mind : StoreType,
             tail : SUBSET (1..MaxEdits), said : SUBSET Cards, outdated : BOOLEAN]

OnCard    == {"probe", "classify", "update", "notify"}
HoldsCard == {"probe", "classify", "update"}     \* the card is read and not yet written

Typed ==
    /\ TypeOK
    /\ edited \in Seq(Cards \cup {Prose}) /\ Len(edited) <= MaxEdits
    /\ pass.pc \in OnCard => pass.k \in DOMAIN CardOrder
    /\ pass.pc = "off" => pass.said = {}

(* What a pass will write back holds every edit that nothing excuses.      *)
EditsHeld ==
    \A n \in DOMAIN edited : n \notin excused =>
        /\ At("digest") /\ edited[n] = Prose => n \in pass.tail
        /\ pass.pc \in HoldsCard /\ edited[n] = Slug =>
             /\ n \in pass.copy.edits
             /\ ~At("probe") => n \in pass.new.edits

(* The alarms a pass goes by, and those it will leave, are the announced    *)
(* ones, but for those that were lost.                                     *)
AlarmsKnown ==
    \A c \in Cards :
        /\ c \notin lost \cup pass.said => store.alarm[c] = paged[c]
        /\ ~At("off") /\ (c \notin lost \/ c \in pass.said) =>
             pass.mind.alarm[c] = paged[c]

(* A pass that holds a card has its verdict on it as it is, and a reminder  *)
(* is due by the alarms it knows.                                          *)
VerdictHeld ==
    /\ pass.pc \in HoldsCard => card[Slug].stalled = pass.copy.stalled
    /\ pass.pc \in {"read", "probe", "classify"} => ~pass.page
    /\ At("classify") => ~pass.copy.stalled
    /\ pass.pc \in {"classify", "update"} /\ pass.new.stalled =>
         pass.outdated \/ evidence[Slug] + StallAfter < pass.now
    /\ pass.pc \in {"update", "notify"} /\ pass.page /\ pass.copy.stalled =>
         \/ pass.mind.alarm[Slug] = Never
         \/ pass.now >= pass.mind.alarm[Slug] + REMIND_COOLDOWN

IInv == Typed /\ EditsKept /\ EditsHeld /\ AlarmsKnown /\ VerdictHeld

-----------------------------------------------------------------------------
(* What the steps have in common.                                          *)

LEMMA Numbers ==
  /\ StallAfter \in Nat /\ MaxTime \in Nat /\ MaxTime >= 1 /\ MaxEdits \in Nat
  /\ ESCALATE_AFTER = 2 /\ REMIND_COOLDOWN = 1 /\ Never = 0
  BY HeartbeatAssumption DEF ESCALATE_AFTER, REMIND_COOLDOWN, Never

LEMMA CardFacts ==
  /\ CardOrder \in Seq(STRING) /\ Len(CardOrder) \in Nat
  /\ DOMAIN CardOrder = 1..Len(CardOrder)
  /\ \A k \in DOMAIN CardOrder : CardOrder[k] \in Cards
  /\ Prose \notin Cards
  BY HeartbeatAssumption, LenProperties DEF Cards

LEMMA Constants ==
  /\ FreshCard \in CardType /\ TornCard \in CardType /\ NoAlarms \in StoreType
  /\ FreshCard.edits = {} /\ TornCard.edits = {}
  /\ ~FreshCard.stalled /\ ~TornCard.stalled
  BY Numbers DEF FreshCard, TornCard, Card, CardType, Shapes, NoAlarms, StoreType

LEMMA OffFacts ==
  /\ Off \in PassType /\ Off.pc = "off" /\ Off.said = {} /\ ~Off.page
  /\ Off.now = 0 /\ Off.tail = {}
  <1>1. 0 \in 0..MaxTime /\ 0 \in 0..(Len(CardOrder) + 1)
    BY Numbers, CardFacts
  <1>2. Never \in 0..MaxTime
    BY <1>1, Numbers
  <1>3. QED  BY <1>1, <1>2, Constants, Numbers DEF Off, PassType

\* Where a pass is, and on which card.
LEMMA PassFacts ==
  ASSUME Typed
  PROVE  /\ pass \in PassType
         /\ pass.now \in 0..MaxTime /\ pass.copy \in CardType /\ pass.new \in CardType
         /\ pass.mind \in StoreType /\ pass.said \subseteq Cards /\ pass.page \in BOOLEAN
         /\ pass.pc \in OnCard => /\ Slug \in Cards /\ pass.k \in 1..Len(CardOrder)
                                  /\ card[Slug] \in CardType /\ evidence[Slug] \in 1..MaxTime
  <1>1. pass \in PassType /\ card \in [Cards -> CardType] /\ evidence \in [Cards -> 1..MaxTime]
    BY DEF Typed, TypeOK, PassType
  <1>2. /\ pass.now \in 0..MaxTime /\ pass.copy \in CardType /\ pass.new \in CardType
        /\ pass.mind \in StoreType /\ pass.said \subseteq Cards /\ pass.page \in BOOLEAN
    BY <1>1 DEF PassType
  <1>3. pass.pc \in OnCard => Slug \in Cards /\ pass.k \in 1..Len(CardOrder)
    BY CardFacts DEF Typed, Slug
  <1>4. QED  BY <1>1, <1>2, <1>3

\* The step to the next card.
LEMMA NextFacts ==
  ASSUME Typed, pass.pc \in OnCard \/ (pass.pc = "read" /\ pass.k \in DOMAIN CardOrder)
  PROVE  /\ NextCard \in PassType
         /\ NextCard.pc = "read" /\ NextCard.now = pass.now /\ ~NextCard.page
         /\ NextCard.mind = pass.mind /\ NextCard.said = pass.said
  <1>1. pass \in PassType /\ pass.k \in 1..Len(CardOrder)
    BY PassFacts, CardFacts
  <1>2. pass.k + 1 \in 0..(Len(CardOrder) + 1)
    BY <1>1, CardFacts
  <1>3. QED  BY <1>1, <1>2, Constants DEF NextCard, PassType

\* A step of a pass that writes nothing.
LEMMA PassOnly ==
  ASSUME IInv, pass' \in PassType,
         UNCHANGED <<files, clock, evidence, edited, history>>,
         pass'.pc \in OnCard => pass'.k \in DOMAIN CardOrder,
         pass'.pc = "off" => pass'.said = {},
         EditsHeld', AlarmsKnown', VerdictHeld'
  PROVE  IInv'
  <1>1. Typed'
    BY DEF IInv, Typed, TypeOK, PassType, files, history
  <1>2. EditsKept'
    BY DEF IInv, EditsKept, files, history
  <1>3. QED  BY <1>1, <1>2 DEF IInv

\* A pass that has ended, whatever it leaves, holds nothing.
LEMMA NothingHeld ==
  ASSUME pass' = Off
  PROVE  EditsHeld' /\ VerdictHeld'
  <1>1. pass'.pc = "off" /\ ~pass'.page
    BY OffFacts
  <1>2. QED  BY <1>1 DEF EditsHeld, VerdictHeld, At, HoldsCard

LEMMA Aborts ==
  ASSUME IInv, Abort, UNCHANGED <<files, clock, evidence, edited>>
  PROVE  IInv'
  <1>1. pass' = Off /\ lost' = lost \cup pass.said /\ paged' = paged /\ excused' = excused
    BY DEF Abort
  <1>2. pass' \in PassType /\ pass'.pc = "off" /\ pass'.said = {}
    BY <1>1, OffFacts
  <1>3. Typed'
    <2>1. lost' \subseteq Cards
      BY <1>1, PassFacts DEF IInv, Typed, TypeOK
    <2>2. TypeOK'
      BY <1>1, <1>2, <2>1 DEF IInv, Typed, TypeOK, PassType, files
    <2>3. QED  BY <1>2, <2>2 DEF IInv, Typed, OnCard
  <1>4. EditsKept'
    BY <1>1 DEF IInv, EditsKept, files
  <1>5. AlarmsKnown'
    BY <1>1, <1>2 DEF IInv, AlarmsKnown, At, files
  <1>6. QED  BY <1>1, <1>3, <1>4, <1>5, NothingHeld DEF IInv

LEMMA InitIInv == Init => IInv
  <1> SUFFICES ASSUME Init PROVE IInv
    OBVIOUS
  <1>1. pass \in PassType /\ pass.pc = "off" /\ pass.said = {} /\ ~pass.page
    BY OffFacts DEF Init
  <1>2. edited = <<>> /\ Len(edited) = 0 /\ edited \in Seq(Cards \cup {Prose})
        /\ DOMAIN edited = {}
    BY EmptySeq DEF Init
  <1>3. TypeOK
    <2>1. 1 \in 1..MaxTime /\ 0 \in 0..MaxTime
      BY Numbers
    <2>2. /\ clock \in 1..MaxTime /\ evidence \in [Cards -> 1..MaxTime]
          /\ card \in [Cards -> CardType] /\ store \in StoreType
          /\ paged \in [Cards -> 0..MaxTime]
      BY <2>1, Constants, Numbers DEF Init
    <2>3. registry \in [shape : {"good", "empty", "headless"}, edits : SUBSET (1..MaxEdits)]
          /\ lost = {} /\ excused = {}
      BY DEF Init
    <2>4. excused \subseteq DOMAIN edited
      BY <2>3
    <2>5. QED  BY <1>1, <2>2, <2>3, <2>4 DEF TypeOK, PassType
  <1>4. Typed
    BY <1>1, <1>2, <1>3, Numbers DEF Typed, OnCard
  <1>5. EditsKept /\ EditsHeld
    BY <1>2 DEF EditsKept, EditsHeld
  <1>6. AlarmsKnown /\ VerdictHeld
    BY <1>1 DEF Init, NoAlarms, Never, AlarmsKnown, VerdictHeld, At, HoldsCard
  <1>7. QED  BY <1>4, <1>5, <1>6 DEF IInv

-----------------------------------------------------------------------------
(* One lemma per action: the steps of a pass.                              *)

LEMMA StartIInv == ASSUME IInv, Start PROVE IInv'
  <1>1. /\ pass.pc = "off"
        /\ pass' = [Off EXCEPT !.pc = "read", !.now = clock, !.k = 1, !.mind = store]
        /\ UNCHANGED <<files, clock, evidence, edited, history>>
    BY DEF Start, At, world
  <1>2. clock \in 0..MaxTime /\ store \in StoreType /\ 1 \in 0..(Len(CardOrder) + 1)
    BY Numbers, CardFacts DEF IInv, Typed, TypeOK
  <1>3. /\ pass' \in PassType /\ pass'.pc = "read" /\ pass'.mind = store /\ pass'.said = {}
        /\ ~pass'.page
    BY <1>1, <1>2, OffFacts DEF PassType
  <1>4. EditsHeld' /\ VerdictHeld'
    BY <1>3 DEF EditsHeld, VerdictHeld, At, HoldsCard
  <1>5. AlarmsKnown'
    <2>1. pass.said = {}
      BY <1>1 DEF IInv, Typed
    <2>2. store' = store /\ paged' = paged /\ lost' = lost
      BY <1>1 DEF files, history
    <2>3. QED  BY <1>3, <2>1, <2>2 DEF IInv, AlarmsKnown, At
  <1>6. QED  BY <1>1, <1>3, <1>4, <1>5, PassOnly DEF OnCard

\* On to the next card, nothing written.
LEMMA SkipsCard ==
  ASSUME IInv, pass.pc \in OnCard \/ (pass.pc = "read" /\ pass.k \in DOMAIN CardOrder),
         pass' = NextCard, UNCHANGED <<files, clock, evidence, edited, history>>
  PROVE  IInv'
  <1>1. /\ pass' \in PassType /\ pass'.pc = "read" /\ pass'.mind = pass.mind
        /\ pass'.said = pass.said /\ ~pass'.page
    BY NextFacts DEF IInv
  <1>2. EditsHeld' /\ VerdictHeld'
    BY <1>1 DEF EditsHeld, VerdictHeld, At, HoldsCard
  <1>3. AlarmsKnown'
    BY <1>1 DEF IInv, AlarmsKnown, At, files, history, OnCard
  <1>4. QED  BY <1>1, <1>2, <1>3, PassOnly DEF OnCard

LEMMA ReadCardIInv == ASSUME IInv, ReadCard PROVE IInv'
  <1>1. /\ pass.pc = "read" /\ pass.k \in DOMAIN CardOrder
        /\ UNCHANGED <<files, clock, evidence, edited, history>>
    BY DEF ReadCard, At, world
  <1>2. CASE card[Slug].shape = "torn"
    <2>1. pass' = NextCard
      BY <1>2 DEF ReadCard
    <2>2. QED  BY <1>1, <2>1, SkipsCard
  <1>3. CASE card[Slug].shape # "torn"
    <2>1. pass' = [pass EXCEPT !.pc = "probe", !.copy = card[Slug]]
      BY <1>3 DEF ReadCard
    <2>2. Slug \in Cards /\ card[Slug] \in CardType
      BY <1>1, CardFacts DEF Slug, IInv, Typed, TypeOK
    <2>3. /\ pass' \in PassType /\ pass'.pc = "probe" /\ pass'.copy = card[Slug]
          /\ pass'.k = pass.k /\ pass'.mind = pass.mind /\ pass'.said = pass.said
          /\ pass'.page = pass.page
      BY <2>1, <2>2, PassFacts DEF IInv, PassType
    <2>4. Slug' = Slug
      BY <2>3 DEF Slug
    <2>5. EditsHeld'
      <3>1. ASSUME NEW n \in DOMAIN edited', n \notin excused', edited'[n] = Slug'
            PROVE  n \in pass'.copy.edits
        <4>1. n \in DOMAIN edited /\ n \notin excused /\ edited[n] = Slug /\ edited[n] # Prose
          BY <1>1, <2>2, <2>4, <3>1, CardFacts DEF history
        <4>2. QED  BY <2>3, <4>1 DEF IInv, EditsKept
      <3>2. QED  BY <2>3, <3>1 DEF EditsHeld, At
    <2>6. VerdictHeld'
      BY <1>1, <2>3, <2>4 DEF IInv, VerdictHeld, At, files
    <2>7. AlarmsKnown'
      BY <1>1, <2>3 DEF IInv, AlarmsKnown, At, files, history
    <2>8. QED  BY <1>1, <2>3, <2>5, <2>6, <2>7, PassOnly
  <1>4. QED  BY <1>2, <1>3

\* What a verdict says of the card as it was read.
LEMMA VerdictFacts ==
  ASSUME Typed, pass.pc = "probe", ~pass.page, NEW t \in 1..MaxTime
  PROVE  /\ Verdict(Slug, t) \in PassType
         /\ Verdict(Slug, t).pc \in {"classify", "update"}
         /\ Verdict(Slug, t).k = pass.k /\ Verdict(Slug, t).now = pass.now
         /\ Verdict(Slug, t).copy = pass.copy /\ Verdict(Slug, t).mind = pass.mind
         /\ Verdict(Slug, t).said = pass.said /\ Verdict(Slug, t).outdated = pass.outdated
         /\ Verdict(Slug, t).new.edits = pass.copy.edits
         /\ Verdict(Slug, t).new.stalled => ~Within(t)
         /\ Verdict(Slug, t).pc = "classify" => ~pass.copy.stalled /\ ~Verdict(Slug, t).page
         /\ Verdict(Slug, t).page /\ pass.copy.stalled => Decide(Slug, t)
  <1> DEFINE seen == [pass.copy EXCEPT !.last = t]
             fine == [seen EXCEPT !.stalled = FALSE,
                        !.reason = IF pass.copy.stalled THEN NoReason ELSE @]
             ill  == [seen EXCEPT !.stalled = TRUE]
             v    == Verdict(Slug, t)
  <1>1. pass \in PassType /\ pass.copy \in CardType
    BY PassFacts
  <1>2. /\ seen \in CardType /\ seen.edits = pass.copy.edits
        /\ seen.stalled = pass.copy.stalled
    BY <1>1 DEF CardType
  <1>3. fine \in CardType /\ fine.edits = pass.copy.edits /\ ~fine.stalled
    BY <1>1, <1>2 DEF CardType
  <1>4. ill \in CardType /\ ill.edits = pass.copy.edits
    BY <1>1, <1>2 DEF CardType
  <1>5. v = IF Within(t) THEN [pass EXCEPT !.pc = "update", !.new = fine]
            ELSE IF ~pass.copy.stalled THEN [pass EXCEPT !.pc = "classify", !.new = ill]
            ELSE [pass EXCEPT !.pc = "update", !.new = seen, !.page = Decide(Slug, t)]
    BY DEF Verdict, Read
  <1>6. Decide(Slug, t) \in BOOLEAN
    BY DEF Decide
  <1> HIDE DEF seen, fine, ill, v
  <1>7. CASE Within(t)
    <2>1. v = [pass EXCEPT !.pc = "update", !.new = fine]
      BY <1>5, <1>7
    <2>2. /\ v \in PassType /\ v.pc = "update" /\ v.k = pass.k /\ v.now = pass.now
          /\ v.copy = pass.copy /\ v.mind = pass.mind /\ v.said = pass.said
          /\ v.outdated = pass.outdated /\ v.new = fine /\ v.page = pass.page
      BY <1>1, <1>3, <2>1 DEF PassType
    <2>3. QED  BY <1>3, <2>2 DEF v
  <1>8. CASE ~Within(t) /\ ~pass.copy.stalled
    <2>1. v = [pass EXCEPT !.pc = "classify", !.new = ill]
      BY <1>5, <1>8
    <2>2. /\ v \in PassType /\ v.pc = "classify" /\ v.k = pass.k /\ v.now = pass.now
          /\ v.copy = pass.copy /\ v.mind = pass.mind /\ v.said = pass.said
          /\ v.outdated = pass.outdated /\ v.new = ill /\ v.page = pass.page
      BY <1>1, <1>4, <2>1 DEF PassType
    <2>3. QED  BY <1>4, <1>8, <2>2 DEF v
  <1>9. CASE ~Within(t) /\ pass.copy.stalled
    <2>1. v = [pass EXCEPT !.pc = "update", !.new = seen, !.page = Decide(Slug, t)]
      BY <1>5, <1>9
    <2>2. /\ v \in PassType /\ v.pc = "update" /\ v.k = pass.k /\ v.now = pass.now
          /\ v.copy = pass.copy /\ v.mind = pass.mind /\ v.said = pass.said
          /\ v.outdated = pass.outdated /\ v.new = seen /\ (v.page <=> Decide(Slug, t))
      BY <1>1, <1>2, <1>6, <2>1 DEF PassType
    <2>3. QED  BY <1>2, <1>9, <2>2 DEF v
  <1>10. QED  BY <1>7, <1>8, <1>9

LEMMA ProbeIInv == ASSUME IInv, Probe PROVE IInv'
  <1>1. /\ pass.pc = "probe" /\ pass' = Verdict(Slug, Newest(Slug))
        /\ UNCHANGED <<files, clock, evidence, edited, history>>
    BY DEF Probe, At, world
  <1>2. /\ Slug \in Cards /\ pass.copy.last \in 1..MaxTime /\ evidence[Slug] \in 1..MaxTime
        /\ pass.now \in 0..MaxTime
    <2>1. Slug \in Cards /\ pass.copy \in CardType /\ evidence[Slug] \in 1..MaxTime
          /\ pass.now \in 0..MaxTime
      BY <1>1, PassFacts DEF IInv, OnCard
    <2>2. QED  BY <2>1 DEF CardType
  <1>3. Newest(Slug) \in 1..MaxTime /\ evidence[Slug] <= Newest(Slug)
    BY <1>2, Numbers DEF Newest, Read
  <1>4. ~pass.page
    BY <1>1 DEF IInv, VerdictHeld
  <1> DEFINE t == Newest(Slug)
  <1>5. /\ pass' \in PassType /\ pass'.pc \in {"classify", "update"}
        /\ pass'.k = pass.k /\ pass'.now = pass.now
        /\ pass'.copy = pass.copy /\ pass'.mind = pass.mind
        /\ pass'.said = pass.said /\ pass'.outdated = pass.outdated
        /\ pass'.new.edits = pass.copy.edits
        /\ pass'.new.stalled => ~Within(t)
        /\ pass'.pc = "classify" => ~pass.copy.stalled /\ ~pass'.page
        /\ pass'.page /\ pass.copy.stalled => Decide(Slug, t)
    BY <1>1, <1>3, <1>4, VerdictFacts DEF IInv
  <1>6. Slug' = Slug
    BY <1>5 DEF Slug
  <1>7. EditsHeld'
    BY <1>1, <1>5, <1>6 DEF IInv, EditsHeld, At, HoldsCard, history
  <1>8. AlarmsKnown'
    BY <1>1, <1>5 DEF IInv, AlarmsKnown, At, files, history
  <1>9. ~Within(t) => evidence[Slug] + StallAfter < pass.now
    <2>1. t \in 1..MaxTime /\ evidence[Slug] <= t
      BY <1>3
    <2> HIDE DEF t
    <2>2. QED  BY <1>2, <2>1, Numbers DEF Within
  <1> HIDE DEF t
  <1>10. VerdictHeld'
    <2>1. card'[Slug'].stalled = pass'.copy.stalled
      BY <1>1, <1>5, <1>6 DEF IInv, VerdictHeld, HoldsCard, files
    <2>2. pass'.new.stalled => evidence'[Slug'] + StallAfter < pass'.now
      BY <1>1, <1>5, <1>6, <1>9
    <2>3. pass'.page /\ pass'.copy.stalled =>
            \/ pass'.mind.alarm[Slug'] = Never
            \/ pass'.now >= pass'.mind.alarm[Slug'] + REMIND_COOLDOWN
      BY <1>5, <1>6 DEF Decide
    <2>4. QED  BY <1>5, <2>1, <2>2, <2>3 DEF VerdictHeld, At
  <1>11. pass'.k \in DOMAIN CardOrder
    BY <1>1, <1>5 DEF IInv, Typed, OnCard
  <1>12. QED  BY <1>1, <1>5, <1>7, <1>8, <1>10, <1>11, PassOnly

LEMMA ProbeFailsIInv == ASSUME IInv, ProbeFails PROVE IInv'
  BY SkipsCard DEF ProbeFails, At, OnCard, SameWorld

LEMMA ClassifyIInv == ASSUME IInv, Classify PROVE IInv'
  <1>1. PICK r \in Tier2Reasons : \E notify \in BOOLEAN :
          pass' = [pass EXCEPT !.pc = "update", !.new.reason = r, !.page = notify]
    BY DEF Classify
  <1>2. PICK notify \in BOOLEAN :
          pass' = [pass EXCEPT !.pc = "update", !.new.reason = r, !.page = notify]
    BY <1>1
  <1>3. pass.pc = "classify" /\ UNCHANGED <<files, clock, evidence, edited, history>>
    BY DEF Classify, At, world
  <1> DEFINE new == [pass.new EXCEPT !.reason = r]
  <1>4. pass \in PassType /\ pass.new \in CardType
    BY PassFacts DEF IInv
  <1>5. new \in CardType /\ new.edits = pass.new.edits /\ new.stalled = pass.new.stalled
    BY <1>4 DEF CardType
  <1>6. pass' = [pass EXCEPT !.pc = "update", !.new = new, !.page = notify]
    BY <1>2, <1>4 DEF PassType
  <1> HIDE DEF new
  <1>7. /\ pass' \in PassType /\ pass'.pc = "update" /\ pass'.new = new
        /\ pass'.k = pass.k /\ pass'.now = pass.now
        /\ pass'.copy = pass.copy /\ pass'.mind = pass.mind
        /\ pass'.said = pass.said /\ pass'.outdated = pass.outdated
    BY <1>4, <1>5, <1>6 DEF PassType
  <1>8. Slug' = Slug
    BY <1>7 DEF Slug
  <1>9. EditsHeld'
    BY <1>3, <1>5, <1>7, <1>8 DEF IInv, EditsHeld, At, HoldsCard, history
  <1>10. AlarmsKnown'
    BY <1>3, <1>7 DEF IInv, AlarmsKnown, At, files, history
  <1>11. VerdictHeld'
    BY <1>3, <1>5, <1>7, <1>8 DEF IInv, VerdictHeld, At, HoldsCard, files
  <1>12. pass'.k \in DOMAIN CardOrder
    BY <1>3, <1>7 DEF IInv, Typed, OnCard
  <1>13. QED  BY <1>3, <1>7, <1>9, <1>10, <1>11, <1>12, PassOnly

LEMMA UpdateIInv == ASSUME IInv, Update PROVE IInv'
  <1>1. pass.pc = "update" /\ UNCHANGED <<clock, evidence, edited>>
    BY DEF Update, At, world
  <1>2. /\ pass \in PassType /\ Slug \in Cards /\ pass.new \in CardType
        /\ pass.k \in DOMAIN CardOrder
    BY <1>1, PassFacts DEF IInv, Typed, OnCard
  <1>3. ASSUME pass' = [pass EXCEPT !.pc = "notify"]
        PROVE  /\ pass' \in PassType /\ pass'.pc = "notify" /\ pass'.k = pass.k
               /\ pass'.said = pass.said /\ Slug' = Slug
               /\ pass'.now = pass.now /\ pass'.mind = pass.mind
               /\ pass'.page = pass.page /\ pass'.copy = pass.copy
    BY <1>2, <1>3 DEF PassType, Slug
  <1>4. ASSUME pass' = [pass EXCEPT !.pc = "notify"], UNCHANGED <<store, history>>
        PROVE  EditsHeld' /\ VerdictHeld' /\ AlarmsKnown'
    <2>1. EditsHeld'
      BY <1>3, <1>4 DEF EditsHeld, At, HoldsCard
    <2>2. VerdictHeld'
      BY <1>1, <1>3, <1>4 DEF IInv, VerdictHeld, At, HoldsCard
    <2>3. AlarmsKnown'
      BY <1>1, <1>3, <1>4 DEF IInv, AlarmsKnown, At, history
    <2>4. QED  BY <2>1, <2>2, <2>3
  <1>5. CASE pass.new = Read
    <2>1. pass' = [pass EXCEPT !.pc = "notify"] /\ UNCHANGED <<files, history>>
      BY <1>5 DEF Update
    <2>2. EditsHeld' /\ VerdictHeld' /\ AlarmsKnown'
      BY <1>4, <2>1 DEF files
    <2>3. QED  BY <1>1, <1>2, <1>3, <2>1, <2>2, PassOnly
  <1>6. CASE pass.new # Read /\ Read.shape = "odd"
    <2>1. Abort /\ UNCHANGED files
      BY <1>6 DEF Update
    <2>2. QED  BY <1>1, <2>1, Aborts
  <1>7. CASE pass.new # Read /\ Read.shape # "odd"
    <2>1. /\ pass' = [pass EXCEPT !.pc = "notify"] /\ card' = [card EXCEPT ![Slug] = pass.new]
          /\ UNCHANGED <<registry, store, history>>
      BY <1>7 DEF Update
    <2>2. EditsHeld' /\ VerdictHeld' /\ AlarmsKnown'
      BY <1>4, <2>1
    <2>3. Typed'
      <3>1. card' \in [Cards -> CardType]
        BY <1>2, <2>1 DEF IInv, Typed, TypeOK
      <3>2. TypeOK'
        BY <1>1, <1>3, <2>1, <3>1 DEF IInv, Typed, TypeOK, PassType, history
      <3>3. QED  BY <1>1, <1>2, <1>3, <2>1, <3>2 DEF IInv, Typed
    <2>4. EditsKept'
      <3>1. ASSUME NEW n \in DOMAIN edited, n \notin excused, edited[n] # Prose
            PROVE  n \in card'[edited[n]].edits
        <4>1. edited[n] \in Cards
          BY <3>1, ElementOfSeq, LenProperties DEF IInv, Typed
        <4>2. CASE edited[n] = Slug
          <5>1. n \in pass.new.edits
            BY <1>1, <3>1, <4>2 DEF IInv, EditsHeld, At, HoldsCard
          <5>2. QED  BY <1>2, <2>1, <4>2, <5>1 DEF IInv, Typed, TypeOK
        <4>3. CASE edited[n] # Slug
          <5>1. card'[edited[n]] = card[edited[n]]
            BY <2>1, <4>1, <4>3 DEF IInv, Typed, TypeOK
          <5>2. QED  BY <3>1, <5>1 DEF IInv, EditsKept
        <4>4. QED  BY <4>2, <4>3
      <3>2. QED  BY <1>1, <2>1, <3>1 DEF IInv, EditsKept, history
    <2>5. QED  BY <2>2, <2>3, <2>4 DEF IInv
  <1>8. QED  BY <1>5, <1>6, <1>7

LEMMA NotifyIInv == ASSUME IInv, Notify PROVE IInv'
  <1>1. /\ pass.pc = "notify" /\ UNCHANGED <<files, clock, evidence, edited, lost, excused>>
    BY DEF Notify, At, world
  <1>2. /\ pass.pc \in OnCard /\ Slug \in Cards /\ pass.now \in 0..MaxTime
        /\ pass.said \subseteq Cards /\ pass.mind \in StoreType
    BY <1>1, PassFacts DEF IInv, OnCard
  <1>3. CASE ~pass.page
    <2>1. pass' = NextCard /\ paged' = paged
      BY <1>3 DEF Notify
    <2>2. QED  BY <1>1, <1>2, <2>1, SkipsCard DEF history
  <1>4. CASE pass.page
    <2> DEFINE m == [pass.mind EXCEPT !.alarm[Slug] = pass.now]
               said == pass.said \cup {Slug}
    <2>1. /\ pass' = [NextCard EXCEPT !.mind.alarm[Slug] = pass.now, !.said = @ \cup {Slug}]
          /\ paged' = [paged EXCEPT ![Slug] = pass.now]
      BY <1>4 DEF Notify
    <2>2. /\ NextCard \in PassType /\ NextCard.pc = "read" /\ ~NextCard.page
          /\ NextCard.mind = pass.mind /\ NextCard.said = pass.said
      BY <1>2, NextFacts DEF IInv
    <2>3. /\ m \in StoreType /\ m.alarm[Slug] = pass.now
          /\ \A c \in Cards : c # Slug => m.alarm[c] = pass.mind.alarm[c]
      BY <1>2 DEF StoreType
    <2>4. pass' = [NextCard EXCEPT !.mind = m, !.said = said]
      <3>1. [NextCard EXCEPT !.mind.alarm[Slug] = pass.now, !.said = @ \cup {Slug}]
              = [NextCard EXCEPT !.mind = [NextCard.mind EXCEPT !.alarm[Slug] = pass.now],
                                 !.said = NextCard.said \cup {Slug}]
        BY <2>2 DEF PassType
      <3>2. QED  BY <2>1, <2>2, <3>1
    <2> HIDE DEF m
    <2>5. /\ pass' \in PassType /\ pass'.pc = "read" /\ ~pass'.page /\ pass'.mind = m
          /\ pass'.said = said
      BY <1>2, <2>2, <2>3, <2>4 DEF PassType
    <2>6. paged' \in [Cards -> 0..MaxTime] /\ paged'[Slug] = pass.now
          /\ \A c \in Cards : c # Slug => paged'[c] = paged[c]
      BY <1>2, <2>1 DEF IInv, Typed, TypeOK
    <2>7. Typed'
      <3>1. TypeOK'
        BY <1>1, <2>5, <2>6 DEF IInv, Typed, TypeOK, PassType, files
      <3>2. QED  BY <1>1, <2>5, <3>1 DEF IInv, Typed, OnCard
    <2>8. EditsKept'
      BY <1>1 DEF IInv, EditsKept, files
    <2>9. EditsHeld' /\ VerdictHeld'
      BY <2>5 DEF EditsHeld, VerdictHeld, At, HoldsCard
    <2>10. AlarmsKnown'
      <3>1. ASSUME NEW c \in Cards
            PROVE  /\ c \notin lost' \cup pass'.said => store'.alarm[c] = paged'[c]
                   /\ c \notin lost' \/ c \in pass'.said => pass'.mind.alarm[c] = paged'[c]
        <4>1. CASE c = Slug
          BY <2>3, <2>5, <2>6, <4>1
        <4>2. CASE c # Slug
          BY <1>1, <2>3, <2>5, <2>6, <4>2 DEF IInv, AlarmsKnown, At, files
        <4>3. QED  BY <4>1, <4>2
      <3>2. QED  BY <3>1 DEF AlarmsKnown
    <2>11. QED  BY <2>7, <2>8, <2>9, <2>10 DEF IInv
  <1>5. QED  BY <1>3, <1>4

LEMMA NotifyRaisesIInv == ASSUME IInv, NotifyRaises PROVE IInv'
  <1>1. /\ pass.pc = "notify" /\ pass' = Off
        /\ paged' = [paged EXCEPT ![Slug] = pass.now]
        /\ lost' = lost \cup pass.said \cup {Slug}
        /\ UNCHANGED <<files, clock, evidence, edited, excused>>
    BY DEF NotifyRaises, At, SameWorld
  <1>2. Slug \in Cards /\ pass.now \in 0..MaxTime /\ pass.said \subseteq Cards
    BY <1>1, PassFacts DEF IInv, OnCard
  <1>3. pass' \in PassType /\ pass'.pc = "off" /\ pass'.said = {}
    BY <1>1, OffFacts
  <1>4. Typed'
    <2>1. paged' \in [Cards -> 0..MaxTime] /\ lost' \subseteq Cards
      BY <1>1, <1>2 DEF IInv, Typed, TypeOK
    <2>2. TypeOK'
      BY <1>1, <1>3, <2>1 DEF IInv, Typed, TypeOK, PassType, files
    <2>3. QED  BY <1>1, <1>3, <2>2 DEF IInv, Typed, OnCard
  <1>5. EditsKept'
    BY <1>1 DEF IInv, EditsKept, files
  <1>6. AlarmsKnown'
    <2>1. \A c \in Cards : c # Slug => paged'[c] = paged[c]
      BY <1>1 DEF IInv, Typed, TypeOK
    <2>2. QED  BY <1>1, <1>3, <2>1 DEF IInv, AlarmsKnown, At, files
  <1>7. QED  BY <1>1, <1>4, <1>5, <1>6, NothingHeld DEF IInv

LEMMA FailuresIInv == ASSUME IInv, ClassifyFails \/ DigestFails \/ Kill PROVE IInv'
  BY Aborts DEF ClassifyFails, DigestFails, Kill, SameWorld

LEMMA RecompileIInv == ASSUME IInv, Recompile PROVE IInv'
  <1>1. pass.pc = "read" /\ UNCHANGED <<files, clock, evidence, edited>>
    BY DEF Recompile, At, world
  <1>2. pass \in PassType
    BY PassFacts DEF IInv
  <1>3. CASE pass' = [pass EXCEPT !.pc = "save"] /\ UNCHANGED history
    <2>1. /\ pass' \in PassType /\ pass'.pc = "save" /\ pass'.mind = pass.mind
          /\ pass'.said = pass.said
      BY <1>2, <1>3 DEF PassType
    <2>2. EditsHeld' /\ VerdictHeld'
      BY <2>1 DEF EditsHeld, VerdictHeld, At, HoldsCard
    <2>3. AlarmsKnown'
      BY <1>1, <1>3, <2>1 DEF IInv, AlarmsKnown, At, files, history
    <2>4. QED  BY <1>1, <1>3, <2>1, <2>2, <2>3, PassOnly DEF OnCard
  <1>4. CASE Abort
    BY <1>1, <1>4, Aborts
  <1>5. CASE pass' = [pass EXCEPT !.pc = "digest", !.tail = registry.edits] /\ UNCHANGED history
    <2>1. registry.edits \in SUBSET (1..MaxEdits)
      BY DEF IInv, Typed, TypeOK
    <2>2. /\ pass' \in PassType /\ pass'.pc = "digest" /\ pass'.mind = pass.mind
          /\ pass'.said = pass.said /\ pass'.tail = registry.edits
      BY <1>2, <1>5, <2>1 DEF PassType
    <2>3. EditsHeld'
      <3>1. ASSUME NEW n \in DOMAIN edited, n \notin excused, edited[n] = Prose
            PROVE  n \in pass'.tail
        BY <2>2, <3>1 DEF IInv, EditsKept
      <3>2. QED  BY <1>1, <1>5, <2>2, <3>1 DEF EditsHeld, At, HoldsCard, history
    <2>4. VerdictHeld'
      BY <2>2 DEF VerdictHeld, At, HoldsCard
    <2>5. AlarmsKnown'
      BY <1>1, <1>5, <2>2 DEF IInv, AlarmsKnown, At, files, history
    <2>6. QED  BY <1>1, <1>5, <2>2, <2>3, <2>4, <2>5, PassOnly DEF OnCard
  <1>6. QED  BY <1>3, <1>4, <1>5 DEF Recompile

LEMMA DigestIInv == ASSUME IInv, Digest PROVE IInv'
  <1>1. /\ pass.pc = "digest" /\ registry' = [shape |-> "good", edits |-> pass.tail]
        /\ pass' = [pass EXCEPT !.pc = "save", !.mind.day = pass.now]
        /\ UNCHANGED <<card, store, clock, evidence, edited, history>>
    BY DEF Digest, At, world
  <1> DEFINE m == [pass.mind EXCEPT !.day = pass.now]
  <1>2. pass \in PassType /\ pass.mind \in StoreType /\ pass.now \in 0..MaxTime
    BY PassFacts DEF IInv
  <1>3. m \in StoreType /\ m.alarm = pass.mind.alarm
    BY <1>2 DEF StoreType
  <1>4. pass' = [pass EXCEPT !.pc = "save", !.mind = m]
    BY <1>1, <1>2 DEF PassType
  <1> HIDE DEF m
  <1>5. /\ pass' \in PassType /\ pass'.pc = "save" /\ pass'.mind = m /\ pass'.said = pass.said
        /\ pass.tail \in SUBSET (1..MaxEdits)
    BY <1>2, <1>3, <1>4 DEF PassType
  <1>6. Typed'
    <2>1. registry' \in [shape : {"good", "empty", "headless"}, edits : SUBSET (1..MaxEdits)]
      BY <1>1, <1>5
    <2>2. TypeOK'
      BY <1>1, <1>5, <2>1 DEF IInv, Typed, TypeOK, PassType, history
    <2>3. QED  BY <1>1, <1>5, <2>2 DEF IInv, Typed, OnCard
  <1>7. EditsKept'
    <2>1. ASSUME NEW n \in DOMAIN edited, n \notin excused, edited[n] = Prose
          PROVE  n \in registry'.edits
      BY <1>1, <2>1 DEF IInv, EditsHeld, At
    <2>2. QED  BY <1>1, <2>1 DEF IInv, EditsKept, history
  <1>8. EditsHeld' /\ VerdictHeld'
    BY <1>5 DEF EditsHeld, VerdictHeld, At, HoldsCard
  <1>9. AlarmsKnown'
    BY <1>1, <1>3, <1>5 DEF IInv, AlarmsKnown, At, history
  <1>10. QED  BY <1>6, <1>7, <1>8, <1>9 DEF IInv

LEMMA SaveIInv == ASSUME IInv, Save PROVE IInv'
  <1>1. /\ pass.pc = "save" /\ store' = pass.mind /\ pass' = Off /\ lost' = lost \ pass.said
        /\ UNCHANGED <<card, registry, clock, evidence, edited, paged, excused>>
    BY DEF Save, At, world
  <1>2. pass' \in PassType /\ pass'.pc = "off" /\ pass'.said = {}
    BY <1>1, OffFacts
  <1>3. Typed'
    <2>1. store' \in StoreType /\ lost' \subseteq Cards
      BY <1>1, PassFacts DEF IInv, Typed, TypeOK
    <2>2. TypeOK'
      BY <1>1, <1>2, <2>1 DEF IInv, Typed, TypeOK, PassType
    <2>3. QED  BY <1>1, <1>2, <2>2 DEF IInv, Typed, OnCard
  <1>4. EditsKept'
    BY <1>1 DEF IInv, EditsKept
  <1>5. AlarmsKnown'
    BY <1>1, <1>2 DEF IInv, AlarmsKnown, At
  <1>6. QED  BY <1>1, <1>3, <1>4, <1>5, NothingHeld DEF IInv

-----------------------------------------------------------------------------
(* A kill inside a write.                                                  *)

LEMMA CutCardIInv == ASSUME IInv, CutCard PROVE IInv'
  <1>1. /\ pass.pc = "update" /\ pass' = Off
        /\ card' = [card EXCEPT ![Slug] = TornCard]
        /\ excused' = excused \cup Numbered(Slug) /\ lost' = lost \cup pass.said
        /\ UNCHANGED <<registry, store, clock, evidence, edited, paged>>
    BY DEF CutCard, Cut, At, SameWorld
  <1>2. pass' \in PassType /\ pass'.pc = "off" /\ pass'.said = {}
    BY <1>1, OffFacts
  <1>3. Typed'
    <2>1. card' \in [Cards -> CardType] /\ lost' \subseteq Cards
      BY <1>1, PassFacts, Constants DEF IInv, Typed, TypeOK
    <2>2. excused' \subseteq DOMAIN edited'
      BY <1>1 DEF IInv, Typed, TypeOK, Numbered
    <2>3. TypeOK'
      BY <1>1, <1>2, <2>1, <2>2 DEF IInv, Typed, TypeOK, PassType
    <2>4. QED  BY <1>1, <1>2, <2>3 DEF IInv, Typed, OnCard
  <1>4. EditsKept'
    <2>1. ASSUME NEW n \in DOMAIN edited, n \notin excused', edited[n] # Prose
          PROVE  n \in card'[edited[n]].edits
      <3>1. n \notin excused /\ edited[n] # Slug
        BY <1>1, <2>1 DEF Numbered
      <3>2. edited[n] \in Cards
        BY <2>1, ElementOfSeq, LenProperties DEF IInv, Typed
      <3>3. card'[edited[n]] = card[edited[n]]
        BY <1>1, <3>1, <3>2 DEF IInv, Typed, TypeOK
      <3>4. QED  BY <2>1, <3>1, <3>3 DEF IInv, EditsKept
    <2>2. QED  BY <1>1, <2>1 DEF IInv, EditsKept
  <1>5. AlarmsKnown'
    BY <1>1, <1>2 DEF IInv, AlarmsKnown, At
  <1>6. QED  BY <1>1, <1>3, <1>4, <1>5, NothingHeld DEF IInv

LEMMA CutRegistryIInv == ASSUME IInv, CutRegistry PROVE IInv'
  <1>1. /\ pass.pc = "digest" /\ pass' = Off
        /\ excused' = excused \cup Numbered(Prose) /\ lost' = lost \cup pass.said
        /\ UNCHANGED <<card, store, clock, evidence, edited, paged>>
    BY DEF CutRegistry, Cut, At, SameWorld
  <1>2. pass' \in PassType /\ pass'.pc = "off" /\ pass'.said = {}
    BY <1>1, OffFacts
  <1>3. Typed'
    <2>1. lost' \subseteq Cards
      BY <1>1, PassFacts DEF IInv, Typed, TypeOK
    <2>2. excused' \subseteq DOMAIN edited'
      BY <1>1 DEF IInv, Typed, TypeOK, Numbered
    <2>3. registry' \in [shape : {"good", "empty", "headless"}, edits : SUBSET (1..MaxEdits)]
      <3>1. PICK s \in {"empty", "headless"} : registry' = [shape |-> s, edits |-> {}]
        BY DEF CutRegistry
      <3>2. QED  BY <3>1
    <2>4. TypeOK'
      BY <1>1, <1>2, <2>1, <2>2, <2>3 DEF IInv, Typed, TypeOK, PassType
    <2>5. QED  BY <1>1, <1>2, <2>4 DEF IInv, Typed, OnCard
  <1>4. EditsKept'
    BY <1>1 DEF IInv, EditsKept, Numbered
  <1>5. AlarmsKnown'
    BY <1>1, <1>2 DEF IInv, AlarmsKnown, At
  <1>6. QED  BY <1>1, <1>3, <1>4, <1>5, NothingHeld DEF IInv

LEMMA CutStateIInv == ASSUME IInv, CutState PROVE IInv'
  <1>1. /\ pass' = Off /\ store' = NoAlarms /\ lost' = Cards
        /\ UNCHANGED <<card, registry, clock, evidence, edited, paged, excused>>
    BY DEF CutState, Cut, SameWorld
  <1>2. pass' \in PassType /\ pass'.pc = "off" /\ pass'.said = {}
    BY <1>1, OffFacts
  <1>3. Typed'
    <2>1. TypeOK'
      BY <1>1, <1>2, Constants DEF IInv, Typed, TypeOK, PassType
    <2>2. QED  BY <1>1, <1>2, <2>1 DEF IInv, Typed, OnCard
  <1>4. EditsKept'
    BY <1>1 DEF IInv, EditsKept
  <1>5. AlarmsKnown'
    BY <1>1, <1>2 DEF AlarmsKnown, At
  <1>6. QED  BY <1>1, <1>3, <1>4, <1>5, NothingHeld DEF IInv

-----------------------------------------------------------------------------
(* The world around the passes.                                            *)

LEMMA TickIInv == ASSUME IInv, Tick PROVE IInv'
  <1>1. /\ pass.pc = "off" /\ clock < MaxTime /\ clock' = clock + 1
        /\ UNCHANGED <<evidence, edited, files, pass, history>>
    BY DEF Tick, At
  <1>2. clock' \in 1..MaxTime
    BY <1>1, Numbers DEF IInv, Typed, TypeOK
  <1>3. Typed'
    BY <1>1, <1>2 DEF IInv, Typed, TypeOK, files, history
  <1>4. EditsKept' /\ AlarmsKnown'
    BY <1>1 DEF IInv, EditsKept, AlarmsKnown, At, files, history
  <1>5. EditsHeld' /\ VerdictHeld'
    BY <1>1 DEF EditsHeld, VerdictHeld, At, HoldsCard
  <1>6. QED  BY <1>3, <1>4, <1>5 DEF IInv

LEMMA WorkIInv == ASSUME IInv, NEW c \in Cards, Work(c) PROVE IInv'
  <1>1. /\ evidence' = [evidence EXCEPT ![c] = clock]
        /\ pass' = [pass EXCEPT !.outdated =
                      @ \/ (pass.pc \in {"classify", "update"} /\ Slug = c)]
        /\ UNCHANGED <<clock, edited, files, history>>
    BY DEF Work
  <1>2. pass \in PassType /\ clock \in 1..MaxTime
    BY PassFacts DEF IInv, Typed, TypeOK
  <1>3. /\ evidence' \in [Cards -> 1..MaxTime]
        /\ \A d \in Cards : d # c => evidence'[d] = evidence[d]
    BY <1>1, <1>2 DEF IInv, Typed, TypeOK
  <1>4. /\ pass' \in PassType
        /\ pass'.outdated <=> pass.outdated \/ (pass.pc \in {"classify", "update"} /\ Slug = c)
    <2> DEFINE news == pass.outdated \/ (pass.pc \in {"classify", "update"} /\ Slug = c)
    <2>1. news \in BOOLEAN
      OBVIOUS
    <2>2. pass' = [pass EXCEPT !.outdated = news]
      BY <1>1, <1>2 DEF PassType
    <2> HIDE DEF news
    <2>3. pass' \in PassType /\ (pass'.outdated <=> news)
      BY <1>2, <2>1, <2>2 DEF PassType
    <2>4. QED  BY <2>3 DEF news
  <1>5. /\ pass'.pc = pass.pc /\ pass'.k = pass.k /\ pass'.now = pass.now
        /\ pass'.copy = pass.copy /\ pass'.new = pass.new /\ pass'.page = pass.page
        /\ pass'.mind = pass.mind /\ pass'.said = pass.said /\ pass'.tail = pass.tail
        /\ Slug' = Slug
    BY <1>1, <1>2 DEF PassType, Slug
  <1>6. Typed'
    <2>1. TypeOK'
      BY <1>1, <1>3, <1>4 DEF IInv, Typed, TypeOK, PassType, files, history
    <2>2. QED  BY <1>1, <1>5, <2>1 DEF IInv, Typed
  <1>7. EditsKept'
    BY <1>1 DEF IInv, EditsKept, files, history
  <1>8. EditsHeld'
    BY <1>1, <1>5 DEF IInv, EditsHeld, At, history
  <1>9. AlarmsKnown'
    BY <1>1, <1>5 DEF IInv, AlarmsKnown, At, files, history
  <1>10. VerdictHeld'
    <2>1. ASSUME pass.pc \in {"classify", "update"}, pass.new.stalled
          PROVE  pass'.outdated \/ evidence'[Slug] + StallAfter < pass.now
      <3>1. CASE Slug = c
        BY <1>4, <2>1, <3>1
      <3>2. CASE Slug # c
        <4>1. evidence'[Slug] = evidence[Slug]
          BY <1>3, <2>1, <3>2, PassFacts DEF IInv, OnCard
        <4>2. pass.outdated \/ evidence[Slug] + StallAfter < pass.now
          BY <2>1 DEF IInv, VerdictHeld
        <4>3. QED  BY <1>4, <4>1, <4>2
      <3>3. QED  BY <3>1, <3>2
    <2>2. QED  BY <1>1, <1>5, <2>1 DEF IInv, VerdictHeld, At, files
  <1>11. QED  BY <1>6, <1>7, <1>8, <1>9, <1>10 DEF IInv

\* An edit: the older ones keep their numbers and their files.
LEMMA WriteFacts ==
  ASSUME IInv, NEW f \in Cards \cup {Prose}, Write(f)
  PROVE  /\ Len(edited') = Len(edited) + 1 /\ Len(edited') \in 1..MaxEdits
         /\ DOMAIN edited' = DOMAIN edited \cup {Len(edited')}
         /\ Len(edited') \notin DOMAIN edited
         /\ edited' \in Seq(Cards \cup {Prose}) /\ edited'[Len(edited')] = f
         /\ \A n \in DOMAIN edited : edited'[n] = edited[n]
         /\ excused \subseteq DOMAIN edited /\ Len(edited') \notin excused
         /\ UNCHANGED <<clock, evidence, store, pass, paged, lost>>
  <1>1. /\ Len(edited) < MaxEdits /\ edited' = Append(edited, f)
        /\ UNCHANGED <<clock, evidence, store, pass, paged, lost>>
    BY DEF Write
  <1>2. edited \in Seq(Cards \cup {Prose}) /\ excused \subseteq DOMAIN edited
    BY DEF IInv, Typed, TypeOK
  <1>3. /\ Len(edited') = Len(edited) + 1 /\ edited' \in Seq(Cards \cup {Prose})
        /\ \A n \in 1..Len(edited) : edited'[n] = edited[n]
        /\ edited'[Len(edited) + 1] = f
    BY <1>1, <1>2, AppendProperties
  <1>4. /\ Len(edited) \in Nat /\ DOMAIN edited = 1..Len(edited)
        /\ DOMAIN edited' = 1..Len(edited')
    BY <1>2, <1>3, LenProperties
  <1>5. Len(edited') \in 1..MaxEdits
    BY <1>1, <1>3, <1>4, Numbers
  <1>6. 1..Len(edited') = 1..Len(edited) \cup {Len(edited')} /\ Len(edited') \notin 1..Len(edited)
    BY <1>3, <1>4
  <1>7. QED  BY <1>1, <1>2, <1>3, <1>4, <1>5, <1>6

\* What an edit leaves to show, for a card's and for the tail's alike.
LEMMA EditIInv ==
  ASSUME IInv, NEW f \in Cards \cup {Prose}, Write(f),
         card' \in [Cards -> CardType],
         registry' \in [shape : {"good", "empty", "headless"}, edits : SUBSET (1..MaxEdits)],
         \A c \in Cards : /\ card[c].edits \subseteq card'[c].edits
                          /\ card'[c].stalled = card[c].stalled,
         registry.edits \subseteq registry'.edits,
         f = Prose => Len(edited') \in registry'.edits,
         f # Prose => Len(edited') \in card'[f].edits,
         excused \subseteq excused', excused' \subseteq excused \cup {Len(edited')},
         At("digest") /\ f = Prose => Len(edited') \in excused',
         pass.pc \in HoldsCard /\ f = Slug => Len(edited') \in excused'
  PROVE  IInv'
  <1> DEFINE new == Len(edited')
  <1>1. /\ Len(edited') = new /\ new \in 1..MaxEdits
        /\ DOMAIN edited' = DOMAIN edited \cup {new}
        /\ edited' \in Seq(Cards \cup {Prose}) /\ edited'[new] = f
        /\ \A n \in DOMAIN edited : edited'[n] = edited[n]
        /\ excused \subseteq DOMAIN edited
        /\ UNCHANGED <<clock, evidence, store, pass, paged, lost>>
    BY WriteFacts
  <1> HIDE DEF new
  <1>2. Slug' = Slug /\ (\A p \in STRING : At(p)' <=> At(p))
    BY <1>1 DEF Slug, At
  <1>3. Typed'
    <2>1. excused' \subseteq DOMAIN edited'
      BY <1>1
    <2>2. TypeOK'
      BY <1>1, <2>1 DEF IInv, Typed, TypeOK
    <2>3. Len(edited') <= MaxEdits
      BY <1>1, Numbers
    <2>4. QED  BY <1>1, <2>2, <2>3 DEF IInv, Typed
  <1>4. EditsKept'
    <2>1. ASSUME NEW n \in DOMAIN edited, n \notin excused'
          PROVE  IF edited'[n] = Prose THEN n \in registry'.edits
                 ELSE n \in card'[edited'[n]].edits
      <3>1. edited'[n] = edited[n] /\ n \notin excused /\ edited[n] \in Cards \cup {Prose}
        BY <1>1, <2>1, ElementOfSeq, LenProperties DEF IInv, Typed
      <3>2. CASE edited[n] = Prose
        BY <3>1, <3>2 DEF IInv, EditsKept
      <3>3. CASE edited[n] # Prose
        <4>1. edited[n] \in Cards /\ n \in card[edited[n]].edits
          BY <3>1, <3>3 DEF IInv, EditsKept
        <4>2. QED  BY <3>1, <3>3, <4>1
      <3>4. QED  BY <3>2, <3>3
    <2>2. IF edited'[new] = Prose THEN new \in registry'.edits
          ELSE new \in card'[edited'[new]].edits
      BY <1>1 DEF new
    <2>3. QED  BY <1>1, <2>1, <2>2 DEF EditsKept
  <1>5. EditsHeld'
    <2>1. ASSUME NEW n \in DOMAIN edited', n \notin excused'
          PROVE  /\ pass.pc = "digest" /\ edited'[n] = Prose => n \in pass.tail
                 /\ pass.pc \in HoldsCard /\ edited'[n] = Slug =>
                      /\ n \in pass.copy.edits
                      /\ pass.pc # "probe" => n \in pass.new.edits
      <3>1. CASE n = new
        BY <1>1, <2>1, <3>1 DEF new, At
      <3>2. CASE n # new
        <4>1. n \in DOMAIN edited /\ edited'[n] = edited[n] /\ n \notin excused
          BY <1>1, <2>1, <3>2
        <4>2. QED  BY <4>1 DEF IInv, EditsHeld, At
      <3>3. QED  BY <3>1, <3>2
    <2>2. QED  BY <1>1, <1>2, <2>1 DEF EditsHeld, At
  <1>6. AlarmsKnown'
    BY <1>1 DEF IInv, AlarmsKnown, At
  <1>7. VerdictHeld'
    <2>1. pass.pc \in HoldsCard => Slug \in Cards
      BY PassFacts DEF IInv, HoldsCard, OnCard
    <2>2. QED  BY <1>1, <1>2, <2>1 DEF IInv, VerdictHeld, At
  <1>8. QED  BY <1>3, <1>4, <1>5, <1>6, <1>7 DEF IInv

LEMMA EditCardIInv == ASSUME IInv, NEW c \in Cards, EditCard(c) PROVE IInv'
  <1>1. /\ Write(c) /\ UNCHANGED registry
        /\ excused' = IF pass.pc \in {"probe", "classify", "update"} /\ Slug = c
                      THEN excused \cup {Len(edited')} ELSE excused
    BY DEF EditCard
  <1>2. PICK s \in {"good", "odd"} :
          card' = [card EXCEPT ![c].edits = @ \cup {Len(edited')}, ![c].shape = s]
    BY DEF EditCard
  <1> DEFINE new == [card[c] EXCEPT !.edits = card[c].edits \cup {Len(edited')}, !.shape = s]
  <1>3. /\ card \in [Cards -> CardType] /\ card[c] \in CardType /\ Len(edited') \in 1..MaxEdits
        /\ registry \in [shape : {"good", "empty", "headless"}, edits : SUBSET (1..MaxEdits)]
    BY <1>1, WriteFacts DEF IInv, Typed, TypeOK
  <1>4. card' = [card EXCEPT ![c] = new]
    BY <1>2, <1>3 DEF CardType
  <1>5. /\ new \in CardType /\ new.edits = card[c].edits \cup {Len(edited')}
        /\ new.stalled = card[c].stalled
    BY <1>3 DEF CardType, Shapes
  <1> HIDE DEF new
  <1>6. /\ card' \in [Cards -> CardType] /\ card'[c] = new
        /\ \A d \in Cards : d # c => card'[d] = card[d]
    BY <1>3, <1>4, <1>5
  <1>7. \A d \in Cards : card[d].edits \subseteq card'[d].edits /\ card'[d].stalled = card[d].stalled
    BY <1>5, <1>6
  <1>8. Len(edited') \in card'[c].edits
    BY <1>5, <1>6
  <1>9. c # Prose
    BY CardFacts
  <1>10. /\ excused \subseteq excused' /\ excused' \subseteq excused \cup {Len(edited')}
         /\ pass.pc \in HoldsCard /\ c = Slug => Len(edited') \in excused'
    BY <1>1 DEF HoldsCard
  <1>11. QED  BY <1>1, <1>3, <1>6, <1>7, <1>8, <1>9, <1>10, EditIInv

LEMMA EditTailIInv == ASSUME IInv, EditTail PROVE IInv'
  <1>1. /\ Write(Prose) /\ UNCHANGED card
        /\ registry' = [shape |-> "good", edits |-> registry.edits \cup {Len(edited')}]
        /\ excused' = IF At("digest") THEN excused \cup {Len(edited')} ELSE excused
    BY DEF EditTail
  <1>2. /\ card \in [Cards -> CardType] /\ Len(edited') \in 1..MaxEdits
        /\ registry.edits \in SUBSET (1..MaxEdits)
    BY <1>1, WriteFacts DEF IInv, Typed, TypeOK
  <1>3. /\ registry' \in [shape : {"good", "empty", "headless"}, edits : SUBSET (1..MaxEdits)]
        /\ registry.edits \subseteq registry'.edits /\ Len(edited') \in registry'.edits
    BY <1>1, <1>2
  <1>4. pass.pc \in HoldsCard => Slug # Prose
    BY PassFacts, CardFacts DEF IInv, HoldsCard, OnCard
  <1>5. /\ excused \subseteq excused' /\ excused' \subseteq excused \cup {Len(edited')}
        /\ At("digest") => Len(edited') \in excused'
    BY <1>1
  <1>6. QED  BY <1>1, <1>2, <1>3, <1>4, <1>5, EditIInv

-----------------------------------------------------------------------------
(* Every step keeps the invariant.                                         *)

LEMMA NextIInv == IInv /\ [Next]_vars => IInv'
  <1> SUFFICES ASSUME IInv, [Next]_vars PROVE IInv'
    OBVIOUS
  <1>1. CASE Start
    BY <1>1, StartIInv
  <1>2. CASE ReadCard
    BY <1>2, ReadCardIInv
  <1>3. CASE Probe \/ ProbeFails
    BY <1>3, ProbeIInv, ProbeFailsIInv
  <1>4. CASE Classify
    BY <1>4, ClassifyIInv
  <1>5. CASE Update
    BY <1>5, UpdateIInv
  <1>6. CASE Notify \/ NotifyRaises
    BY <1>6, NotifyIInv, NotifyRaisesIInv
  <1>7. CASE Recompile \/ Digest \/ Save
    BY <1>7, RecompileIInv, DigestIInv, SaveIInv
  <1>8. CASE ClassifyFails \/ DigestFails \/ Kill
    BY <1>8, FailuresIInv
  <1>9. CASE CutCard \/ CutRegistry \/ CutState
    BY <1>9, CutCardIInv, CutRegistryIInv, CutStateIInv
  <1>10. CASE Tick
    BY <1>10, TickIInv
  <1>11. CASE \E c \in Cards : Work(c) \/ EditCard(c)
    BY <1>11, WorkIInv, EditCardIInv
  <1>12. CASE EditTail
    BY <1>12, EditTailIInv
  <1>13. CASE UNCHANGED vars
    <2>1. UNCHANGED <<clock, evidence, card, registry, store, pass, edited, paged, lost, excused>>
      BY <1>13 DEF vars
    <2>2. Typed' /\ EditsKept'
      BY <2>1 DEF IInv, Typed, TypeOK, EditsKept
    <2>3. EditsHeld' /\ AlarmsKnown' /\ VerdictHeld'
      BY <2>1 DEF IInv, EditsHeld, AlarmsKnown, VerdictHeld, At, Slug
    <2>4. QED  BY <2>2, <2>3 DEF IInv
  <1>14. QED
    BY <1>1, <1>2, <1>3, <1>4, <1>5, <1>6, <1>7, <1>8, <1>9, <1>10, <1>11, <1>12, <1>13
       DEF Next, PassStep

THEOREM Inductive == Spec => []IInv
  <1>1. Init => IInv
    BY InitIInv
  <1>2. IInv /\ [Next]_vars => IInv'
    BY NextIInv
  <1>3. QED  BY <1>1, <1>2, PTL DEF Spec

\* All files, the pass and the records of what it said stay within their types.
THEOREM TypeCorrect == Spec => []TypeOK
  <1>1. IInv => TypeOK
    BY DEF IInv, Typed
  <1>2. QED  BY <1>1, Inductive, PTL

\* No edit of a card or of the registry's tail is lost, save those made while a
\* pass held the file and those in a file whose write a kill cut short.
THEOREM EditsAreKept == Spec => []EditsKept
  <1>1. IInv => EditsKept
    BY DEF IInv
  <1>2. QED  BY <1>1, Inductive, PTL

\* Two announcements of one stall are a cooldown apart, unless the record of the
\* first was lost.
THEOREM RemindersAreSpaced == Spec => []RemindersSpaced
  <1>1. IInv => RemindersSpaced
    <2> SUFFICES ASSUME IInv, Reminding, Slug \notin lost
                 PROVE  pass.now >= paged[Slug] + REMIND_COOLDOWN
      BY DEF RemindersSpaced
    <2>1. pass.pc = "notify" /\ pass.page /\ pass.copy.stalled /\ paged[Slug] # Never
      BY DEF Reminding, At
    <2>2. Slug \in Cards
      BY <2>1, PassFacts DEF IInv, OnCard
    <2>3. pass.mind.alarm[Slug] = paged[Slug]
      BY <2>1, <2>2 DEF IInv, AlarmsKnown, At
    <2>4. \/ pass.mind.alarm[Slug] = Never
          \/ pass.now >= pass.mind.alarm[Slug] + REMIND_COOLDOWN
      BY <2>1 DEF IInv, VerdictHeld
    <2>5. QED  BY <2>1, <2>3, <2>4
  <1>2. QED  BY <1>1, Inductive, PTL

\* A card is written down as stalled only if its repository was silent for longer
\* than the card allows, or work began again while the pass was at this card.
THEOREM StallsReal == Spec => StallsAreReal
  <1> DEFINE Marks == At("update") /\ pass'.pc = "notify" /\ card'[Slug].stalled =>
                        pass.outdated \/ evidence[Slug] + StallAfter < pass.now
  <1>1. IInv /\ [Next]_vars => [Marks]_vars
    <2> SUFFICES ASSUME IInv, Next, At("update"), pass'.pc = "notify", card'[Slug].stalled
                 PROVE  pass.outdated \/ evidence[Slug] + StallAfter < pass.now
      OBVIOUS
    <2>1. /\ pass.pc = "update" /\ Slug \in Cards /\ pass.new \in CardType
          /\ card \in [Cards -> CardType]
      BY PassFacts DEF At, IInv, Typed, TypeOK, OnCard
    <2>2. Update \/ pass'.pc = pass.pc \/ pass'.pc = "off"
      <3>1. Next => \/ Update \/ Abort \/ pass' = Off
                    \/ pass.pc # "update"
                    \/ UNCHANGED pass \/ (\E c \in Cards : Work(c))
        BY DEF Next, PassStep, Start, ReadCard, Probe, Classify, Notify, Recompile,
               Digest, Save, ProbeFails, ClassifyFails, NotifyRaises, DigestFails, Kill,
               CutCard, CutRegistry, CutState, Cut, Tick, EditCard, EditTail, Write, At
      <3>2. \A c \in Cards : Work(c) => pass'.pc = pass.pc
        BY PassFacts DEF IInv, Work, PassType
      <3>3. QED  BY <2>1, <3>1, <3>2, OffFacts DEF Abort
    <2>3. Update
      BY <2>1, <2>2
    <2>4. pass.new.stalled
      <3>1. CASE pass.new = Read
        <4>1. card' = card
          BY <2>3, <3>1 DEF Update, files
        <4>2. card[Slug].stalled = pass.copy.stalled
          BY <2>1 DEF IInv, VerdictHeld, HoldsCard
        <4>3. QED  BY <3>1, <4>1, <4>2 DEF Read
      <3>2. CASE pass.new # Read
        <4>1. card' = [card EXCEPT ![Slug] = pass.new]
          BY <2>3, <3>2, OffFacts DEF Update, Abort
        <4>2. QED  BY <2>1, <4>1
      <3>3. QED  BY <3>1, <3>2
    <2>5. QED  BY <2>1, <2>4 DEF IInv, VerdictHeld
  <1>2. QED  BY <1>1, Inductive, PTL DEF Spec, StallsAreReal
=============================================================================
