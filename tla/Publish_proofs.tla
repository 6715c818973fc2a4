---------------------------- MODULE Publish_proofs ----------------------------
(***************************************************************************)
(* Proofs about publishing, for any number of calls, directories, edits    *)
(* and kills: target_dir is never half an application, a published          *)
(* application and a person's edits are never lost, and a call that returns *)
(* has published its own application.                                      *)
(***************************************************************************)
EXTENDS Publish, SequenceTheorems, TLAPS

-----------------------------------------------------------------------------
(* The invariant.                                                          *)

TreesOK ==
  \A d \in Inodes :
    /\ DOMAIN tree[d] \subseteq AllPaths
    /\ \A p \in DOMAIN tree[d] : tree[d][p].edits \subseteq DOMAIN edited

\* How far a call has come: before it has a stage, with its stage, and after
\* the stage was renamed.
Fresh    == {"idle", "recover", "look"}
Staged   == {"list", "copy", "write", "stub", "check", "reserve", "setAside", "identify", "place"}
Built    == {"check", "reserve", "setAside", "identify", "place"}
Placed   == {"confirm", "open", "empty", "rmdir", "verify", "quarantine"}
Replaces == {"list", "copy", "reserve", "setAside", "identify", "open", "empty", "rmdir"}
Removing == {"identify", "place", "confirm", "open"}
Leaving  == {"empty", "rmdir", "verify", "quarantine", "discard"}

PhaseOK(c) == LET k == call[c] IN
  /\ k.pc \in Fresh \cup {"stage"} => k.stageFd = NoDir /\ k.stageName = NoDir
  /\ k.pc \in Staged => k.stageFd # NoDir /\ k.stageName = k.stageFd
  /\ k.pc \in Placed => k.stageFd # NoDir /\ k.stageName = NoDir
  /\ k.pc = "discard" => k.stageName \in {NoDir, k.stageFd}
  /\ k.pc \notin {"empty", "discard"} => k.doomed = NoDir
  /\ k.pc = "empty" => k.doomed # NoDir
  /\ k.pc \in Fresh => ~k.keeps
  /\ k.pc \in Replaces => k.keeps
  /\ k.keeps => k.expected # NoDir
  /\ ~k.keeps \/ k.pc \in {"stage", "list"} => k.source = NoDir /\ k.found = {}
  /\ k.pc = "copy" => k.source # NoDir
  /\ k.pc # "idle" => k.spec \in Specs

\* Every name has a directory of its own, no two calls have one stage, and a
\* directory that has no name any more is empty.
StageNames == {call[c].stageName : c \in Callers}
NamesApart ==
  /\ target # NoDir => target # aside /\ target \notin shelf /\ target \notin StageNames
  /\ aside # NoDir => aside \notin shelf /\ aside \notin StageNames
  /\ shelf \cap StageNames = {}
  /\ \A b, c \in Callers : b # c /\ call[b].stageFd # NoDir => call[b].stageFd # call[c].stageFd
GarbageEmpty == \A d \in Inodes \ Named : IsEmpty(d)

\* What a call removes, or copied from, or found when it began, is no stage.
NoStage(c) == LET k == call[c] IN
  /\ k.doomed # NoDir => k.doomed \notin {target} \cup shelf \cup StageNames
  /\ k.source # NoDir => k.source \notin StageNames
  /\ k.keeps /\ ~k.reborn => k.expected \notin StageNames

\* What a call has built stays its application, while it is in target_dir.
IsApp(d)    == HasManifest(tree[d]) /\ Whole(tree[d])
AppOf(d, s) == IsApp(d) /\ ManifestOf(tree[d]) = s
StageBuilt(c) == LET k == call[c] IN
  /\ k.pc = "stub" => /\ HasManifest(tree[k.stageFd])
                      /\ ManifestOf(tree[k.stageFd]) = k.spec
                      /\ ModulePaths(k.spec) \subseteq DOMAIN tree[k.stageFd]
  /\ k.pc \in Built \/ (k.pc \in Placed /\ target = k.stageFd) => AppOf(k.stageFd, k.spec)

\* The edits a call found when it listed the directory are in its stage, or
\* will be.
FoundKept(c) == LET k == call[c] IN
  /\ k.pc = "copy" /\ k.source = target => k.todo \subseteq DOMAIN tree[k.source]
  /\ k.pc \in Staged \/ (k.pc \in Placed /\ target = k.stageFd) =>
       \A n \in k.found : \E p \in UserPaths :
          IF k.pc = "copy" /\ p \in k.todo
          THEN p \in DOMAIN tree[k.source] => n \in tree[k.source][p].edits
          ELSE n \in EditsIn(tree[k.stageFd], p)

\* Why an application is never lost.  A call between its two renames, or about
\* to empty what it set aside, is alone, unless one was put on the shelf, where
\* nobody touches it; and what it will put in its place is there already when
\* it begins to remove.
IsShelved == \E d \in shelf : IsApp(d)
Between(c) ==
  \/ call[c].pc \in Removing /\ call[c].keeps
  \/ call[c].pc = "empty" /\ call[c].doomed = aside
OneBetween == IsShelved \/ \A b, c \in Callers : Between(b) /\ Between(c) => b = c

AppPlaced(c) ==
  /\ call[c].pc \in Placed => AppAtHand
  /\ call[c].pc = "open" \/ (call[c].pc = "empty" /\ Between(c))
       => IsShelved \/ (target # NoDir /\ IsApp(target))
AsideFull(c) == Between(c) /\ call[c].pc # "empty" => IsShelved \/ ~Replaceable(aside)

\* While there is nothing to keep, no call thinks there is.
NothingThere(c) ==
  /\ ~IsShelved /\ Replaceable(aside) /\ Replaceable(target)
  /\ call[c].keeps
  => call[c].pc \in Leaving

\* Why an edit is never lost.  What was found and then left target_dir does not
\* come back, unless as a new directory of the same number.
Gone(c) == LET k == call[c] IN
  k.keeps /\ ~k.reborn =>
    /\ k.pc \in Removing => target # k.expected
    /\ k.pc \in {"stage"} \cup Staged \cup Placed /\ target = k.expected => ~IsEmpty(target)
    /\ k.pc \in Staged \ {"list"} /\ target = k.expected => k.source = k.expected

\* The call that set aside the directory it had found, and will remove it; its
\* stage has every edit of that directory, but those that came too late.
Claims(c) == LET k == call[c] IN
  \/ k.pc \in Removing /\ k.keeps /\ ~k.reborn /\ k.expected = aside
  \/ k.pc = "empty" /\ k.doomed = aside
OneClaims == fooled = {} => \A b, c \in Callers : Claims(b) /\ Claims(c) => b = c

ClaimOK(c) == LET k == call[c] IN
  fooled = {} =>
    /\ k.pc \in {"place", "confirm", "open"} /\ k.keeps => Claims(c)
    /\ Claims(c) /\ k.pc # "empty" => ~IsEmpty(aside)
    /\ Claims(c) /\ k.pc \in {"identify", "place"} => k.source = aside

CopyOK(c) == LET k == call[c] IN
  k.pc \in Staged /\ k.source # NoDir =>
    \A p \in UserPaths : \A n \in EditsIn(tree[k.source], p) :
      \/ n \in late
      \/ n \in EditsIn(tree[k.stageFd], p)
      \/ k.pc = "copy" /\ p \in k.todo

Elsewhere(n, p) ==
  n \in late \/ \E d \in ({target} \cup shelf) \ {NoDir} : n \in EditsIn(tree[d], p)
AsideCovered(c) ==
  fooled = {} /\ Claims(c) /\ call[c].pc \in {"confirm", "open", "empty"} =>
    \A p \in UserPaths : \A n \in EditsIn(tree[aside], p) : Elsewhere(n, p)

CallOK(c) ==
  /\ PhaseOK(c) /\ NoStage(c) /\ StageBuilt(c) /\ FoundKept(c)
  /\ AppPlaced(c) /\ AsideFull(c) /\ NothingThere(c)
  /\ Gone(c) /\ ClaimOK(c) /\ CopyOK(c) /\ AsideCovered(c)

IInv ==
  /\ TypeOK /\ TreesOK /\ NamesApart /\ GarbageEmpty /\ TargetWhole
  /\ OneBetween /\ OneClaims /\ EditsKept
  /\ \A c \in Callers : CallOK(c)

-----------------------------------------------------------------------------
(* Trees of files.                                                         *)

LEMMA PathsApart ==
  /\ Notes # Directive /\ Notes # Manifest /\ Directive # Manifest
  /\ \A s \in Specs : ModulePaths(s) \cap (UserPaths \cup {Manifest}) = {}
  <1>1. Notes[1] = "notes" /\ Directive[1] = "CLAUDE.md" /\ Manifest[1] = "codegen-manifest.json"
    BY DEF Notes, Directive, Manifest
  <1>2. ASSUME NEW s \in Specs, NEW i \in DOMAIN s PROVE ModulePath(s, i)[1] = "src"
    <2>1. s \in Seq(Seq(STRING)) /\ s[i] \in Seq(STRING)
      BY <1>2, PublishAssumption DEF Specs
    <2> DEFINE o == Ordinals[TimesAsked(s, i)]
               X == STRING \cup {"src", o}
    <2>2. s[i] \in Seq(X) /\ Append(s[i], o) \in Seq(X)
      <3>1. s[i] \in Seq(X)
        BY <2>1
      <3>2. o \in X
        OBVIOUS
      <3> HIDE DEF o, X
      <3>3. QED  BY <3>1, <3>2
    <2>3. UniqueSlug(s, i) \in Seq(X)
      BY <2>2 DEF UniqueSlug
    <2> HIDE DEF o
    <2>4. "src" \in X
      BY DEF X
    <2> HIDE DEF X
    <2>5. <<"src">> \in Seq(X) /\ Len(<<"src">>) = 1 /\ <<"src">>[1] = "src"
      BY <2>4
    <2>6. (<<"src">> \o UniqueSlug(s, i))[1] = <<"src">>[1]
      BY <2>3, <2>5, ConcatProperties
    <2>7. QED  BY <2>5, <2>6 DEF ModulePath
  <1>3. QED  BY <1>1, <1>2 DEF ModulePaths, UserPaths

LEMMA WithAppFacts ==
  ASSUME NEW t, NEW s \in Specs
  PROVE  LET u == WithApp(t, s) IN
         /\ HasManifest(u) /\ ManifestOf(u) = s
         /\ ModulePaths(s) \subseteq DOMAIN u
         /\ DOMAIN u = DOMAIN t \cup ModulePaths(s) \cup {Manifest}
         /\ \A p \in UserPaths : EditsIn(u, p) = EditsIn(t, p)
         /\ \A p \in DOMAIN u : u[p].edits = {} \/ (p \in DOMAIN t /\ u[p] = t[p])
  <1> DEFINE g == Overlay(GeneratedFiles(s), t)
             m == [p \in {Manifest} |-> File(<<s, 0>>, {})]
             u == WithApp(t, s)
  <1>1. DOMAIN GeneratedFiles(s) = ModulePaths(s)
        /\ \A p \in ModulePaths(s) : GeneratedFiles(s)[p].edits = {}
    BY DEF GeneratedFiles, File
  <1>2. DOMAIN g = ModulePaths(s) \cup DOMAIN t
        /\ \A p \in DOMAIN g : g[p] = IF p \in ModulePaths(s) THEN GeneratedFiles(s)[p] ELSE t[p]
    BY <1>1 DEF Overlay
  <1>3. m[Manifest].source[1] = s /\ m[Manifest].edits = {}
    BY DEF File
  <1> HIDE DEF g
  <1>4. u = Overlay(m, g)
    BY DEF WithApp, g
  <1>5. DOMAIN u = {Manifest} \cup DOMAIN g
        /\ \A p \in DOMAIN u : u[p] = IF p = Manifest THEN m[p] ELSE g[p]
    BY <1>4 DEF Overlay
  <1> HIDE DEF u, m
  <1>6. HasManifest(u) /\ ManifestOf(u) = s
    BY <1>3, <1>5 DEF HasManifest, ManifestOf
  <1>7. \A p \in UserPaths : EditsIn(u, p) = EditsIn(t, p)
    BY <1>2, <1>5, PathsApart DEF EditsIn, UserPaths
  <1>8. \A p \in DOMAIN u : u[p].edits = {} \/ (p \in DOMAIN t /\ u[p] = t[p])
    BY <1>1, <1>2, <1>3, <1>5
  <1>9. QED  BY <1>2, <1>5, <1>6, <1>7, <1>8 DEF u

\* The directive is merged into what is there: no edit of it is lost.
LEMMA WithDirectiveFacts ==
  ASSUME NEW t
  PROVE  LET u == WithDirective(t) IN
         /\ DOMAIN u = DOMAIN t \cup {Directive}
         /\ \A p : EditsIn(u, p) = EditsIn(t, p)
         /\ \A p \in DOMAIN u : u[p].edits = {} \/ (p \in DOMAIN t /\ u[p].edits = t[p].edits)
         /\ \A p \in DOMAIN t \ {Directive} : u[p] = t[p]
  <1>1. Directive \in DOMAIN t => MergedDirective(t).edits = t[Directive].edits
    BY DEF MergedDirective, File
  <1>2. Directive \notin DOMAIN t => MergedDirective(t).edits = {}
    BY DEF MergedDirective, File
  <1> DEFINE u == WithDirective(t)
  <1>3. DOMAIN u = DOMAIN t \cup {Directive}
        /\ \A p \in DOMAIN u : u[p] = IF p = Directive THEN MergedDirective(t) ELSE t[p]
    BY DEF WithDirective, Overlay
  <1> HIDE DEF u
  <1>4. QED  BY <1>1, <1>2, <1>3 DEF EditsIn, u

LEMMA WithoutFacts ==
  ASSUME NEW t, NEW p
  PROVE  LET u == Without(t, p) IN
         /\ DOMAIN u = DOMAIN t \ {p}
         /\ \A q \in DOMAIN u : u[q] = t[q]
         /\ \A q : EditsIn(u, q) \subseteq EditsIn(t, q)
  BY DEF Without, Restrict, EditsIn

-----------------------------------------------------------------------------
(* Steps that leave the names alone.                                       *)

\* Where the directories of the parts of the state are.
LEMMA WhereTheyAre ==
  ASSUME TypeOK
  PROVE  /\ NoDir \notin Inodes
         /\ target \in Inodes \cup {NoDir} /\ aside \in Inodes \cup {NoDir}
         /\ shelf \subseteq Inodes /\ Places \subseteq Inodes
         /\ \A c \in Callers : /\ call[c].stageFd \in Inodes \cup {NoDir}
                               /\ call[c].stageName \in Inodes \cup {NoDir}
                               /\ call[c].expected \in Inodes \cup {NoDir}
                               /\ call[c].source \in Inodes \cup {NoDir}
                               /\ call[c].doomed \in Inodes \cup {NoDir}
  BY PublishAssumption DEF TypeOK, CallType, Dirs, Places

LEMMA SameTreeSame ==
  ASSUME NEW d, tree'[d] = tree[d]
  PROVE  /\ IsApp(d)' = IsApp(d) /\ IsEmpty(d)' = IsEmpty(d)
         /\ \A s : AppOf(d, s)' = AppOf(d, s)
  BY DEF IsApp, IsEmpty, AppOf

\* A step of a call that changes nothing outside its stage.
LEMMA InnerStep ==
  ASSUME IInv, NEW c \in Callers, NEW s, s = call[c].stageName,
         UNCHANGED <<target, aside, shelf, edited, late>>,
         \A b \in Callers \ {c} : call'[b] = call[b],
         \A d \in Inodes : d # s => tree'[d] = tree[d],
         call'[c].stageName # s => call'[c].stageName = NoDir /\ IsEmpty(s)',
         call'[c].stageFd \in {NoDir, call[c].stageFd},
         TypeOK', TreesOK', CallOK(c)',
         fooled \subseteq fooled',
         Between(c)' => Between(c),
         fooled' = {} /\ Claims(c)' => Claims(c)
  PROVE  IInv'
  <1>1. TypeOK /\ NamesApart /\ GarbageEmpty /\ TargetWhole /\ OneBetween /\ OneClaims /\ EditsKept
        /\ \A b \in Callers : CallOK(b)
    BY DEF IInv
  <1>2. \A d \in Places : d # s /\ tree'[d] = tree[d]
    BY <1>1, WhereTheyAre DEF Places, NamesApart, StageNames
  <1>3. /\ Places' = Places
        /\ \A d \in Places : (IsApp(d)' = IsApp(d)) /\ (IsEmpty(d)' = IsEmpty(d))
    BY <1>2, SameTreeSame DEF Places
  <1>4. /\ AppAtHand' = AppAtHand /\ IsShelved' = IsShelved
        /\ Replaceable(aside)' = Replaceable(aside)
        /\ Replaceable(target)' = Replaceable(target)
        /\ target # NoDir => IsApp(target)' = IsApp(target)
    <2>1. \A d \in Places : (HasManifest(tree[d]) /\ Whole(tree[d]))' = (HasManifest(tree[d]) /\ Whole(tree[d]))
      BY <1>3 DEF IsApp
    <2>2. shelf \subseteq Places \cup {NoDir} /\ NoDir \notin shelf
      BY <1>1, WhereTheyAre DEF Places
    <2>3. target # NoDir => target \in Places
      BY DEF Places
    <2>4. aside # NoDir => aside \in Places
      BY DEF Places
    <2>5. AppAtHand' = AppAtHand
      BY <2>1, <1>3 DEF AppAtHand
    <2>6. IsShelved' = IsShelved
      BY <2>2, <1>3 DEF IsShelved
    <2>7. QED  BY <2>3, <2>4, <2>5, <2>6, <1>3 DEF Replaceable
  <1>5. StageNames' \subseteq StageNames \cup {NoDir}
    BY DEF StageNames
  <1>6. NamesApart'
    <2>1. \A d : d # NoDir /\ d \notin StageNames => d \notin StageNames'
      BY <1>5
    <2>2. shelf' \cap StageNames' = {}
      BY <2>1, <1>1, WhereTheyAre DEF NamesApart
    <2>3. \A a, b \in Callers : a # b /\ call'[a].stageFd # NoDir => call'[a].stageFd # call'[b].stageFd
      BY <1>1 DEF NamesApart
    <2>4. QED  BY <2>1, <2>2, <2>3, <1>1 DEF NamesApart
  <1>7. GarbageEmpty'
    <2> SUFFICES ASSUME NEW d \in Inodes, d \notin Named' PROVE IsEmpty(d)'
      BY DEF GarbageEmpty
    <2>1. CASE d = s
      <3>1. call'[c].stageName = d => d \in Named'
        BY <1>1, PublishAssumption DEF Named
      <3>2. QED  BY <2>1, <3>1
    <2>2. CASE d # s
      <3>1. d \notin Named
        BY <2>2 DEF Named
      <3>2. QED  BY <3>1, <2>2, <1>1, SameTreeSame DEF GarbageEmpty
    <2>3. QED  BY <2>1, <2>2
  <1>8. TargetWhole' /\ EditsKept'
    <2>1. target \in Places \/ target = NoDir
      BY DEF Places
    <2>2. TargetWhole'
      BY <2>1, <1>1, <1>2 DEF TargetWhole
    <2>3. \A n \in DOMAIN edited : Survives(n) => Survives(n)'
      BY <1>2, <1>3 DEF Survives
    <2>4. QED  BY <2>2, <2>3, <1>1 DEF EditsKept
  <1>9. \A b \in Callers : (Between(b)' => Between(b)) /\ (fooled' = {} /\ Claims(b)' => Claims(b))
    BY DEF Between, Claims
  <1>10. OneBetween' /\ OneClaims'
    BY <1>1, <1>4, <1>9 DEF OneBetween, OneClaims
  <1>11. ASSUME NEW b \in Callers, b # c PROVE CallOK(b)'
    <2>1. CallOK(b) /\ call'[b] = call[b]
      BY <1>1, <1>11
    <2>2. PhaseOK(b)' /\ NoStage(b)'
      <3>1. PhaseOK(b) /\ NoStage(b)
        BY <2>1 DEF CallOK
      <3>2. PhaseOK(b)'
        BY <3>1, <2>1 DEF PhaseOK
      <3>3. \A d : d # NoDir /\ d \notin StageNames => d \notin StageNames'
        BY <1>5
      <3>4. call[b].keeps => call[b].expected # NoDir
        BY <3>1 DEF PhaseOK
      <3>5. QED  BY <3>1, <3>2, <3>3, <3>4, <2>1 DEF NoStage
    <2>3. /\ call[b].stageFd # NoDir => call[b].stageFd # s /\ tree'[call[b].stageFd] = tree[call[b].stageFd]
          /\ call[b].source # NoDir => call[b].source # s /\ tree'[call[b].source] = tree[call[b].source]
      <3>1. PhaseOK(c) /\ NoStage(b)
        BY <1>1, <2>1 DEF CallOK
      <3>2. s = NoDir \/ s = call[c].stageFd
        BY <3>1, <1>1 DEF PhaseOK, TypeOK, CallType, Phases, Fresh, Staged, Placed
      <3>3. QED  BY <3>1, <3>2, <1>1, <1>11, WhereTheyAre DEF NamesApart, NoStage, StageNames
    <2>4. StageBuilt(b)' /\ FoundKept(b)' /\ CopyOK(b)'
      <3>1. StageBuilt(b) /\ FoundKept(b) /\ CopyOK(b) /\ PhaseOK(b)
        BY <2>1 DEF CallOK
      <3>2. call[b].pc \in Staged \cup Placed => call[b].stageFd # NoDir
        BY <3>1 DEF PhaseOK
      <3>3. call[b].pc = "copy" => call[b].source # NoDir
        BY <3>1 DEF PhaseOK
      <3>4. StageBuilt(b)'
        BY <3>1, <3>2, <2>1, <2>3 DEF StageBuilt, AppOf, IsApp, Staged, Built
      <3>5. FoundKept(b)'
        BY <3>1, <3>2, <3>3, <2>1, <2>3 DEF FoundKept, EditsIn
      <3>6. CopyOK(b)'
        BY <3>1, <3>2, <2>1, <2>3 DEF CopyOK, EditsIn
      <3>7. QED  BY <3>4, <3>5, <3>6
    <2>5. AppPlaced(b)' /\ AsideFull(b)' /\ NothingThere(b)'
      <3>1. AppPlaced(b) /\ AsideFull(b) /\ NothingThere(b)
        BY <2>1 DEF CallOK
      <3>2. Between(b)' = Between(b)
        BY <2>1 DEF Between
      <3>3. QED  BY <3>1, <3>2, <2>1, <1>4 DEF AppPlaced, AsideFull, NothingThere
    <2>6. Gone(b)' /\ ClaimOK(b)'
      <3>1. Gone(b) /\ ClaimOK(b)
        BY <2>1 DEF CallOK
      <3>2. Claims(b)' = Claims(b)
        BY <2>1 DEF Claims
      <3>3. call[b].keeps => call[b].expected # NoDir
        BY <2>1 DEF CallOK, PhaseOK
      <3>4. Gone(b)'
        BY <3>1, <3>3, <2>1, <1>3 DEF Gone, Places
      <3>5. aside # NoDir => IsEmpty(aside)' = IsEmpty(aside)
        BY <1>3 DEF Places
      <3>6. Claims(b) => aside # NoDir
        BY <3>3, <2>1 DEF Claims, CallOK, PhaseOK
      <3>7. QED  BY <3>1, <3>2, <3>4, <3>5, <3>6, <2>1 DEF ClaimOK
    <2>7. AsideCovered(b)'
      <3>1. Claims(b)' = Claims(b) /\ AsideCovered(b)
        BY <2>1 DEF Claims, CallOK
      <3>2. Claims(b) => aside # NoDir
        BY <2>1 DEF Claims, CallOK, PhaseOK
      <3>3. aside # NoDir => tree'[aside] = tree[aside]
        BY <1>2 DEF Places
      <3>4. \A n, p : Elsewhere(n, p) => Elsewhere(n, p)'
        BY <1>2 DEF Elsewhere, Places
      <3>5. QED  BY <3>1, <3>2, <3>3, <3>4, <2>1 DEF AsideCovered
    <2>8. QED  BY <2>2, <2>4, <2>5, <2>6, <2>7 DEF CallOK
  <1>12. QED  BY <1>1, <1>6, <1>7, <1>8, <1>10, <1>11 DEF IInv

\* A call moves on, in a way the code has.
Advances(c, p) == LET k == call[c] IN
  \/ k.pc # "idle" /\ p = "discard"
  \/ k.pc = "recover" /\ p = "look"
  \/ k.pc = "copy" /\ k.todo = {} /\ p = "write"
  \/ k.pc = "check" /\ p = IF k.keeps THEN "reserve" ELSE "place"
  \/ k.pc = "reserve" /\ p = "setAside"
  \/ k.pc = "identify" /\ p = "place" /\ aside = k.expected
  \/ k.pc = "confirm" /\ p = IF target # k.stageFd THEN "quarantine"
                             ELSE IF k.keeps THEN "open" ELSE "verify"
  \/ k.pc = "verify" /\ p = "quarantine"

LEMMA GoFacts ==
  ASSUME TypeOK, NEW c \in Callers, NEW p \in Phases, Go(c, p)
  PROVE  /\ call' \in [Callers -> CallType]
         /\ \A b \in Callers \ {c} : call'[b] = call[b]
         /\ call'[c].pc = p /\ call'[c].spec = call[c].spec
         /\ call'[c].stageFd = call[c].stageFd /\ call'[c].stageName = call[c].stageName
         /\ call'[c].expected = call[c].expected /\ call'[c].keeps = call[c].keeps
         /\ call'[c].source = call[c].source /\ call'[c].todo = call[c].todo
         /\ call'[c].doomed = call[c].doomed /\ call'[c].reborn = call[c].reborn
         /\ call'[c].found = call[c].found
  BY DEF TypeOK, CallType, Go

LEMMA GoKeeps ==
  ASSUME IInv, NEW c \in Callers, NEW p \in Phases, Go(c, p), Advances(c, p),
         UNCHANGED <<fsVars, calls, crashes, edited, late>>,
         fooled' = fooled \/ fooled' = fooled \cup {c},
         p = "place" /\ call[c].keeps /\ call[c].reborn => fooled' # {}
  PROVE  IInv'
  <1> DEFINE s == call[c].stageName
  <1>1. TypeOK /\ TreesOK /\ CallOK(c)
    BY DEF IInv
  <1>2. UNCHANGED <<target, aside, shelf, tree, edited, late, calls, crashes>>
    BY DEF fsVars
  <1>3. /\ call' \in [Callers -> CallType]
        /\ \A b \in Callers \ {c} : call'[b] = call[b]
        /\ call'[c].pc = p /\ call'[c].spec = call[c].spec
        /\ call'[c].stageFd = call[c].stageFd /\ call'[c].stageName = call[c].stageName
        /\ call'[c].expected = call[c].expected /\ call'[c].keeps = call[c].keeps
        /\ call'[c].source = call[c].source /\ call'[c].todo = call[c].todo
        /\ call'[c].doomed = call[c].doomed /\ call'[c].reborn = call[c].reborn
        /\ call'[c].found = call[c].found
    BY <1>1, GoFacts
  <1>4. TypeOK' /\ TreesOK' /\ fooled \subseteq fooled'
    <2>1. CallType' = CallType
      BY <1>2 DEF CallType
    <2>2. QED  BY <1>1, <1>2, <1>3, <2>1 DEF TypeOK, TreesOK
  <1>5. StageNames' = StageNames
    <2>1. \A b \in Callers : call'[b].stageName = call[b].stageName
      BY <1>3
    <2>2. QED  BY <2>1 DEF StageNames
  <1>6. PhaseOK(c)' /\ NoStage(c)'
    <2>1. call[c].pc \in Phases
      BY <1>1 DEF TypeOK, CallType
    <2>2. PhaseOK(c)'
      BY <1>1, <1>3, <2>1 DEF CallOK, PhaseOK, Advances, Fresh, Staged, Placed, Replaces, Phases
    <2>3. NoStage(c)'
      BY <1>1, <1>2, <1>3, <1>5 DEF CallOK, NoStage
    <2>4. QED  BY <2>2, <2>3
  <1>7. StageBuilt(c)'
    BY <1>1, <1>2, <1>3 DEF CallOK, StageBuilt, Advances, Built, Placed, AppOf, IsApp
  <1>8. FoundKept(c)' /\ CopyOK(c)'
    BY <1>1, <1>2, <1>3 DEF CallOK, FoundKept, CopyOK, Advances, Staged, Placed
  <1>9. /\ Replaceable(aside)' = Replaceable(aside) /\ Replaceable(target)' = Replaceable(target)
        /\ IsShelved' = IsShelved /\ AppAtHand' = AppAtHand /\ IsApp(target)' = IsApp(target)
    BY <1>2 DEF Replaceable, IsEmpty, IsShelved, IsApp, AppAtHand, Places
  <1>10. (Between(c)' => Between(c)) /\ (p # "empty" /\ p # "place" /\ Between(c)' => call[c].pc = "confirm")
    BY <1>1, <1>2, <1>3 DEF Between, Advances, Removing, CallOK, PhaseOK, Replaces
  <1>11. AppPlaced(c)' /\ AsideFull(c)' /\ NothingThere(c)'
    <2>1. AppPlaced(c)'
      <3>1. p \in Placed => call[c].pc \in Placed
        BY DEF Advances, Placed
      <3>2. p = "open" => call[c].pc = "confirm" /\ target = call[c].stageFd /\ target # NoDir /\ IsApp(target)
        BY <1>1 DEF CallOK, StageBuilt, PhaseOK, AppOf, Advances, Placed
      <3>3. p # "empty"
        BY DEF Advances
      <3>4. QED  BY <1>1, <1>3, <1>9, <1>2, <3>1, <3>2, <3>3 DEF CallOK, AppPlaced
    <2>2. AsideFull(c)'
      BY <1>1, <1>3, <1>9, <1>10 DEF CallOK, AsideFull, Advances
    <2>3. NothingThere(c)'
      BY <1>1, <1>3, <1>9 DEF CallOK, NothingThere, Advances, Leaving
    <2>4. QED  BY <2>1, <2>2, <2>3
  <1>12. Gone(c)'
    <2>1. IsEmpty(target)' = IsEmpty(target)
      BY <1>2 DEF IsEmpty
    <2>2. QED  BY <1>1, <1>2, <1>3, <2>1 DEF CallOK, Gone, Advances, Staged, Placed, Removing
  <1>13. fooled' = {} /\ Claims(c)' => Claims(c) /\ fooled = {}
    BY <1>1, <1>2, <1>3 DEF Claims, Advances, Removing, CallOK, PhaseOK, Replaces
  <1>14. ClaimOK(c)'
    <2>1. ClaimOK(c) /\ IsEmpty(aside)' = IsEmpty(aside)
      BY <1>1, <1>2 DEF CallOK, IsEmpty
    <2>2. ASSUME fooled' = {}, p \in {"place", "confirm", "open"}, call[c].keeps PROVE Claims(c)'
      <3>1. p = "open" \/ (p = "place" /\ call[c].pc = "identify")
        BY <2>2 DEF Advances
      <3>2. CASE p = "open"
        BY <2>2, <3>2, <2>1, <1>2, <1>3 DEF ClaimOK, Claims, Advances, Removing
      <3>3. CASE p = "place" /\ call[c].pc = "identify"
        BY <2>2, <3>3, <1>2, <1>3 DEF Claims, Advances, Removing
      <3>4. QED  BY <3>1, <3>2, <3>3
    <2>3. fooled' = {} /\ Claims(c)' => call[c].pc \in {"identify", "confirm"} /\ call[c].source = call'[c].source
      BY <1>3 DEF Advances, Claims, Removing
    <2>4. fooled' = {} /\ Claims(c)' /\ p \in {"identify", "place"} => call[c].pc = "identify"
      BY <2>3 DEF Advances
    <2>5. QED  BY <2>1, <2>2, <2>3, <2>4, <1>2, <1>3, <1>13 DEF ClaimOK
  <1>15. AsideCovered(c)'
    <2>1. fooled' = {} /\ Claims(c)' /\ p \in {"confirm", "open", "empty"} => call[c].pc = "confirm"
      BY DEF Advances
    <2>2. \A q, n : Elsewhere(n, q)' = Elsewhere(n, q)
      BY <1>2 DEF Elsewhere
    <2>3. QED  BY <1>1, <1>2, <1>3, <1>13, <2>1, <2>2 DEF CallOK, AsideCovered
  <1>16. CallOK(c)'
    BY <1>6, <1>7, <1>8, <1>11, <1>12, <1>14, <1>15 DEF CallOK
  <1>17. QED  BY <1>2, <1>3, <1>4, <1>10, <1>13, <1>16, InnerStep

LEMMA FailKeeps ==
  ASSUME IInv, NEW c \in Callers, ~At(c, "idle"), Fail(c),
         UNCHANGED <<fsVars, calls, crashes, historyVars>>
  PROVE  IInv'
  BY GoKeeps DEF Fail, Advances, At, historyVars, Phases

LEMMA GoingKeeps ==
  ASSUME IInv, NEW c \in Callers,
         Recover(c) \/ CheckTarget(c) \/ CheckReserved(c) \/ Identify(c) \/ Confirm(c)
  PROVE  IInv'
  <1>1. CASE Recover(c)
    BY <1>1, GoKeeps, FailKeeps DEF Recover, Advances, At, historyVars, Phases
  <1>2. CASE CheckTarget(c)
    BY <1>2, GoKeeps, FailKeeps DEF CheckTarget, Advances, At, historyVars, Phases
  <1>3. CASE CheckReserved(c)
    BY <1>3, GoKeeps, FailKeeps DEF CheckReserved, Advances, At, historyVars, Phases
  <1>4. CASE Identify(c)
    <2>1. CASE aside # call[c].expected
      BY <1>4, <2>1, FailKeeps DEF Identify, At, historyVars
    <2>2. CASE aside = call[c].expected
      BY <1>4, <2>2, GoKeeps DEF Identify, Advances, At, Phases
    <2>3. QED  BY <2>1, <2>2
  <1>5. CASE Confirm(c)
    BY <1>5, GoKeeps DEF Confirm, Advances, At, historyVars, Phases
  <1>6. QED  BY <1>1, <1>2, <1>3, <1>4, <1>5

LEMMA TypeKept ==
  ASSUME TypeOK, call' \in [Callers -> CallType], DOMAIN tree' = Inodes,
         UNCHANGED <<target, aside, shelf, edited, late, fooled>>,
         calls' \in 0..Len(Requests), crashes' \in 0..MaxCrashes
  PROVE  TypeOK'
  <1>1. CallType' = CallType
    BY DEF CallType
  <1>2. QED  BY <1>1 DEF TypeOK

LEMMA CallFields ==
  ASSUME NEW k \in CallType
  PROVE  /\ \A x \in Phases : [k EXCEPT !.pc = x] \in CallType
         /\ \A x \in Specs : [k EXCEPT !.spec = x] \in CallType
         /\ \A x \in Dirs : [k EXCEPT !.stageFd = x] \in CallType
         /\ \A x \in Dirs : [k EXCEPT !.stageName = x] \in CallType
         /\ \A x \in Dirs : [k EXCEPT !.expected = x] \in CallType
         /\ \A x \in BOOLEAN : [k EXCEPT !.keeps = x] \in CallType
         /\ \A x \in Dirs : [k EXCEPT !.source = x] \in CallType
         /\ \A x \in SUBSET AllPaths : [k EXCEPT !.todo = x] \in CallType
         /\ \A x \in Dirs : [k EXCEPT !.doomed = x] \in CallType
         /\ \A x \in BOOLEAN : [k EXCEPT !.reborn = x] \in CallType
         /\ \A x \in SUBSET DOMAIN edited : [k EXCEPT !.found = x] \in CallType
  <1>1. \A x \in Phases : [k EXCEPT !.pc = x] \in CallType
    BY DEF CallType
  <1>2. \A x \in Specs : [k EXCEPT !.spec = x] \in CallType
    BY DEF CallType
  <1>3. \A x \in Dirs : [k EXCEPT !.stageFd = x] \in CallType
    BY DEF CallType
  <1>4. \A x \in Dirs : [k EXCEPT !.stageName = x] \in CallType
    BY DEF CallType
  <1>5. \A x \in Dirs : [k EXCEPT !.expected = x] \in CallType
    BY DEF CallType
  <1>6. \A x \in BOOLEAN : [k EXCEPT !.keeps = x] \in CallType
    BY DEF CallType
  <1>7. \A x \in Dirs : [k EXCEPT !.source = x] \in CallType
    BY DEF CallType
  <1>8. \A x \in SUBSET AllPaths : [k EXCEPT !.todo = x] \in CallType
    BY DEF CallType, AllPaths
  <1>9. \A x \in Dirs : [k EXCEPT !.doomed = x] \in CallType
    BY DEF CallType
  <1>10. \A x \in BOOLEAN : [k EXCEPT !.reborn = x] \in CallType
    BY DEF CallType
  <1>11. \A x \in SUBSET DOMAIN edited : [k EXCEPT !.found = x] \in CallType
    BY DEF CallType
  <1>12. QED
    BY <1>1, <1>2, <1>3, <1>4, <1>5, <1>6, <1>7, <1>8, <1>9, <1>10, <1>11

LEMMA PutCall ==
  ASSUME TypeOK, NEW c \in Callers, NEW k \in CallType, call' = [call EXCEPT ![c] = k]
  PROVE  /\ call' \in [Callers -> CallType]
         /\ call'[c] = k /\ \A b \in Callers \ {c} : call'[b] = call[b]
  BY DEF TypeOK

LEMMA BeginKeeps == ASSUME IInv, NEW c \in Callers, Begin(c) PROVE IInv'
  <1>1. TypeOK /\ TreesOK /\ CallOK(c)
    BY DEF IInv
  <1>2. /\ UNCHANGED <<target, aside, shelf, tree, edited, late, crashes, fooled>>
        /\ call[c].pc = "idle"
        /\ calls' = calls + 1 /\ calls < Len(Requests)
        /\ call' = [call EXCEPT ![c].pc = "recover", ![c].spec = Requests[calls']]
    BY DEF Begin, At, fsVars, historyVars
  <1>3. calls' \in 1..Len(Requests) /\ Requests[calls'] \in Specs
    BY <1>1, <1>2, PublishAssumption DEF TypeOK, Specs
  <1>4. call' \in [Callers -> CallType]
    <2> DEFINE k1 == [call[c] EXCEPT !.pc = "recover"]
               k2 == [k1 EXCEPT !.spec = Requests[calls']]
    <2>1. k1 \in CallType
      BY <1>1, CallFields DEF TypeOK, Phases
    <2>2. k2 \in CallType
      <3> HIDE DEF k1
      <3>1. QED  BY <2>1, <1>3, CallFields
    <2>3. call' = [call EXCEPT ![c] = k2]
      BY <1>1, <1>2 DEF TypeOK, CallType
    <2> HIDE DEF k2
    <2>4. QED  BY <1>1, <2>2, <2>3, PutCall
  <1>5. /\ call' \in [Callers -> CallType]
        /\ \A b \in Callers \ {c} : call'[b] = call[b]
        /\ call'[c].pc = "recover" /\ call'[c].spec \in Specs
        /\ call'[c].stageFd = call[c].stageFd /\ call'[c].stageName = call[c].stageName
        /\ call'[c].keeps = call[c].keeps /\ call'[c].expected = call[c].expected
        /\ call'[c].source = call[c].source /\ call'[c].doomed = call[c].doomed
        /\ call'[c].found = call[c].found
    BY <1>1, <1>2, <1>3, <1>4 DEF TypeOK, CallType
  <1>6. TypeOK' /\ TreesOK'
    BY <1>1, <1>2, <1>3, <1>5, TypeKept DEF TreesOK, TypeOK
  <1>7. PhaseOK(c)'
    BY <1>1, <1>2, <1>5 DEF CallOK, PhaseOK, Fresh, Staged, Placed, Replaces
  <1>8. ~call'[c].keeps
    BY <1>7, <1>5 DEF PhaseOK, Fresh
  <1>9. call'[c].doomed = NoDir /\ call'[c].source = NoDir /\ call'[c].found = {}
    BY <1>7, <1>5, <1>8 DEF PhaseOK
  <1>10. CallOK(c)'
    BY <1>5, <1>7, <1>8, <1>9
    DEF CallOK, NoStage, StageBuilt, FoundKept, AppPlaced, AsideFull, NothingThere, Gone, ClaimOK,
        CopyOK, AsideCovered, Built, Placed, Staged, Between, Claims, Removing
  <1>11. ~Between(c)' /\ ~Claims(c)'
    BY <1>5 DEF Between, Claims, Removing
  <1>12. QED  BY <1>2, <1>5, <1>6, <1>10, <1>11, InnerStep

LEMMA LookKeeps == ASSUME IInv, NEW c \in Callers, Look(c) PROVE IInv'
  <1>1. TypeOK /\ TreesOK /\ NamesApart /\ CallOK(c)
    BY DEF IInv
  <1>2. /\ UNCHANGED <<target, aside, shelf, tree, edited, late, calls, crashes, fooled>>
        /\ call[c].pc = "look"
        /\ call' = [call EXCEPT ![c].pc = "stage", ![c].expected = target,
                                ![c].keeps = target # NoDir /\ ~IsEmpty(target)]
    BY DEF Look, At, fsVars, historyVars
  <1>3. call' \in [Callers -> CallType]
    <2> DEFINE k1 == [call[c] EXCEPT !.pc = "stage"]
               k2 == [k1 EXCEPT !.expected = target]
               k3 == [k2 EXCEPT !.keeps = target # NoDir /\ ~IsEmpty(target)]
    <2>1. k1 \in CallType
      BY <1>1, CallFields DEF TypeOK, Phases
    <2>2. k2 \in CallType
      <3> HIDE DEF k1
      <3>1. QED  BY <2>1, <1>1, CallFields DEF TypeOK
    <2>3. k3 \in CallType
      <3> HIDE DEF k2
      <3>1. QED  BY <2>2, CallFields
    <2>4. call' = [call EXCEPT ![c] = k3]
      BY <1>1, <1>2 DEF TypeOK, CallType
    <2> HIDE DEF k3
    <2>5. QED  BY <1>1, <2>3, <2>4, PutCall
  <1>4. /\ call' \in [Callers -> CallType]
        /\ \A b \in Callers \ {c} : call'[b] = call[b]
        /\ call'[c].pc = "stage" /\ call'[c].spec = call[c].spec
        /\ call'[c].stageFd = call[c].stageFd /\ call'[c].stageName = call[c].stageName
        /\ call'[c].keeps = (target # NoDir /\ ~IsEmpty(target)) /\ call'[c].expected = target
        /\ call'[c].source = call[c].source /\ call'[c].doomed = call[c].doomed
        /\ call'[c].found = call[c].found
    BY <1>1, <1>2, <1>3 DEF TypeOK, CallType
  <1>5. TypeOK' /\ TreesOK'
    BY <1>1, <1>2, <1>4, TypeKept DEF TreesOK, TypeOK
  <1>6. PhaseOK(c)'
    BY <1>1, <1>2, <1>4 DEF CallOK, PhaseOK, Fresh, Staged, Placed, Replaces
  <1>7. call'[c].doomed = NoDir /\ call'[c].source = NoDir /\ call'[c].found = {}
    BY <1>6, <1>4 DEF PhaseOK
  <1>8. StageNames' = StageNames
    <2>1. \A b \in Callers : call'[b].stageName = call[b].stageName
      BY <1>4
    <2>2. QED  BY <2>1 DEF StageNames
  <1>9. NoStage(c)'
    <2>1. call'[c].keeps => target # NoDir /\ target \notin StageNames
      BY <1>1, <1>4 DEF NamesApart
    <2>2. QED  BY <2>1, <1>4, <1>7, <1>8 DEF NoStage
  <1>10. NothingThere(c)' /\ Gone(c)'
    <2>1. IsEmpty(target)' = IsEmpty(target)
      BY <1>2 DEF IsEmpty
    <2>2. QED  BY <1>2, <1>4, <2>1 DEF NothingThere, Gone, Replaceable, Removing, Staged
  <1>11. CallOK(c)'
    BY <1>4, <1>6, <1>7, <1>9, <1>10
    DEF CallOK, StageBuilt, FoundKept, AppPlaced, AsideFull, ClaimOK,
        CopyOK, AsideCovered, Built, Placed, Staged, Between, Claims, Removing
  <1>12. ~Between(c)' /\ ~Claims(c)'
    BY <1>4 DEF Between, Claims, Removing
  <1>13. QED  BY <1>2, <1>4, <1>5, <1>11, <1>12, InnerStep

LEMMA ListKeeps == ASSUME IInv, NEW c \in Callers, List(c) PROVE IInv'
  <1>1. TypeOK /\ TreesOK /\ NamesApart /\ CallOK(c)
    BY DEF IInv
  <1>2. CASE target = NoDir
    BY <1>2, FailKeeps DEF List, At
  <1>3. CASE target # NoDir
    <2>1. /\ UNCHANGED <<target, aside, shelf, tree, edited, late, calls, crashes, fooled>>
          /\ call[c].pc = "list"
          /\ call' = [call EXCEPT ![c].pc = "copy", ![c].source = target,
                                  ![c].todo = DOMAIN tree[target],
                                  ![c].found = AllEdits(target)]
      BY <1>3 DEF List, At, fsVars, historyVars
    <2>2. target \in Inodes
      BY <1>1, <1>3, WhereTheyAre
    <2>3. DOMAIN tree[target] \subseteq AllPaths /\ AllEdits(target) \subseteq DOMAIN edited
      BY <1>1, <2>2 DEF TreesOK, AllEdits, EditsIn
    <2>4. call' \in [Callers -> CallType]
      <3> DEFINE k1 == [call[c] EXCEPT !.pc = "copy"]
                 k2 == [k1 EXCEPT !.source = target]
                 k3 == [k2 EXCEPT !.todo = DOMAIN tree[target]]
                 k4 == [k3 EXCEPT !.found = AllEdits(target)]
      <3>1. k1 \in CallType
        BY <1>1, CallFields DEF TypeOK, Phases
      <3>2. k2 \in CallType
        <4> HIDE DEF k1
        <4>1. QED  BY <3>1, <2>2, CallFields DEF Dirs
      <3>3. k3 \in CallType
        <4> HIDE DEF k2
        <4>1. QED  BY <3>2, <2>3, CallFields
      <3>4. k4 \in CallType
        <4> HIDE DEF k3
        <4>1. QED  BY <3>3, <2>3, CallFields
      <3>5. call' = [call EXCEPT ![c] = k4]
        BY <1>1, <2>1 DEF TypeOK, CallType
      <3> HIDE DEF k4
      <3>6. QED  BY <1>1, <3>4, <3>5, PutCall
    <2>5. /\ call' \in [Callers -> CallType]
          /\ \A b \in Callers \ {c} : call'[b] = call[b]
          /\ call'[c].pc = "copy" /\ call'[c].spec = call[c].spec
          /\ call'[c].stageFd = call[c].stageFd /\ call'[c].stageName = call[c].stageName
          /\ call'[c].keeps = call[c].keeps /\ call'[c].expected = call[c].expected
          /\ call'[c].source = target /\ call'[c].doomed = call[c].doomed
          /\ call'[c].todo = DOMAIN tree[target] /\ call'[c].reborn = call[c].reborn
          /\ call'[c].found = AllEdits(target)
      BY <1>1, <2>1, <2>4 DEF TypeOK, CallType
    <2>6. TypeOK' /\ TreesOK'
      BY <1>1, <2>1, <2>5, TypeKept DEF TreesOK, TypeOK
    <2>7. call[c].keeps
      BY <1>1, <2>1 DEF CallOK, PhaseOK, Replaces
    <2>8. PhaseOK(c)'
      BY <1>1, <1>3, <2>1, <2>5, <2>7 DEF CallOK, PhaseOK, Fresh, Staged, Placed, Replaces
    <2>9. StageNames' = StageNames
      <3>1. \A b \in Callers : call'[b].stageName = call[b].stageName
        BY <2>5
      <3>2. QED  BY <3>1 DEF StageNames
    <2>10. NoStage(c)'
      BY <1>1, <1>3, <2>1, <2>5, <2>9 DEF CallOK, NoStage, NamesApart
    <2>11. FoundKept(c)' /\ CopyOK(c)'
      <3>1. \A n \in AllEdits(target) : \E p \in UserPaths :
               p \in DOMAIN tree[target] /\ n \in tree[target][p].edits
        BY DEF AllEdits, EditsIn
      <3>2. FoundKept(c)'
        BY <3>1, <2>1, <2>5 DEF FoundKept
      <3>3. \A p \in UserPaths : \A n \in EditsIn(tree[target], p) : p \in DOMAIN tree[target]
        BY DEF EditsIn
      <3>4. CopyOK(c)'
        BY <3>3, <2>1, <2>5 DEF CopyOK
      <3>5. QED  BY <3>2, <3>4
    <2>12. /\ IsShelved' = IsShelved /\ Replaceable(aside)' = Replaceable(aside)
           /\ Replaceable(target)' = Replaceable(target) /\ IsEmpty(target)' = IsEmpty(target)
      BY <2>1 DEF IsShelved, IsApp, Replaceable, IsEmpty
    <2>13. NothingThere(c)' /\ Gone(c)'
      BY <1>1, <2>1, <2>5, <2>12 DEF CallOK, NothingThere, Gone, Removing, Staged, Leaving
    <2>14. CallOK(c)'
      BY <2>5, <2>8, <2>10, <2>11, <2>13
      DEF CallOK, StageBuilt, AppPlaced, AsideFull, ClaimOK,
          AsideCovered, Built, Placed, Between, Claims, Removing
    <2>15. ~Between(c)' /\ ~Claims(c)'
      BY <2>5 DEF Between, Claims, Removing
    <2>16. QED  BY <2>1, <2>5, <2>6, <2>14, <2>15, InnerStep
  <1>4. QED  BY <1>2, <1>3

\* What every writer in its stage does.
Writes(c, u) ==
  /\ call[c].pc \in {"copy", "write", "stub"}
  /\ call'[c].pc \in {"copy", "stub", "check"}
  /\ call[c].pc = "copy" <=> call'[c].pc = "copy"
  /\ UNCHANGED <<target, aside, shelf, calls, crashes, edited, late, fooled>>
  /\ tree' = [tree EXCEPT ![call[c].stageFd] = u]
  /\ DOMAIN u \subseteq AllPaths
  /\ \A p \in DOMAIN u : u[p].edits \subseteq DOMAIN edited
  /\ call' \in [Callers -> CallType]
  /\ \A b \in Callers \ {c} : call'[b] = call[b]
  /\ call'[c].spec = call[c].spec /\ call'[c].stageFd = call[c].stageFd
  /\ call'[c].stageName = call[c].stageName /\ call'[c].expected = call[c].expected
  /\ call'[c].keeps = call[c].keeps /\ call'[c].source = call[c].source
  /\ call'[c].doomed = call[c].doomed /\ call'[c].reborn = call[c].reborn
  /\ call'[c].found = call[c].found

LEMMA WriterFacts ==
  ASSUME IInv, NEW c \in Callers, NEW u, Writes(c, u)
  PROVE  /\ tree'[call[c].stageFd] = u
         /\ call[c].stageFd \in Inodes
         /\ \A d \in Inodes : d # call[c].stageFd => tree'[d] = tree[d]
         /\ call[c].source # NoDir => /\ call[c].source # call[c].stageFd
                                      /\ tree'[call[c].source] = tree[call[c].source]
  <1>1. TypeOK /\ CallOK(c)
    BY DEF IInv
  <1>2. call[c].stageFd # NoDir /\ call[c].stageFd = call[c].stageName
    BY <1>1 DEF CallOK, PhaseOK, Writes, Staged
  <1>3. call[c].stageFd \in Inodes /\ DOMAIN tree = Inodes
    BY <1>1, <1>2, WhereTheyAre DEF TypeOK
  <1>4. \A d \in Inodes : d # call[c].stageFd => tree'[d] = tree[d]
    BY <1>3 DEF Writes
  <1>5. call[c].source # NoDir => call[c].source \in Inodes /\ call[c].source # call[c].stageFd
    BY <1>1, <1>2, WhereTheyAre DEF CallOK, NoStage, StageNames
  <1>6. tree'[call[c].stageFd] = u
    BY <1>3 DEF Writes
  <1>7. QED  BY <1>3, <1>4, <1>5, <1>6

LEMMA WriteKeeps ==
  ASSUME IInv, NEW c \in Callers, NEW u, Writes(c, u),
         StageBuilt(c)', FoundKept(c)', CopyOK(c)'
  PROVE  IInv'
  <1> DEFINE s == call[c].stageFd
  <1>1. TypeOK /\ TreesOK /\ NamesApart /\ CallOK(c)
    BY DEF IInv
  <1>2. s = call[c].stageName /\ s \in Inodes /\ s # NoDir
    BY <1>1, WriterFacts, PublishAssumption DEF CallOK, PhaseOK, Writes, Staged
  <1>3. /\ \A d \in Inodes : d # s => tree'[d] = tree[d]
        /\ tree'[s] = u /\ DOMAIN tree' = Inodes
    <2>1. DOMAIN tree' = DOMAIN tree
      BY DEF Writes
    <2>2. DOMAIN tree = Inodes
      BY <1>1 DEF TypeOK
    <2>3. QED  BY <2>1, <2>2, WriterFacts
  <1>4. TypeOK'
    BY <1>1, <1>3, TypeKept DEF Writes, TypeOK
  <1>5. TreesOK'
    BY <1>1, <1>3 DEF Writes, TreesOK
  <1>6. PhaseOK(c)'
    BY <1>1 DEF CallOK, PhaseOK, Writes, Fresh, Staged, Placed, Replaces
  <1>7. StageNames' = StageNames
    <2>1. \A b \in Callers : call'[b].stageName = call[b].stageName
      BY DEF Writes
    <2>2. QED  BY <2>1 DEF StageNames
  <1>8. NoStage(c)'
    BY <1>1, <1>7 DEF CallOK, NoStage, Writes
  <1>9. target # s /\ aside # s /\ s \notin shelf
    BY <1>1, <1>2 DEF NamesApart, StageNames
  <1>10. /\ IsShelved' = IsShelved
         /\ Replaceable(aside)' = Replaceable(aside)
         /\ Replaceable(target)' = Replaceable(target)
         /\ target # NoDir => IsEmpty(target)' = IsEmpty(target)
    <2>1. \A d \in shelf \cup ({target, aside} \ {NoDir}) : tree'[d] = tree[d]
      BY <1>1, <1>3, <1>9, WhereTheyAre
    <2>2. QED  BY <2>1 DEF IsShelved, IsApp, Replaceable, IsEmpty, Writes
  <1>11. NothingThere(c)'
    BY <1>1, <1>10 DEF CallOK, NothingThere, Writes, Leaving
  <1>12. Gone(c)'
    <2>1. call[c].keeps => call[c].expected # NoDir
      BY <1>1 DEF CallOK, PhaseOK
    <2>2. QED  BY <1>1, <1>10, <2>1 DEF CallOK, Gone, Writes, Removing, Staged
  <1>13. CallOK(c)'
    BY <1>6, <1>8, <1>11, <1>12
    DEF CallOK, Writes, AppPlaced, AsideFull, ClaimOK, AsideCovered, Placed, Between, Claims, Removing
  <1>14. ~Between(c)' /\ ~Claims(c)'
    BY DEF Writes, Between, Claims, Removing
  <1>15. QED  BY <1>2, <1>3, <1>4, <1>5, <1>13, <1>14, InnerStep DEF Writes

LEMMA CopyKeeps == ASSUME IInv, NEW c \in Callers, Copy(c) PROVE IInv'
  <1> DEFINE k == call[c]
  <1>1. TypeOK /\ TreesOK /\ NamesApart /\ CallOK(c) /\ k.pc = "copy"
    BY DEF IInv, Copy, At
  <1>2. CASE k.todo = {} /\ Go(c, "write") /\ UNCHANGED tree
    BY <1>1, <1>2, GoKeeps DEF Copy, Advances, Phases, fsVars, historyVars
  <1>3. ASSUME NEW p \in k.todo, p \notin DOMAIN tree[k.source], Fail(c), UNCHANGED tree
        PROVE  IInv'
    BY <1>1, <1>3, FailKeeps DEF Copy, At, fsVars
  <1>4. ASSUME NEW p \in k.todo, p \in DOMAIN tree[k.source],
               tree' = [tree EXCEPT ![k.stageFd] = Overlay([q \in {p} |-> tree[k.source][p]], @)],
               call' = [call EXCEPT ![c].todo = @ \ {p}]
        PROVE  IInv'
    <2> DEFINE f == tree[k.source]
               t == tree[k.stageFd]
               u == Overlay([q \in {p} |-> f[p]], t)
    <2>1. k.stageFd \in Inodes /\ k.source \in Inodes /\ k.source \notin StageNames
      BY <1>1, WhereTheyAre DEF CallOK, PhaseOK, NoStage, Staged
    <2>2. /\ DOMAIN u = DOMAIN t \cup {p} /\ u[p] = f[p]
          /\ \A q \in DOMAIN t : q # p => u[q] = t[q]
          /\ EditsIn(u, p) = EditsIn(f, p)
          /\ \A q : q # p => EditsIn(u, q) = EditsIn(t, q)
      <3>1. p \in DOMAIN f
        BY <1>4
      <3>2. QED
        <4> HIDE DEF f, t
        <4>1. QED  BY <3>1 DEF Overlay, EditsIn
    <2>3. DOMAIN u \subseteq AllPaths /\ \A q \in DOMAIN u : u[q].edits \subseteq DOMAIN edited
      BY <1>1, <1>4, <2>1, <2>2 DEF TreesOK
    <2>4. /\ call' \in [Callers -> CallType]
          /\ \A b \in Callers \ {c} : call'[b] = call[b]
          /\ call'[c].pc = k.pc /\ call'[c].spec = k.spec
          /\ call'[c].stageFd = k.stageFd /\ call'[c].stageName = k.stageName
          /\ call'[c].expected = k.expected /\ call'[c].keeps = k.keeps
          /\ call'[c].source = k.source /\ call'[c].todo = k.todo \ {p}
          /\ call'[c].doomed = k.doomed /\ call'[c].reborn = k.reborn
          /\ call'[c].found = k.found
      BY <1>1, <1>4 DEF TypeOK, CallType
    <2> HIDE DEF u
    <2>5. tree' = [tree EXCEPT ![k.stageFd] = u]
      BY <1>4 DEF u
    <2>6. Writes(c, u)
      BY <1>1, <2>3, <2>4, <2>5 DEF Writes, Copy, historyVars
    <2>7. /\ tree'[k.stageFd] = u /\ tree'[k.source] = f /\ UNCHANGED <<target, late>>
      BY <2>1, <2>6, WriterFacts, PublishAssumption DEF Writes
    <2>8. StageBuilt(c)'
      BY <1>1, <2>4 DEF StageBuilt, Built, Placed
    <2>9. FoundKept(c)'
      <3>1. FoundKept(c)
        BY <1>1 DEF CallOK
      <3>2. ASSUME NEW n \in k.found
            PROVE  \E q \in UserPaths :
                     IF q \in k.todo \ {p} THEN q \in DOMAIN f => n \in f[q].edits
                     ELSE n \in EditsIn(u, q)
        <4>1. PICK q \in UserPaths : IF q \in k.todo THEN q \in DOMAIN f => n \in f[q].edits
                                     ELSE n \in EditsIn(t, q)
          BY <3>1, <3>2, <1>1 DEF FoundKept, Staged
        <4>2. CASE q # p
          BY <4>1, <4>2, <2>2
        <4>3. CASE q = p
          BY <4>1, <4>3, <2>2, <1>4 DEF EditsIn
        <4>4. QED  BY <4>2, <4>3
      <3>3. QED  BY <3>1, <3>2, <1>1, <2>4, <2>7 DEF FoundKept, Staged
    <2>10. CopyOK(c)'
      BY <1>1, <2>2, <2>4, <2>7 DEF CallOK, CopyOK, Staged, EditsIn
    <2>11. QED  BY <2>6, <2>8, <2>9, <2>10, WriteKeeps
  <1>5. QED  BY <1>2, <1>3, <1>4 DEF Copy, At

LEMMA WriteAppKeeps == ASSUME IInv, NEW c \in Callers, WriteApp(c) PROVE IInv'
  <1> DEFINE k == call[c]
  <1>1. TypeOK /\ TreesOK /\ CallOK(c) /\ k.pc = "write" /\ k.spec \in Specs
    BY DEF IInv, WriteApp, At, CallOK, PhaseOK
  <1>2. CASE Fail(c) /\ UNCHANGED tree
    BY <1>1, <1>2, FailKeeps DEF WriteApp, At, fsVars
  <1>3. CASE Go(c, "stub") /\ tree' = [tree EXCEPT ![k.stageFd] = WithApp(@, k.spec)]
    <2> DEFINE t == tree[k.stageFd]
               u == WithApp(t, k.spec)
    <2>1. k.stageFd \in Inodes
      BY <1>1, WhereTheyAre DEF CallOK, PhaseOK, Staged
    <2>2. /\ HasManifest(u) /\ ManifestOf(u) = k.spec
          /\ ModulePaths(k.spec) \subseteq DOMAIN u
          /\ DOMAIN u = DOMAIN t \cup ModulePaths(k.spec) \cup {Manifest}
          /\ \A p \in UserPaths : EditsIn(u, p) = EditsIn(t, p)
          /\ \A p \in DOMAIN u : u[p].edits = {} \/ (p \in DOMAIN t /\ u[p] = t[p])
      BY <1>1, WithAppFacts
    <2> HIDE DEF u
    <2>3. DOMAIN t \subseteq AllPaths /\ \A p \in DOMAIN t : t[p].edits \subseteq DOMAIN edited
      BY <1>1, <2>1 DEF TreesOK
    <2>4. ModulePaths(k.spec) \cup {Manifest} \subseteq AllPaths
      BY <1>1 DEF AllPaths
    <2>5. DOMAIN u \subseteq AllPaths /\ \A p \in DOMAIN u : u[p].edits \subseteq DOMAIN edited
      <3> HIDE DEF t
      <3>1. QED  BY <2>2, <2>3, <2>4
    <2>6. /\ call' \in [Callers -> CallType]
          /\ \A b \in Callers \ {c} : call'[b] = call[b]
          /\ call'[c].pc = "stub" /\ call'[c].spec = k.spec
          /\ call'[c].stageFd = k.stageFd /\ call'[c].stageName = k.stageName
          /\ call'[c].expected = k.expected /\ call'[c].keeps = k.keeps
          /\ call'[c].source = k.source /\ call'[c].todo = k.todo
          /\ call'[c].doomed = k.doomed /\ call'[c].reborn = k.reborn
          /\ call'[c].found = k.found
      BY <1>1, <1>3, GoFacts DEF Phases
    <2>7. tree' = [tree EXCEPT ![k.stageFd] = u]
      BY <1>3 DEF u
    <2>8. Writes(c, u)
      BY <1>1, <2>5, <2>6, <2>7 DEF Writes, WriteApp, historyVars
    <2>9. /\ tree'[k.stageFd] = u /\ UNCHANGED <<target, late>>
          /\ k.source # NoDir => tree'[k.source] = tree[k.source]
      BY <2>8, WriterFacts DEF Writes
    <2>10. StageBuilt(c)'
      BY <2>2, <2>6, <2>9 DEF StageBuilt, Built, Placed
    <2>11. FoundKept(c)' /\ CopyOK(c)'
      BY <1>1, <2>2, <2>6, <2>9 DEF CallOK, FoundKept, CopyOK, Staged
    <2>12. QED  BY <2>8, <2>10, <2>11, WriteKeeps
  <1>4. QED  BY <1>2, <1>3 DEF WriteApp

LEMMA WriteStubKeeps == ASSUME IInv, NEW c \in Callers, WriteStub(c) PROVE IInv'
  <1> DEFINE k == call[c]
             t == tree[k.stageFd]
             u == WithDirective(t)
  <1>1. TypeOK /\ TreesOK /\ CallOK(c) /\ k.pc = "stub" /\ k.spec \in Specs
    BY DEF IInv, WriteStub, At, CallOK, PhaseOK
  <1>2. /\ k.stageFd \in Inodes
        /\ HasManifest(t) /\ ManifestOf(t) = k.spec /\ ModulePaths(k.spec) \subseteq DOMAIN t
    BY <1>1, WhereTheyAre DEF CallOK, PhaseOK, Staged, StageBuilt
  <1>3. /\ DOMAIN u = DOMAIN t \cup {Directive}
        /\ \A p : EditsIn(u, p) = EditsIn(t, p)
        /\ \A p \in DOMAIN u : u[p].edits = {} \/ (p \in DOMAIN t /\ u[p].edits = t[p].edits)
        /\ \A p \in DOMAIN t \ {Directive} : u[p] = t[p]
    BY WithDirectiveFacts
  <1> HIDE DEF u
  <1>4. HasManifest(u) /\ ManifestOf(u) = k.spec /\ Whole(u)
    BY <1>2, <1>3, PathsApart DEF HasManifest, ManifestOf, Whole
  <1>5. DOMAIN t \subseteq AllPaths /\ \A p \in DOMAIN t : t[p].edits \subseteq DOMAIN edited
    BY <1>1, <1>2 DEF TreesOK
  <1>6. DOMAIN u \subseteq AllPaths /\ \A p \in DOMAIN u : u[p].edits \subseteq DOMAIN edited
    <2>1. Directive \in AllPaths
      BY DEF AllPaths, UserPaths
    <2> HIDE DEF t
    <2>2. QED  BY <1>3, <1>5, <2>1
  <1>7. /\ call' \in [Callers -> CallType]
        /\ \A b \in Callers \ {c} : call'[b] = call[b]
        /\ call'[c].pc = "check" /\ call'[c].spec = k.spec
        /\ call'[c].stageFd = k.stageFd /\ call'[c].stageName = k.stageName
        /\ call'[c].expected = k.expected /\ call'[c].keeps = k.keeps
        /\ call'[c].source = k.source /\ call'[c].todo = k.todo
        /\ call'[c].doomed = k.doomed /\ call'[c].reborn = k.reborn
        /\ call'[c].found = k.found
    BY <1>1, GoFacts DEF Phases, WriteStub
  <1>8. tree' = [tree EXCEPT ![k.stageFd] = u]
    BY DEF WriteStub, u
  <1>9. Writes(c, u)
    BY <1>1, <1>6, <1>7, <1>8 DEF Writes, WriteStub, historyVars
  <1>10. /\ tree'[k.stageFd] = u /\ UNCHANGED <<target, late>>
         /\ k.source # NoDir => tree'[k.source] = tree[k.source]
    BY <1>9, WriterFacts DEF Writes
  <1>11. StageBuilt(c)'
    BY <1>4, <1>7, <1>10 DEF StageBuilt, Built, Placed, AppOf, IsApp
  <1>12. FoundKept(c)' /\ CopyOK(c)'
    BY <1>1, <1>3, <1>7, <1>10 DEF CallOK, FoundKept, CopyOK, Staged
  <1>13. QED  BY <1>9, <1>11, <1>12, WriteKeeps

LEMMA OpenAsideKeeps == ASSUME IInv, NEW c \in Callers, OpenAside(c) PROVE IInv'
  <1> DEFINE k == call[c]
  <1>1. TypeOK /\ TreesOK /\ NamesApart /\ CallOK(c) /\ k.pc = "open" /\ k.keeps
    BY DEF IInv, OpenAside, At, CallOK, PhaseOK, Replaces
  <1>2. CASE aside = NoDir
    BY <1>1, <1>2, FailKeeps DEF OpenAside, At
  <1>3. CASE aside # NoDir
    <2>1. /\ UNCHANGED <<target, aside, shelf, tree, edited, late, calls, crashes, fooled>>
          /\ call' = [call EXCEPT ![c].pc = "empty", ![c].doomed = aside,
                                  ![c].todo = DOMAIN tree[aside]]
      BY <1>3 DEF OpenAside, fsVars, historyVars
    <2>2. aside \in Inodes /\ DOMAIN tree[aside] \subseteq AllPaths
      BY <1>1, <1>3, WhereTheyAre DEF TreesOK
    <2>3. call' \in [Callers -> CallType]
      <3> DEFINE k1 == [call[c] EXCEPT !.pc = "empty"]
                 k2 == [k1 EXCEPT !.doomed = aside]
                 k3 == [k2 EXCEPT !.todo = DOMAIN tree[aside]]
      <3>1. k1 \in CallType
        BY <1>1, CallFields DEF TypeOK, Phases
      <3>2. k2 \in CallType
        <4> HIDE DEF k1
        <4>1. QED  BY <3>1, <2>2, CallFields DEF Dirs
      <3>3. k3 \in CallType
        <4> HIDE DEF k2
        <4>1. QED  BY <3>2, <2>2, CallFields
      <3>4. call' = [call EXCEPT ![c] = k3]
        BY <1>1, <2>1 DEF TypeOK, CallType
      <3> HIDE DEF k3
      <3>5. QED  BY <1>1, <3>3, <3>4, PutCall
    <2>4. /\ \A b \in Callers \ {c} : call'[b] = call[b]
          /\ call'[c].pc = "empty" /\ call'[c].spec = k.spec
          /\ call'[c].stageFd = k.stageFd /\ call'[c].stageName = k.stageName
          /\ call'[c].expected = k.expected /\ call'[c].keeps = k.keeps
          /\ call'[c].source = k.source
          /\ call'[c].doomed = aside /\ call'[c].reborn = k.reborn
          /\ call'[c].found = k.found
      BY <1>1, <2>1, <2>3 DEF TypeOK, CallType
    <2>5. TypeOK' /\ TreesOK'
      BY <1>1, <2>1, <2>3, TypeKept DEF TreesOK, TypeOK
    <2>6. PhaseOK(c)'
      BY <1>1, <1>3, <2>4 DEF CallOK, PhaseOK, Fresh, Staged, Placed, Replaces
    <2>7. StageNames' = StageNames
      <3>1. \A b \in Callers : call'[b].stageName = call[b].stageName
        BY <2>4
      <3>2. QED  BY <3>1 DEF StageNames
    <2>8. NoStage(c)'
      BY <1>1, <1>3, <2>1, <2>4, <2>7 DEF CallOK, NoStage, NamesApart
    <2>9. StageBuilt(c)' /\ FoundKept(c)' /\ Gone(c)' /\ CopyOK(c)'
      BY <1>1, <2>1, <2>4
      DEF CallOK, StageBuilt, FoundKept, Gone, CopyOK, Staged, Placed, Built, AppOf, IsApp, IsEmpty, Removing
    <2>10. AppPlaced(c)' /\ AsideFull(c)' /\ NothingThere(c)' /\ ClaimOK(c)'
      <3>1. AppAtHand' = AppAtHand /\ IsShelved' = IsShelved /\ IsApp(target)' = IsApp(target)
        BY <2>1 DEF AppAtHand, IsShelved, IsApp, Places
      <3>2. QED
        BY <1>1, <2>1, <2>4, <3>1
        DEF CallOK, AppPlaced, AsideFull, NothingThere, ClaimOK, Leaving, Placed
    <2>11. fooled = {} => Claims(c)
      BY <1>1 DEF CallOK, ClaimOK
    <2>12. AsideCovered(c)'
      <3>1. \A q, n : Elsewhere(n, q)' = Elsewhere(n, q)
        BY <2>1 DEF Elsewhere
      <3>2. QED  BY <1>1, <2>1, <2>4, <2>11, <3>1 DEF CallOK, AsideCovered
    <2>13. CallOK(c)'
      BY <2>6, <2>8, <2>9, <2>10, <2>12 DEF CallOK
    <2>14. Between(c)
      BY <1>1 DEF Between, Removing
    <2>15. QED  BY <2>1, <2>4, <2>5, <2>11, <2>13, <2>14, InnerStep
  <1>4. QED  BY <1>2, <1>3

LEMMA ReturnFacts ==
  ASSUME TypeOK, NEW c \in Callers, Return(c)
  PROVE  /\ call' \in [Callers -> CallType]
         /\ call'[c] = Idle /\ \A b \in Callers \ {c} : call'[b] = call[b]
  <1>1. Idle \in CallType
    BY DEF Idle, CallType, Phases, Dirs
  <1>2. QED  BY <1>1, PutCall DEF Return

LEMMA IdleOK ==
  ASSUME NEW c \in Callers, call'[c] = Idle PROVE CallOK(c)' /\ ~Between(c)' /\ ~Claims(c)'
  BY DEF Idle, CallOK, PhaseOK, NoStage, StageBuilt, FoundKept, AppPlaced, AsideFull, NothingThere,
         Gone, ClaimOK, CopyOK, AsideCovered, Between, Claims, Fresh, Staged, Placed, Built, Replaces,
         Removing

LEMMA DiscardKeeps == ASSUME IInv, NEW c \in Callers, Discard(c) PROVE IInv'
  <1> DEFINE s == call[c].stageName
  <1>1. TypeOK /\ TreesOK /\ CallOK(c)
    BY DEF IInv
  <1>2. /\ UNCHANGED <<target, aside, shelf, edited, late, fooled, calls, crashes>>
        /\ tree' = [d \in Inodes |-> IF d = s THEN EmptyTree ELSE tree[d]]
    BY DEF Discard, historyVars
  <1>3. /\ call' \in [Callers -> CallType]
        /\ call'[c] = Idle /\ \A b \in Callers \ {c} : call'[b] = call[b]
    BY <1>1, ReturnFacts DEF Discard
  <1>4. CallOK(c)' /\ ~Between(c)' /\ ~Claims(c)'
    BY <1>3, IdleOK
  <1>5. DOMAIN EmptyTree = {}
    BY DEF EmptyTree
  <1>6. TypeOK' /\ TreesOK'
    <2>1. TypeOK'
      BY <1>1, <1>2, <1>3, TypeKept DEF TypeOK
    <2>2. QED  BY <1>1, <1>2, <1>5, <2>1 DEF TreesOK
  <1>7. PICK e : e = s
    OBVIOUS
  <1>8. e # NoDir => e \in Inodes /\ IsEmpty(e)'
    BY <1>1, <1>2, <1>5, <1>7, WhereTheyAre DEF IsEmpty
  <1>9. call'[c].stageName = NoDir /\ call'[c].stageFd = NoDir
    BY <1>3 DEF Idle
  <1>10. QED  BY <1>2, <1>3, <1>4, <1>6, <1>7, <1>8, <1>9, InnerStep

LEMMA VerifyKeeps == ASSUME IInv, NEW c \in Callers, Verify(c) PROVE IInv'
  <1>1. TypeOK /\ TreesOK /\ CallOK(c) /\ call[c].pc = "verify"
    BY DEF IInv, Verify, At
  <1>2. CASE target # call[c].stageFd
    BY <1>1, <1>2, GoKeeps DEF Verify, Advances, historyVars, Phases
  <1>3. CASE target = call[c].stageFd
    <2>1. /\ UNCHANGED <<target, aside, shelf, tree, edited, late, fooled, calls, crashes>>
          /\ Return(c)
      BY <1>3 DEF Verify, fsVars, historyVars
    <2>2. /\ call' \in [Callers -> CallType]
          /\ call'[c] = Idle /\ \A b \in Callers \ {c} : call'[b] = call[b]
      BY <1>1, <2>1, ReturnFacts
    <2>3. CallOK(c)' /\ ~Between(c)' /\ ~Claims(c)'
      BY <2>2, IdleOK
    <2>4. TypeOK' /\ TreesOK'
      BY <1>1, <2>1, <2>2, TypeKept DEF TreesOK, TypeOK
    <2>5. call[c].stageName = NoDir /\ call'[c].stageName = NoDir /\ call'[c].stageFd = NoDir
      BY <1>1, <2>2 DEF CallOK, PhaseOK, Placed, Idle
    <2>6. QED  BY <2>1, <2>2, <2>3, <2>4, <2>5, InnerStep
  <1>4. QED  BY <1>2, <1>3

-----------------------------------------------------------------------------
(* Steps that move a name.                                                 *)

\* What of a call they leave as it was.
LEMMA NamesMove ==
  ASSUME IInv, NEW c \in Callers, NEW b \in Callers, b # c, call'[b] = call[b],
         UNCHANGED <<tree, edited, late, fooled>>,
         target' \in {target, NoDir, call[c].stageName},
         \A d : d # NoDir /\ d \in {target'} \cup shelf' \cup StageNames'
                  => d \in {target} \cup shelf \cup StageNames,
         \A d : d # NoDir /\ d \in StageNames' => d \in StageNames
  PROVE  /\ PhaseOK(b)' /\ NoStage(b)' /\ StageBuilt(b)' /\ FoundKept(b)' /\ Gone(b)' /\ CopyOK(b)'
         /\ target' # NoDir => target' # call[b].stageFd \/ target' = target
  <1>1. /\ TypeOK /\ NamesApart /\ CallOK(c)
        /\ PhaseOK(b) /\ NoStage(b) /\ StageBuilt(b) /\ FoundKept(b) /\ Gone(b) /\ CopyOK(b)
    BY DEF IInv, CallOK
  <1>2. call[c].stageName = NoDir \/ call[c].stageName = call[c].stageFd
    BY <1>1 DEF CallOK, PhaseOK, TypeOK, CallType, Phases, Fresh, Staged, Placed
  <1>3. target' # NoDir /\ target' # target => target' = call[c].stageName /\ target' \in StageNames
    BY DEF StageNames
  <1>4. target' # NoDir /\ target' # target => target' # call[b].stageFd
    BY <1>1, <1>2, <1>3 DEF NamesApart
  <1>5. target' # NoDir /\ target' # target => target' # call[b].source
    BY <1>1, <1>3 DEF NoStage
  <1>6. target' # NoDir /\ target' # target /\ call[b].keeps /\ ~call[b].reborn => target' # call[b].expected
    BY <1>1, <1>3 DEF NoStage
  <1>7. PhaseOK(b)'
    BY <1>1 DEF PhaseOK
  <1>8. NoStage(b)'
    <2>1. call[b].keeps => call[b].expected # NoDir
      BY <1>1 DEF PhaseOK
    <2>2. QED  BY <1>1, <2>1 DEF NoStage
  <1>9. call[b].pc \in Staged \cup Placed => call[b].stageFd # NoDir
    BY <1>1 DEF PhaseOK
  <1>10. StageBuilt(b)'
    BY <1>1, <1>4, <1>9 DEF StageBuilt, AppOf, IsApp
  <1>11. FoundKept(b)'
    <2>1. call[b].pc = "copy" => call[b].source # NoDir
      BY <1>1 DEF PhaseOK
    <2>2. QED  BY <1>1, <1>4, <1>5, <1>9, <2>1 DEF FoundKept
  <1>12. Gone(b)'
    <2>1. call[b].keeps => call[b].expected # NoDir
      BY <1>1 DEF PhaseOK
    <2>2. IsEmpty(target)' = (DOMAIN tree[target'] = {}) /\ IsEmpty(target) = (DOMAIN tree[target] = {})
      BY DEF IsEmpty
    <2>3. QED  BY <1>1, <1>6, <2>1, <2>2 DEF Gone
  <1>13. CopyOK(b)'
    BY <1>1 DEF CopyOK
  <1>14. QED  BY <1>4, <1>7, <1>8, <1>10, <1>11, <1>12, <1>13

LEMMA KillKeeps == ASSUME IInv, NEW c \in Callers, Kill(c) PROVE IInv'
  <1> DEFINE s == call[c].stageName
  <1>1. /\ TypeOK /\ TreesOK /\ NamesApart /\ GarbageEmpty /\ TargetWhole /\ OneBetween /\ OneClaims
        /\ EditsKept /\ \A b \in Callers : CallOK(b)
    BY DEF IInv
  <1>2. /\ UNCHANGED <<target, aside, tree, edited, late, fooled, calls>>
        /\ shelf' = shelf \cup ({s} \ {NoDir}) /\ crashes' \in 0..MaxCrashes
    BY <1>1, PublishAssumption DEF Kill, historyVars, TypeOK
  <1>3. /\ call' \in [Callers -> CallType]
        /\ call'[c] = Idle /\ \A b \in Callers \ {c} : call'[b] = call[b]
    BY <1>1, ReturnFacts DEF Kill
  <1>4. call'[c].stageName = NoDir /\ call'[c].stageFd = NoDir
    BY <1>3 DEF Idle
  <1>5. \A d : d # NoDir /\ d \in StageNames' => d \in StageNames /\ d # s
    <2>1. s = NoDir \/ s = call[c].stageFd
      BY <1>1 DEF CallOK, PhaseOK, TypeOK, CallType, Phases, Fresh, Staged, Placed
    <2>2. \A b \in Callers \ {c} : call[b].stageName = NoDir \/ call[b].stageName = call[b].stageFd
      BY <1>1 DEF CallOK, PhaseOK, TypeOK, CallType, Phases, Fresh, Staged, Placed
    <2>3. QED  BY <1>1, <1>3, <1>4, <2>1, <2>2 DEF StageNames, NamesApart
  <1>6. s # NoDir => s \in Inodes /\ s \in StageNames
    BY <1>1, WhereTheyAre DEF StageNames
  <1>7. TypeOK' /\ TreesOK'
    <2>1. CallType' = CallType
      BY <1>2 DEF CallType
    <2>2. QED  BY <1>1, <1>2, <1>3, <1>6, <2>1 DEF TypeOK, TreesOK
  <1>8. NamesApart'
    <2>1. \A a, b \in Callers : a # b /\ call'[a].stageFd # NoDir => call'[a].stageFd # call'[b].stageFd
      BY <1>1, <1>3, <1>4 DEF NamesApart
    <2>2. shelf' \cap StageNames' = {}
      BY <1>1, <1>2, <1>5, WhereTheyAre DEF NamesApart
    <2>3. QED  BY <1>1, <1>2, <1>5, <1>6, <2>1, <2>2, WhereTheyAre DEF NamesApart
  <1>9. GarbageEmpty'
    <2>1. \A d \in Inodes : d \in Named => d \in Named'
      BY <1>2, <1>3, <1>4, <1>1, WhereTheyAre DEF Named
    <2>2. QED  BY <1>1, <1>2, <2>1 DEF GarbageEmpty, IsEmpty
  <1>10. Places \subseteq Places' /\ (IsShelved => IsShelved') /\ (AppAtHand => AppAtHand')
    BY <1>1, <1>2, WhereTheyAre DEF Places, IsShelved, IsApp, AppAtHand
  <1>11. TargetWhole' /\ EditsKept'
    <2>1. \A n : Survives(n) => Survives(n)'
      BY <1>2, <1>10 DEF Survives
    <2>2. QED  BY <1>1, <1>2, <2>1 DEF TargetWhole, EditsKept
  <1>12. CallOK(c)' /\ ~Between(c)' /\ ~Claims(c)'
    BY <1>3, IdleOK
  <1>13. \A b \in Callers \ {c} : Between(b)' = Between(b) /\ Claims(b)' = Claims(b)
    BY <1>2, <1>3 DEF Between, Claims
  <1>14. OneBetween' /\ OneClaims'
    BY <1>1, <1>2, <1>10, <1>12, <1>13 DEF OneBetween, OneClaims
  <1>15. ASSUME NEW b \in Callers \ {c} PROVE CallOK(b)'
    <2>1. CallOK(b) /\ call'[b] = call[b]
      BY <1>1, <1>3
    <2>2. PhaseOK(b)' /\ NoStage(b)' /\ StageBuilt(b)' /\ FoundKept(b)' /\ Gone(b)' /\ CopyOK(b)'
      BY <1>2, <1>3, <1>5, <1>6, NamesMove
    <2>3. AppPlaced(b)' /\ AsideFull(b)' /\ NothingThere(b)'
      BY <1>2, <1>10, <1>13, <2>1 DEF CallOK, AppPlaced, AsideFull, NothingThere, Replaceable, IsEmpty, IsApp
    <2>4. ClaimOK(b)'
      BY <1>2, <1>13, <2>1 DEF CallOK, ClaimOK, IsEmpty
    <2>5. AsideCovered(b)'
      <3>1. \A n, p : Elsewhere(n, p) => Elsewhere(n, p)'
        BY <1>2 DEF Elsewhere
      <3>2. QED  BY <1>2, <1>13, <2>1, <3>1 DEF CallOK, AsideCovered
    <2>6. QED  BY <2>2, <2>3, <2>4, <2>5 DEF CallOK
  <1>16. QED  BY <1>7, <1>8, <1>9, <1>11, <1>12, <1>14, <1>15 DEF IInv

\* A call's stage, and the names of the stages of the others.
LEMMA StagesApart ==
  ASSUME IInv, NEW c \in Callers
  PROVE  /\ call[c].stageName = NoDir \/ call[c].stageName = call[c].stageFd
         /\ call[c].stageName # NoDir => /\ call[c].stageName \in Inodes
                                         /\ call[c].stageName \in StageNames
         /\ \A b \in Callers \ {c} : call[b].stageName # NoDir =>
              call[b].stageName # call[c].stageName /\ call[b].stageName # call[c].stageFd
  <1>1. TypeOK /\ NamesApart /\ \A b \in Callers : CallOK(b)
    BY DEF IInv
  <1>2. \A b \in Callers : call[b].stageName = NoDir \/ call[b].stageName = call[b].stageFd
    BY <1>1 DEF CallOK, PhaseOK, TypeOK, CallType, Phases, Fresh, Staged, Placed
  <1>3. QED  BY <1>1, <1>2, WhereTheyAre DEF NamesApart, StageNames

LEMMA NoFiles ==
  ASSUME NEW d, IsEmpty(d)
  PROVE  ~IsApp(d) /\ \A p : EditsIn(tree[d], p) = {}
  BY DEF IsEmpty, IsApp, HasManifest, EditsIn

LEMMA QuarantineKeeps == ASSUME IInv, NEW c \in Callers, Quarantine(c) PROVE IInv'
  <1>1. /\ TypeOK /\ TreesOK /\ NamesApart /\ GarbageEmpty /\ TargetWhole /\ OneBetween /\ OneClaims
        /\ EditsKept /\ \A b \in Callers : CallOK(b)
    BY DEF IInv
  <1>2. /\ UNCHANGED <<aside, tree, edited, late, fooled, calls, crashes>>
        /\ shelf' = shelf \cup ({target} \ {NoDir}) /\ target' = NoDir
        /\ call[c].pc = "quarantine"
    BY DEF Quarantine, historyVars, At
  <1>3. /\ call' \in [Callers -> CallType]
        /\ \A b \in Callers \ {c} : call'[b] = call[b]
        /\ call'[c].pc = "discard" /\ call'[c].spec = call[c].spec
        /\ call'[c].stageFd = call[c].stageFd /\ call'[c].stageName = call[c].stageName
        /\ call'[c].expected = call[c].expected /\ call'[c].keeps = call[c].keeps
        /\ call'[c].source = call[c].source /\ call'[c].todo = call[c].todo
        /\ call'[c].doomed = call[c].doomed /\ call'[c].reborn = call[c].reborn
        /\ call'[c].found = call[c].found
    BY <1>1, GoFacts DEF Quarantine, Fail, Phases
  <1>4. StageNames' = StageNames
    <2>1. \A b \in Callers : call'[b].stageName = call[b].stageName
      BY <1>3
    <2>2. QED  BY <2>1 DEF StageNames
  <1>5. target # NoDir => target \in Inodes
    BY <1>1, WhereTheyAre
  <1>6. TypeOK' /\ TreesOK'
    <2>1. CallType' = CallType
      BY <1>2 DEF CallType
    <2>2. QED  BY <1>1, <1>2, <1>3, <1>5, <2>1 DEF TypeOK, TreesOK, Dirs
  <1>7. NamesApart'
    <2>1. \A a, b \in Callers : a # b /\ call'[a].stageFd # NoDir => call'[a].stageFd # call'[b].stageFd
      BY <1>1, <1>3 DEF NamesApart
    <2>2. shelf' \cap StageNames' = {}
      BY <1>1, <1>2, <1>4 DEF NamesApart
    <2>3. QED  BY <1>1, <1>2, <1>4, <2>1, <2>2 DEF NamesApart
  <1>8. GarbageEmpty'
    <2>1. \A d \in Inodes : d \in Named => d \in Named'
      BY <1>2, <1>3, <1>1, WhereTheyAre DEF Named
    <2>2. QED  BY <1>1, <1>2, <2>1 DEF GarbageEmpty, IsEmpty
  <1>9. Places' = Places /\ (IsShelved => IsShelved') /\ (AppAtHand' = AppAtHand)
        /\ (target # NoDir /\ IsApp(target) => IsShelved')
    BY <1>1, <1>2, WhereTheyAre DEF Places, IsShelved, IsApp, AppAtHand
  <1>10. TargetWhole' /\ EditsKept'
    <2>1. \A n : Survives(n) => Survives(n)'
      BY <1>2, <1>9 DEF Survives
    <2>2. QED  BY <1>1, <1>2, <2>1 DEF TargetWhole, EditsKept
  <1>11. ~Between(c)' /\ ~Claims(c)'
    BY <1>3 DEF Between, Claims, Removing
  <1>12. \A b \in Callers \ {c} : Between(b)' = Between(b) /\ Claims(b)' = Claims(b)
    BY <1>2, <1>3 DEF Between, Claims
  <1>13. OneBetween' /\ OneClaims'
    BY <1>1, <1>2, <1>9, <1>11, <1>12 DEF OneBetween, OneClaims
  <1>14. IsShelved' \/ ~Replaceable(aside)'
    <2>1. PICK d \in Places : IsApp(d)
      BY <1>1, <1>2 DEF CallOK, AppPlaced, Placed, AppAtHand, IsApp
    <2>2. CASE d = aside
      <3>1. ~IsEmpty(aside) /\ aside # NoDir
        BY <2>1, <2>2, NoFiles DEF Places
      <3>2. QED  BY <3>1, <1>2 DEF Replaceable, IsEmpty
    <2>3. CASE d # aside
      BY <2>1, <2>3, <1>9 DEF Places, IsShelved
    <2>4. QED  BY <2>2, <2>3
  <1>15. CallOK(c)'
    <2>1. PhaseOK(c)'
      BY <1>1, <1>2, <1>3 DEF CallOK, PhaseOK, Fresh, Staged, Placed, Replaces
    <2>2. NoStage(c)'
      BY <1>1, <1>2, <1>3, <1>4, WhereTheyAre DEF CallOK, PhaseOK, NoStage
    <2>3. QED
      BY <1>3, <1>11, <2>1, <2>2
      DEF CallOK, StageBuilt, FoundKept, AppPlaced, AsideFull, NothingThere, Gone, ClaimOK, CopyOK,
          AsideCovered, Staged, Placed, Built, Removing, Leaving
  <1>16. ASSUME NEW b \in Callers \ {c} PROVE CallOK(b)'
    <2>1. CallOK(b) /\ call'[b] = call[b]
      BY <1>1, <1>3
    <2>2. PhaseOK(b)' /\ NoStage(b)' /\ StageBuilt(b)' /\ FoundKept(b)' /\ Gone(b)' /\ CopyOK(b)'
      <3>1. \A d : d # NoDir /\ d \in {target'} \cup shelf' \cup StageNames'
                     => d \in {target} \cup shelf \cup StageNames
        BY <1>2, <1>4
      <3>2. QED  BY <1>2, <1>3, <1>4, <3>1, NamesMove
    <2>3. AppPlaced(b)' /\ AsideFull(b)' /\ NothingThere(b)'
      BY <1>2, <1>9, <1>12, <1>14, <2>1 DEF CallOK, AppPlaced, AsideFull, NothingThere
    <2>4. ClaimOK(b)'
      BY <1>2, <1>12, <2>1 DEF CallOK, ClaimOK, IsEmpty
    <2>5. AsideCovered(b)'
      <3>1. \A n, p : Elsewhere(n, p) => Elsewhere(n, p)'
        BY <1>2 DEF Elsewhere
      <3>2. QED  BY <1>2, <1>12, <2>1, <3>1 DEF CallOK, AsideCovered
    <2>6. QED  BY <2>2, <2>3, <2>4, <2>5 DEF CallOK
  <1>17. QED  BY <1>6, <1>7, <1>8, <1>10, <1>13, <1>15, <1>16 DEF IInv

LEMMA RmdirKeeps == ASSUME IInv, NEW c \in Callers, Rmdir(c) PROVE IInv'
  <1>1. /\ TypeOK /\ TreesOK /\ NamesApart /\ GarbageEmpty /\ TargetWhole /\ OneBetween /\ OneClaims
        /\ EditsKept /\ \A b \in Callers : CallOK(b)
    BY DEF IInv
  <1>2. CASE ~(aside # NoDir /\ IsEmpty(aside))
    BY <1>2, FailKeeps DEF Rmdir, At, fsVars
  <1>3. CASE aside # NoDir /\ IsEmpty(aside)
    <2>1. /\ UNCHANGED <<target, shelf, tree, edited, late, fooled, calls, crashes>>
          /\ aside' = NoDir /\ call[c].pc = "rmdir" /\ Go(c, "verify")
      BY <1>3 DEF Rmdir, historyVars, At
    <2>2. /\ call' \in [Callers -> CallType]
          /\ \A b \in Callers \ {c} : call'[b] = call[b]
          /\ call'[c].pc = "verify" /\ call'[c].spec = call[c].spec
          /\ call'[c].stageFd = call[c].stageFd /\ call'[c].stageName = call[c].stageName
          /\ call'[c].expected = call[c].expected /\ call'[c].keeps = call[c].keeps
          /\ call'[c].source = call[c].source /\ call'[c].todo = call[c].todo
          /\ call'[c].doomed = call[c].doomed /\ call'[c].reborn = call[c].reborn
          /\ call'[c].found = call[c].found
      BY <1>1, <2>1, GoFacts DEF Phases
    <2>3. StageNames' = StageNames
      <3>1. \A b \in Callers : call'[b].stageName = call[b].stageName
        BY <2>2
      <3>2. QED  BY <3>1 DEF StageNames
    <2>4. TypeOK' /\ TreesOK'
      <3>1. CallType' = CallType
        BY <2>1 DEF CallType
      <3>2. QED  BY <1>1, <2>1, <2>2, <3>1 DEF TypeOK, TreesOK, Dirs
    <2>5. NamesApart'
      <3>1. \A a, b \in Callers : a # b /\ call'[a].stageFd # NoDir => call'[a].stageFd # call'[b].stageFd
        BY <1>1, <2>2 DEF NamesApart
      <3>2. QED  BY <1>1, <2>1, <2>3, <3>1 DEF NamesApart
    <2>6. GarbageEmpty'
      <3>1. \A d \in Inodes : d \in Named => d \in Named' \/ d = aside
        BY <2>1, <2>2, <1>1, WhereTheyAre DEF Named
      <3>2. QED  BY <1>1, <1>3, <2>1, <3>1 DEF GarbageEmpty, IsEmpty
    <2>7. Places' = Places \ {aside} /\ IsShelved' = IsShelved /\ IsApp(target)' = IsApp(target)
      BY <1>1, <1>3, <2>1 DEF Places, IsShelved, IsApp, NamesApart
    <2>8. AppAtHand => AppAtHand'
      BY <1>3, <2>1, <2>7, NoFiles DEF AppAtHand, IsApp
    <2>9. TargetWhole' /\ EditsKept'
      <3>1. \A n : Survives(n) => Survives(n)'
        BY <1>3, <2>1, <2>7, NoFiles DEF Survives
      <3>2. QED  BY <1>1, <2>1, <3>1 DEF TargetWhole, EditsKept
    <2>10. ~Between(c)' /\ ~Claims(c)'
      BY <2>2 DEF Between, Claims, Removing
    <2>11. \A b \in Callers : /\ call[b].doomed = NoDir => call[b].pc # "empty"
                              /\ call[b].keeps => call[b].expected # NoDir
      BY <1>1 DEF CallOK, PhaseOK
    <2>12. \A b \in Callers \ {c} : ~Claims(b)' /\ (Between(b)' => Between(b) /\ call[b].pc # "empty")
      BY <2>1, <2>2, <2>11 DEF Between, Claims, Removing
    <2>13. OneBetween' /\ OneClaims'
      BY <1>1, <2>1, <2>7, <2>10, <2>12 DEF OneBetween, OneClaims
    <2>14. Replaceable(aside) /\ Replaceable(target)' = Replaceable(target)
      BY <1>3, <2>1 DEF Replaceable, IsEmpty
    <2>15. CallOK(c)'
      <3>1. CallOK(c)
        BY <1>1
      <3>2. PhaseOK(c)' /\ NoStage(c)'
        BY <2>1, <2>2, <2>3, <3>1 DEF CallOK, PhaseOK, NoStage, Fresh, Staged, Placed, Replaces
      <3>3. StageBuilt(c)' /\ FoundKept(c)' /\ Gone(c)' /\ CopyOK(c)'
        BY <2>1, <2>2, <3>1
        DEF CallOK, StageBuilt, FoundKept, Gone, CopyOK, Staged, Placed, Built, AppOf, IsApp, IsEmpty, Removing
      <3>4. AppPlaced(c)'
        BY <2>1, <2>2, <2>8, <3>1 DEF CallOK, AppPlaced, Placed
      <3>5. QED
        BY <2>2, <2>10, <3>2, <3>3, <3>4 DEF CallOK, AsideFull, NothingThere, ClaimOK, AsideCovered, Leaving
    <2>16. ASSUME NEW b \in Callers \ {c} PROVE CallOK(b)'
      <3>1. CallOK(b) /\ call'[b] = call[b]
        BY <1>1, <2>2
      <3>2. PhaseOK(b)' /\ NoStage(b)' /\ StageBuilt(b)' /\ FoundKept(b)' /\ Gone(b)' /\ CopyOK(b)'
        BY <2>1, <2>2, <2>3, NamesMove
      <3>3. AppPlaced(b)' /\ AsideFull(b)' /\ NothingThere(b)'
        BY <2>1, <2>7, <2>8, <2>12, <2>14, <3>1 DEF CallOK, AppPlaced, AsideFull, NothingThere
      <3>4. ClaimOK(b)'
        BY <1>3, <2>1, <2>12, <3>1 DEF CallOK, ClaimOK, Claims
      <3>5. AsideCovered(b)'
        BY <2>12 DEF AsideCovered
      <3>6. QED  BY <3>2, <3>3, <3>4, <3>5 DEF CallOK
    <2>17. QED  BY <2>4, <2>5, <2>6, <2>9, <2>13, <2>15, <2>16 DEF IInv
  <1>4. QED  BY <1>2, <1>3

LEMMA SetAsideKeeps == ASSUME IInv, NEW c \in Callers, SetAside(c) PROVE IInv'
  <1>1. /\ TypeOK /\ TreesOK /\ NamesApart /\ GarbageEmpty /\ TargetWhole /\ OneBetween /\ OneClaims
        /\ EditsKept /\ \A b \in Callers : CallOK(b)
    BY DEF IInv
  <1>2. CASE ~(target # NoDir /\ Replaceable(aside))
    BY <1>2, FailKeeps DEF SetAside, At, fsVars
  <1>3. CASE target # NoDir /\ Replaceable(aside)
    <2>1. /\ UNCHANGED <<shelf, tree, edited, late, fooled, calls, crashes>>
          /\ aside' = target /\ target' = NoDir /\ call[c].pc = "setAside" /\ Go(c, "identify")
      BY <1>3 DEF SetAside, historyVars, At
    <2>2. /\ call' \in [Callers -> CallType]
          /\ \A b \in Callers \ {c} : call'[b] = call[b]
          /\ call'[c].pc = "identify" /\ call'[c].spec = call[c].spec
          /\ call'[c].stageFd = call[c].stageFd /\ call'[c].stageName = call[c].stageName
          /\ call'[c].expected = call[c].expected /\ call'[c].keeps = call[c].keeps
          /\ call'[c].source = call[c].source /\ call'[c].todo = call[c].todo
          /\ call'[c].doomed = call[c].doomed /\ call'[c].reborn = call[c].reborn
          /\ call'[c].found = call[c].found
      BY <1>1, <2>1, GoFacts DEF Phases
    <2>3. StageNames' = StageNames
      <3>1. \A b \in Callers : call'[b].stageName = call[b].stageName
        BY <2>2
      <3>2. QED  BY <3>1 DEF StageNames
    <2>4. TypeOK' /\ TreesOK'
      <3>1. CallType' = CallType
        BY <2>1 DEF CallType
      <3>2. QED  BY <1>1, <2>1, <2>2, <3>1 DEF TypeOK, TreesOK, Dirs
    <2>5. NamesApart'
      <3>1. \A a, b \in Callers : a # b /\ call'[a].stageFd # NoDir => call'[a].stageFd # call'[b].stageFd
        BY <1>1, <2>2 DEF NamesApart
      <3>2. QED  BY <1>1, <2>1, <2>3, <3>1 DEF NamesApart
    <2>6. aside # NoDir => IsEmpty(aside)
      BY <1>3 DEF Replaceable
    <2>7. GarbageEmpty'
      <3>1. \A d \in Inodes : d \in Named => d \in Named' \/ d = aside
        BY <2>1, <2>2, <1>1, WhereTheyAre DEF Named
      <3>2. \A d \in Inodes : d = aside => IsEmpty(d)
        BY <2>6, PublishAssumption
      <3>3. QED  BY <1>1, <2>1, <3>1, <3>2 DEF GarbageEmpty, IsEmpty
    <2>8. Places' = Places \ {aside} /\ IsShelved' = IsShelved
      BY <1>1, <1>3, <2>1 DEF Places, IsShelved, IsApp, NamesApart
    <2>9. AppAtHand => AppAtHand'
      BY <2>1, <2>6, <2>8, NoFiles DEF AppAtHand, IsApp, Places
    <2>10. TargetWhole' /\ EditsKept'
      <3>1. \A n : Survives(n) => Survives(n)'
        BY <2>1, <2>6, <2>8, NoFiles DEF Survives, Places
      <3>2. QED  BY <1>1, <2>1, <3>1 DEF TargetWhole, EditsKept
    <2>11. call[c].keeps
      BY <1>1, <2>1 DEF CallOK, PhaseOK, Replaces
    <2>12. IsShelved \/ ~IsEmpty(target)
      BY <1>1, <1>3, <2>1, <2>11 DEF CallOK, NothingThere, Leaving, Replaceable
    <2>13. IsShelved' \/ ~Replaceable(aside)'
      BY <1>3, <2>1, <2>8, <2>12 DEF Replaceable, IsEmpty
    <2>14. ASSUME NEW b \in Callers \ {c}
           PROVE  ~Claims(b)' /\ (Between(b)' => Between(b) /\ call[b].pc # "empty")
      <3>1. CallOK(b) /\ call'[b] = call[b]
        BY <1>1, <2>2
      <3>2. ~(call[b].pc = "empty" /\ call[b].doomed = target)
        BY <1>3, <3>1 DEF CallOK, NoStage
      <3>3. call[b].pc \in Removing /\ call[b].keeps /\ ~call[b].reborn => call[b].expected # target
        BY <3>1 DEF CallOK, Gone
      <3>4. QED  BY <2>1, <3>1, <3>2, <3>3 DEF Claims, Between, Removing
    <2>15. \A b \in Callers \ {c} : Between(b)' => IsShelved
      BY <1>1, <1>3, <2>14 DEF CallOK, AsideFull
    <2>16. OneBetween' /\ OneClaims'
      BY <2>8, <2>14, <2>15 DEF OneBetween, OneClaims
    <2>17. CallOK(c)'
      <3>1. CallOK(c)
        BY <1>1
      <3>2. PhaseOK(c)'
        BY <2>1, <2>2, <2>11, <3>1 DEF CallOK, PhaseOK, Fresh, Staged, Placed, Replaces
      <3>3. NoStage(c)'
        BY <2>1, <2>2, <2>3, <3>1 DEF CallOK, PhaseOK, NoStage
      <3>4. StageBuilt(c)' /\ FoundKept(c)' /\ CopyOK(c)'
        BY <2>1, <2>2, <3>1 DEF CallOK, StageBuilt, FoundKept, CopyOK, Staged, Placed, Built, AppOf, IsApp
      <3>5. Gone(c)'
        BY <2>1, <2>2, <3>1 DEF CallOK, PhaseOK, Gone
      <3>6. AppPlaced(c)' /\ AsideFull(c)' /\ NothingThere(c)' /\ AsideCovered(c)'
        BY <2>2, <2>13 DEF AppPlaced, AsideFull, NothingThere, AsideCovered, Placed
      <3>7. ClaimOK(c)'
        <4>1. Claims(c)' => call[c].keeps /\ ~call[c].reborn /\ call[c].expected = target
          BY <2>1, <2>2 DEF Claims
        <4>2. Claims(c)' => ~IsEmpty(target) /\ call[c].source = target
          BY <2>1, <4>1, <3>1 DEF CallOK, Gone, Staged
        <4>3. QED  BY <2>1, <2>2, <4>2 DEF ClaimOK, IsEmpty
      <3>8. QED  BY <3>2, <3>3, <3>4, <3>5, <3>6, <3>7 DEF CallOK
    <2>18. ASSUME NEW b \in Callers \ {c} PROVE CallOK(b)'
      <3>1. CallOK(b) /\ call'[b] = call[b]
        BY <1>1, <2>2
      <3>2. PhaseOK(b)' /\ NoStage(b)' /\ StageBuilt(b)' /\ FoundKept(b)' /\ Gone(b)' /\ CopyOK(b)'
        BY <2>1, <2>2, <2>3, NamesMove
      <3>3. AppPlaced(b)' /\ AsideFull(b)' /\ NothingThere(b)'
        <4>1. call[b].pc = "open" => Between(b)
          BY <3>1 DEF CallOK, PhaseOK, Between, Removing, Replaces
        <4>2. call[b].pc = "open" => IsShelved
          BY <1>3, <3>1, <4>1 DEF CallOK, AsideFull
        <4>3. AppPlaced(b)'
          BY <2>8, <2>9, <2>14, <3>1, <4>2 DEF CallOK, AppPlaced
        <4>4. QED  BY <2>13, <4>3 DEF AsideFull, NothingThere
      <3>4. ClaimOK(b)'
        <4>1. fooled = {} /\ call[b].pc \in {"place", "confirm", "open"} => ~call[b].keeps
          <5>1. Claims(b) /\ call[b].keeps /\ call[b].pc # "empty" => aside # NoDir
            BY <3>1 DEF Claims, CallOK, PhaseOK
          <5>2. QED  BY <2>6, <3>1, <5>1 DEF CallOK, ClaimOK
        <4>2. QED  BY <2>1, <2>14, <3>1, <4>1 DEF ClaimOK
      <3>5. AsideCovered(b)'
        BY <2>14 DEF AsideCovered
      <3>6. QED  BY <3>2, <3>3, <3>4, <3>5 DEF CallOK
    <2>19. QED  BY <2>4, <2>5, <2>7, <2>10, <2>16, <2>17, <2>18 DEF IInv
  <1>4. QED  BY <1>2, <1>3

LEMMA PlaceKeeps == ASSUME IInv, NEW c \in Callers, Place(c) PROVE IInv'
  <1> DEFINE s == call[c].stageFd
  <1>1. /\ TypeOK /\ TreesOK /\ NamesApart /\ GarbageEmpty /\ TargetWhole /\ OneBetween /\ OneClaims
        /\ EditsKept /\ \A b \in Callers : CallOK(b)
    BY DEF IInv
  <1>2. CASE ~Replaceable(target)
    BY <1>2, FailKeeps DEF Place, At, fsVars
  <1>3. CASE Replaceable(target)
    <2>1. /\ UNCHANGED <<aside, shelf, tree, edited, late, fooled, calls, crashes>>
          /\ target' = call[c].stageName /\ call[c].pc = "place"
          /\ call' = [call EXCEPT ![c].pc = "confirm", ![c].stageName = NoDir]
      BY <1>3 DEF Place, historyVars, At
    <2>2. call' \in [Callers -> CallType]
      <3> DEFINE k1 == [call[c] EXCEPT !.pc = "confirm"]
                 k2 == [k1 EXCEPT !.stageName = NoDir]
      <3>1. k1 \in CallType
        BY <1>1, CallFields DEF TypeOK, Phases
      <3>2. k2 \in CallType
        <4> HIDE DEF k1
        <4>1. QED  BY <3>1, CallFields DEF Dirs
      <3>3. call' = [call EXCEPT ![c] = k2]
        BY <1>1, <2>1 DEF TypeOK, CallType
      <3> HIDE DEF k2
      <3>4. QED  BY <1>1, <3>2, <3>3, PutCall
    <2>3. /\ \A b \in Callers \ {c} : call'[b] = call[b]
          /\ call'[c].pc = "confirm" /\ call'[c].spec = call[c].spec
          /\ call'[c].stageFd = s /\ call'[c].stageName = NoDir
          /\ call'[c].expected = call[c].expected /\ call'[c].keeps = call[c].keeps
          /\ call'[c].source = call[c].source /\ call'[c].todo = call[c].todo
          /\ call'[c].doomed = call[c].doomed /\ call'[c].reborn = call[c].reborn
          /\ call'[c].found = call[c].found
      BY <1>1, <2>1, <2>2 DEF TypeOK, CallType
    <2>4. /\ s \in Inodes /\ s # NoDir /\ s = call[c].stageName /\ s \in StageNames /\ target' = s
          /\ s # target /\ s # aside /\ s \notin shelf
      BY <1>1, <2>1, WhereTheyAre DEF CallOK, PhaseOK, Staged, NamesApart, StageNames
    <2>5. \A d : d # NoDir /\ d \in StageNames' => d \in StageNames /\ d # s
      BY <2>3, <2>4, StagesApart DEF StageNames
    <2>6. TypeOK' /\ TreesOK'
      <3>1. CallType' = CallType
        BY <2>1 DEF CallType
      <3>2. QED  BY <1>1, <2>1, <2>2, <2>4, <3>1 DEF TypeOK, TreesOK, Dirs
    <2>7. NamesApart'
      <3>1. \A a, b \in Callers : a # b /\ call'[a].stageFd # NoDir => call'[a].stageFd # call'[b].stageFd
        BY <1>1, <2>3 DEF NamesApart
      <3>2. shelf' \cap StageNames' = {}
        BY <1>1, <2>1, <2>5, WhereTheyAre DEF NamesApart
      <3>3. QED  BY <1>1, <2>1, <2>4, <2>5, <3>1, <3>2, WhereTheyAre DEF NamesApart
    <2>8. target # NoDir => IsEmpty(target)
      BY <1>3 DEF Replaceable
    <2>9. GarbageEmpty'
      <3>1. ASSUME NEW d \in Inodes, d \in Named PROVE d \in Named' \/ d = target
        <4>1. d # NoDir
          BY PublishAssumption
        <4>2. CASE d \in {aside} \cup shelf \cup {s}
          BY <2>1, <2>4, <4>1, <4>2 DEF Named
        <4>3. ASSUME NEW b \in Callers \ {c}, d = call[b].stageName PROVE d \in Named'
          BY <2>3, <4>1, <4>3 DEF Named
        <4>4. QED  BY <2>4, <3>1, <4>2, <4>3 DEF Named
      <3>2. \A d \in Inodes : d = target => IsEmpty(d)
        BY <2>8, PublishAssumption
      <3>3. QED  BY <1>1, <2>1, <3>1, <3>2 DEF GarbageEmpty, IsEmpty
    <2>10. AppOf(s, call[c].spec) /\ IsApp(s)
      BY <1>1, <2>1 DEF CallOK, StageBuilt, Built, AppOf
    <2>11. Places' = (Places \ {target}) \cup {s} /\ IsShelved' = IsShelved
      BY <1>1, <2>1, <2>4 DEF Places, IsShelved, IsApp, NamesApart
    <2>12. AppAtHand'
      <3>1. HasManifest(tree[s]) /\ Whole(tree[s]) /\ target' = s /\ s # NoDir
        BY <2>4, <2>10 DEF IsApp
      <3>2. QED  BY <2>1, <3>1 DEF AppAtHand, Places
    <2>13. IsApp(target)' /\ ~Replaceable(target)'
      <3>1. HasManifest(tree[s]) /\ Whole(tree[s]) /\ DOMAIN tree[s] # {}
        BY <2>10 DEF IsApp, HasManifest
      <3>2. QED  BY <2>1, <2>4, <3>1 DEF IsApp, Replaceable, IsEmpty
    <2>14. TargetWhole' /\ EditsKept'
      <3>1. \A n : Survives(n) => Survives(n)'
        BY <2>1, <2>8, <2>11, NoFiles DEF Survives, Places
      <3>2. QED  BY <1>1, <2>1, <2>13, <3>1 DEF TargetWhole, EditsKept, IsApp
    <2>15. \A b \in Callers : (Between(b)' <=> Between(b)) /\ (Claims(b)' <=> Claims(b))
      <3>1. (Between(c)' <=> Between(c)) /\ (Claims(c)' <=> Claims(c))
        BY <2>1, <2>3 DEF Between, Claims, Removing
      <3>2. ASSUME NEW b \in Callers \ {c} PROVE (Between(b)' <=> Between(b)) /\ (Claims(b)' <=> Claims(b))
        BY <2>1, <2>3 DEF Between, Claims
      <3>3. QED  BY <3>1, <3>2
    <2>16. OneBetween' /\ OneClaims'
      BY <1>1, <2>1, <2>11, <2>15 DEF OneBetween, OneClaims
    <2>17. CallOK(c)'
      <3>1. CallOK(c)
        BY <1>1
      <3>2. PhaseOK(c)'
        BY <2>1, <2>3, <2>4, <3>1 DEF CallOK, PhaseOK, Fresh, Staged, Placed, Replaces
      <3>3. NoStage(c)'
        BY <2>1, <2>3, <2>5, <3>1 DEF CallOK, PhaseOK, NoStage
      <3>4. StageBuilt(c)'
        BY <2>1, <2>3, <2>10 DEF StageBuilt, AppOf, IsApp, Built
      <3>5. FoundKept(c)'
        BY <2>1, <2>3, <3>1 DEF CallOK, FoundKept, Staged
      <3>6. CopyOK(c)' /\ NothingThere(c)' /\ AppPlaced(c)'
        BY <2>3, <2>12, <2>13 DEF CopyOK, NothingThere, AppPlaced, Staged
      <3>7. AsideFull(c)'
        BY <2>1, <2>3, <2>11, <2>15, <3>1 DEF CallOK, AsideFull, Replaceable, IsEmpty
      <3>8. call[c].keeps /\ ~call[c].reborn => call[c].expected # s
        BY <2>4, <3>1 DEF CallOK, NoStage
      <3>9. Gone(c)'
        BY <2>3, <2>4, <3>8 DEF Gone, Staged
      <3>10. ClaimOK(c)'
        BY <2>1, <2>3, <2>15, <3>1 DEF CallOK, ClaimOK, IsEmpty
      <3>11. AsideCovered(c)'
        <4> SUFFICES ASSUME fooled = {}, Claims(c),
                            NEW p \in UserPaths, NEW n \in EditsIn(tree[aside], p)
                     PROVE  Elsewhere(n, p)'
          BY <2>1, <2>15 DEF AsideCovered
        <4>1. call[c].keeps /\ call[c].source = aside /\ aside # NoDir
          BY <2>1, <3>1 DEF CallOK, ClaimOK, Claims, PhaseOK
        <4>2. n \in late \/ n \in EditsIn(tree[s], p)
          BY <2>1, <3>1, <4>1 DEF CallOK, CopyOK, Staged
        <4>3. QED  BY <2>1, <2>4, <4>2 DEF Elsewhere
      <3>12. QED  BY <3>2, <3>3, <3>4, <3>5, <3>6, <3>7, <3>9, <3>10, <3>11 DEF CallOK
    <2>18. ASSUME NEW b \in Callers \ {c} PROVE CallOK(b)'
      <3>1. CallOK(b) /\ call'[b] = call[b]
        BY <1>1, <2>3
      <3>2. PhaseOK(b)' /\ NoStage(b)' /\ StageBuilt(b)' /\ FoundKept(b)' /\ Gone(b)' /\ CopyOK(b)'
        BY <2>1, <2>3, <2>4, <2>5, NamesMove
      <3>3. AppPlaced(b)' /\ AsideFull(b)' /\ NothingThere(b)'
        <4>1. Replaceable(aside)' = Replaceable(aside)
          BY <2>1 DEF Replaceable, IsEmpty
        <4>2. QED
          BY <2>4, <2>11, <2>12, <2>13, <2>15, <3>1, <4>1 DEF CallOK, AppPlaced, AsideFull, NothingThere
      <3>4. ClaimOK(b)'
        BY <2>1, <2>15, <3>1 DEF CallOK, ClaimOK, IsEmpty
      <3>5. AsideCovered(b)'
        <4>1. \A n, p : Elsewhere(n, p) => Elsewhere(n, p)'
          BY <2>1, <2>8, NoFiles DEF Elsewhere
        <4>2. QED  BY <2>1, <2>15, <3>1, <4>1 DEF CallOK, AsideCovered
      <3>6. QED  BY <3>2, <3>3, <3>4, <3>5 DEF CallOK
    <2>19. QED  BY <2>6, <2>7, <2>9, <2>14, <2>16, <2>17, <2>18 DEF IInv
  <1>4. QED  BY <1>2, <1>3

LEMMA EmptyKeeps == ASSUME IInv, NEW c \in Callers, Empty(c) PROVE IInv'
  <1> DEFINE k == call[c]
             D == k.doomed
  <1>1. /\ TypeOK /\ TreesOK /\ NamesApart /\ GarbageEmpty /\ TargetWhole /\ OneBetween /\ OneClaims
        /\ EditsKept /\ \A b \in Callers : CallOK(b)
    BY DEF IInv
  <1>2. /\ k.pc = "empty" /\ D \in Inodes /\ k.keeps
        /\ D # target /\ D \notin shelf /\ D \notin StageNames
    BY <1>1, WhereTheyAre DEF Empty, At, CallOK, PhaseOK, NoStage, Replaces
  <1>3. /\ UNCHANGED <<target, aside, shelf, edited, late, fooled, calls, crashes>>
    BY DEF Empty, historyVars
  <1>4. CASE k.todo = {} /\ UNCHANGED tree
             /\ call' = [call EXCEPT ![c].pc = "rmdir", ![c].doomed = NoDir]
    <2>1. call' \in [Callers -> CallType]
      <3> DEFINE k1 == [call[c] EXCEPT !.pc = "rmdir"]
                 k2 == [k1 EXCEPT !.doomed = NoDir]
      <3>1. k1 \in CallType
        BY <1>1, CallFields DEF TypeOK, Phases
      <3>2. k2 \in CallType
        <4> HIDE DEF k1
        <4>1. QED  BY <3>1, CallFields DEF Dirs
      <3>3. call' = [call EXCEPT ![c] = k2]
        BY <1>1, <1>4 DEF TypeOK, CallType
      <3> HIDE DEF k2
      <3>4. QED  BY <1>1, <3>2, <3>3, PutCall
    <2>2. /\ \A b \in Callers \ {c} : call'[b] = call[b]
          /\ call'[c].pc = "rmdir" /\ call'[c].spec = k.spec
          /\ call'[c].stageFd = k.stageFd /\ call'[c].stageName = k.stageName
          /\ call'[c].expected = k.expected /\ call'[c].keeps = k.keeps
          /\ call'[c].source = k.source
          /\ call'[c].doomed = NoDir /\ call'[c].reborn = k.reborn
          /\ call'[c].found = k.found
      BY <1>1, <1>4, <2>1 DEF TypeOK, CallType
    <2>3. TypeOK' /\ TreesOK'
      BY <1>1, <1>3, <1>4, <2>1, TypeKept DEF TreesOK, TypeOK
    <2>4. StageNames' = StageNames
      <3>1. \A b \in Callers : call'[b].stageName = call[b].stageName
        BY <2>2
      <3>2. QED  BY <3>1 DEF StageNames
    <2>5. CallOK(c)
      BY <1>1
    <2>6. PhaseOK(c)' /\ NoStage(c)'
      BY <1>2, <1>3, <2>2, <2>4, <2>5 DEF CallOK, PhaseOK, NoStage, Fresh, Staged, Placed, Replaces
    <2>7. StageBuilt(c)' /\ FoundKept(c)' /\ Gone(c)' /\ CopyOK(c)'
      BY <1>2, <1>3, <1>4, <2>2, <2>5
      DEF CallOK, StageBuilt, FoundKept, Gone, CopyOK, Staged, Placed, Built, AppOf, IsApp, IsEmpty, Removing
    <2>8. AppAtHand' = AppAtHand
      BY <1>3, <1>4 DEF AppAtHand, Places
    <2>9. ~Between(c)' /\ ~Claims(c)'
      BY <2>2 DEF Between, Claims, Removing
    <2>10. CallOK(c)'
      BY <1>2, <2>2, <2>5, <2>6, <2>7, <2>8, <2>9
      DEF CallOK, AppPlaced, AsideFull, NothingThere, ClaimOK, AsideCovered, Leaving, Placed
    <2>11. QED  BY <1>3, <1>4, <2>2, <2>3, <2>9, <2>10, InnerStep
  <1>5. ASSUME NEW p \in k.todo, Fail(c), UNCHANGED tree PROVE IInv'
    BY <1>2, <1>3, <1>5, FailKeeps DEF At, fsVars, historyVars
  <1>6. ASSUME NEW p \in k.todo, p \in DOMAIN tree[D],
               tree' = [tree EXCEPT ![D] = Without(@, p)],
               call' = [call EXCEPT ![c].todo = @ \ {p}]
        PROVE  IInv'
    <2>1. /\ \A d \in Inodes : d # D => tree'[d] = tree[d]
          /\ tree'[D] = Without(tree[D], p) /\ DOMAIN tree' = Inodes
      BY <1>1, <1>2, <1>6 DEF TypeOK
    <2>2. /\ DOMAIN tree'[D] = DOMAIN tree[D] \ {p}
          /\ \A q \in DOMAIN tree'[D] : tree'[D][q] = tree[D][q]
          /\ \A q : EditsIn(tree'[D], q) \subseteq EditsIn(tree[D], q)
      <3> HIDE DEF k, D
      <3>1. PICK t : t = tree[D]
        OBVIOUS
      <3>2. tree'[D] = Without(t, p)
        BY <2>1, <3>1
      <3>3. /\ DOMAIN Without(t, p) = DOMAIN t \ {p}
            /\ \A q \in DOMAIN Without(t, p) : Without(t, p)[q] = t[q]
            /\ \A q : EditsIn(Without(t, p), q) \subseteq EditsIn(t, q)
        BY WithoutFacts
      <3>4. DOMAIN tree'[D] = DOMAIN tree[D] \ {p}
        BY <3>1, <3>2, <3>3
      <3>5. \A q \in DOMAIN tree'[D] : tree'[D][q] = tree[D][q]
        BY <3>1, <3>2, <3>3
      <3>6. \A q : EditsIn(tree'[D], q) \subseteq EditsIn(tree[D], q)
        BY <3>1, <3>2, <3>3
      <3>7. QED  BY <3>4, <3>5, <3>6
    <2>3. D = aside
      <3>1. D \in Named
        BY <1>1, <1>2, <1>6 DEF GarbageEmpty, IsEmpty
      <3>2. QED  BY <1>2, <3>1 DEF Named, StageNames
    <2>4. /\ call' \in [Callers -> CallType]
          /\ \A b \in Callers : b # c => call'[b] = call[b]
          /\ call'[c].pc = k.pc /\ call'[c].spec = k.spec
          /\ call'[c].stageFd = k.stageFd /\ call'[c].stageName = k.stageName
          /\ call'[c].expected = k.expected /\ call'[c].keeps = k.keeps
          /\ call'[c].source = k.source
          /\ call'[c].doomed = k.doomed /\ call'[c].reborn = k.reborn
          /\ call'[c].found = k.found
      BY <1>1, <1>6 DEF TypeOK, CallType
    <2>5. \A b \in Callers :
            /\ call'[b].pc = call[b].pc /\ call'[b].spec = call[b].spec
            /\ call'[b].stageFd = call[b].stageFd /\ call'[b].stageName = call[b].stageName
            /\ call'[b].expected = call[b].expected /\ call'[b].keeps = call[b].keeps
            /\ call'[b].source = call[b].source
            /\ call'[b].doomed = call[b].doomed /\ call'[b].reborn = call[b].reborn
            /\ call'[b].found = call[b].found
            /\ call[b].pc = "copy" => call'[b].todo = call[b].todo
      BY <1>2, <2>4
    <2> HIDE DEF k, D
    <2>6. StageNames' = StageNames
      BY <2>5 DEF StageNames
    <2>7. TypeOK' /\ TreesOK'
      <3>1. TypeOK'
        BY <1>1, <1>3, <2>1, <2>4, TypeKept DEF TypeOK
      <3>2. TreesOK'
        BY <1>1, <1>2, <1>3, <2>1, <2>2 DEF TreesOK
      <3>3. QED  BY <3>1, <3>2
    <2>8. NamesApart'
      BY <1>1, <1>3, <2>5, <2>6 DEF NamesApart
    <2>9. GarbageEmpty'
      <3>1. Named' = Named
        BY <1>3, <2>5 DEF Named
      <3>2. \A d \in Inodes : d \notin Named => tree'[d] = tree[d]
        BY <2>1, <2>3, <1>2, PublishAssumption DEF Named
      <3>3. QED  BY <1>1, <3>1, <3>2 DEF GarbageEmpty, IsEmpty
    <2>10. \A d : d # NoDir /\ d \in {target} \cup shelf => tree'[d] = tree[d]
      BY <1>1, <1>2, <2>1, WhereTheyAre
    <2>11. /\ IsShelved' = IsShelved /\ (target # NoDir => IsApp(target)' = IsApp(target))
           /\ Replaceable(target)' = Replaceable(target)
      BY <1>1, <1>3, <2>10, WhereTheyAre DEF IsShelved, IsApp, Replaceable, IsEmpty
    <2>12. \A b \in Callers : (Between(b)' <=> Between(b)) /\ (Claims(b)' <=> Claims(b))
      BY <1>3, <2>5 DEF Between, Claims
    <2>13. Between(c) /\ Claims(c)
      BY <1>2, <2>3 DEF Between, Claims, D, k
    <2>14. IsShelved \/ (target # NoDir /\ IsApp(target))
      BY <1>1, <1>2, <2>13 DEF CallOK, AppPlaced, k
    <2>15. AppAtHand'
      <3>1. PICK d \in (shelf \cup {target}) \ {NoDir} : IsApp(d)
        BY <1>1, <2>14, WhereTheyAre DEF IsShelved
      <3>2. tree'[d] = tree[d]
        BY <2>10, <3>1
      <3>3. QED  BY <1>3, <3>1, <3>2 DEF AppAtHand, Places, IsApp
    <2>16. \A q, n : Elsewhere(n, q) <=> Elsewhere(n, q)'
      BY <1>3, <2>10 DEF Elsewhere
    <2>17. TargetWhole'
      BY <1>1, <1>3, <2>10 DEF TargetWhole
    <2>18. EditsKept'
      <3> SUFFICES ASSUME NEW n \in DOMAIN edited, n \notin late, fooled = {} PROVE Survives(n)'
        BY <1>3 DEF EditsKept
      <3>1. PICK d \in Places : n \in EditsIn(tree[d], edited[n])
        BY <1>1 DEF EditsKept, Survives
      <3>2. CASE d = aside
        <4>1. edited[n] \in UserPaths
          BY <1>1 DEF TypeOK
        <4>2. Elsewhere(n, edited[n])
          BY <1>1, <1>2, <2>13, <3>1, <3>2, <4>1 DEF CallOK, AsideCovered, k
        <4>3. QED  BY <1>3, <2>10, <4>2 DEF Elsewhere, Survives, Places
      <3>3. CASE d # aside
        BY <1>3, <2>10, <3>1, <3>3 DEF Survives, Places
      <3>4. QED  BY <3>2, <3>3
    <2>19. OneBetween' /\ OneClaims'
      BY <1>1, <1>3, <2>11, <2>12 DEF OneBetween, OneClaims
    <2>20. ASSUME NEW b \in Callers PROVE CallOK(b)'
      <3>1. CallOK(b)
        BY <1>1
      <3>2. PhaseOK(b)' /\ NoStage(b)'
        BY <1>3, <2>5, <2>6, <3>1 DEF CallOK, PhaseOK, NoStage
      <3>3. /\ call[b].pc \in Staged \cup Placed => call[b].stageFd \in Inodes
            /\ call[b].pc \in Staged => call[b].stageFd # D
            /\ call[b].source # NoDir => call[b].source \in Inodes
            /\ call[b].pc = "copy" => call[b].source # NoDir
        BY <1>1, <1>2, <3>1, WhereTheyAre DEF CallOK, PhaseOK, StageNames
      <3>4. StageBuilt(b)'
        <4>1. call[b].pc \in {"stub"} \cup Built => call[b].pc \in Staged
          BY DEF Built, Staged
        <4>2. call[b].pc \in {"stub"} \cup Built \/ (call[b].pc \in Placed /\ target = call[b].stageFd)
                => tree'[call[b].stageFd] = tree[call[b].stageFd]
          BY <1>2, <2>1, <3>3, <4>1
        <4>3. QED  BY <1>3, <2>5, <3>1, <4>2 DEF CallOK, StageBuilt, AppOf, IsApp
      <3>5. FoundKept(b)'
        <4>1. call[b].pc \in Staged \/ (call[b].pc \in Placed /\ target = call[b].stageFd)
                => tree'[call[b].stageFd] = tree[call[b].stageFd]
          BY <1>2, <2>1, <3>3
        <4>2. call[b].pc = "copy" =>
                \A q : q \in DOMAIN tree'[call[b].source] =>
                   q \in DOMAIN tree[call[b].source] /\ tree'[call[b].source][q] = tree[call[b].source][q]
          BY <2>1, <2>2, <3>3
        <4>3. call[b].pc = "copy" /\ call[b].source = target => tree'[call[b].source] = tree[call[b].source]
          BY <1>2, <2>1, <3>3
        <4>4. QED  BY <1>3, <2>5, <3>1, <4>1, <4>2, <4>3 DEF CallOK, FoundKept
      <3>6. CopyOK(b)'
        <4>1. call[b].pc \in Staged => tree'[call[b].stageFd] = tree[call[b].stageFd]
          BY <2>1, <3>3
        <4>2. call[b].source # NoDir => \A q : EditsIn(tree'[call[b].source], q) \subseteq EditsIn(tree[call[b].source], q)
          BY <2>1, <2>2, <3>3
        <4>3. QED  BY <1>3, <2>5, <3>1, <4>1, <4>2 DEF CallOK, CopyOK
      <3>7. Gone(b)'
        <4>1. call[b].keeps => call[b].expected # NoDir
          BY <3>1 DEF CallOK, PhaseOK
        <4>2. target # NoDir => IsEmpty(target)' = IsEmpty(target)
          BY <1>3, <2>10 DEF IsEmpty
        <4>3. QED  BY <1>3, <2>5, <3>1, <4>1, <4>2 DEF CallOK, Gone
      <3>8. AppPlaced(b)'
        BY <1>3, <2>5, <2>11, <2>12, <2>14, <2>15 DEF AppPlaced
      <3>9. AsideFull(b)'
        <4>1. Between(b) => b = c \/ IsShelved
          BY <1>1, <2>13 DEF OneBetween
        <4>2. QED  BY <1>2, <2>5, <2>11, <2>12, <4>1 DEF AsideFull, k
      <3>10. NothingThere(b)'
        BY <1>3, <2>11, <2>14, <2>5, NoFiles DEF NothingThere, Replaceable
      <3>11. ClaimOK(b)'
        <4>1. fooled = {} /\ Claims(b) => b = c
          BY <1>1, <2>13 DEF OneClaims
        <4>2. QED  BY <1>2, <1>3, <2>5, <2>12, <3>1, <4>1 DEF CallOK, ClaimOK, k
      <3>12. AsideCovered(b)'
        BY <1>3, <2>2, <2>3, <2>5, <2>12, <2>16, <3>1 DEF CallOK, AsideCovered
      <3>13. QED
        BY <3>2, <3>4, <3>5, <3>6, <3>7, <3>8, <3>9, <3>10, <3>11, <3>12 DEF CallOK
    <2>21. QED  BY <2>7, <2>8, <2>9, <2>17, <2>18, <2>19, <2>20 DEF IInv
  <1>7. QED  BY <1>4, <1>5, <1>6 DEF Empty

-----------------------------------------------------------------------------
(* New directories, edits, and the operator.                               *)

\* A number that is free stands for nothing a call still works with.
LEMMA FreeFacts ==
  ASSUME IInv, NEW d \in Free
  PROVE  /\ d \in Inodes /\ d # NoDir /\ IsEmpty(d)
         /\ d # target /\ d # aside /\ d \notin shelf /\ d \notin StageNames
         /\ \A b \in Callers : /\ d # call[b].stageFd /\ d # call[b].stageName
                               /\ d # call[b].doomed
                               /\ call[b].pc = "copy" => d # call[b].source
  <1>1. TypeOK /\ GarbageEmpty
    BY DEF IInv
  <1>2. d \in Inodes /\ d # NoDir /\ d \notin Named
    BY PublishAssumption DEF Free
  <1>3. \A b \in Callers : d \notin OpenDirs(b)
    BY DEF Free
  <1>4. IsEmpty(d)
    BY <1>1, <1>2 DEF GarbageEmpty
  <1>5. QED  BY <1>2, <1>3, <1>4 DEF Named, StageNames, OpenDirs

LEMMA RebornFacts ==
  ASSUME TypeOK, NEW d
  PROVE  /\ Reborn(d) \in [Callers -> CallType]
         /\ \A b \in Callers : LET k == Reborn(d)[b] IN
              /\ k.pc = call[b].pc /\ k.spec = call[b].spec
              /\ k.stageFd = call[b].stageFd /\ k.stageName = call[b].stageName
              /\ k.expected = call[b].expected /\ k.keeps = call[b].keeps
              /\ k.doomed = call[b].doomed /\ k.found = call[b].found
              /\ k.todo = call[b].todo
              /\ k.reborn = (call[b].reborn \/ (call[b].keeps /\ call[b].expected = d))
              /\ k.source = IF call[b].source = d THEN NoDir ELSE call[b].source
  <1> DEFINE r(b) == call[b].reborn \/ (call[b].keeps /\ call[b].expected = d)
             o(b) == IF call[b].source = d THEN NoDir ELSE call[b].source
             k1(b) == [call[b] EXCEPT !.reborn = r(b)]
             k2(b) == [k1(b) EXCEPT !.source = o(b)]
  <1>1. ASSUME NEW b \in Callers
        PROVE  /\ Reborn(d)[b] = k2(b) /\ k2(b) \in CallType
               /\ k2(b).pc = call[b].pc /\ k2(b).spec = call[b].spec
               /\ k2(b).stageFd = call[b].stageFd /\ k2(b).stageName = call[b].stageName
               /\ k2(b).expected = call[b].expected /\ k2(b).keeps = call[b].keeps
               /\ k2(b).doomed = call[b].doomed /\ k2(b).found = call[b].found
               /\ k2(b).todo = call[b].todo
               /\ k2(b).reborn = r(b) /\ k2(b).source = o(b)
    <2>1. call[b] \in CallType
      BY DEF TypeOK
    <2>2. r(b) \in BOOLEAN /\ o(b) \in Dirs
      BY <2>1 DEF CallType, Dirs
    <2>3. k1(b) \in CallType
      <3> HIDE DEF r
      <3>1. QED  BY <2>1, <2>2, CallFields
    <2>4. k2(b) \in CallType
      <3> HIDE DEF k1, o
      <3>1. QED  BY <2>2, <2>3, CallFields
    <2>5. Reborn(d)[b] = k2(b)
      BY <2>1 DEF Reborn, CallType
    <2>6. /\ k2(b).pc = call[b].pc /\ k2(b).spec = call[b].spec
          /\ k2(b).stageFd = call[b].stageFd /\ k2(b).stageName = call[b].stageName
          /\ k2(b).expected = call[b].expected /\ k2(b).keeps = call[b].keeps
          /\ k2(b).doomed = call[b].doomed /\ k2(b).found = call[b].found
          /\ k2(b).todo = call[b].todo
          /\ k2(b).reborn = r(b) /\ k2(b).source = o(b)
      <3> HIDE DEF r, o
      <3>1. QED  BY <2>1 DEF CallType
    <2>7. QED  BY <2>4, <2>5, <2>6
  <1> HIDE DEF k1, k2
  <1>2. Reborn(d) = [b \in Callers |-> Reborn(d)[b]]
    BY DEF Reborn
  <1>3. Reborn(d) \in [Callers -> CallType]
    BY <1>1, <1>2
  <1>4. QED  BY <1>1, <1>3 DEF r, o

\* What the calls know of the rest stays so when a free number becomes a
\* stage, or the missing target_dir.
LEMMA BornKeeps ==
  ASSUME IInv, NEW d \in Free, NEW b \in Callers,
         UNCHANGED <<aside, shelf, tree, edited, late, fooled>>,
         \/ target' = target /\ StageNames' \subseteq StageNames \cup {d}
         \/ target = NoDir /\ target' = d /\ StageNames' = StageNames,
         call'[b] = Reborn(d)[b]
  PROVE  /\ CallOK(b)'
         /\ Between(b)' => Between(b)
         /\ Claims(b)' => Claims(b)
  <1> DEFINE k == call[b]
  <1>1. TypeOK /\ CallOK(b)
    BY DEF IInv
  <1>2. /\ call'[b].pc = k.pc /\ call'[b].spec = k.spec
        /\ call'[b].stageFd = k.stageFd /\ call'[b].stageName = k.stageName
        /\ call'[b].expected = k.expected /\ call'[b].keeps = k.keeps
        /\ call'[b].doomed = k.doomed /\ call'[b].found = k.found
        /\ call'[b].todo = k.todo
        /\ call'[b].reborn = (k.reborn \/ (k.keeps /\ k.expected = d))
        /\ call'[b].source = IF k.source = d THEN NoDir ELSE k.source
    BY <1>1, RebornFacts
  <1> HIDE DEF k
  <1>3. /\ d \in Inodes /\ d # NoDir /\ IsEmpty(d)
        /\ d # target /\ d # aside /\ d \notin shelf /\ d \notin StageNames
        /\ d # k.stageFd /\ d # k.doomed
        /\ k.pc = "copy" => d # k.source
    BY FreeFacts DEF k
  <1>4. k.keeps => k.expected # NoDir
    BY <1>1 DEF CallOK, PhaseOK, k
  <1>5. PhaseOK(b)'
    BY <1>1, <1>2, <1>3 DEF CallOK, PhaseOK, k
  <1>6. NoStage(b)'
    BY <1>1, <1>2, <1>3 DEF CallOK, NoStage, k
  <1>7. StageBuilt(b)'
    BY <1>1, <1>2, <1>3 DEF CallOK, StageBuilt, AppOf, IsApp, k
  <1>8. FoundKept(b)'
    BY <1>1, <1>2, <1>3 DEF CallOK, FoundKept, k
  <1>9. CopyOK(b)'
    BY <1>1, <1>2, <1>3 DEF CallOK, CopyOK, k
  <1>10. Gone(b)'
    <2>1. target' = target => IsEmpty(target)' = IsEmpty(target)
      BY DEF IsEmpty
    <2>2. call'[b].keeps /\ ~call'[b].reborn => k.keeps /\ ~k.reborn /\ k.expected # d
      BY <1>2
    <2>3. k.source = k.expected /\ k.expected # d => call'[b].source = k.expected
      BY <1>2
    <2>4. target' = k.expected /\ k.expected # d => target' = target
      OBVIOUS
    <2>5. QED  BY <1>1, <1>2, <2>1, <2>2, <2>3, <2>4 DEF CallOK, Gone, k
  <1>11. /\ IsShelved' = IsShelved /\ (AppAtHand => AppAtHand')
         /\ Replaceable(aside)' = Replaceable(aside)
         /\ IsEmpty(aside)' = IsEmpty(aside)
         /\ Replaceable(target)' => Replaceable(target)
         /\ target # NoDir /\ IsApp(target) => target' # NoDir /\ IsApp(target)'
    <2>1. IsShelved' = IsShelved
      BY DEF IsShelved, IsApp
    <2>2. Places \subseteq Places'
      BY DEF Places
    <2>3. AppAtHand => AppAtHand'
      BY <2>2 DEF AppAtHand
    <2>4. Replaceable(target)' => Replaceable(target)
      BY DEF Replaceable, IsEmpty
    <2>5. target # NoDir => target' = target
      OBVIOUS
    <2>6. target # NoDir /\ IsApp(target) => target' # NoDir /\ IsApp(target)'
      BY <2>5 DEF IsApp
    <2>7. QED  BY <2>1, <2>3, <2>4, <2>6 DEF Replaceable, IsEmpty
  <1>12. Between(b)' <=> Between(b)
    BY <1>2 DEF Between, k
  <1>13. Claims(b)' <=> Claims(b)
    BY <1>2, <1>3 DEF Claims, k
  <1>14. AppPlaced(b)' /\ AsideFull(b)' /\ NothingThere(b)'
    BY <1>1, <1>2, <1>11, <1>12 DEF CallOK, AppPlaced, AsideFull, NothingThere, k
  <1>15. ClaimOK(b)'
    BY <1>1, <1>2, <1>3, <1>11, <1>13 DEF CallOK, ClaimOK, k
  <1>16. AsideCovered(b)'
    <2>1. \A q, n : Elsewhere(n, q) => Elsewhere(n, q)'
      BY DEF Elsewhere
    <2>2. QED  BY <1>1, <1>2, <1>13, <2>1 DEF CallOK, AsideCovered, k
  <1>17. QED
    BY <1>5, <1>6, <1>7, <1>8, <1>9, <1>10, <1>12, <1>13, <1>14, <1>15, <1>16 DEF CallOK

LEMMA MakeStageKeeps == ASSUME IInv, NEW c \in Callers, MakeStage(c) PROVE IInv'
  <1> DEFINE k == call[c]
             next == IF k.keeps THEN "list" ELSE "write"
  <1>1. /\ TypeOK /\ TreesOK /\ NamesApart /\ GarbageEmpty /\ TargetWhole /\ OneBetween /\ OneClaims
        /\ EditsKept /\ \A b \in Callers : CallOK(b)
    BY DEF IInv
  <1>2. /\ UNCHANGED <<target, aside, shelf, tree, edited, late, fooled, calls, crashes>>
        /\ k.pc = "stage"
    BY DEF MakeStage, At, fsVars, historyVars
  <1>3. PICK d \in Free : call' = [Reborn(d) EXCEPT ![c].pc = next, ![c].stageFd = d, ![c].stageName = d]
    BY DEF MakeStage
  <1>4. /\ d \in Inodes /\ d # NoDir /\ IsEmpty(d)
        /\ d # target /\ d # aside /\ d \notin shelf /\ d \notin StageNames
        /\ \A b \in Callers : d # call[b].stageFd
    BY FreeFacts
  <1>5. PICK r : r = Reborn(d)
    OBVIOUS
  <1>6. /\ r \in [Callers -> CallType]
        /\ r[c].spec = k.spec /\ r[c].expected = k.expected /\ r[c].keeps = k.keeps
        /\ r[c].doomed = k.doomed /\ r[c].found = k.found
        /\ r[c].reborn = (k.reborn \/ (k.keeps /\ k.expected = d))
        /\ r[c].source = IF k.source = d THEN NoDir ELSE k.source
        /\ \A b \in Callers : r[b].stageFd = call[b].stageFd /\ r[b].stageName = call[b].stageName
    BY <1>1, <1>5, RebornFacts
  <1>7. call' \in [Callers -> CallType]
    <2> DEFINE k1 == [r[c] EXCEPT !.pc = next]
               k2 == [k1 EXCEPT !.stageFd = d]
               k3 == [k2 EXCEPT !.stageName = d]
    <2>1. k1 \in CallType
      BY <1>6, CallFields DEF Phases
    <2>2. k2 \in CallType
      <3> HIDE DEF k1
      <3>1. QED  BY <1>4, <2>1, CallFields DEF Dirs
    <2>3. k3 \in CallType
      <3> HIDE DEF k2
      <3>1. QED  BY <1>4, <2>2, CallFields DEF Dirs
    <2>4. call' = [r EXCEPT ![c] = k3]
      BY <1>3, <1>5, <1>6 DEF CallType
    <2> HIDE DEF k3
    <2>5. QED  BY <1>6, <2>3, <2>4
  <1>8. /\ \A b \in Callers : b # c => call'[b] = Reborn(d)[b]
        /\ call'[c].pc = next /\ call'[c].stageFd = d /\ call'[c].stageName = d
        /\ call'[c].spec = k.spec /\ call'[c].expected = k.expected /\ call'[c].keeps = k.keeps
        /\ call'[c].doomed = k.doomed /\ call'[c].found = k.found
        /\ call'[c].reborn = (k.reborn \/ (k.keeps /\ k.expected = d))
        /\ call'[c].source = IF k.source = d THEN NoDir ELSE k.source
    <2>1. call' = [r EXCEPT ![c].pc = next, ![c].stageFd = d, ![c].stageName = d]
      BY <1>3, <1>5
    <2>2. \A b \in Callers : b # c => call'[b] = r[b]
      BY <1>6, <2>1
    <2> HIDE DEF k, next
    <2>3. QED  BY <1>5, <1>6, <2>1, <2>2 DEF CallType
  <1> HIDE DEF k
  <1>9. /\ \A b \in Callers : b # c => call'[b].stageFd = call[b].stageFd
                                       /\ call'[b].stageName = call[b].stageName
        /\ k.stageFd = NoDir /\ k.stageName = NoDir /\ k.doomed = NoDir /\ k.source = NoDir
        /\ k.found = {} /\ k.spec \in Specs /\ (k.keeps => k.expected # NoDir)
    BY <1>1, <1>2, <1>5, <1>6, <1>8 DEF CallOK, PhaseOK, k
  <1>10. StageNames' \subseteq StageNames \cup {d}
    BY <1>8, <1>9 DEF StageNames
  <1>11. TypeOK' /\ TreesOK'
    BY <1>1, <1>2, <1>7, TypeKept DEF TypeOK, TreesOK
  <1>12. NamesApart'
    <2>1. \A x \in ({target, aside} \cup shelf) \ {NoDir} : x \notin StageNames'
      BY <1>1, <1>4, <1>10, WhereTheyAre DEF NamesApart
    <2>2. \A a, b \in Callers : a # b /\ call'[a].stageFd # NoDir => call'[a].stageFd # call'[b].stageFd
      BY <1>1, <1>4, <1>8, <1>9 DEF NamesApart
    <2>3. QED  BY <1>1, <1>2, <2>1, <2>2, WhereTheyAre DEF NamesApart
  <1>13. GarbageEmpty'
    <2>1. Named \subseteq Named'
      BY <1>2, <1>9 DEF Named, k
    <2>2. QED  BY <1>1, <1>2, <2>1 DEF GarbageEmpty, IsEmpty
  <1>14. TargetWhole' /\ EditsKept'
    BY <1>1, <1>2 DEF TargetWhole, EditsKept, Survives, Places
  <1>15. ASSUME NEW b \in Callers, b # c
         PROVE  CallOK(b)' /\ (Between(b)' => Between(b)) /\ (Claims(b)' => Claims(b))
    BY <1>2, <1>8, <1>10, <1>15, BornKeeps
  <1>16. ~Between(c)' /\ ~Claims(c)'
    BY <1>8 DEF Between, Claims, Removing
  <1>17. CallOK(c)'
    <2>1. CallOK(c)
      BY <1>1
    <2>2. PhaseOK(c)'
      BY <1>2, <1>4, <1>8, <1>9 DEF PhaseOK, Fresh, Staged, Placed, Replaces
    <2>3. NoStage(c)'
      BY <1>2, <1>8, <1>9, <1>10, <2>1 DEF CallOK, NoStage, k
    <2>4. StageBuilt(c)' /\ FoundKept(c)' /\ CopyOK(c)'
      BY <1>8, <1>9 DEF StageBuilt, FoundKept, CopyOK, Built, Placed
    <2>5. Gone(c)'
      BY <1>2, <1>8, <1>9, <2>1 DEF CallOK, Gone, Staged, Placed, Removing, IsEmpty, k
    <2>6. AppPlaced(c)' /\ AsideFull(c)' /\ ClaimOK(c)' /\ AsideCovered(c)'
      BY <1>8, <1>16 DEF AppPlaced, AsideFull, ClaimOK, AsideCovered, Placed
    <2>7. NothingThere(c)'
      BY <1>2, <1>8, <2>1
      DEF CallOK, NothingThere, IsShelved, IsApp, Replaceable, IsEmpty, Leaving, k
    <2>8. QED  BY <2>2, <2>3, <2>4, <2>5, <2>6, <2>7 DEF CallOK
  <1>18. OneBetween' /\ OneClaims'
    BY <1>1, <1>2, <1>15, <1>16 DEF OneBetween, OneClaims, IsShelved, IsApp
  <1>19. QED  BY <1>11, <1>12, <1>13, <1>14, <1>15, <1>17, <1>18 DEF IInv

LEMMA MakeTargetKeeps == ASSUME IInv, MakeTarget PROVE IInv'
  <1>1. /\ TypeOK /\ TreesOK /\ NamesApart /\ GarbageEmpty /\ TargetWhole /\ OneBetween /\ OneClaims
        /\ EditsKept /\ \A b \in Callers : CallOK(b)
    BY DEF IInv
  <1>2. /\ UNCHANGED <<aside, shelf, tree, edited, late, fooled, calls, crashes>>
        /\ target = NoDir
    BY DEF MakeTarget, historyVars
  <1>3. PICK d \in Free : target' = d /\ call' = Reborn(d)
    BY DEF MakeTarget
  <1>4. /\ d \in Inodes /\ d # NoDir /\ IsEmpty(d)
        /\ d # aside /\ d \notin shelf /\ d \notin StageNames
    BY FreeFacts
  <1>5. /\ call' \in [Callers -> CallType]
        /\ \A b \in Callers : call'[b].stageFd = call[b].stageFd
                              /\ call'[b].stageName = call[b].stageName
    BY <1>1, <1>3, RebornFacts
  <1>6. StageNames' = StageNames
    BY <1>5 DEF StageNames
  <1>7. TypeOK' /\ TreesOK'
    <2>1. CallType' = CallType
      BY <1>2 DEF CallType
    <2>2. QED  BY <1>1, <1>2, <1>3, <1>4, <1>5, <2>1 DEF TypeOK, TreesOK, Dirs
  <1>8. NamesApart'
    BY <1>1, <1>2, <1>3, <1>4, <1>5, <1>6 DEF NamesApart
  <1>9. GarbageEmpty'
    <2>1. Named \subseteq Named'
      BY <1>2, <1>5 DEF Named
    <2>2. QED  BY <1>1, <1>2, <2>1 DEF GarbageEmpty, IsEmpty
  <1>10. TargetWhole'
    BY <1>2, <1>3, <1>4 DEF TargetWhole, Whole, HasManifest, IsEmpty
  <1>11. EditsKept'
    <2>1. Places \subseteq Places'
      BY <1>2 DEF Places
    <2>2. QED  BY <1>1, <1>2, <2>1 DEF EditsKept, Survives
  <1>12. ASSUME NEW b \in Callers
         PROVE  CallOK(b)' /\ (Between(b)' => Between(b)) /\ (Claims(b)' => Claims(b))
    BY <1>2, <1>3, <1>6, BornKeeps
  <1>13. OneBetween' /\ OneClaims'
    BY <1>1, <1>2, <1>12 DEF OneBetween, OneClaims, IsShelved, IsApp
  <1>14. QED  BY <1>7, <1>8, <1>9, <1>10, <1>11, <1>12, <1>13 DEF IInv

LEMMA EditKeeps == ASSUME IInv, NEW p \in UserPaths, Edit(p) PROVE IInv'
  <1> DEFINE T == target
             n == Len(edited')
  <1>1. /\ TypeOK /\ TreesOK /\ NamesApart /\ GarbageEmpty /\ TargetWhole /\ OneBetween /\ OneClaims
        /\ EditsKept /\ \A b \in Callers : CallOK(b)
    BY DEF IInv
  <1>2. /\ UNCHANGED <<target, aside, shelf, call, fooled, calls, crashes>>
        /\ T # NoDir /\ T \in Inodes
        /\ edited' = Append(edited, p)
        /\ tree' = [tree EXCEPT ![T] = WithEdit(@, p, n)]
        /\ late' = IF \E c \in Callers : PassedBy(c, p) THEN late \cup {n} ELSE late
    BY <1>1, WhereTheyAre DEF Edit
  <1>3. /\ edited' \in Seq(UserPaths) /\ n = Len(edited) + 1
        /\ DOMAIN edited' = DOMAIN edited \cup {n} /\ n \notin DOMAIN edited
        /\ edited'[n] = p /\ \A m \in DOMAIN edited : edited'[m] = edited[m]
    <2>1. edited \in Seq(UserPaths) /\ Len(edited) \in Nat /\ DOMAIN edited = 1..Len(edited)
      BY <1>1 DEF TypeOK
    <2>2. QED  BY <1>2, <2>1, AppendProperties
  <1>4. late \subseteq late' /\ late' \subseteq late \cup {n}
    BY <1>2
  <1> HIDE DEF n
  <1>5. /\ DOMAIN tree' = Inodes /\ tree'[T] = WithEdit(tree[T], p, n)
        /\ \A d \in Inodes : d # T => tree'[d] = tree[d]
    BY <1>1, <1>2 DEF TypeOK
  <1>6. /\ DOMAIN tree'[T] = DOMAIN tree[T] \cup {p}
        /\ EditsIn(tree'[T], p) = EditsIn(tree[T], p) \cup {n}
        /\ \A q : q # p => EditsIn(tree'[T], q) = EditsIn(tree[T], q)
        /\ \A q \in DOMAIN tree'[T] : tree'[T][q].edits \subseteq EditsIn(tree[T], q) \cup {n}
        /\ \A q \in DOMAIN tree[T] : q # p => tree'[T][q] = tree[T][q]
    <2>1. PICK t : t = tree[T]
      OBVIOUS
    <2>2. PICK m : m = n
      OBVIOUS
    <2>3. PICK u : u = tree'[T]
      OBVIOUS
    <2>4. u = WithEdit(t, p, m)
      BY <1>5, <2>1, <2>2, <2>3
    <2>5. /\ DOMAIN u = DOMAIN t \cup {p}
          /\ EditsIn(u, p) = EditsIn(t, p) \cup {m}
          /\ \A q : q # p => EditsIn(u, q) = EditsIn(t, q)
          /\ \A q \in DOMAIN u : u[q].edits \subseteq EditsIn(t, q) \cup {m}
          /\ \A q \in DOMAIN t : q # p => u[q] = t[q]
      BY <2>4 DEF WithEdit, Overlay, File, EditsIn
    <2> HIDE DEF T
    <2>6. QED  BY <2>1, <2>2, <2>3, <2>5
  <1>7. \A d \in Inodes : \A q : EditsIn(tree[d], q) \subseteq EditsIn(tree'[d], q)
    BY <1>5, <1>6
  <1>8. /\ HasManifest(tree'[T]) = HasManifest(tree[T])
        /\ HasManifest(tree[T]) => ManifestOf(tree'[T]) = ManifestOf(tree[T])
        /\ Whole(tree[T]) /\ Whole(tree'[T])
    <2>1. p # Manifest
      BY PathsApart DEF UserPaths
    <2>2. HasManifest(tree'[T]) <=> HasManifest(tree[T])
      BY <1>6, <2>1 DEF HasManifest
    <2>3. HasManifest(tree[T]) => ManifestOf(tree'[T]) = ManifestOf(tree[T])
      BY <1>6, <2>1 DEF HasManifest, ManifestOf
    <2>4. Whole(tree[T])
      BY <1>1, <1>2 DEF TargetWhole
    <2>5. Whole(tree'[T])
      BY <1>6, <2>2, <2>3, <2>4 DEF Whole
    <2>6. QED  BY <2>2, <2>3, <2>4, <2>5 DEF HasManifest
  <1>9. /\ aside # NoDir => aside # T /\ tree'[aside] = tree[aside]
        /\ T \notin shelf /\ \A d \in shelf : tree'[d] = tree[d]
    BY <1>1, <1>2, <1>5, WhereTheyAre DEF NamesApart
  <1>10. /\ IsShelved' = IsShelved /\ (AppAtHand => AppAtHand')
         /\ Replaceable(aside)' = Replaceable(aside)
         /\ aside # NoDir => IsEmpty(aside)' = IsEmpty(aside)
         /\ IsApp(target)' = IsApp(target)
         /\ ~Replaceable(target)' /\ ~IsEmpty(target)'
    <2>1. IsShelved' = IsShelved
      BY <1>2, <1>9 DEF IsShelved, IsApp
    <2>2. IsApp(target)' = IsApp(target)
      BY <1>2, <1>8 DEF IsApp
    <2>3. AppAtHand => AppAtHand'
      BY <1>2, <1>9, <2>2 DEF AppAtHand, Places, IsApp
    <2>4. aside # NoDir => IsEmpty(aside)' = IsEmpty(aside)
      BY <1>2, <1>9 DEF IsEmpty
    <2>5. ~IsEmpty(target)'
      BY <1>2, <1>6 DEF IsEmpty
    <2>6. QED  BY <1>2, <2>1, <2>2, <2>3, <2>4, <2>5 DEF Replaceable
  <1>11. TypeOK'
    <2>1. CallType \subseteq CallType'
      BY <1>3 DEF CallType
    <2>2. call' \in [Callers -> CallType']
      BY <1>1, <1>2, <2>1 DEF TypeOK
    <2>3. QED  BY <1>1, <1>2, <1>3, <1>4, <1>5, <2>2 DEF TypeOK
  <1>12. TreesOK'
    <2> SUFFICES ASSUME NEW d \in Inodes
                 PROVE  /\ DOMAIN tree'[d] \subseteq AllPaths
                        /\ \A q \in DOMAIN tree'[d] : tree'[d][q].edits \subseteq DOMAIN edited'
      BY DEF TreesOK, AllPaths
    <2>1. CASE d # T
      BY <1>1, <1>3, <1>5, <2>1 DEF TreesOK
    <2>2. CASE d = T
      <3>1. DOMAIN tree'[T] \subseteq AllPaths
        BY <1>1, <1>2, <1>6 DEF TreesOK, AllPaths
      <3>2. \A q : EditsIn(tree[T], q) \subseteq DOMAIN edited
        BY <1>1, <1>2 DEF TreesOK, EditsIn
      <3>3. QED  BY <1>3, <1>6, <2>2, <3>1, <3>2
    <2>3. QED  BY <2>1, <2>2
  <1>13. NamesApart'
    BY <1>1, <1>2 DEF NamesApart, StageNames
  <1>14. GarbageEmpty'
    <2>1. Named' = Named /\ T \in Named
      BY <1>2 DEF Named
    <2>2. QED  BY <1>1, <1>5, <2>1 DEF GarbageEmpty, IsEmpty
  <1>15. TargetWhole'
    BY <1>2, <1>8 DEF TargetWhole
  <1>16. EditsKept'
    <2> SUFFICES ASSUME NEW m \in DOMAIN edited', m \notin late', fooled = {} PROVE Survives(m)'
      BY <1>2 DEF EditsKept
    <2>1. CASE m = n
      BY <1>2, <1>3, <1>6, <2>1 DEF Survives, Places
    <2>2. CASE m # n
      <3>1. Survives(m) /\ edited'[m] = edited[m]
        BY <1>1, <1>3, <1>4, <2>2 DEF EditsKept
      <3>2. QED  BY <1>1, <1>2, <1>7, <3>1, WhereTheyAre DEF Survives, Places
    <2>3. QED  BY <2>1, <2>2
  <1>17. \A b \in Callers : (Between(b)' <=> Between(b)) /\ (Claims(b)' <=> Claims(b))
    BY <1>2 DEF Between, Claims
  <1>18. OneBetween' /\ OneClaims'
    BY <1>1, <1>2, <1>10, <1>17 DEF OneBetween, OneClaims
  <1>19. ASSUME NEW b \in Callers PROVE CallOK(b)'
    <2> DEFINE k == call[b]
    <2>1. /\ CallOK(b) /\ call'[b] = k
          /\ StageNames' = StageNames
      BY <1>1, <1>2 DEF StageNames
    <2>2. /\ k.pc \in Staged \cup Placed => k.stageFd \in Inodes
          /\ k.pc \in Staged => k.stageFd # T
          /\ k.source # NoDir => k.source \in Inodes
          /\ k.pc = "copy" => k.source # NoDir
          /\ k.keeps => k.expected # NoDir
      BY <1>1, <1>2, <2>1, WhereTheyAre DEF CallOK, PhaseOK, NamesApart, StageNames
    <2>3. PhaseOK(b)' /\ NoStage(b)'
      BY <1>2, <2>1 DEF CallOK, PhaseOK, NoStage
    <2> HIDE DEF k, T
    <2>4. StageBuilt(b)'
      <3>1. StageBuilt(b)
        BY <2>1 DEF CallOK
      <3>2. k.pc \in {"stub"} \cup Built => tree'[k.stageFd] = tree[k.stageFd]
        BY <1>5, <2>2 DEF Built, Staged
      <3>3. \A s : AppOf(T, s)' <=> AppOf(T, s)
        BY <1>2, <1>8 DEF AppOf, IsApp, T
      <3>4. target' = T
        BY <1>2 DEF T
      <3>5. CASE k.pc \in {"stub"} \cup Built
        BY <2>1, <3>1, <3>2, <3>5 DEF StageBuilt, AppOf, IsApp, Built, Placed, k
      <3>6. CASE k.pc \in Placed
        BY <2>1, <3>1, <3>3, <3>4, <3>6 DEF StageBuilt, Built, Placed, k, T
      <3>7. QED  BY <2>1, <3>5, <3>6 DEF StageBuilt, k
    <2>5. FoundKept(b)'
      <3>1. FoundKept(b)
        BY <2>1 DEF CallOK
      <3>2. target' = T /\ target = T
        BY <1>2 DEF T
      <3>3. k.pc \in Staged \/ (k.pc \in Placed /\ T = k.stageFd) =>
              \A q : EditsIn(tree[k.stageFd], q) \subseteq EditsIn(tree'[k.stageFd], q)
        BY <1>7, <2>2
      <3>4. k.pc = "copy" /\ k.source = T => k.todo \subseteq DOMAIN tree[T]
        BY <3>1, <3>2 DEF FoundKept, k
      <3>5. ASSUME NEW q, NEW m, k.pc = "copy", q \in k.todo,
                   q \in DOMAIN tree[k.source] => m \in tree[k.source][q].edits,
                   q \in DOMAIN tree'[k.source]
            PROVE  m \in tree'[k.source][q].edits
        <4>1. CASE k.source = T
          <5>1. q \in DOMAIN tree[T] /\ m \in EditsIn(tree[T], q)
            BY <3>4, <3>5, <4>1 DEF EditsIn
          <5>2. m \in EditsIn(tree'[T], q)
            BY <1>2, <1>7, <5>1
          <5>3. QED  BY <1>6, <4>1, <5>1, <5>2 DEF EditsIn
        <4>2. CASE k.source # T
          BY <1>5, <2>2, <3>5, <4>2
        <4>3. QED  BY <4>1, <4>2
      <3>6. k.pc = "copy" /\ k.source = T => k.todo \subseteq DOMAIN tree'[T]
        BY <1>6, <3>4
      <3>7. QED  BY <2>1, <3>1, <3>2, <3>3, <3>5, <3>6 DEF FoundKept, k
    <2>6. CopyOK(b)'
      <3> SUFFICES ASSUME k.pc \in Staged, k.source # NoDir, NEW q \in UserPaths,
                          NEW m \in EditsIn(tree'[k.source], q)
                   PROVE  \/ m \in late'
                          \/ m \in EditsIn(tree'[k.stageFd], q)
                          \/ k.pc = "copy" /\ q \in k.todo
        BY <2>1 DEF CopyOK, k
      <3>1. tree'[k.stageFd] = tree[k.stageFd]
        BY <1>5, <2>2
      <3>2. CASE m \in EditsIn(tree[k.source], q)
        BY <1>4, <2>1, <3>1, <3>2 DEF CallOK, CopyOK, k
      <3>3. CASE m \notin EditsIn(tree[k.source], q)
        <4>1. k.source = T /\ q = p /\ m = n
          BY <1>5, <1>6, <2>2, <3>3
        <4>2. (k.pc = "copy" => p \notin k.todo) => PassedBy(b, p)
          BY <4>1 DEF PassedBy, At, k, T
        <4>3. QED  BY <1>2, <4>1, <4>2
      <3>4. QED  BY <3>2, <3>3
    <2>7. Gone(b)'
      <3>1. Gone(b)
        BY <2>1 DEF CallOK
      <3>2. QED  BY <1>2, <1>10, <2>1, <3>1 DEF Gone, IsEmpty
    <2>8. AppPlaced(b)' /\ AsideFull(b)' /\ NothingThere(b)'
      <3>1. AppPlaced(b) /\ AsideFull(b)
        BY <2>1 DEF CallOK
      <3>2. QED
        BY <1>2, <1>10, <1>17, <2>1, <3>1 DEF AppPlaced, AsideFull, NothingThere
    <2>9. Claims(b) => aside # NoDir
      BY <1>1, <2>1, <2>2 DEF Claims, CallOK, PhaseOK, k
    <2>10. ClaimOK(b)'
      <3>1. ClaimOK(b)
        BY <2>1 DEF CallOK
      <3>2. QED  BY <1>2, <1>10, <1>17, <2>1, <2>9, <3>1 DEF ClaimOK
    <2>11. AsideCovered(b)'
      <3>1. AsideCovered(b)
        BY <2>1 DEF CallOK
      <3>2. \A q, m : Elsewhere(m, q) => Elsewhere(m, q)'
        BY <1>1, <1>2, <1>4, <1>7, WhereTheyAre DEF Elsewhere, T
      <3>3. QED  BY <1>2, <1>9, <1>17, <2>1, <2>9, <3>1, <3>2 DEF AsideCovered
    <2>12. QED
      BY <2>3, <2>4, <2>5, <2>6, <2>7, <2>8, <2>10, <2>11 DEF CallOK
  <1>20. QED  BY <1>11, <1>12, <1>13, <1>14, <1>15, <1>16, <1>18, <1>19 DEF IInv

LEMMA ResolveKeeps == ASSUME IInv, Resolve PROVE IInv'
  <1>1. /\ TypeOK /\ TreesOK /\ NamesApart /\ GarbageEmpty /\ TargetWhole
        /\ EditsKept /\ \A b \in Callers : CallOK(b)
    BY DEF IInv
  <1>2. /\ UNCHANGED <<tree, call, edited, late, fooled, calls, crashes>>
        /\ aside # NoDir /\ aside' = NoDir /\ aside \in Inodes
        /\ \/ target = NoDir /\ Whole(tree[aside]) /\ target' = aside /\ shelf' = shelf
           \/ shelf' = shelf \cup {aside} /\ target' = target
    BY <1>1, WhereTheyAre DEF Resolve, historyVars
  <1>3. \A b \in Callers : call[b].pc = "idle" /\ call'[b] = call[b]
    BY <1>2 DEF Resolve, At
  <1>4. TypeOK' /\ TreesOK'
    <2>1. CallType' = CallType
      BY <1>2 DEF CallType
    <2>2. QED  BY <1>1, <1>2, <2>1 DEF TypeOK, TreesOK, Dirs
  <1>5. StageNames' = StageNames /\ Places' = Places /\ Named' = Named
    <2>1. StageNames' = StageNames
      BY <1>2 DEF StageNames
    <2>2. ({target, aside} \cup shelf)' \ {NoDir} = ({target, aside} \cup shelf) \ {NoDir}
      BY <1>2
    <2>3. QED  BY <2>1, <2>2 DEF StageNames, Places, Named
  <1>6. NamesApart'
    BY <1>1, <1>2, <1>5 DEF NamesApart
  <1>7. GarbageEmpty'
    BY <1>1, <1>2, <1>5 DEF GarbageEmpty, IsEmpty
  <1>8. TargetWhole' /\ EditsKept'
    BY <1>1, <1>2, <1>5 DEF TargetWhole, EditsKept, Survives
  <1>9. ASSUME NEW b \in Callers PROVE CallOK(b)' /\ ~Between(b)' /\ ~Claims(b)'
    <2>1. PhaseOK(b) /\ call[b].pc = "idle" /\ call'[b] = call[b]
      BY <1>1, <1>3 DEF CallOK
    <2>2. call[b].doomed = NoDir /\ call[b].source = NoDir /\ ~call[b].keeps
      BY <2>1 DEF PhaseOK, Fresh
    <2>3. PhaseOK(b)'
      BY <2>1 DEF PhaseOK
    <2>4. NoStage(b)' /\ StageBuilt(b)' /\ FoundKept(b)' /\ AppPlaced(b)' /\ AsideFull(b)'
      BY <2>1, <2>2
      DEF NoStage, StageBuilt, FoundKept, AppPlaced, AsideFull, Between, Staged, Built, Placed, Removing
    <2>5. NothingThere(b)' /\ Gone(b)' /\ ClaimOK(b)' /\ CopyOK(b)' /\ AsideCovered(b)'
      BY <2>1, <2>2 DEF NothingThere, Gone, ClaimOK, CopyOK, AsideCovered, Claims, Staged, Removing
    <2>6. ~Between(b)' /\ ~Claims(b)'
      BY <2>1 DEF Between, Claims, Removing
    <2>7. QED  BY <2>3, <2>4, <2>5, <2>6 DEF CallOK
  <1>10. OneBetween' /\ OneClaims'
    BY <1>9 DEF OneBetween, OneClaims
  <1>11. QED  BY <1>4, <1>6, <1>7, <1>8, <1>9, <1>10 DEF IInv

-----------------------------------------------------------------------------
(* The invariant holds always.                                             *)

LEMMA InitOK == ASSUME Init PROVE IInv
  <1> DEFINE first == WithEdit(EmptyTree, Notes, 1)
  <1>1. /\ aside = NoDir /\ shelf = {} /\ late = {} /\ fooled = {}
        /\ \A c \in Callers : call[c] = Idle
        /\ target \in Dirs
    BY DEF Init, Dirs
  <1>2. Notes # Manifest /\ Notes \in AllPaths
    BY PathsApart DEF AllPaths, UserPaths
  <1>3. DOMAIN EmptyTree = {} /\ DOMAIN first = {Notes} /\ first[Notes].edits = {1}
    BY DEF EmptyTree, WithEdit, Overlay, File
  <1> HIDE DEF first
  <1>4. /\ DOMAIN tree = Inodes
        /\ \A d \in Inodes : d # target => tree[d] = EmptyTree
        /\ \/ target = NoDir /\ edited = <<>>
           \/ target \in Inodes /\ tree[target] = first /\ edited = <<Notes>>
    BY DEF Init, first
  <1>5. TypeOK
    <2>1. Len(Requests) \in Nat /\ MaxCrashes \in Nat
      BY PublishAssumption
    <2>2. calls \in 0..Len(Requests) /\ crashes \in 0..MaxCrashes
      BY <2>1 DEF Init
    <2>3. Idle \in CallType
      BY DEF Idle, CallType, Phases, Dirs
    <2>4. call \in [Callers -> CallType]
      BY <2>3 DEF Init
    <2>5. edited \in Seq(UserPaths)
      <3>1. Notes \in UserPaths
        BY DEF UserPaths
      <3>2. <<>> \in Seq(UserPaths) /\ <<Notes>> \in Seq(UserPaths)
        BY <3>1
      <3>3. QED  BY <1>4, <3>2
    <2>6. QED  BY <1>1, <1>4, <2>2, <2>4, <2>5 DEF TypeOK, Dirs
  <1>6. TreesOK
    <2>1. edited = <<Notes>> => 1 \in DOMAIN edited
      OBVIOUS
    <2>2. ASSUME NEW d \in Inodes
          PROVE  /\ DOMAIN tree[d] \subseteq AllPaths
                 /\ \A p \in DOMAIN tree[d] : tree[d][p].edits \subseteq DOMAIN edited
      <3>1. CASE d # target
        BY <1>3, <1>4, <3>1
      <3>2. CASE d = target
        BY <1>2, <1>3, <1>4, <2>1, <3>2, PublishAssumption
      <3>3. QED  BY <3>1, <3>2
    <2>3. QED  BY <2>2 DEF TreesOK
  <1>7. StageNames \subseteq {NoDir} /\ \A c \in Callers : call[c].stageFd = NoDir
    BY <1>1 DEF StageNames, Idle
  <1>8. NamesApart
    BY <1>1, <1>7, PublishAssumption DEF NamesApart, Dirs
  <1>9. GarbageEmpty
    <2> SUFFICES ASSUME NEW d \in Inodes, d \notin Named PROVE IsEmpty(d)
      BY DEF GarbageEmpty
    <2>1. d # NoDir /\ d # target
      BY PublishAssumption DEF Named
    <2>2. QED  BY <1>3, <1>4, <2>1 DEF IsEmpty
  <1>10. TargetWhole
    BY <1>2, <1>3, <1>4 DEF TargetWhole, Whole, HasManifest
  <1>11. EditsKept
    BY <1>3, <1>4, PublishAssumption DEF EditsKept, Survives, Places, EditsIn
  <1>12. ASSUME NEW c \in Callers PROVE CallOK(c) /\ ~Between(c) /\ ~Claims(c)
    BY <1>1 DEF Idle, CallOK, PhaseOK, NoStage, StageBuilt, FoundKept, AppPlaced, AsideFull,
                NothingThere, Gone, ClaimOK, CopyOK, AsideCovered, Between, Claims, Fresh, Staged,
                Placed, Built, Replaces, Removing
  <1>13. OneBetween /\ OneClaims
    BY <1>12 DEF OneBetween, OneClaims
  <1>14. QED  BY <1>5, <1>6, <1>8, <1>9, <1>10, <1>11, <1>12, <1>13 DEF IInv

LEMMA StepKeeps == ASSUME IInv, NEW c \in Callers, Step(c) PROVE IInv'
  <1>1. CASE Recover(c) \/ CheckTarget(c) \/ CheckReserved(c) \/ Identify(c) \/ Confirm(c)
    BY <1>1, GoingKeeps
  <1>2. CASE Look(c)
    BY <1>2, LookKeeps
  <1>3. CASE MakeStage(c)
    BY <1>3, MakeStageKeeps
  <1>4. CASE List(c)
    BY <1>4, ListKeeps
  <1>5. CASE Copy(c)
    BY <1>5, CopyKeeps
  <1>6. CASE WriteApp(c)
    BY <1>6, WriteAppKeeps
  <1>7. CASE WriteStub(c)
    BY <1>7, WriteStubKeeps
  <1>8. CASE SetAside(c)
    BY <1>8, SetAsideKeeps
  <1>9. CASE Place(c)
    BY <1>9, PlaceKeeps
  <1>10. CASE OpenAside(c)
    BY <1>10, OpenAsideKeeps
  <1>11. CASE Empty(c)
    BY <1>11, EmptyKeeps
  <1>12. CASE Rmdir(c)
    BY <1>12, RmdirKeeps
  <1>13. CASE Verify(c)
    BY <1>13, VerifyKeeps
  <1>14. CASE Quarantine(c)
    BY <1>14, QuarantineKeeps
  <1>15. CASE Discard(c)
    BY <1>15, DiscardKeeps
  <1>16. QED
    BY <1>1, <1>2, <1>3, <1>4, <1>5, <1>6, <1>7, <1>8, <1>9, <1>10, <1>11, <1>12, <1>13, <1>14,
       <1>15 DEF Step

LEMMA StutterKeeps == ASSUME IInv, UNCHANGED vars PROVE IInv'
  <1>1. CallType' = CallType
    BY DEF vars, CallType
  <1>2. TypeOK' /\ TreesOK'
    BY <1>1 DEF IInv, TypeOK, TreesOK, vars
  <1>3. StageNames' = StageNames /\ Named' = Named
    BY DEF StageNames, Named, vars
  <1>4. NamesApart' /\ GarbageEmpty' /\ TargetWhole'
    BY <1>3 DEF IInv, NamesApart, GarbageEmpty, TargetWhole, IsEmpty, vars
  <1>5. OneBetween' /\ OneClaims'
    BY DEF IInv, OneBetween, OneClaims, Between, Claims, IsShelved, IsApp, vars
  <1>6. EditsKept'
    BY DEF IInv, EditsKept, Survives, Places, vars
  <1>7. ASSUME NEW c \in Callers PROVE CallOK(c)'
    <2>1. CallOK(c)
      BY DEF IInv
    <2>2. PhaseOK(c)' /\ NoStage(c)' /\ StageBuilt(c)' /\ FoundKept(c)'
      BY <1>3, <2>1 DEF CallOK, PhaseOK, NoStage, StageBuilt, FoundKept, AppOf, IsApp, vars
    <2>3. AppPlaced(c)' /\ AsideFull(c)' /\ NothingThere(c)'
      BY <2>1 DEF CallOK, AppPlaced, AsideFull, NothingThere, Between, AppAtHand, Places,
                  IsShelved, IsApp, Replaceable, IsEmpty, vars
    <2>4. Gone(c)' /\ ClaimOK(c)' /\ CopyOK(c)'
      BY <2>1 DEF CallOK, Gone, ClaimOK, CopyOK, Claims, IsEmpty, vars
    <2>5. AsideCovered(c)'
      BY <2>1 DEF CallOK, AsideCovered, Claims, Elsewhere, vars
    <2>6. QED  BY <2>2, <2>3, <2>4, <2>5 DEF CallOK
  <1>8. QED  BY <1>2, <1>4, <1>5, <1>6, <1>7 DEF IInv

THEOREM Inductive == Spec => []IInv
  <1>1. Init => IInv
    BY InitOK
  <1>2. IInv /\ [Next]_vars => IInv'
    <2> SUFFICES ASSUME IInv, [Next]_vars PROVE IInv'
      OBVIOUS
    <2>1. ASSUME NEW c \in Callers, Begin(c) \/ Step(c) \/ Kill(c) PROVE IInv'
      BY <2>1, BeginKeeps, StepKeeps, KillKeeps
    <2>2. CASE MakeTarget
      BY <2>2, MakeTargetKeeps
    <2>3. ASSUME NEW p \in UserPaths, Edit(p) PROVE IInv'
      BY <2>3, EditKeeps
    <2>4. CASE Resolve
      BY <2>4, ResolveKeeps
    <2>5. CASE UNCHANGED vars
      BY <2>5, StutterKeeps
    <2>6. QED  BY <2>1, <2>2, <2>3, <2>4, <2>5 DEF Next
  <1>3. QED  BY <1>1, <1>2, PTL DEF Spec

\* TypeOK for any number of calls, directories, edits and kills.
THEOREM TypeCorrect == Spec => []TypeOK
  BY Inductive, PTL DEF IInv

\* TargetWhole: whatever call was killed where, and whoever else publishes or
\* edits, target_dir is missing or has every file its manifest lists
\* (_publish_staged_app, the two renames).
THEOREM NeverHalf == Spec => []TargetWhole
  BY Inductive, PTL DEF IInv

\* EditsKept: no edit of a person is destroyed by _copy_existing_directory,
\* the renames or _remove_directory_tree_at, the two stated cases excepted.
THEOREM NoEditLost == Spec => []EditsKept
  BY Inductive, PTL DEF IInv

-----------------------------------------------------------------------------
(* A published application is never lost.                                  *)

LEMMA AppsStay ==
  ASSUME AppAtHand, \A d \in Places : IsApp(d) => d \in Places' /\ tree'[d] = tree[d]
  PROVE  AppAtHand'
  BY DEF AppAtHand, IsApp

LEMMA NotEmpty ==
  ASSUME NEW d, IsApp(d) PROVE ~IsEmpty(d)
  BY DEF IsApp, HasManifest, IsEmpty

\* A call writes and clears its own stage only, which no name but its own has.
LEMMA StageIsPrivate ==
  ASSUME IInv, NEW c \in Callers, NEW d \in Places
  PROVE  d # call[c].stageName /\ (call[c].pc \in Staged => d # call[c].stageFd)
         /\ d \in Inodes
  BY WhereTheyAre DEF IInv, NamesApart, StageNames, CallOK, PhaseOK, Places

LEMMA StepKeepsApp ==
  ASSUME IInv, NEW c \in Callers, Step(c), AppAtHand PROVE AppAtHand'
  <1> DEFINE k == call[c]
  <1>1. TypeOK /\ CallOK(c) /\ DOMAIN tree = Inodes
    BY DEF IInv, TypeOK
  <1>2. CASE UNCHANGED fsVars
    BY <1>2 DEF AppAtHand, Places, fsVars
  <1>3. CASE Copy(c) \/ WriteApp(c) \/ WriteStub(c)
    <2>1. k.pc \in Staged /\ UNCHANGED <<target, aside, shelf>>
      BY <1>3 DEF Copy, WriteApp, WriteStub, At, Staged
    <2>2. \A d \in Inodes : d # k.stageFd => tree'[d] = tree[d]
      BY <1>1, <1>3 DEF Copy, WriteApp, WriteStub
    <2>3. QED  BY <2>1, <2>2, AppsStay, StageIsPrivate DEF Places
  <1>4. CASE SetAside(c)
    <2>1. UNCHANGED tree /\ (UNCHANGED <<target, aside, shelf>>
            \/ (target # NoDir /\ Replaceable(aside) /\ aside' = target /\ shelf' = shelf))
      BY <1>4 DEF SetAside
    <2>2. QED  BY <2>1, AppsStay, NotEmpty DEF Places, Replaceable
  <1>5. CASE Place(c)
    <2>1. UNCHANGED <<tree, aside, shelf>> /\ (target' = target \/ Replaceable(target))
      BY <1>5 DEF Place
    <2>2. QED  BY <2>1, AppsStay, NotEmpty DEF Places, Replaceable
  <1>6. CASE Empty(c)
    <2>1. CASE UNCHANGED tree
      BY <1>6, <2>1 DEF Empty, AppAtHand, Places
    <2>2. ASSUME NEW p, tree' = [tree EXCEPT ![k.doomed] = Without(@, p)] PROVE AppAtHand'
      <3>1. /\ k.pc = "empty" /\ UNCHANGED <<target, aside, shelf>>
            /\ \A d \in Inodes : d # k.doomed => tree'[d] = tree[d]
        BY <1>1, <1>6, <2>2 DEF Empty, At
      <3>2. k.doomed # NoDir /\ k.doomed # target /\ k.doomed \notin shelf
        BY <1>1, <3>1 DEF CallOK, PhaseOK, NoStage
      <3>3. CASE k.doomed = aside
        <4>1. PICK d \in (shelf \cup {target}) \ {NoDir} : IsApp(d)
          BY <1>1, <3>1, <3>3, WhereTheyAre DEF CallOK, AppPlaced, Between, IsShelved
        <4>2. tree'[d] = tree[d]
          BY <1>1, <3>1, <3>2, <4>1, WhereTheyAre
        <4>3. QED  BY <3>1, <4>1, <4>2 DEF AppAtHand, Places, IsApp
      <3>4. CASE k.doomed # aside
        BY <1>1, <3>1, <3>2, <3>4, AppsStay, WhereTheyAre DEF Places
      <3>5. QED  BY <3>3, <3>4
    <2>3. QED  BY <1>6, <2>1, <2>2 DEF Empty
  <1>7. CASE Rmdir(c)
    <2>1. UNCHANGED <<tree, target, shelf>> /\ (aside' = aside \/ (aside # NoDir /\ IsEmpty(aside)))
      BY <1>7 DEF Rmdir
    <2>2. QED  BY <2>1, AppsStay, NotEmpty DEF Places
  <1>8. CASE Quarantine(c)
    BY <1>8, AppsStay DEF Quarantine, Places
  <1>9. CASE Discard(c)
    <2>1. /\ UNCHANGED <<target, aside, shelf>>
          /\ \A d \in Inodes : d # k.stageName => tree'[d] = tree[d]
      BY <1>9 DEF Discard
    <2>2. QED  BY <2>1, AppsStay, StageIsPrivate DEF Places
  <1>10. QED
    BY <1>2, <1>3, <1>4, <1>5, <1>6, <1>7, <1>8, <1>9
    DEF Step, Recover, Look, MakeStage, List, CheckTarget, CheckReserved, Identify, Confirm,
        OpenAside, Verify

\* AppNeverLost: _remove_directory_tree_at and the renames never leave the
\* machine without a whole application where there was one.
THEOREM AppStays == Spec => AppNeverLost
  <1>1. ASSUME IInv, [Next]_vars, AppAtHand PROVE AppAtHand'
    <2>1. TypeOK /\ DOMAIN tree = Inodes
      BY <1>1 DEF IInv, TypeOK
    <2>2. ASSUME NEW c \in Callers, Begin(c) \/ Kill(c) PROVE AppAtHand'
      BY <1>1, <2>2 DEF Begin, Kill, fsVars, AppAtHand, Places
    <2>3. ASSUME NEW c \in Callers, Step(c) PROVE AppAtHand'
      BY <1>1, <2>3, StepKeepsApp
    <2>4. CASE MakeTarget
      BY <1>1, <2>4, AppsStay DEF MakeTarget, Places
    <2>5. ASSUME NEW p \in UserPaths, Edit(p) PROVE AppAtHand'
      <3>1. IInv'
        BY <1>1, <2>5, EditKeeps
      <3>2. /\ UNCHANGED <<target, aside, shelf>> /\ target # NoDir
            /\ \A d \in Inodes : d # target => tree'[d] = tree[d]
            /\ tree'[target] = WithEdit(tree[target], p, Len(edited'))
        BY <2>1, <2>5, WhereTheyAre DEF Edit
      <3>3. Whole(tree'[target])
        BY <3>1, <3>2 DEF IInv, TargetWhole
      <3>4. HasManifest(tree[target]) => HasManifest(tree'[target])
        BY <3>2 DEF HasManifest, WithEdit, Overlay
      <3>5. IsApp(target) => IsApp(target)'
        BY <3>2, <3>3, <3>4 DEF IsApp
      <3>6. PICK d \in Places : IsApp(d)
        BY <1>1 DEF AppAtHand, IsApp
      <3>7. CASE d = target
        BY <3>2, <3>5, <3>6, <3>7 DEF AppAtHand, Places, IsApp
      <3>8. CASE d # target
        BY <2>1, <3>2, <3>6, <3>8, WhereTheyAre DEF AppAtHand, Places, IsApp
      <3>9. QED  BY <3>7, <3>8
    <2>6. CASE Resolve
      BY <1>1, <2>6, AppsStay DEF Resolve, Places
    <2>7. CASE UNCHANGED vars
      BY <1>1, <2>7 DEF vars, AppAtHand, Places
    <2>8. QED  BY <1>1, <2>2, <2>3, <2>4, <2>5, <2>6, <2>7 DEF Next
  <1>2. IInv /\ [Next]_vars => [AppAtHand => AppAtHand']_vars
    BY <1>1
  <1>3. QED  BY <1>2, Inductive, PTL DEF Spec, AppNeverLost

-----------------------------------------------------------------------------
(* What a call that returns has done.                                      *)

\* Only its own steps, and its kill, change where a call is.
LEMMA OthersWait ==
  ASSUME TypeOK, NEW b \in Callers, NEW c \in Callers, b # c, Begin(b) \/ Step(b) \/ Kill(b)
  PROVE  call'[c].pc = call[c].pc
  <1>1. call \in [Callers -> CallType]
    BY DEF TypeOK
  <1>2. CASE MakeStage(b)
    <2>1. PICK d \in Free : call' = [Reborn(d) EXCEPT ![b].pc = IF call[b].keeps THEN "list" ELSE "write",
                                                      ![b].stageFd = d, ![b].stageName = d]
      BY <1>2 DEF MakeStage
    <2>2. Reborn(d)[c].pc = call[c].pc /\ Reborn(d) \in [Callers -> CallType]
      BY RebornFacts
    <2>3. PICK r : r = Reborn(d)
      OBVIOUS
    <2>4. call'[c] = r[c]
      BY <2>1, <2>2, <2>3
    <2>5. QED  BY <2>2, <2>3, <2>4
  <1>3. CASE Begin(b) \/ Kill(b)
    BY <1>1, <1>3 DEF Begin, Kill, Return
  <1>4. CASE Recover(b) \/ Look(b) \/ List(b) \/ Copy(b) \/ WriteApp(b) \/ WriteStub(b)
    BY <1>1, <1>4 DEF Recover, Look, List, Copy, WriteApp, WriteStub, Go, Fail
  <1>5. CASE CheckTarget(b) \/ CheckReserved(b) \/ SetAside(b) \/ Identify(b) \/ Place(b) \/ Confirm(b)
    BY <1>1, <1>5 DEF CheckTarget, CheckReserved, SetAside, Identify, Place, Confirm, Go, Fail
  <1>6. CASE OpenAside(b) \/ Empty(b) \/ Rmdir(b) \/ Verify(b) \/ Quarantine(b) \/ Discard(b)
    BY <1>1, <1>6 DEF OpenAside, Empty, Rmdir, Verify, Quarantine, Discard, Go, Fail, Return
  <1>7. QED  BY <1>2, <1>3, <1>4, <1>5, <1>6 DEF Step

\* A call that is about to return does so by Verify, unless it is killed.
LEMMA ReturnsByVerify ==
  ASSUME TypeOK, NEW c \in Callers, At(c, "verify"), [Next]_vars,
         call'[c].pc = "idle", crashes' = crashes
  PROVE  Verify(c)
  <1>1. \E b \in Callers : Begin(b) \/ Step(b) \/ Kill(b)
    <2>1. ~MakeTarget
      <3> SUFFICES ASSUME MakeTarget PROVE FALSE
        OBVIOUS
      <3>1. PICK d \in Free : call' = Reborn(d)
        BY DEF MakeTarget
      <3>2. call'[c].pc = call[c].pc
        BY <3>1, RebornFacts
      <3>3. QED  BY <3>2 DEF At
    <2>2. ~(\E p \in UserPaths : Edit(p)) /\ ~Resolve /\ ~(UNCHANGED vars)
      BY DEF Edit, Resolve, vars, At
    <2>3. QED  BY <2>1, <2>2 DEF Next
  <1>2. Begin(c) \/ Step(c) \/ Kill(c)
    BY <1>1, OthersWait DEF At
  <1>3. ~Begin(c)
    BY DEF Begin, At
  <1>4. ~Kill(c)
    BY DEF Kill, TypeOK
  <1>5. Step(c) => Verify(c)
    BY DEF Step, Recover, Look, MakeStage, List, Copy, WriteApp, WriteStub, CheckTarget, CheckReserved,
           SetAside, Identify, Place, Confirm, OpenAside, Empty, Rmdir, Quarantine, Discard, At
  <1>6. QED  BY <1>2, <1>3, <1>4, <1>5

\* ReturnsItsApp: when generate_app returns, target_dir holds the application
\* it was called for, and every edit that was there when it began to copy
\* (_verify_published_target_before_return).
THEOREM ReturnsOwn == Spec => ReturnsItsApp
  <1>1. ASSUME IInv, [Next]_vars, NEW c \in Callers,
               At(c, "verify"), call'[c].pc = "idle", crashes' = crashes
        PROVE  /\ target # NoDir /\ HasManifest(tree[target])
               /\ ManifestOf(tree[target]) = call[c].spec
               /\ call[c].found \subseteq AllEdits(target)
    <2>1. TypeOK /\ CallOK(c) /\ call[c].pc = "verify"
      BY <1>1 DEF IInv, At
    <2>2. Verify(c)
      BY <1>1, <2>1, ReturnsByVerify
    <2>3. call[c].stageFd # NoDir
      BY <2>1 DEF CallOK, PhaseOK, Placed
    <2>4. target = call[c].stageFd
      <3> SUFFICES ASSUME target # call[c].stageFd PROVE FALSE
        OBVIOUS
      <3>1. call'[c].pc = "quarantine"
        BY <2>1, <2>2, GoFacts DEF Verify, Phases
      <3>2. QED  BY <1>1, <3>1
    <2>5. AppOf(target, call[c].spec)
      BY <2>1, <2>4 DEF CallOK, StageBuilt, Placed
    <2>6. \A n \in call[c].found : \E p \in UserPaths : n \in EditsIn(tree[target], p)
      BY <2>1, <2>4 DEF CallOK, FoundKept, Placed
    <2>7. QED  BY <2>3, <2>4, <2>5, <2>6 DEF AppOf, IsApp, AllEdits
  <1>2. IInv /\ [Next]_vars =>
          [\A c \in Callers :
             At(c, "verify") /\ call'[c].pc = "idle" /\ crashes' = crashes =>
               /\ target # NoDir /\ HasManifest(tree[target])
               /\ ManifestOf(tree[target]) = call[c].spec
               /\ call[c].found \subseteq AllEdits(target)]_vars
    BY <1>1
  <1>3. QED  BY <1>2, Inductive, PTL DEF Spec, ReturnsItsApp

=============================================================================
