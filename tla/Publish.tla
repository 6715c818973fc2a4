------------------------------ MODULE Publish ------------------------------
(***************************************************************************)
(* generate_app of spec_engine/codegen.py: calls that copy an application  *)
(* directory into a private stage, generate into the stage and swap it in  *)
(* by two renames; with other calls, a person at work in the directory,    *)
(* kills, and an operator who clears up after them.                        *)
(*                                                                         *)
(* target and aside are directory entries. A directory is an inode number, *)
(* and a number can come back once nothing refers to it: it is all by which *)
(* a call knows the directory it found (_require_stable_identity).          *)
(***************************************************************************)
EXTENDS AppTree

CONSTANTS Callers, Inodes, NoDir,
          Requests,                   \* the specification of each call, in order
          MaxEdits, MaxCrashes        \* bounds of a run

ASSUME PublishAssumption ==
    /\ NoDir \notin Inodes
    /\ Requests \in Seq(Seq(Seq(STRING)))
    /\ {MaxEdits, MaxCrashes} \subseteq Nat

VARIABLES target,   \* what target_dir's name names
          aside,    \* what the reserved name .codegen-prev names
          shelf,    \* directories under names of their own: quarantined, moved
                    \* away by the operator, or the stage of a call that died
          tree,     \* the content of each directory
          call,     \* the local state of each call
          calls, crashes,
          edited,   \* the path of each edit made so far
          late,     \* history: edits made to a file after a call had copied it
          fooled    \* history: calls that took a new directory for the old one

vars == <<target, aside, shelf, tree, call, calls, crashes, edited, late, fooled>>
fsVars      == <<target, aside, shelf, tree>>
historyVars == <<edited, late, fooled>>

NoSpec == <<>>
Idle   == [pc |-> "idle", spec |-> NoSpec,
           stageFd |-> NoDir,     \* the stage's open directory
           stageName |-> NoDir,   \* what the stage's name names
           expected |-> NoDir, keeps |-> FALSE,
           source |-> NoDir,      \* the directory it copies from or copied from
           todo |-> {},           \* names still to copy or to remove
           doomed |-> NoDir,      \* the directory it is removing
           reborn |-> FALSE,      \* history: expected has become another directory
           found |-> {}]          \* history: the edits in source as it was listed

Phases == {"idle", "recover", "look", "stage", "list", "copy", "write", "stub",
           "check", "place", "reserve", "setAside", "identify", "confirm", "open",
           "empty", "rmdir", "verify", "quarantine", "discard"}

AllEdits(d) == UNION {EditsIn(tree[d], p) : p \in UserPaths}
IsEmpty(d) == DOMAIN tree[d] = {}
Named      == ({target, aside} \cup shelf \cup {call[c].stageName : c \in Callers}) \ {NoDir}
OpenDirs(c) == {call[c].stageFd, call[c].doomed}
                 \cup (IF call[c].pc = "copy" THEN {call[c].source} ELSE {})
Free       == Inodes \ (Named \cup UNION {OpenDirs(c) : c \in Callers})

(* What the calls remember once d is the number of a new directory.        *)
Reborn(d) == [b \in Callers |->
    [call[b] EXCEPT !.reborn = @ \/ (call[b].keeps /\ call[b].expected = d),
                    !.source = IF @ = d THEN NoDir ELSE @]]

At(c, p)    == call[c].pc = p
Go(c, p)    == call' = [call EXCEPT ![c].pc = p]
Fail(c)     == Go(c, "discard")     \* an exception: see Discard
Return(c)   == call' = [call EXCEPT ![c] = Idle]

Init ==
    /\ aside = NoDir /\ shelf = {}
    /\ \/ target = NoDir /\ tree = [d \in Inodes |-> EmptyTree] /\ edited = <<>>
       \/ /\ target \in Inodes
          /\ tree = [d \in Inodes |->
                       IF d = target THEN WithEdit(EmptyTree, Notes, 1) ELSE EmptyTree]
          /\ edited = <<Notes>>
    /\ call = [c \in Callers |-> Idle]
    /\ calls = 0 /\ crashes = 0 /\ late = {} /\ fooled = {}

-----------------------------------------------------------------------------
(* One call                                                                *)

Begin(c) ==
    /\ At(c, "idle") /\ calls < Len(Requests)
    /\ calls' = calls + 1
    /\ call' = [call EXCEPT ![c].pc = "recover", ![c].spec = Requests[calls']]
    /\ UNCHANGED <<fsVars, crashes, historyVars>>

(* _recover_interrupted_publish: whatever the reserved name names stops the *)
(* call.                                                                   *)
Recover(c) ==
    /\ At(c, "recover")
    /\ IF aside = NoDir THEN Go(c, "look") ELSE Fail(c)
    /\ UNCHANGED <<fsVars, calls, crashes, historyVars>>

(* _target_has_existing_content                                             *)
Look(c) ==
    /\ At(c, "look")
    /\ call' = [call EXCEPT ![c].pc = "stage", ![c].expected = target,
                            ![c].keeps = target # NoDir /\ ~IsEmpty(target)]
    /\ UNCHANGED <<fsVars, calls, crashes, historyVars>>

(* The inode number of a stage may have been another directory's.          *)
MakeStage(c) ==
    /\ At(c, "stage")
    /\ \E d \in Free :
         call' = [Reborn(d) EXCEPT ![c].pc = IF call[c].keeps THEN "list" ELSE "write",
                                   ![c].stageFd = d, ![c].stageName = d]
    /\ UNCHANGED <<fsVars, calls, crashes, historyVars>>

(* _copy_existing_directory reads all names, then copies one after the other, *)
(* from the directory target_dir names now.                                *)
List(c) ==
    /\ At(c, "list")
    /\ IF target = NoDir THEN Fail(c)
       ELSE call' = [call EXCEPT ![c].pc = "copy", ![c].source = target,
                                 ![c].todo = DOMAIN tree[target],
                                 ![c].found = AllEdits(target)]
    /\ UNCHANGED <<fsVars, calls, crashes, historyVars>>

Copy(c) ==
    LET k == call[c] IN
    /\ At(c, "copy")
    /\ \/ /\ k.todo = {} /\ Go(c, "write")
          /\ UNCHANGED tree
       \/ \E p \in k.todo :
            IF p \in DOMAIN tree[k.source]
            THEN /\ tree' = [tree EXCEPT ![k.stageFd] =
                               Overlay([q \in {p} |-> tree[k.source][p]], @)]
                 /\ call' = [call EXCEPT ![c].todo = @ \ {p}]
            ELSE Fail(c) /\ UNCHANGED tree
    /\ UNCHANGED <<target, aside, shelf, calls, crashes, historyVars>>

\* Mutant: the tree is published without its scaffold stub.
WriteAppAlone(c) ==
    /\ At(c, "write")
    /\ Go(c, "check") /\ tree' = [tree EXCEPT ![call[c].stageFd] = WithApp(@, call[c].spec)]
    /\ UNCHANGED <<target, aside, shelf, calls, crashes, historyVars>>

(* _write_generated_app_tree: modules and manifest, then the scaffold stub. *)
WriteApp(c) ==
    /\ At(c, "write")
    /\ \/ Go(c, "stub") /\ tree' = [tree EXCEPT ![call[c].stageFd] = WithApp(@, call[c].spec)]
       \/ Fail(c) /\ UNCHANGED tree          \* plan and specification differ
    /\ UNCHANGED <<target, aside, shelf, calls, crashes, historyVars>>

WriteStub(c) ==
    /\ At(c, "stub")
    /\ Go(c, "check")
    /\ tree' = [tree EXCEPT ![call[c].stageFd] = WithDirective(@)]
    /\ UNCHANGED <<target, aside, shelf, calls, crashes, historyVars>>

(* _publish_staged_app: target_dir must be what Look found.                 *)
CheckTarget(c) ==
    /\ At(c, "check")
    /\ IF target = call[c].expected
       THEN Go(c, IF call[c].keeps THEN "reserve" ELSE "place") ELSE Fail(c)
    /\ UNCHANGED <<fsVars, calls, crashes, historyVars>>

CheckReserved(c) ==
    /\ At(c, "reserve")
    /\ IF aside = NoDir THEN Go(c, "setAside") ELSE Fail(c)
    /\ UNCHANGED <<fsVars, calls, crashes, historyVars>>

(* rename(2) replaces a directory only if it is empty.                     *)
Replaceable(d) == d = NoDir \/ IsEmpty(d)

SetAside(c) ==
    /\ At(c, "setAside")
    /\ IF target # NoDir /\ Replaceable(aside)
       THEN Go(c, "identify") /\ aside' = target /\ target' = NoDir
       ELSE Fail(c) /\ UNCHANGED <<target, aside>>
    /\ UNCHANGED <<shelf, tree, calls, crashes, historyVars>>

(* A stranger set aside stays aside, and target_dir stays absent.          *)
Identify(c) ==
    /\ At(c, "identify")
    /\ IF aside = call[c].expected THEN Go(c, "place") ELSE Fail(c)
    /\ fooled' = IF aside = call[c].expected /\ call[c].reborn
                 THEN fooled \cup {c} ELSE fooled
    /\ UNCHANGED <<fsVars, calls, crashes, edited, late>>

Place(c) ==
    /\ At(c, "place")
    /\ IF Replaceable(target)
       THEN /\ target' = call[c].stageName
            /\ call' = [call EXCEPT ![c].pc = "confirm", ![c].stageName = NoDir]
       ELSE Fail(c) /\ UNCHANGED target
    /\ UNCHANGED <<aside, shelf, tree, calls, crashes, historyVars>>

Confirm(c) ==
    /\ At(c, "confirm")
    /\ Go(c, IF target # call[c].stageFd THEN "quarantine"
             ELSE IF call[c].keeps THEN "open" ELSE "verify")
    /\ UNCHANGED <<fsVars, calls, crashes, historyVars>>

(* _remove_directory_tree_at opens whatever the reserved name names by now. *)
OpenAside(c) ==
    /\ At(c, "open")
    /\ IF aside = NoDir THEN Fail(c)
       ELSE call' = [call EXCEPT ![c].pc = "empty", ![c].doomed = aside,
                                 ![c].todo = DOMAIN tree[aside]]
    /\ UNCHANGED <<fsVars, calls, crashes, historyVars>>

Empty(c) ==
    LET k == call[c] IN
    /\ At(c, "empty")
    /\ \/ /\ k.todo = {}
          /\ call' = [call EXCEPT ![c].pc = "rmdir", ![c].doomed = NoDir]
          /\ UNCHANGED tree
       \/ \E p \in k.todo :
            IF p \in DOMAIN tree[k.doomed]
            THEN /\ tree' = [tree EXCEPT ![k.doomed] = Without(@, p)]
                 /\ call' = [call EXCEPT ![c].todo = @ \ {p}]
            ELSE Fail(c) /\ UNCHANGED tree
    /\ UNCHANGED <<target, aside, shelf, calls, crashes, historyVars>>

Rmdir(c) ==
    /\ At(c, "rmdir")
    /\ IF aside # NoDir /\ IsEmpty(aside)
       THEN Go(c, "verify") /\ aside' = NoDir
       ELSE Fail(c) /\ UNCHANGED aside
    /\ UNCHANGED <<target, shelf, tree, calls, crashes, historyVars>>

\* Mutant: the target is not looked at again before the call returns.
VerifyNot(c) ==
    /\ At(c, "verify")
    /\ Return(c)
    /\ UNCHANGED <<fsVars, calls, crashes, historyVars>>

(* _verify_published_target_before_return                                   *)
Verify(c) ==
    /\ At(c, "verify")
    /\ IF target = call[c].stageFd THEN Return(c) ELSE Go(c, "quarantine")
    /\ UNCHANGED <<fsVars, calls, crashes, historyVars>>

\* Mutant: the rejected entry is removed rather than moved.
QuarantineRemoving(c) ==
    /\ At(c, "quarantine")
    /\ Fail(c)
    /\ target' = NoDir
    /\ tree' = [d \in Inodes |-> IF d = target THEN EmptyTree ELSE tree[d]]
    /\ UNCHANGED <<aside, shelf, calls, crashes, historyVars>>

\* Mutant: an entry that vanished is reported as quarantined.
QuarantineBlind(c) ==
    /\ At(c, "quarantine")
    /\ Fail(c)
    /\ shelf' = shelf \cup {target}
    /\ target' = NoDir
    /\ UNCHANGED <<aside, tree, calls, crashes, historyVars>>

(* _quarantine_untrusted_publish_entry moves whatever target_dir names.     *)
Quarantine(c) ==
    /\ At(c, "quarantine")
    /\ Fail(c)
    /\ shelf' = shelf \cup ({target} \ {NoDir})
    /\ target' = NoDir
    /\ UNCHANGED <<aside, tree, calls, crashes, historyVars>>

(* The except and finally blocks of generate_app.                           *)
Discard(c) ==
    /\ At(c, "discard")
    /\ tree' = [d \in Inodes |-> IF d = call[c].stageName THEN EmptyTree ELSE tree[d]]
    /\ Return(c)
    /\ UNCHANGED <<target, aside, shelf, calls, crashes, historyVars>>

Step(c) ==
    \/ Recover(c) \/ Look(c) \/ MakeStage(c) \/ List(c) \/ Copy(c)
    \/ WriteApp(c) \/ WriteStub(c) \/ CheckTarget(c) \/ CheckReserved(c)
    \/ SetAside(c) \/ Identify(c) \/ Place(c) \/ Confirm(c)
    \/ OpenAside(c) \/ Empty(c) \/ Rmdir(c) \/ Verify(c)
    \/ Quarantine(c) \/ Discard(c)

-----------------------------------------------------------------------------
(* The world around the calls                                              *)

(* A process killed between two steps leaves its stage behind.             *)
Kill(c) ==
    /\ ~At(c, "idle") /\ crashes < MaxCrashes
    /\ shelf' = shelf \cup ({call[c].stageName} \ {NoDir})
    /\ Return(c)
    /\ crashes' = crashes + 1
    /\ UNCHANGED <<target, aside, tree, calls, historyVars>>

(* A person creates a missing target_dir, and edits files there.           *)
MakeTarget ==
    /\ target = NoDir /\ Len(edited) < MaxEdits
    /\ \E d \in Free : target' = d /\ call' = Reborn(d)
    /\ UNCHANGED <<aside, shelf, tree, calls, crashes, historyVars>>

PassedBy(c, p) == /\ call[c].source = target
                  /\ At(c, "copy") => p \notin call[c].todo

Edit(p) ==
    /\ target # NoDir /\ Len(edited) < MaxEdits
    /\ edited' = Append(edited, p)
    /\ tree' = [tree EXCEPT ![target] = WithEdit(@, p, Len(edited'))]
    /\ late' = IF \E c \in Callers : PassedBy(c, p) THEN late \cup {Len(edited')} ELSE late
    /\ UNCHANGED <<target, aside, shelf, call, calls, crashes, fooled>>

(* Between calls an operator inspects what a failed one left at the         *)
(* reserved name, as the message of Recover asks: a whole tree goes back to *)
(* a missing target_dir, anything else is put away.                        *)
Resolve ==
    /\ \A c \in Callers : At(c, "idle")
    /\ aside # NoDir
    /\ aside' = NoDir
    /\ IF target = NoDir /\ Whole(tree[aside]) THEN target' = aside /\ UNCHANGED shelf
       ELSE shelf' = shelf \cup {aside} /\ UNCHANGED target
    /\ UNCHANGED <<tree, call, calls, crashes, historyVars>>

Next ==
    \/ \E c \in Callers : Begin(c) \/ Step(c) \/ Kill(c)
    \/ MakeTarget
    \/ \E p \in UserPaths : Edit(p)
    \/ Resolve

Spec == Init /\ [][Next]_vars

-----------------------------------------------------------------------------
(* Properties                                                              *)

Specs == {Requests[i] : i \in DOMAIN Requests}
AllPaths == (UNION {ModulePaths(s) : s \in Specs}) \cup UserPaths \cup {Manifest}
Dirs == Inodes \cup {NoDir}
CallType ==
    [pc : Phases, spec : Specs \cup {NoSpec}, stageFd : Dirs, stageName : Dirs,
     expected : Dirs, keeps : BOOLEAN, source : Dirs, doomed : Dirs, reborn : BOOLEAN,
     found : SUBSET DOMAIN edited,
     todo : SUBSET AllPaths]

TypeOK ==
    /\ target \in Dirs /\ aside \in Dirs /\ shelf \subseteq Inodes
    /\ DOMAIN tree = Inodes
    /\ call \in [Callers -> CallType]
    /\ calls \in 0..Len(Requests) /\ crashes \in 0..MaxCrashes
    /\ edited \in Seq(UserPaths) /\ late \subseteq DOMAIN edited /\ fooled \subseteq Callers

(* A reader of target_dir never sees half an application, whatever call was *)
(* killed where and whoever else was publishing (the atomicity section of   *)
(* codegen.py's docstring).                                                *)
TargetWhole == target # NoDir => Whole(tree[target])

(* Once an application was published a whole one can be found again, though *)
(* target_dir may be missing: under the reserved name, or, when a failing   *)
(* call put another's application out of the way, under a rejected name.    *)
Places == ({target, aside} \cup shelf) \ {NoDir}
AppAtHand == \E d \in Places : HasManifest(tree[d]) /\ Whole(tree[d])
AppNeverLost == [][AppAtHand => AppAtHand']_vars

(* No edit a person made is ever destroyed: it is in target_dir, at the     *)
(* reserved name, or under a name of its own.  Two cases excepted: a call   *)
(* had already copied the file (its copy is then published and the edited   *)
(* directory removed), or a call took a new directory for the one it had    *)
(* found, which had been removed and had given it its inode number.        *)
Survives(n) == \E d \in Places : n \in EditsIn(tree[d], edited[n])
EditsKept ==
    \A n \in DOMAIN edited : n \in late \/ fooled # {} \/ Survives(n)

(* A call that returns has published its own application, and every edit    *)
(* that was in the directory when the call listed it is in target_dir.     *)
ReturnsItsApp ==
    [][\A c \in Callers :
         At(c, "verify") /\ call'[c].pc = "idle" /\ crashes' = crashes =>
            /\ target # NoDir /\ HasManifest(tree[target])
            /\ ManifestOf(tree[target]) = call[c].spec
            /\ call[c].found \subseteq AllEdits(target)]_vars
=============================================================================
