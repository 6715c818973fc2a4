------------------------------ MODULE AppTree ------------------------------
(***************************************************************************)
(* The tree of files of a generated application and what                   *)
(* _write_generated_app_tree (spec_engine/codegen.py) makes of the copy of  *)
(* the directory it starts from.                                           *)
(*                                                                         *)
(* A specification is the sequence of its module names, each a slug: a     *)
(* sequence of words.  A tree is a function from the paths it has to files; *)
(* a file is the module it was generated from (or none) and the set of     *)
(* edits a person made to it.                                              *)
(***************************************************************************)
EXTENDS Naturals, Sequences, FiniteSets, Functions

Ordinals == <<"1", "2", "3", "4">>

Notes     == <<"notes">>                  \* any file generation never names
Directive == <<"CLAUDE.md">>              \* merged, never overwritten
Manifest  == <<"codegen-manifest.json">>
UserPaths == {Notes, Directive}

NoSource == <<>>                          \* a file no generation wrote
Block    == <<"SPEC_DIRECTIVE_BLOCK">>
File(source, edits) == [source |-> source, edits |-> edits]

EmptyTree == [p \in {} |-> File(NoSource, {})]

(* _unique_slug: the n-th time a base is asked for it is numbered n.        *)
TimesAsked(spec, i) == Cardinality({j \in 1..i : spec[j] = spec[i]})
UniqueSlug(spec, i) ==
    IF TimesAsked(spec, i) = 1 THEN spec[i]
    ELSE Append(spec[i], Ordinals[TimesAsked(spec, i)])

ModulePath(spec, i) == <<"src">> \o UniqueSlug(spec, i)
ModulePaths(spec)   == {ModulePath(spec, i) : i \in DOMAIN spec}

(* _write_file replaces whatever stands at a module's path, so of two       *)
(* modules with one path the later one stays.                              *)
WriterOf(spec, p) == CHOOSE i \in DOMAIN spec :
                        /\ ModulePath(spec, i) = p
                        /\ \A j \in DOMAIN spec : ModulePath(spec, j) = p => j <= i
GeneratedFiles(spec) ==
    [p \in ModulePaths(spec) |-> File(<<spec, WriterOf(spec, p)>>, {})]

\* Mutant: the directive block replaces what a person wrote.
MergedDirectiveAnew(tree) ==
    IF Directive \notin DOMAIN tree THEN File(Block, {})
    ELSE IF tree[Directive].source = Block THEN tree[Directive]
    ELSE File(Block, {})

(* _write_scaffold_stub_to_fd: the directive block is added to the text     *)
(* that is there unless it has one.                                        *)
MergedDirective(tree) ==
    IF Directive \notin DOMAIN tree THEN File(Block, {})
    ELSE IF tree[Directive].source = Block THEN tree[Directive]
    ELSE File(Block, tree[Directive].edits)

Overlay(new, old) == [p \in DOMAIN new \cup DOMAIN old |->
                        IF p \in DOMAIN new THEN new[p] ELSE old[p]]

(* Modules first, then the manifest that lists them; the directive last.    *)
WithApp(tree, spec) ==
    Overlay([p \in {Manifest} |-> File(<<spec, 0>>, {})],
            Overlay(GeneratedFiles(spec), tree))
WithDirective(tree) == Overlay([p \in {Directive} |-> MergedDirective(tree)], tree)

-----------------------------------------------------------------------------
(* What a manifest claims: every module it lists has its file.             *)
ManifestOf(tree) == tree[Manifest].source[1]
HasManifest(tree) == Manifest \in DOMAIN tree
Whole(tree) ==
    HasManifest(tree) =>
        /\ ModulePaths(ManifestOf(tree)) \subseteq DOMAIN tree
        /\ Directive \in DOMAIN tree

EditsIn(tree, p) == IF p \in DOMAIN tree THEN tree[p].edits ELSE {}
WithEdit(tree, p, n) ==
    Overlay([q \in {p} |->
               IF p \in DOMAIN tree
               THEN File(tree[p].source, tree[p].edits \cup {n})
               ELSE File(NoSource, {n})], tree)
Without(tree, p) == Restrict(tree, DOMAIN tree \ {p})
=============================================================================
