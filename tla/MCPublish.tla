----------------------------- MODULE MCPublish -----------------------------
EXTENDS Publish, TLC

(* An application that grows a second module of the same name, then shrinks. *)
One == <<<<"task">>>>
Two == <<<<"task">>, <<"task">>>>
MCRequests == <<One, Two, One>>

MCSymmetry == Permutations(Callers) \cup Permutations(Inodes)
=============================================================================
