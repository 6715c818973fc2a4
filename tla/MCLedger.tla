------------------------------ MODULE MCLedger ------------------------------
(* Model checking Ledger: processes and shards are interchangeable.        *)
EXTENDS Ledger

Symmetry == Permutations(Procs) \cup Permutations(Shards)
=============================================================================
