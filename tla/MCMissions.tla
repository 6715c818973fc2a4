----------------------------- MODULE MCMissions -----------------------------
EXTENDS Missions, TLC
Symmetric == Permutations(Slots) \cup Permutations(Procs) \cup Permutations(Plans)
=============================================================================
