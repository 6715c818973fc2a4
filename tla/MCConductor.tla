----------------------------- MODULE MCConductor -----------------------------
EXTENDS Conductor, TLC
CONSTANTS g, h, t
OneTask   == << [gate |-> g, tasks |-> <<t>>, verified |-> {t}] >>
Used      == { <<"work", t>>, <<"verify", t>> }
Some      == [work |-> {"good", "bad"}, verify |-> {"good", "negative"}]
Symmetric == Permutations(Procs)
=============================================================================
