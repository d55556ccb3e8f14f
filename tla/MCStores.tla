------------------------------ MODULE MCStores ------------------------------
(* Two memory ids; two directories and three sessions.                     *)
EXTENDS Stores, TLC

CONSTANTS d1, d2, s1, s2, s3

MCDir == {d1, d2}
MCSession == {s1, s2, s3}

\* No definition tells directories or sessions apart.
SymNames == Permutations(MCDir) \cup Permutations(MCSession)
=============================================================================
