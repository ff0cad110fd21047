-------------------------- MODULE MCTrekListCache --------------------------
(* Small instances of TrekListCache for TLC.                               *)
EXTENDS TrekListCache, TLC

Symmetric == Permutations(Readers) \cup Permutations(Writers) \cup Permutations(Keys)
=============================================================================
