----------------------------- MODULE MCReviews -----------------------------
(* Small instances of Reviews for TLC.                                     *)
EXTENDS Reviews, TLC

Symmetric == Permutations(Signups) \cup Permutations(Logins)
                \cup Permutations(Reviewers) \cup Permutations(Identities)
=============================================================================
