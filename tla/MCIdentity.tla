----------------------------- MODULE MCIdentity -----------------------------
(* Identity for TLC.                                                       *)
EXTENDS Identity, TLC

\* Requests, users and names are interchangeable.
Symmetry == Permutations(Workers) \cup Permutations(Users) \cup Permutations(Names)
=============================================================================
