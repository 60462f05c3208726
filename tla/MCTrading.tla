----------------------------- MODULE MCTrading ------------------------------
(* Trading for TLC.                                                        *)
EXTENDS Trading, TLC

\* Requests and users are interchangeable; for safety runs only.
Symmetry == Permutations(Workers) \cup Permutations(Users)
=============================================================================
