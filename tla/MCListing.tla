----------------------------- MODULE MCListing ------------------------------
(* Listing for TLC.                                                        *)
EXTENDS Listing, TLC

\* Users and clients are interchangeable.
Symmetry == Permutations(Users) \cup Permutations(Clients)
=============================================================================
