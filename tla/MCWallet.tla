------------------------------ MODULE MCWallet ------------------------------
(* Wallet for TLC, and its refinement of Account.                          *)
EXTENDS Wallet, TLC

\* The wallets, the requests and the references are interchangeable.
Symmetry == Permutations(Workers) \cup Permutations(HoldRefs)
              \cup Permutations(CreditRefs) \cup Permutations(Wallets)

=============================================================================
