----------------------------- MODULE MCBetting ------------------------------
(* Betting for TLC, with the results of its slips.                         *)
EXTENDS SlipResults, TLC

\* Stakes below, within and above the limits, and one that is not a number.
Asked == {-1, 0, 1, 2, 3, NaN}

\* Requests, slips and selections are interchangeable; for safety runs only.
Symmetry == Permutations(Workers) \cup Permutations(Slips) \cup Permutations(Selections)
=============================================================================
