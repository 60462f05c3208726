\* One request that may fail: has every slip lines?
SPECIFICATION Spec
CONSTANTS
    Workers = {p1}
    Selections = {s1}
    Markets = {m1}
    Slips = {b1}
    Odds = {2}
    Stakes = {1}
    NaN = NaN
    MaxSelections = 2
    MinStake = 1
    MaxStake = 2
    MaxPayout = 11
    Maxima = {0}
    Failures = TRUE
SYMMETRY Symmetry
CHECK_DEADLOCK FALSE
INVARIANT
    SlipHasLines
