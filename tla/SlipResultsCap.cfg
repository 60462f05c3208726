\* One request that may fail: is a win capped by a configured maximum of 0?
SPECIFICATION Spec
CONSTANTS
    Workers = {p1}
    Selections = {s1, s2, s3}
    Markets = {m1}
    Slips = {b1}
    Odds = {1, 3}
    Stakes = {1}
    NaN = NaN
    MaxSelections = 3
    MinStake = 1
    MaxStake = 2
    MaxPayout = 27
    Maxima = {0, 1, 2, 4, 9}
    Failures = TRUE
SYMMETRY Symmetry
CHECK_DEADLOCK FALSE
INVARIANT
    WinIsCapped
