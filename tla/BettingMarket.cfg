\* One request that cannot fail: can two lines of a slip be on one market?
SPECIFICATION Spec
CONSTANTS
    Workers = {p1}
    Selections = {s1, s2}
    Markets = {m1, m2}
    Slips = {b1}
    Odds = {2}
    Stakes = {1}
    NaN = NaN
    MaxSelections = 2
    MinStake = 1
    MaxStake = 2
    MaxPayout = 11
    Maxima = {0}
    Failures = FALSE
SYMMETRY Symmetry
CHECK_DEADLOCK FALSE
INVARIANT
    OneLinePerMarket
