\* One request that may fail: is the stake of every slip within the limits?
SPECIFICATION Spec
CONSTANTS
    Workers = {p1}
    Selections = {s1}
    Markets = {m1}
    Slips = {b1}
    Odds = {2}
    Stakes <- Asked
    NaN = NaN
    MaxSelections = 2
    MinStake = 1
    MaxStake = 2
    MaxPayout = 11
    Maxima = {0}
    Failures = TRUE
SYMMETRY Symmetry
CHECK_DEADLOCK FALSE
INVARIANT
    StakeIsLimited
