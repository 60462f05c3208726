\* One request that cannot fail: is a slip accepted in the end?
SPECIFICATION FairSpec
CONSTANTS
    Workers = {p1}
    Selections = {s1}
    Markets = {m1}
    Slips = {b1}
    Odds = {2}
    Stakes = {1}
    NaN = NaN
    MaxSelections = 2
    MinStake = 1
    MaxStake = 2
    MaxPayout = 11
    Maxima = {0}
    Failures = FALSE
CHECK_DEADLOCK FALSE
PROPERTY
    SlipIsAccepted
