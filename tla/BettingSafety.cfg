\* Two requests that may fail, while the selections change; slips of up to three legs.
SPECIFICATION Spec
CONSTANTS
    Workers = {p1, p2}
    Selections = {s1, s2, s3}
    Markets = {m1}
    Slips = {b1, b2}
    Odds = {1, 3}
    Stakes <- Asked
    NaN = NaN
    MaxSelections = 3
    MinStake = 1
    MaxStake = 2
    MaxPayout = 27
    Maxima = {0, 1, 2, 4, 9}
    Failures = TRUE
SYMMETRY Symmetry
CHECK_DEADLOCK FALSE
INVARIANTS
    TypeOK
    LinesMatchSlip
    LegOrderDoesNotMatter
    NoMoreThanPromised
    VoidLegsDropOut
    WorseNeverPaysMore
