\* Requests as the code handles them today, none of them failing: is a hold made?
SPECIFICATION Spec
CONSTANTS
    Workers = {p1}
    Wallets = {w1}
    HoldRefs = {h1}
    CreditRefs = {c1}
    MaxAmount = 1
    SweepEnabled = FALSE
    Failures = FALSE
    ListsExpand = FALSE
PROPERTY
    CoveredHoldIsMade
