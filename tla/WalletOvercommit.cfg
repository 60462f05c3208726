\* Two requests at a time: is a hold ever made beyond what is available?
SPECIFICATION Spec
CONSTANTS
    Workers = {p1, p2}
    Wallets = {w1}
    HoldRefs = {h1, h2}
    CreditRefs = {c1}
    MaxAmount = 1
    SweepEnabled = FALSE
    Failures = TRUE
    ListsExpand = TRUE
PROPERTY
    HoldIsAvailable
