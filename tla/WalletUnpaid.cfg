\* One request at a time that may fail: is every win paid?
SPECIFICATION FairSpec
CONSTANTS
    Workers = {p1}
    Wallets = {w1}
    HoldRefs = {h1, h2}
    CreditRefs = {c1}
    MaxAmount = 1
    SweepEnabled = FALSE
    Failures = TRUE
    ListsExpand = TRUE
PROPERTY
    WonHoldIsPaid
