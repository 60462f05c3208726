\* Two requests, two wallets, retries, failures and the sweep; unit amounts.
SPECIFICATION Spec
CONSTANTS
    Workers = {p1, p2}
    Wallets = {w1, w2}
    HoldRefs = {h1}
    CreditRefs = {c1}
    MaxAmount = 1
    SweepEnabled = TRUE
    Failures = TRUE
    ListsExpand = TRUE
SYMMETRY Symmetry
INVARIANTS
    TypeOK
    EachReferenceOnce
    PayoutOnlyForClosedHold
    HoldEntryMatchesHold
    BalanceAfterWasReal
PROPERTIES
    ClosedHoldsStayClosed
    WalletIsAccount
