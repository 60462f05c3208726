\* Three requests at a time that may fail, two owners, ids enough for all of them.
SPECIFICATION Spec
CONSTANTS
    Workers = {p1, p2, p3}
    Wallets = {w1, w2, w3}
    Owners = {o1, o2}
INVARIANTS
    TypeOK
    OneWalletPerOwner
    AnswersAgree
