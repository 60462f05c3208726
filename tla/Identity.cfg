\* Two requests at a time, two users, two names, three tokens.
SPECIFICATION Spec
CONSTANTS
    Workers = {p1, p2}
    Users = {u1, u2}
    Names = {n1, n2}
    MaxTokens = 3
SYMMETRY Symmetry
INVARIANTS
    TypeOK
    NamesAreUnique
    DeactivationHolds
PROPERTY
    LogoutAllRevokes
