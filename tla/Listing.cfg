\* One client, up to six users, pages of one to four.
SPECIFICATION Spec
CONSTANTS
    Users = {u1, u2, u3, u4, u5, u6}
    Clients = {c1}
    Limits = {1, 2, 3, 4}
SYMMETRY Symmetry
INVARIANTS
    NothingIsMissed
    NextPageHasRows
