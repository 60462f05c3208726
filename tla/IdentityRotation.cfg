\* Two refreshes at a time: can one token be exchanged twice?
SPECIFICATION Spec
CONSTANTS
    Workers = {p1, p2}
    Users = {u1}
    Names = {n1}
    MaxTokens = 5
SYMMETRY Symmetry
INVARIANT
    TokensRotate
