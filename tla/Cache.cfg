\* Two calls at a time, two keys of a namespace; no symmetry, for the sake of
\* liveness.
SPECIFICATION FairSpec
CONSTANTS
    Workers = {p1, p2}
    Namespaces = {n1}
    Names = {a, b}
    MaxTTL = 2
    MaxVersion = 1
INVARIANTS
    TypeOK
    NamespaceIsCleared
    InvalidationHolds
PROPERTY
    EventuallyFresh
