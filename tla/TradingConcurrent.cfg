\* Two requests at a time, three orders, of which two may match at once, one user;
\* no symmetry, for the sake of liveness.  No price: the orders on the book are
\* found by their ids.
SPECIFICATION FairSpec
CONSTANTS
    Workers = {p1, p2}
    Users = {u1}
    Orders = {1, 2, 3}
    Types = {"MARKET", "LIMIT"}
    Quantities = {2, 3}
    Prices = {}
    Lot = 1
    MaxQuantity = 2
    MaxPosition = 2
    MaxFailures = 0
CHECK_DEADLOCK FALSE
INVARIANTS
    TypeOK
    StatusMatchesTrades
    CancelledIsOffBook
    PositionIsMadeOfFills
PROPERTY
    RequestsEnd
