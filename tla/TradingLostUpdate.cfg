\* Two requests at a time that cannot fail: do positions match the trades?
SPECIFICATION Spec
CONSTANTS
    Workers = {p1, p2}
    Users = {u1, u2}
    Orders = {1, 2, 3}
    Types = {"MARKET", "LIMIT"}
    Quantities = {1}
    Prices = {1}
    Lot = 1
    MaxQuantity = 1
    MaxPosition = 1
    MaxFailures = 0
SYMMETRY Symmetry
CHECK_DEADLOCK FALSE
INVARIANT
    PositionsMatchTrades
