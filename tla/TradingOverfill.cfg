\* One request at a time that cannot fail: does an order trade its quantity at most?
SPECIFICATION Spec
CONSTANTS
    Workers = {p1}
    Users = {u1}
    Orders = {1, 2}
    Types = {"MARKET", "LIMIT"}
    Quantities = {1, 2}
    Prices = {1}
    Lot = 1
    MaxQuantity = 2
    MaxPosition = 2
    MaxFailures = 0
SYMMETRY Symmetry
CHECK_DEADLOCK FALSE
INVARIANT
    NotOverfilled
