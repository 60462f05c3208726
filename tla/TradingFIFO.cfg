\* One request at a time that cannot fail: who is first at the same price?
SPECIFICATION Spec
CONSTANTS
    Workers = {p1}
    Users = {u1}
    Orders = {1, 2, 3}
    Types = {"MARKET", "LIMIT"}
    Quantities = {1}
    Prices = {1}
    Lot = 1
    MaxQuantity = 1
    MaxPosition = 1
    MaxFailures = 0
SYMMETRY Symmetry
CHECK_DEADLOCK FALSE
PROPERTY
    FirstInFirstOut
