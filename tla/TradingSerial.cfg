\* One request at a time that may fail; three orders of one and a half lots at most.
SPECIFICATION Spec
CONSTANTS
    Workers = {p1}
    Users = {u1, u2}
    Orders = {1, 2, 3}
    Types = {"MARKET", "LIMIT"}
    Quantities = {3, 4}
    Prices = {1, 2}
    Lot = 2
    MaxQuantity = 3
    MaxPosition = 4
    MaxFailures = 1
SYMMETRY Symmetry
CHECK_DEADLOCK FALSE
INVARIANTS
    FailureCostsOneFill

