\* One request at a time that cannot fail: does an IOC order rest?
SPECIFICATION Spec
CONSTANTS
    Workers = {p1}
    Users = {u1}
    Orders = {1, 2}
    Types = {"IOC"}
    Quantities = {1}
    Prices = {1}
    Lot = 1
    MaxQuantity = 1
    MaxPosition = 1
    MaxFailures = 0
SYMMETRY Symmetry
CHECK_DEADLOCK FALSE
INVARIANT
    IOCNeverRests
