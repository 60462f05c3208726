\* One request at a time that cannot fail: is a draw final?
SPECIFICATION Spec
CONSTANTS
    Workers = {p1}
    Games = {g1}
    Tickets = {t1}
    MaxBall = 2
    DrawSize = 1
    MaxSpots = 1
    Failures = FALSE
CHECK_DEADLOCK FALSE
PROPERTY
    DrawIsFinal
