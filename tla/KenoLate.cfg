\* Two requests at a time, none fails: is a ticket sold during the draw settled?
SPECIFICATION Spec
CONSTANTS
    Workers = {p1, p2}
    Games = {g1}
    Tickets = {t1}
    MaxBall = 2
    DrawSize = 1
    MaxSpots = 1
    Failures = FALSE
CHECK_DEADLOCK FALSE
INVARIANT
    EveryTicketIsSettled
