\* Two requests at a time that may fail, two tickets of a game, two balls; no
\* symmetry, for the sake of liveness.
SPECIFICATION FairSpec
CONSTANTS
    Workers = {p1, p2}
    Games = {g1}
    Tickets = {t1, t2}
    MaxBall = 2
    DrawSize = 1
    MaxSpots = 2
    Failures = TRUE
CHECK_DEADLOCK FALSE
INVARIANTS
    TypeOK
    NoResultWhileOpen
PROPERTIES
    ResultsAreFinal
    LaterDrawSettles
