-------------------------------- MODULE Keno --------------------------------
(***************************************************************************)
(* Keno: apps/gaming-api/src/keno with packages/keno.  Players buy tickets *)
(* for a game, and a draw of the game settles them.                        *)
(*                                                                         *)
(* A worker is one request in flight; it can be overtaken by any other at  *)
(* each of its awaits.  A TypeORM save of a loaded row writes every column *)
(* of the copy that differs from the stored row, whatever was stored since.*)
(***************************************************************************)
EXTENDS Integers, FiniteSets

CONSTANTS
    Workers, Games, Tickets,
    MaxBall,    \* balls are numbered 1..MaxBall (80 in the code)
    DrawSize,   \* balls in a draw (20)
    MaxSpots,   \* most numbers on a ticket (10)
    Failures    \* whether requests can fail half way

ASSUME KenoAssumption ==
    /\ MaxBall \in Nat \ {0} /\ DrawSize \in 1..MaxBall
    /\ MaxSpots \in 1..10
    /\ Failures \in BOOLEAN

VARIABLES
    games,     \* rows of keno_games by id
    tickets,   \* rows of keno_tickets by id
    job        \* what each worker is doing

vars == <<games, tickets, job>>

-----------------------------------------------------------------------------
(* Numbers, and what a simple-array column makes of them: a column of this *)
(* type is stored as text and is loaded as an array of strings.            *)

Ball(n) == [type |-> "number", is |-> n]
Text(b) == [type |-> "string", is |-> b.is]

Balls == {Ball(n) : n \in 1..MaxBall}
Texts == {Text(b) : b \in Balls}

Draws == {d \in SUBSET Balls : Cardinality(d) = DrawSize}
Picks == {s \in SUBSET Balls : Cardinality(s) \in 1..MaxSpots}

\* Mutant: the column has a transformer back to numbers.
SimpleArrayOfNumbers(s) == s

\* SimpleArray(s) is what is read back after the numbers in s were saved.
SimpleArray(s) == {Text(b) : b \in s}

\* Set.has compares with ===, and '7' === 7 is false.
countMatches(selected, drawn) == Cardinality(selected \cap drawn)

\* The table has a row for "all numbers hit" only, for 1 to 10 numbers.
Multiplier == <<3, 9, 27, 75, 300, 750, 2500, 5000, 7500, 10000>>

calculatePayout(stake, spots, matches) ==
    IF matches = spots THEN stake * Multiplier[spots] ELSE 0

Game   == [status : {"OPEN", "DRAWING", "DRAWN"}, drawn : SUBSET Texts]
Ticket == [game : Games, picks : SUBSET Texts, stake : Nat \ {0},
           status : {"PENDING", "WON", "LOST"}, matches : Nat, payout : Nat]

Idle == [at |-> "Idle"]

-----------------------------------------------------------------------------

\* The games there are were put into the table by hand: createGame has no route
\* and no caller.  (It would throw: TypeORM 0.3.20 refuses a findOne without
\* where, "You must provide selection conditions in order to find a single row".)
Init ==
    /\ \E there \in SUBSET Games : games = [g \in there |-> [status |-> "OPEN", drawn |-> {}]]
    /\ tickets = [t \in {} |-> 0]
    /\ job     = [p \in Workers |-> Idle]

Put(rows, id, row) == [i \in DOMAIN rows \cup {id} |-> IF i = id THEN row ELSE rows[i]]

Become(p, j) == job' = [job EXCEPT ![p] = j]

(* buyTicket *)

\* The numbers are legal and the game is open when it is read.
BuyTicket(p) ==
    /\ job[p] = Idle
    /\ \E g \in DOMAIN games, s \in Picks :
         /\ games[g].status = "OPEN"
         /\ Become(p, [at |-> "SaveTicket", game |-> g, picks |-> s])
    /\ UNCHANGED <<games, tickets>>

\* The stake is one unit: nothing depends on it but the payout.
SaveTicket(p) ==
    /\ job[p].at = "SaveTicket"
    /\ \E t \in Tickets \ DOMAIN tickets :
         tickets' = Put(tickets, t,
            [game |-> job[p].game, picks |-> SimpleArray(job[p].picks), stake |-> 1,
             status |-> "PENDING", matches |-> 0, payout |-> 0])
    /\ Become(p, Idle)
    /\ UNCHANGED games

(* drawGame, of a game in any status *)

DrawGame(p) ==
    /\ job[p] = Idle
    /\ \E g \in DOMAIN games :
         Become(p, [at |-> "SaveDrawing", game |-> g, row |-> games[g]])
    /\ UNCHANGED <<games, tickets>>

\* Mutant: the game is left as it is until the numbers are out.
SaveDrawingLate(p) ==
    /\ job[p].at = "SaveDrawing"
    /\ Become(p, [at |-> "FindTickets", game |-> job[p].game, drawn |-> {}])
    /\ UNCHANGED <<games, tickets>>

SaveDrawing(p) ==
    /\ job[p].at = "SaveDrawing"
    /\ games' = [games EXCEPT ![job[p].game] = [job[p].row EXCEPT !.status = "DRAWING"]]
    /\ Become(p, [job[p] EXCEPT !.at = "SaveDrawn"])
    /\ UNCHANGED tickets

\* Mutant: a game that was drawn before is not settled again.
SaveDrawnOnce(p) ==
    /\ job[p].at = "SaveDrawn"
    /\ \E d \in Draws :
         /\ games' = [games EXCEPT ![job[p].game] =
                        [job[p].row EXCEPT !.status = "DRAWN", !.drawn = SimpleArray(d)]]
         /\ Become(p, IF job[p].row.status = "DRAWN" THEN Idle
                      ELSE [at |-> "FindTickets", game |-> job[p].game, drawn |-> d])
    /\ UNCHANGED tickets

\* The numbers are drawn and saved; the copy in memory keeps them as numbers.
SaveDrawn(p) ==
    /\ job[p].at = "SaveDrawn"
    /\ \E d \in Draws :
         /\ games' = [games EXCEPT ![job[p].game] =
                        [job[p].row EXCEPT !.status = "DRAWN", !.drawn = SimpleArray(d)]]
         /\ Become(p, [at |-> "FindTickets", game |-> job[p].game, drawn |-> d])
    /\ UNCHANGED tickets

(* settleTickets *)

Pending(g) == {t \in DOMAIN tickets : tickets[t].game = g /\ tickets[t].status = "PENDING"}

FindTickets(p) ==
    /\ job[p].at = "FindTickets"
    /\ LET found == Pending(job[p].game) IN
         Become(p, IF found = {} THEN Idle
                   ELSE [at |-> "Settle", game |-> job[p].game,
                         drawn |-> job[p].drawn, todo |-> found])
    /\ UNCHANGED <<games, tickets>>

\* The ticket t with its columns for the result.
Settled(t, drawn) ==
    LET matches == countMatches(tickets[t].picks, drawn)
        payout  == calculatePayout(tickets[t].stake, Cardinality(tickets[t].picks), matches)
    IN  [tickets[t] EXCEPT !.matches = matches, !.payout = payout,
                           !.status  = IF payout > 0 THEN "WON" ELSE "LOST"]

\* One round of the loop; the rows come in any order.
Settle(p) ==
    /\ job[p].at = "Settle"
    /\ \E t \in job[p].todo :
         /\ tickets' = [tickets EXCEPT ![t] = Settled(t, job[p].drawn)]
         /\ Become(p, IF job[p].todo = {t} THEN Idle
                      ELSE [job[p] EXCEPT !.todo = @ \ {t}])
    /\ UNCHANGED games

\* A query fails or the process dies.
Abort(p) ==
    /\ Failures /\ job[p] # Idle
    /\ Become(p, Idle)
    /\ UNCHANGED <<games, tickets>>

Step(p) ==
    \/ SaveTicket(p)
    \/ SaveDrawing(p) \/ SaveDrawn(p) \/ FindTickets(p) \/ Settle(p)

Next == \E p \in Workers :
          BuyTicket(p) \/ DrawGame(p) \/ Step(p) \/ Abort(p)

Spec == Init /\ [][Next]_vars

\* Requests that have begun are carried on with.
FairSpec == Spec /\ \A p \in Workers : WF_vars(Step(p))

-----------------------------------------------------------------------------
(* Properties. *)

TypeOK ==
    /\ DOMAIN games \subseteq Games /\ DOMAIN tickets \subseteq Tickets
    /\ \A g \in DOMAIN games : games[g] \in Game
    /\ \A t \in DOMAIN tickets : tickets[t] \in Ticket
    /\ \A p \in Workers : job[p] = Idle \/ job[p].at \in
         {"SaveTicket", "SaveDrawing", "SaveDrawn", "FindTickets", "Settle"}

\* No ticket has a result while its game is open for sale.
NoResultWhileOpen ==
    \A t \in DOMAIN tickets :
        tickets[t].status # "PENDING" => games[tickets[t].game].status # "OPEN"

\* A result is final.  Two draws of a game at the same time can find the same
\* ticket and settle it twice, each with its own numbers; both results are the
\* same only because countMatches never counts a match (MatchesAreCounted).
ResultsAreFinal ==
    [][\A t \in DOMAIN tickets :
          tickets[t].status # "PENDING" => tickets'[t] = tickets[t]]_vars

\* A ticket that a dead draw has left pending, or that was saved after the draw
\* had looked for tickets, waits for nothing but another draw of its game: if
\* requests stop failing and the game is drawn again and again, it is settled,
\* whatever other draws and sales go on at the same time.
FailuresStop   == <>[][\A p \in Workers : Abort(p) => Step(p)]_vars
DrawnAgain(g)  == []<>(\E p \in Workers : job[p].at = "SaveDrawing" /\ job[p].game = g)
Waiting(t, g)  == t \in DOMAIN tickets /\ tickets[t].game = g
IsSettled(t)   == t \in DOMAIN tickets /\ tickets[t].status # "PENDING"

LaterDrawSettles ==
    \A g \in Games, t \in Tickets :
        FailuresStop /\ DrawnAgain(g) => (Waiting(t, g) ~> IsSettled(t))

(* What the documents claim. *)

Quiescent == \A p \in Workers : job[p] = Idle

\* docs/architecture.md, section 11: "For each ticket: count matches between
\* selected and drawn numbers".
MatchesAreCounted ==
    \A t \in DOMAIN tickets :
        LET g == games[tickets[t].game] IN
        tickets[t].status # "PENDING" /\ g.status = "DRAWN"
            => tickets[t].matches = Cardinality(tickets[t].picks \cap g.drawn)

\* docs/architecture.md, section 11: the sales window closes before the draw,
\* and each ticket becomes WON or LOST.
EveryTicketIsSettled ==
    Quiescent => \A t \in DOMAIN tickets :
        games[tickets[t].game].status = "DRAWN" => tickets[t].status # "PENDING"

\* docs/architecture.md, section 11: one draw in the life of a game: the
\* numbers of a DRAWN game are final.
DrawIsFinal ==
    [][\A g \in DOMAIN games : games[g].status = "DRAWN" => games'[g] = games[g]]_vars
=============================================================================
