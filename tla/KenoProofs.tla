----------------------------- MODULE KenoProofs -----------------------------
(* Theorems about Keno, for any requests, games, tickets and balls.        *)
EXTENDS Keno, FiniteSetTheorems, TLAPS

-----------------------------------------------------------------------------
(* The inductive invariant.                                                *)

\* A stored ticket is pending or lost, with nothing matched and nothing paid.
StoredTicket ==
    [game : DOMAIN games, picks : (SUBSET Texts) \ {{}}, stake : Nat \ {0},
     status : {"PENDING", "LOST"}, matches : {0}, payout : {0}]

Jobs ==
    {Idle}
    \cup [at : {"SaveTicket"}, game : DOMAIN games, picks : Picks]
    \cup [at : {"SaveDrawing", "SaveDrawn"}, game : DOMAIN games, row : Game]
    \cup [at : {"FindTickets"}, game : DOMAIN games, drawn : SUBSET Balls]
    \cup [at : {"Settle"}, game : DOMAIN games, drawn : SUBSET Balls, todo : SUBSET DOMAIN tickets]

Typed ==
    /\ DOMAIN games \subseteq Games /\ games \in [DOMAIN games -> Game]
    /\ DOMAIN tickets \subseteq Tickets /\ tickets \in [DOMAIN tickets -> StoredTicket]
    /\ job \in [Workers -> Jobs]

\* A request that has saved DRAWING works on a game that is not open, and it
\* settles tickets of that game only.
SalesOver ==
    \A p \in Workers :
        /\ job[p].at \in {"SaveDrawn", "FindTickets", "Settle"} => games[job[p].game].status # "OPEN"
        /\ job[p].at = "Settle" => \A t \in job[p].todo : tickets[t].game = job[p].game

IInv == Typed /\ SalesOver /\ NoResultWhileOpen

-----------------------------------------------------------------------------
(* Lemmas about the operators.                                             *)

\* A number is not a string.
LEMMA TextIsNoBall == Texts \cap Balls = {}
BY SMT DEF Texts, Balls, Text, Ball

\* What is read back of a legal selection: some strings.
LEMMA ReadBack == ASSUME NEW s \in Picks
                  PROVE  SimpleArray(s) \in (SUBSET Texts) \ {{}}
<1>1. s \subseteq Balls /\ Cardinality(s) \in 1..MaxSpots
  BY DEF Picks
<1>2. s # {}
  <2>1. Cardinality({}) = 0
    BY FS_EmptySet
  <2>2. QED
    BY <1>1, <2>1, KenoAssumption, SMT
<1>3. QED
  BY <1>1, <1>2 DEF SimpleArray, Texts

\* Settling a stored ticket makes it a lost one: no number is ever matched.
LEMMA SettledIsLost == ASSUME Typed, NEW t \in DOMAIN tickets, NEW drawn \in SUBSET Balls
                       PROVE  Settled(t, drawn) =
                                [tickets[t] EXCEPT !.matches = 0, !.payout = 0, !.status = "LOST"]
<1> DEFINE row == tickets[t]
<1>1. row \in StoredTicket
  BY DEF Typed
<1>2. row.picks \subseteq Texts /\ row.picks # {}
  BY <1>1, SMT DEF StoredTicket
<1>3. countMatches(row.picks, drawn) = 0
  <2>1. row.picks \cap drawn = {}
    BY <1>2, TextIsNoBall
  <2>2. QED
    BY <2>1, FS_EmptySet DEF countMatches
<1>4. Cardinality(row.picks) # 0
  <2>1. IsFiniteSet(Texts)
    <3>1. IsFiniteSet(1..MaxBall)
      <4>1. 1 \in Int /\ MaxBall \in Int
        BY KenoAssumption
      <4>2. QED
        BY <4>1, FS_Interval
    <3>2. IsFiniteSet({[n \in 1..MaxBall |-> Text(Ball(n))][m] : m \in 1..MaxBall})
      <4> DEFINE f == [n \in 1..MaxBall |-> Text(Ball(n))]
      <4>1. f \in [1..MaxBall -> {f[n] : n \in 1..MaxBall}]
        OBVIOUS
      <4>2. \A y \in {f[n] : n \in 1..MaxBall} : \E x \in 1..MaxBall : f[x] = y
        OBVIOUS
      <4>3. f \in Surjection(1..MaxBall, {f[n] : n \in 1..MaxBall})
        BY <4>1, <4>2 DEF Surjection
      <4> HIDE DEF f
      <4>4. IsFiniteSet({f[n] : n \in 1..MaxBall})
        BY <3>1, <4>3, FS_Surjection
      <4>5. QED
        BY <4>4 DEF f
    <3>3. Texts = {[n \in 1..MaxBall |-> Text(Ball(n))][m] : m \in 1..MaxBall}
      BY SMT DEF Texts, Balls
    <3>4. QED
      BY <3>2, <3>3
  <2>2. IsFiniteSet(row.picks)
    BY <1>2, <2>1, FS_Subset
  <2>3. QED
    BY <2>2, <1>2, FS_EmptySet
<1>5. calculatePayout(row.stake, Cardinality(row.picks), 0) = 0
  BY <1>4 DEF calculatePayout
<1>6. Settled(t, drawn) = [row EXCEPT !.matches = 0, !.payout = 0,
                                       !.status = IF 0 > 0 THEN "WON" ELSE "LOST"]
  BY <1>3, <1>5 DEF Settled
<1>7. QED
  BY <1>6

-----------------------------------------------------------------------------
(* Induction.                                                              *)

LEMMA InitIInv == Init => IInv
<1> SUFFICES ASSUME Init PROVE IInv
  OBVIOUS
<1>1. Typed
  BY SMT DEF Init, Typed, Game, StoredTicket, Jobs, Texts
<1>2. SalesOver /\ NoResultWhileOpen
  BY SMT DEF Init, SalesOver, NoResultWhileOpen, Idle
<1>3. QED
  BY <1>1, <1>2 DEF IInv

\* A request that begins, or ends, leaves the rows alone.
LEMMA MoveStep == ASSUME IInv, NEW p \in Workers, NEW j \in Jobs, Become(p, j),
                         UNCHANGED <<games, tickets>>,
                         j.at \in {"SaveDrawn", "FindTickets", "Settle"} =>
                            games[j.game].status # "OPEN",
                         j.at = "Settle" => \A t \in j.todo : tickets[t].game = j.game
                  PROVE  IInv'
<1>1. Jobs' = Jobs /\ StoredTicket' = StoredTicket
  BY DEF Jobs, StoredTicket
<1>2. job' \in [Workers -> Jobs]
  BY DEF IInv, Typed, Become
<1>3. Typed'
  BY <1>1, <1>2 DEF IInv, Typed
<1>4. SalesOver'
  <2> SUFFICES ASSUME NEW q \in Workers
               PROVE  /\ job'[q].at \in {"SaveDrawn", "FindTickets", "Settle"} =>
                            games[job'[q].game].status # "OPEN"
                      /\ job'[q].at = "Settle" =>
                            \A t \in job'[q].todo : tickets[t].game = job'[q].game
    BY DEF SalesOver
  <2>1. job'[q] = IF q = p THEN j ELSE job[q]
    BY DEF IInv, Typed, Become
  <2>2. CASE q = p
    BY <2>1, <2>2
  <2>3. CASE q # p
    BY <2>1, <2>3 DEF IInv, SalesOver
  <2>4. QED
    BY <2>2, <2>3
<1>5. NoResultWhileOpen'
  BY DEF IInv, NoResultWhileOpen
<1>6. QED
  BY <1>3, <1>4, <1>5 DEF IInv

LEMMA SaveTicketStep == ASSUME IInv, NEW p \in Workers, SaveTicket(p) PROVE IInv'
<1>1. PICK t \in Tickets \ DOMAIN tickets :
         tickets' = Put(tickets, t,
            [game |-> job[p].game, picks |-> SimpleArray(job[p].picks), stake |-> 1,
             status |-> "PENDING", matches |-> 0, payout |-> 0])
  BY DEF SaveTicket
<1> DEFINE row == [game |-> job[p].game, picks |-> SimpleArray(job[p].picks), stake |-> 1,
                   status |-> "PENDING", matches |-> 0, payout |-> 0]
<1>2. job[p] \in [at : {"SaveTicket"}, game : DOMAIN games, picks : Picks]
  BY SMT DEF SaveTicket, IInv, Typed, Jobs, Idle
<1>3. row \in StoredTicket
  <2>1. SimpleArray(job[p].picks) \in (SUBSET Texts) \ {{}}
    BY <1>2, ReadBack
  <2>2. QED
    BY <1>2, <2>1 DEF StoredTicket
<1>4. /\ DOMAIN tickets' = DOMAIN tickets \cup {t} /\ tickets'[t] = row
      /\ \A u \in DOMAIN tickets : tickets'[u] = tickets[u] /\ u # t
      /\ tickets' \in [DOMAIN tickets' -> StoredTicket]
  BY <1>1, <1>3 DEF Put, IInv, Typed
<1>5. games' = games /\ StoredTicket' = StoredTicket /\ job' = [job EXCEPT ![p] = Idle]
  BY DEF SaveTicket, StoredTicket, Become
<1>6. \A q \in Workers : job'[q] = Idle \/ job'[q] = job[q]
  BY <1>5 DEF IInv, Typed
<1>7. Typed'
  <2>1. Jobs \subseteq Jobs'
    BY <1>4, <1>5, SMT DEF Jobs
  <2>2. Idle \in Jobs
    BY DEF Jobs
  <2>3. job' \in [Workers -> Jobs']
    BY <1>5, <2>1, <2>2 DEF IInv, Typed
  <2>4. QED
    BY <1>4, <1>5, <2>3 DEF IInv, Typed
<1>8. SalesOver'
  <2> SUFFICES ASSUME NEW q \in Workers
               PROVE  /\ job'[q].at \in {"SaveDrawn", "FindTickets", "Settle"} =>
                            games[job'[q].game].status # "OPEN"
                      /\ job'[q].at = "Settle" =>
                            \A u \in job'[q].todo : tickets'[u].game = job'[q].game
    BY <1>5 DEF SalesOver
  <2>1. CASE job'[q] = Idle
    BY <2>1 DEF Idle
  <2>2. CASE job'[q] = job[q]
    <3>1. job[q].at = "Settle" => job[q].todo \subseteq DOMAIN tickets
      BY SMT DEF IInv, Typed, Jobs, Idle
    <3>2. QED
      BY <2>2, <3>1, <1>4 DEF IInv, SalesOver
  <2>3. QED
    BY <1>6, <2>1, <2>2
<1>9. NoResultWhileOpen'
  BY <1>4, <1>5 DEF IInv, NoResultWhileOpen
<1>10. QED
  BY <1>7, <1>8, <1>9 DEF IInv

\* A save of a game keeps it closed, or closes it.
LEMMA SaveGameStep == ASSUME IInv, NEW p \in Workers, NEW g \in DOMAIN games, NEW r \in Game,
                             r.status # "OPEN", games' = [games EXCEPT ![g] = r],
                             NEW j \in Jobs, Become(p, j), j # Idle, j.game = g, j.at # "Settle",
                             UNCHANGED tickets
                      PROVE  IInv'
<1>1. /\ DOMAIN games' = DOMAIN games /\ games' \in [DOMAIN games -> Game]
      /\ games'[g].status # "OPEN"
      /\ \A h \in DOMAIN games : games[h].status # "OPEN" => games'[h].status # "OPEN"
  BY DEF IInv, Typed
<1>2. Jobs' = Jobs /\ StoredTicket' = StoredTicket
  BY <1>1 DEF Jobs, StoredTicket
<1>3. \A q \in Workers : job'[q] = IF q = p THEN j ELSE job[q]
  BY DEF IInv, Typed, Become
<1>4. Typed'
  <2>1. job' \in [Workers -> Jobs]
    BY DEF IInv, Typed, Become
  <2>2. QED
    BY <1>1, <1>2, <2>1 DEF IInv, Typed
<1>5. SalesOver'
  <2> SUFFICES ASSUME NEW q \in Workers
               PROVE  /\ job'[q].at \in {"SaveDrawn", "FindTickets", "Settle"} =>
                            games'[job'[q].game].status # "OPEN"
                      /\ job'[q].at = "Settle" =>
                            \A t \in job'[q].todo : tickets[t].game = job'[q].game
    BY DEF SalesOver
  <2>1. CASE q = p
    BY <2>1, <1>1, <1>3
  <2>2. CASE q # p
    <3>1. job[q].at \in {"SaveDrawn", "FindTickets", "Settle"} => job[q].game \in DOMAIN games
      BY SMT DEF IInv, Typed, Jobs, Idle
    <3>2. QED
      BY <2>2, <3>1, <1>1, <1>3 DEF IInv, SalesOver
  <2>3. QED
    BY <2>1, <2>2
<1>6. NoResultWhileOpen'
  <2>1. \A t \in DOMAIN tickets : tickets[t].game \in DOMAIN games
    BY SMT DEF IInv, Typed, StoredTicket
  <2>2. QED
    BY <1>1, <2>1 DEF IInv, NoResultWhileOpen
<1>7. QED
  BY <1>4, <1>5, <1>6 DEF IInv

LEMMA SaveDrawingStep == ASSUME IInv, NEW p \in Workers, SaveDrawing(p) PROVE IInv'
<1>1. job[p] \in [at : {"SaveDrawing", "SaveDrawn"}, game : DOMAIN games, row : Game]
  BY SMT DEF SaveDrawing, IInv, Typed, Jobs, Idle
<1> DEFINE r == [job[p].row EXCEPT !.status = "DRAWING"]
           j == [job[p] EXCEPT !.at = "SaveDrawn"]
<1>2. r \in Game /\ r.status = "DRAWING"
  BY <1>1 DEF Game
<1>3. /\ j \in [at : {"SaveDrawing", "SaveDrawn"}, game : DOMAIN games, row : Game]
      /\ j.at = "SaveDrawn" /\ j.game = job[p].game
  BY <1>1
<1>4. j \in Jobs /\ j # Idle
  BY <1>3 DEF Jobs, Idle
<1>5. /\ games' = [games EXCEPT ![job[p].game] = r] /\ Become(p, j)
      /\ UNCHANGED tickets /\ job[p].game \in DOMAIN games
  BY <1>1 DEF SaveDrawing
<1> HIDE DEF r, j
<1>6. QED
  BY <1>2, <1>3, <1>4, <1>5, SaveGameStep

LEMMA SaveDrawnStep == ASSUME IInv, NEW p \in Workers, SaveDrawn(p) PROVE IInv'
<1>1. job[p] \in [at : {"SaveDrawing", "SaveDrawn"}, game : DOMAIN games, row : Game]
  BY SMT DEF SaveDrawn, IInv, Typed, Jobs, Idle
<1>2. PICK d \in Draws :
         /\ games' = [games EXCEPT ![job[p].game] =
                        [job[p].row EXCEPT !.status = "DRAWN", !.drawn = SimpleArray(d)]]
         /\ Become(p, [at |-> "FindTickets", game |-> job[p].game, drawn |-> d])
  BY DEF SaveDrawn
<1> DEFINE r == [job[p].row EXCEPT !.status = "DRAWN", !.drawn = SimpleArray(d)]
           j == [at |-> "FindTickets", game |-> job[p].game, drawn |-> d]
<1>3. d \subseteq Balls /\ SimpleArray(d) \subseteq Texts
  BY DEF Draws, SimpleArray, Texts
<1>4. r \in Game /\ r.status = "DRAWN"
  BY <1>1, <1>3 DEF Game
<1>5. j \in Jobs /\ j # Idle /\ j.at = "FindTickets" /\ j.game = job[p].game
  BY <1>1, <1>3 DEF Jobs, Idle
<1>6. UNCHANGED tickets /\ job[p].game \in DOMAIN games
  BY <1>1 DEF SaveDrawn
<1>7. games' = [games EXCEPT ![job[p].game] = r] /\ Become(p, j)
  BY <1>2
<1> HIDE DEF r, j
<1>8. QED
  BY <1>4, <1>5, <1>6, <1>7, SaveGameStep

LEMMA FindTicketsStep == ASSUME IInv, NEW p \in Workers, FindTickets(p) PROVE IInv'
<1>1. job[p] \in [at : {"FindTickets"}, game : DOMAIN games, drawn : SUBSET Balls]
  BY SMT DEF FindTickets, IInv, Typed, Jobs, Idle
<1>2. Pending(job[p].game) \subseteq DOMAIN tickets
      /\ \A t \in Pending(job[p].game) : tickets[t].game = job[p].game
  BY DEF Pending
<1>3. games[job[p].game].status # "OPEN"
  BY <1>1 DEF IInv, SalesOver
<1>4. CASE Pending(job[p].game) = {}
  <2>1. Become(p, Idle) /\ UNCHANGED <<games, tickets>>
    BY <1>4 DEF FindTickets
  <2>2. Idle \in Jobs /\ Idle.at = "Idle"
    BY DEF Jobs, Idle
  <2>3. QED
    BY <2>1, <2>2, MoveStep
<1>5. CASE Pending(job[p].game) # {}
  <2> DEFINE j == [at |-> "Settle", game |-> job[p].game,
                   drawn |-> job[p].drawn, todo |-> Pending(job[p].game)]
  <2>1. Become(p, j) /\ UNCHANGED <<games, tickets>>
    BY <1>5 DEF FindTickets
  <2>2. j \in Jobs /\ j.game = job[p].game /\ j.todo = Pending(job[p].game)
    BY <1>1, <1>2 DEF Jobs
  <2> HIDE DEF j
  <2>3. QED
    BY <1>2, <1>3, <2>1, <2>2, MoveStep
<1>6. QED
  BY <1>4, <1>5

LEMMA SettleStep == ASSUME IInv, NEW p \in Workers, Settle(p)
                    PROVE  /\ IInv'
                           /\ \A u \in DOMAIN tickets :
                                tickets[u].status # "PENDING" => tickets'[u] = tickets[u]
<1>1. job[p] \in [at : {"Settle"}, game : DOMAIN games, drawn : SUBSET Balls,
                  todo : SUBSET DOMAIN tickets]
  BY SMT DEF Settle, IInv, Typed, Jobs, Idle
<1>2. PICK t \in job[p].todo :
         /\ tickets' = [tickets EXCEPT ![t] = Settled(t, job[p].drawn)]
         /\ Become(p, IF job[p].todo = {t} THEN Idle
                      ELSE [job[p] EXCEPT !.todo = @ \ {t}])
  BY DEF Settle
<1> DEFINE row == [tickets[t] EXCEPT !.matches = 0, !.payout = 0, !.status = "LOST"]
<1>3. t \in DOMAIN tickets /\ tickets[t] \in StoredTicket
  BY <1>1 DEF IInv, Typed
<1>4. tickets' = [tickets EXCEPT ![t] = row]
  BY <1>1, <1>2, <1>3, SettledIsLost DEF IInv
<1>5. /\ row \in StoredTicket /\ row.game = tickets[t].game
      /\ tickets[t].status # "PENDING" => row = tickets[t]
  <2>1. row \in StoredTicket /\ row.game = tickets[t].game
    BY <1>3 DEF StoredTicket
  <2>2. ASSUME tickets[t].status # "PENDING" PROVE row = tickets[t]
    <3>1. tickets[t].matches = 0 /\ tickets[t].payout = 0 /\ tickets[t].status = "LOST"
      BY <1>3, <2>2 DEF StoredTicket
    <3>2. [tickets[t] EXCEPT !.matches = tickets[t].matches, !.payout = tickets[t].payout,
                             !.status = tickets[t].status] = tickets[t]
      BY <1>3, Zenon DEF StoredTicket
    <3>3. QED
      BY <3>1, <3>2
  <2>3. QED
    BY <2>1, <2>2
<1> HIDE DEF row
<1>6. /\ DOMAIN tickets' = DOMAIN tickets /\ tickets' \in [DOMAIN tickets -> StoredTicket]
      /\ \A u \in DOMAIN tickets :
            tickets'[u] = (IF u = t THEN row ELSE tickets[u]) /\ tickets'[u].game = tickets[u].game
  BY <1>3, <1>4, <1>5 DEF IInv, Typed
<1>7. games' = games
  BY DEF Settle
<1>8. Jobs' = Jobs /\ StoredTicket' = StoredTicket
  BY <1>6, <1>7 DEF Jobs, StoredTicket
<1>9. PICK j \in Jobs : /\ job' = [job EXCEPT ![p] = j]
                        /\ j = Idle \/ (j.at = "Settle" /\ j.game = job[p].game
                                          /\ j.todo \subseteq job[p].todo)
  <2> DEFINE k == [job[p] EXCEPT !.todo = @ \ {t}]
  <2>1. k \in Jobs /\ k.at = "Settle" /\ k.game = job[p].game /\ k.todo \subseteq job[p].todo
    <3>1. k \in [at : {"Settle"}, game : DOMAIN games, drawn : SUBSET Balls,
                 todo : SUBSET DOMAIN tickets]
      BY <1>1
    <3>2. QED
      BY <1>1, <3>1 DEF Jobs
  <2>2. Idle \in Jobs
    BY DEF Jobs
  <2> HIDE DEF k
  <2>3. job' = [job EXCEPT ![p] = Idle] \/ job' = [job EXCEPT ![p] = k]
    BY <1>2 DEF Become, k
  <2>4. QED
    BY <2>1, <2>2, <2>3
<1>10. \A q \in Workers : job'[q] = IF q = p THEN j ELSE job[q]
  BY <1>9 DEF IInv, Typed
<1>11. Typed'
  <2>1. job' \in [Workers -> Jobs]
    BY <1>9 DEF IInv, Typed
  <2>2. QED
    BY <2>1, <1>6, <1>7, <1>8 DEF IInv, Typed
<1>12. SalesOver'
  <2> SUFFICES ASSUME NEW q \in Workers
               PROVE  /\ job'[q].at \in {"SaveDrawn", "FindTickets", "Settle"} =>
                            games[job'[q].game].status # "OPEN"
                      /\ job'[q].at = "Settle" =>
                            \A u \in job'[q].todo : tickets'[u].game = job'[q].game
    BY <1>7 DEF SalesOver
  <2>1. \A q1 \in Workers : job[q1].at = "Settle" => job[q1].todo \subseteq DOMAIN tickets
    BY SMT DEF IInv, Typed, Jobs, Idle
  <2>2. CASE q = p
    <3>1. games[job[p].game].status # "OPEN"
          /\ \A u \in job[p].todo : tickets[u].game = job[p].game
      BY <1>1 DEF IInv, SalesOver
    <3>2. CASE j = Idle
      BY <2>2, <3>2, <1>10 DEF Idle
    <3>3. CASE j # Idle
      BY <2>2, <3>1, <3>3, <1>1, <1>6, <1>9, <1>10
    <3>4. QED
      BY <3>2, <3>3
  <2>3. CASE q # p
    BY <2>1, <2>3, <1>6, <1>10 DEF IInv, SalesOver
  <2>4. QED
    BY <2>2, <2>3
<1>13. NoResultWhileOpen'
  <2>1. games[tickets[t].game].status # "OPEN"
    BY <1>1 DEF IInv, SalesOver
  <2>2. QED
    BY <2>1, <1>6, <1>7 DEF IInv, NoResultWhileOpen
<1>14. \A u \in DOMAIN tickets : tickets[u].status # "PENDING" => tickets'[u] = tickets[u]
  BY <1>5, <1>6
<1>15. QED
  BY <1>11, <1>12, <1>13, <1>14 DEF IInv

LEMMA NextIInv == ASSUME IInv, [Next]_vars PROVE IInv'
<1>1. CASE UNCHANGED vars
  <2>1. Jobs' = Jobs /\ StoredTicket' = StoredTicket
    BY <1>1 DEF vars, Jobs, StoredTicket
  <2>2. QED
    BY <1>1, <2>1 DEF vars, IInv, Typed, SalesOver, NoResultWhileOpen
<1>2. ASSUME NEW p \in Workers, BuyTicket(p) PROVE IInv'
  <2>1. PICK g \in DOMAIN games, s \in Picks :
           Become(p, [at |-> "SaveTicket", game |-> g, picks |-> s])
    BY <1>2 DEF BuyTicket
  <2> DEFINE j == [at |-> "SaveTicket", game |-> g, picks |-> s]
  <2>2. j \in Jobs /\ j.at = "SaveTicket"
    BY DEF Jobs
  <2>3. Become(p, j) /\ UNCHANGED <<games, tickets>>
    BY <1>2, <2>1 DEF BuyTicket
  <2> HIDE DEF j
  <2>4. QED
    BY <2>2, <2>3, MoveStep
<1>3. ASSUME NEW p \in Workers, DrawGame(p) PROVE IInv'
  <2>1. PICK g \in DOMAIN games : Become(p, [at |-> "SaveDrawing", game |-> g, row |-> games[g]])
    BY <1>3 DEF DrawGame
  <2> DEFINE j == [at |-> "SaveDrawing", game |-> g, row |-> games[g]]
  <2>2. j \in Jobs /\ j.at = "SaveDrawing"
    BY DEF IInv, Typed, Jobs
  <2>3. Become(p, j) /\ UNCHANGED <<games, tickets>>
    BY <1>3, <2>1 DEF DrawGame
  <2> HIDE DEF j
  <2>4. QED
    BY <2>2, <2>3, MoveStep
<1>4. ASSUME NEW p \in Workers, Abort(p) PROVE IInv'
  <2>1. Idle \in Jobs /\ Idle.at = "Idle"
    BY DEF Jobs, Idle
  <2>2. Become(p, Idle) /\ UNCHANGED <<games, tickets>>
    BY <1>4 DEF Abort
  <2>3. QED
    BY <2>1, <2>2, MoveStep
<1>5. ASSUME NEW p \in Workers, Step(p) PROVE IInv'
  BY <1>5, SaveTicketStep, SaveDrawingStep, SaveDrawnStep, FindTicketsStep, SettleStep DEF Step
<1>6. QED
  BY <1>1, <1>2, <1>3, <1>4, <1>5 DEF Next

LEMMA Invariance == Spec => []IInv
BY InitIInv, NextIInv, PTL DEF Spec

-----------------------------------------------------------------------------
(* Theorems.                                                               *)

\* Type correctness: drawGame, buyTicket and settleTickets keep the rows of
\* keno_games and keno_tickets, and the requests in flight, in shape.
THEOREM TypeCorrect == Spec => []TypeOK
<1>1. IInv => TypeOK
  <2> SUFFICES ASSUME IInv PROVE TypeOK
    OBVIOUS
  <2>1. StoredTicket \subseteq Ticket
    BY SMT DEF IInv, Typed, StoredTicket, Ticket
  <2>2. \A p \in Workers : job[p] = Idle \/ job[p].at \in
         {"SaveTicket", "SaveDrawing", "SaveDrawn", "FindTickets", "Settle"}
    BY SMT DEF IInv, Typed, Jobs
  <2>3. QED
    BY <2>1, <2>2 DEF IInv, Typed, TypeOK
<1>2. QED
  BY Invariance, <1>1, PTL

\* drawGame closes the sale for good before settleTickets writes a result.
THEOREM NoEarlyResult == Spec => []NoResultWhileOpen
<1>1. IInv => NoResultWhileOpen
  BY DEF IInv
<1>2. QED
  BY Invariance, <1>1, PTL

\* settleTickets never changes a result: as the code counts matches, each
\* ticket it writes, however often, is lost with nothing matched.
THEOREM ResultsStay == Spec => ResultsAreFinal
<1>1. ASSUME IInv, [Next]_vars
      PROVE  [\A t \in DOMAIN tickets :
                tickets[t].status # "PENDING" => tickets'[t] = tickets[t]]_vars
  <2>1. CASE UNCHANGED tickets
    BY <2>1
  <2>2. ASSUME NEW p \in Workers, SaveTicket(p)
        PROVE  \A t \in DOMAIN tickets : tickets'[t] = tickets[t]
    BY <2>2 DEF SaveTicket, Put
  <2>3. ASSUME NEW p \in Workers, Settle(p)
        PROVE  \A t \in DOMAIN tickets :
                 tickets[t].status # "PENDING" => tickets'[t] = tickets[t]
    BY <2>3, <1>1, SettleStep
  <2>4. QED
    BY <1>1, <2>1, <2>2, <2>3
      DEF Next, Step, BuyTicket, DrawGame, Abort, SaveDrawing, SaveDrawn, FindTickets, vars
<1>2. QED
  BY Invariance, <1>1, PTL DEF Spec, ResultsAreFinal
=============================================================================
