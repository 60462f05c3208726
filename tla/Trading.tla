------------------------------ MODULE Trading -------------------------------
(***************************************************************************)
(* Orders, the order book and positions of one active instrument:          *)
(* apps/trading-api/src/orders with packages/trading.                      *)
(*                                                                         *)
(* A worker is one request in flight; any other can overtake it at each of *)
(* its awaits.  Orders, trades and positions are rows in PostgreSQL, the   *)
(* book is a pair of Redis sorted sets, and no transaction or lock spans   *)
(* two of these writes.  A save of an order that was loaded or created     *)
(* before writes its status, whatever was stored since.                    *)
(***************************************************************************)
EXTENDS Integers, Sequences, FiniteSets

CONSTANTS
    Workers, Users,
    Orders,        \* order ids; Redis orders equal scores by id
    Types,         \* of the orders that are placed: "MARKET", or those that rest
    Quantities,    \* of the orders that are placed
    Prices,        \* of the orders that are placed
    Lot,           \* what one fill takes at most (1 in the code, here in parts of it)
    MaxQuantity,   \* RiskLimits.maxOrderQuantity
    MaxPosition,   \* RiskLimits.maxPositionPerInstrument
    MaxFailures    \* bound: no request fails once so many orders had one that did

ASSUME TradingAssumption ==
    /\ Orders \subseteq Int /\ Prices \subseteq Nat /\ Quantities \subseteq Nat \ {0}
    /\ IsFiniteSet(Orders)
    /\ Types \subseteq {"MARKET", "LIMIT", "STOP_LIMIT", "IOC"}
    /\ Lot \in Nat \ {0} /\ MaxQuantity \in Nat /\ MaxPosition \in Nat
    /\ MaxFailures \in Nat

VARIABLES
    orders,      \* rows of orders by id
    book,        \* the scores of the orders in ob:<symbol>:bids and ob:<symbol>:asks
    trades,      \* rows of trades
    positions,   \* quantity of the row of positions by user
    job,         \* what each worker is doing
    failed       \* history: the orders that a request was at work on when it failed

vars == <<orders, book, trades, positions, job, failed>>

NoPrice == -1    \* price is optional for every type of order

Status == {"PENDING", "OPEN", "PARTIALLY_FILLED", "FILLED", "CANCELLED"}

\* The price of a market order is read by nobody, so it has none here.
PlaceOrderDto ==
    {dto \in [side : {"BUY", "SELL"}, type : Types, quantity : Quantities,
              price : Prices \cup {NoPrice}] :
        dto.type = "MARKET" => dto.price = NoPrice}

\* created is the place of the row in the order of createdAt.
Order == [user : Users, side : {"BUY", "SELL"}, type : Types, quantity : Quantities,
          price : Prices \cup {NoPrice}, status : Status, created : Nat \ {0}]

\* An order without a price has price null in its row, and Number(null) is 0.
Scores == Prices \cup {0}

Trade == [buy : Orders, sell : Orders, quantity : 1..Lot, price : Scores]

\* The quantity of a row of positions, which is unique for (user, instrument).
\* avgEntryPrice and unrealizedPnl are written with it and read by nobody else.
Position == Int

Idle == [at |-> "Idle"]

-----------------------------------------------------------------------------

Init ==
    /\ orders    = [o \in {} |-> 0]
    /\ book      = [o \in {} |-> 0]
    /\ trades    = <<>>
    /\ positions = [u \in {} |-> 0]
    /\ job       = [p \in Workers |-> Idle]
    /\ failed    = {}

Put(rows, id, row) == [i \in DOMAIN rows \cup {id} |-> IF i = id THEN row ELSE rows[i]]

Become(p, j) == job' = [job EXCEPT ![p] = j] /\ UNCHANGED failed

\* The keys position:<user>:<instrument> and dailyloss:<user>:<day> that the
\* check reads are written by nobody: position and loss count as zero.
checkOrder(u, quantity) == quantity <= MaxQuantity /\ 0 + quantity <= MaxPosition

(* placeOrder *)

\* Orders is a bound: no order is placed that there is no id left for.
PlaceOrder(p) ==
    /\ job[p] = Idle
    /\ Cardinality({q \in Workers : job[q].at = "SaveOrder"}) < Cardinality(Orders \ DOMAIN orders)
    /\ \E u \in Users, dto \in PlaceOrderDto :
         /\ checkOrder(u, dto.quantity)
         /\ Become(p, [at |-> "SaveOrder", user |-> u, side |-> dto.side, type |-> dto.type,
                       quantity |-> dto.quantity, price |-> dto.price])
    /\ UNCHANGED <<orders, book, trades, positions>>

\* The market order o with left still to fill: on with the loop, or out of it.
Fill(o, left) ==
    IF left > 0 THEN [at |-> "GetBest", order |-> o, left |-> left]
                ELSE [at |-> "SaveStatus", order |-> o, left |-> left]

SaveOrder(p) ==
    /\ job[p].at = "SaveOrder"
    /\ \E o \in Orders \ DOMAIN orders :
         /\ orders' = Put(orders, o,
              [user |-> job[p].user, side |-> job[p].side, type |-> job[p].type,
               quantity |-> job[p].quantity, price |-> job[p].price,
               status |-> IF job[p].type = "MARKET" THEN "OPEN" ELSE "PENDING",
               created |-> Cardinality(DOMAIN orders) + 1])
         /\ Become(p, IF job[p].type = "MARKET" THEN Fill(o, job[p].quantity)
                      ELSE [at |-> "AddToBook", order |-> o])
    /\ UNCHANGED <<book, trades, positions>>

(* insertRestingOrder: orders of every type but MARKET rest at once. *)

\* What ZADD is given: an order without a price rests at 0, as the best ask or
\* the last of the bids.
MarkerScore(o) == orders[o].price    \* mutant: no price keeps its marker
Score(o)       == IF orders[o].price = NoPrice THEN 0 ELSE orders[o].price

AddToBook(p) ==
    /\ job[p].at = "AddToBook"
    /\ book' = Put(book, job[p].order, Score(job[p].order))
    /\ Become(p, [at |-> "SaveOpen", order |-> job[p].order])
    /\ UNCHANGED <<orders, trades, positions>>

SetStatus(o, status) == orders' = [orders EXCEPT ![o].status = status]

SaveOpen(p) ==
    /\ job[p].at = "SaveOpen"
    /\ SetStatus(job[p].order, "OPEN")
    /\ Become(p, Idle)
    /\ UNCHANGED <<book, trades, positions>>

(* executeMarketOrder *)

OnBook(side) == {o \in DOMAIN book : orders[o].side = side}

\* The first of zrange or zrevrange, or nothing: equal scores are ordered by id.
Before(x, y) == book[x] < book[y] \/ (book[x] = book[y] /\ x <= y)

getBestAsk == {o \in OnBook("SELL") : \A x \in OnBook("SELL") : Before(o, x)}

getBestBid == {o \in OnBook("BUY") : \A x \in OnBook("BUY") : Before(x, o)}

\* Nothing on the other side ends the loop.
Wait(p)      == job[p]    \* mutant: the order waits for the other side to fill
BreakLoop(p) == [at |-> "SaveStatus", order |-> job[p].order, left |-> job[p].left]

GetBest(p) ==
    /\ job[p].at = "GetBest"
    /\ LET j == job[p]
           best == IF orders[j.order].side = "BUY" THEN getBestAsk ELSE getBestBid
       IN  \/ best = {} /\ Become(p, BreakLoop(p))
           \/ \E o \in best :
                Become(p, [at |-> "SaveTrade", order |-> j.order, left |-> j.left,
                           resting |-> o, price |-> book[o]])
    /\ UNCHANGED <<orders, book, trades, positions>>

\* The updates of positions that a trade calls for, of its buyer and its seller.
WholeLegs(buy, sell, quantity) ==    \* mutant: positions move by the whole order
    <<[user |-> orders[buy].user, delta |-> orders[buy].quantity],
      [user |-> orders[sell].user, delta |-> -orders[sell].quantity]>>
BuyerOnly(buy, sell, quantity) ==    \* mutant: the seller's own request does its part
    <<[user |-> orders[buy].user, delta |-> quantity]>>
Legs(buy, sell, quantity) ==
    <<[user |-> orders[buy].user, delta |-> quantity],
      [user |-> orders[sell].user, delta |-> -quantity]>>

\* createTrade.  Neither the book nor the resting order changes.
SaveTrade(p) ==
    /\ job[p].at = "SaveTrade"
    /\ LET j == job[p]
           quantity == IF j.left < Lot THEN j.left ELSE Lot
           isBuy == orders[j.order].side = "BUY"
           buy == IF isBuy THEN j.order ELSE j.resting
           sell == IF isBuy THEN j.resting ELSE j.order
       IN  /\ trades' = Append(trades, [buy |-> buy, sell |-> sell,
                                        quantity |-> quantity, price |-> j.price])
           /\ Become(p, [at |-> "FindPosition", order |-> j.order, left |-> j.left - quantity,
                         legs |-> Legs(buy, sell, quantity)])
    /\ UNCHANGED <<orders, book, positions>>

(* positionService.upsert, of the buyer and then of the seller *)

Quantity(u) == IF u \in DOMAIN positions THEN positions[u] ELSE 0

FindPosition(p) ==
    /\ job[p].at = "FindPosition"
    /\ LET u == Head(job[p].legs).user IN
         Become(p, [at |-> "SavePosition", order |-> job[p].order, left |-> job[p].left,
                    legs |-> job[p].legs,
                    known |-> u \in DOMAIN positions, seen |-> Quantity(u)])
    /\ UNCHANGED <<orders, book, trades, positions>>

\* The second of two first inserts fails.
SavePosition(p) ==
    /\ job[p].at = "SavePosition"
    /\ LET j == job[p]
           u == Head(j.legs).user
       IN  IF ~j.known /\ u \in DOMAIN positions
           THEN Become(p, Idle) /\ UNCHANGED positions
           ELSE /\ positions' = Put(positions, u, j.seen + Head(j.legs).delta)
                /\ Become(p, IF Len(j.legs) = 1 THEN Fill(j.order, j.left)
                             ELSE [at |-> "FindPosition", order |-> j.order,
                                   left |-> j.left, legs |-> Tail(j.legs)])
    /\ UNCHANGED <<orders, book, trades>>

\* What the order o with left still to fill has come to.
AnyFillIsAll(o, left) ==    \* mutant
    IF left < orders[o].quantity THEN "FILLED" ELSE "CANCELLED"
FinalStatus(o, left) ==
    IF left = 0 THEN "FILLED"
    ELSE IF left < orders[o].quantity THEN "PARTIALLY_FILLED" ELSE "CANCELLED"

SaveStatus(p) ==
    /\ job[p].at = "SaveStatus"
    /\ SetStatus(job[p].order, FinalStatus(job[p].order, job[p].left))
    /\ Become(p, Idle)
    /\ UNCHANGED <<book, trades, positions>>

(* cancelOrder, by the owner *)

CancelOrder(p) ==
    /\ job[p] = Idle
    /\ \E o \in DOMAIN orders :
         /\ orders[o].status \in {"OPEN", "PENDING"}
         /\ Become(p, [at |-> "SaveCancelled", order |-> o])
    /\ UNCHANGED <<orders, book, trades, positions>>

SaveCancelled(p) ==
    /\ job[p].at = "SaveCancelled"
    /\ SetStatus(job[p].order, "CANCELLED")
    /\ Become(p, [at |-> "Remove", order |-> job[p].order])
    /\ UNCHANGED <<book, trades, positions>>

\* ZREM from the set of the order's side.
BidsWithout(o) ==    \* mutant: whatever the side, it is removed from the bids
    IF orders[o].side = "SELL" THEN book ELSE [x \in DOMAIN book \ {o} |-> book[x]]
BookWithout(o) == [x \in DOMAIN book \ {o} |-> book[x]]

RemoveFromBook(p) ==
    /\ job[p].at = "Remove"
    /\ book' = BookWithout(job[p].order)
    /\ Become(p, Idle)
    /\ UNCHANGED <<orders, trades, positions>>

\* A query fails or the process dies.
Abort(p) ==
    /\ Cardinality(failed) < MaxFailures /\ job[p] # Idle
    /\ job' = [job EXCEPT ![p] = Idle]
    /\ failed' = IF job[p].at = "SaveOrder" THEN failed ELSE failed \cup {job[p].order}
    /\ UNCHANGED <<orders, book, trades, positions>>

Step(p) ==
    \/ SaveOrder(p) \/ AddToBook(p) \/ SaveOpen(p)
    \/ GetBest(p) \/ SaveTrade(p) \/ FindPosition(p) \/ SavePosition(p) \/ SaveStatus(p)
    \/ SaveCancelled(p) \/ RemoveFromBook(p)

Next == \E p \in Workers : PlaceOrder(p) \/ CancelOrder(p) \/ Step(p) \/ Abort(p)

Spec == Init /\ [][Next]_vars

\* Requests that have begun are carried on with.
FairSpec == Spec /\ \A p \in Workers : WF_vars(Step(p))

-----------------------------------------------------------------------------
(* Properties. *)

TypeOK ==
    /\ DOMAIN orders \subseteq Orders /\ \A o \in DOMAIN orders : orders[o] \in Order
    /\ DOMAIN book \subseteq DOMAIN orders /\ \A o \in DOMAIN book : book[o] \in Scores
    /\ trades \in Seq(Trade)
    /\ DOMAIN positions \subseteq Users /\ \A u \in DOMAIN positions : positions[u] \in Position
    /\ failed \subseteq Orders
    /\ \A p \in Workers : job[p] = Idle \/ job[p].at \in
         {"SaveOrder", "AddToBook", "SaveOpen", "GetBest", "SaveTrade", "FindPosition",
          "SavePosition", "SaveStatus", "SaveCancelled", "Remove"}

Quiescent == \A p \in Workers : job[p] = Idle

\* What the orders of S bought and sold, counted in units.
Units(S, side) ==
    {x \in (1..Len(trades)) \X (1..Lot) :
        LET t == trades[x[1]] IN
          x[2] <= t.quantity /\ (IF side = "BUY" THEN t.buy ELSE t.sell) \in S}

Bought(S) == Cardinality(Units(S, "BUY"))
Sold(S)   == Cardinality(Units(S, "SELL"))

\* What was traded of the order o, and what the trades have made of u's position.
Traded(o) == Bought({o}) + Sold({o})

OrdersOf(u) == {o \in DOMAIN orders : orders[o].user = u}
Net(u)      == Bought(OrdersOf(u)) - Sold(OrdersOf(u))

\* A cancelled order is on the book only while the request that cancels or
\* places it is still under way, or because one of its own requests has failed:
\* in whatever order placeOrder and cancelOrder write the book and the row, and
\* wherever a request on another order fails.
CancelledIsOffBook ==
    \A o \in DOMAIN book : orders[o].status = "CANCELLED" =>
        \/ o \in failed
        \/ \E p \in Workers : /\ job[p].at \in {"Remove", "SaveOpen"}
                              /\ job[p].order = o

\* The status of a market order is true to its trades, whatever other requests
\* do to the book, and wherever this one or another fails.
StatusMatchesTrades ==
    \A o \in DOMAIN orders : orders[o].type = "MARKET" =>
        /\ orders[o].status = "FILLED" => Traded(o) = orders[o].quantity
        /\ orders[o].status = "PARTIALLY_FILLED" => Traded(o) \in 1..orders[o].quantity - 1

\* Whatever requests overlap and wherever they fail, a position is made of fills
\* that were made, each at most once: it is never more than its user has bought
\* and never less than what was sold of him, although updates that read the same
\* row overwrite each other.
PositionIsMadeOfFills ==
    \A u \in Users :
        Quantity(u) \in -Sold(OrdersOf(u))..Bought(OrdersOf(u))

\* With one request at a time, a request that fails leaves at most the last trade
\* of its order out of the positions: the positions differ from what the trades
\* add up to by no more than one fill for each market order whose request has
\* failed or is under way.
FailureCostsOneFill ==
    \A u \in Users :
        LET unsure == {o \in DOMAIN orders : /\ orders[o].type = "MARKET"
                                             /\ o \in failed \/ orders[o].status = "OPEN"}
            drift  == Net(u) - Quantity(u)
        IN  drift \in -Lot * Cardinality(unsure)..Lot * Cardinality(unsure)

\* Each request is answered in the end: the loop over the book is finite even
\* while others add to the book.
RequestsEnd == \A p \in Workers : job[p] # Idle ~> job[p] = Idle

(* What the documents claim. *)

\* docs/architecture.md, section 12: "Positions updated after every trade": when
\* all requests are answered, positions are what the trades add up to.
PositionsMatchTrades ==
    Quiescent => \A u \in Users :
        Net(u) = Quantity(u)

\* docs/architecture.md, section 12: "Matches immediately at best available
\* price": the best on the book when the trade is made.
BestPriceFirst ==
    [][\A i \in DOMAIN trades' \ DOMAIN trades :
          LET t == trades'[i]
              isBuy == orders[t.buy].type = "MARKET"
          IN  IF isBuy THEN t.sell \in OnBook("SELL")
                            /\ \A o \in OnBook("SELL") : t.price <= book[o]
              ELSE t.buy \in OnBook("BUY")
                   /\ \A o \in OnBook("BUY") : t.price >= book[o]]_vars

\* docs/architecture.md, section 12: a match must "Update/remove matched ask
\* order": no order trades more than its quantity.
NotOverfilled == \A o \in DOMAIN orders : Traded(o) <= orders[o].quantity

\* docs/architecture.md, section 12: a limit order that meets the other side of
\* the book is filled, so that the book never stands crossed.
BookNotCrossed ==
    \A b \in OnBook("BUY"), a \in OnBook("SELL") : book[b] < book[a]

\* docs/architecture.md, section 12: "Immediate-or-cancel": it never rests.
IOCNeverRests == \A o \in DOMAIN book : orders[o].type # "IOC"

\* packages/trading/README.md: "FIFO at same price".
FirstInFirstOut ==
    [][\A i \in DOMAIN trades' \ DOMAIN trades :
          LET t == trades'[i]
              resting == IF orders[t.buy].type = "MARKET" THEN t.sell ELSE t.buy
          IN  \A o \in OnBook(orders[resting].side) :
                 book[o] = t.price => orders[resting].created <= orders[o].created]_vars

\* docs/architecture.md, section 12: "Per-user position limits".
PositionWithinLimit ==
    \A u \in DOMAIN positions : positions[u] \in -MaxPosition..MaxPosition

\* docs/architecture.md, section 12: an order rests "until matched or
\* cancelled": a cancel is final.
CancelIsFinal ==
    [][\A o \in DOMAIN orders :
          orders[o].type # "MARKET" /\ orders[o].status = "CANCELLED"
              => orders'[o].status = "CANCELLED"]_vars
=============================================================================
