--------------------------- MODULE TradingProofs ----------------------------
(* Theorems about Trading, for any requests, users, orders and prices.     *)
EXTENDS Trading, FiniteSetTheorems, SequenceTheorems, TLAPS

-----------------------------------------------------------------------------
(* The inductive invariant.                                                *)

\* What a request in flight knows of the order it works on.
Market(o)  == o \in DOMAIN orders /\ orders[o].type = "MARKET"
Resting(o) == o \in DOMAIN orders /\ orders[o].type # "MARKET"

JobOK(j) ==
    /\ j.at \in {"AddToBook", "SaveOpen"} => Resting(j.order)
    /\ j.at \in {"GetBest", "SaveTrade", "FindPosition", "SavePosition", "SaveStatus"}
         => Market(j.order)
    /\ j.at \in {"SaveCancelled", "Remove"} => j.order \in DOMAIN orders

\* Rows have a status, and no market order is on the book.
Shapes ==
    /\ DOMAIN job = Workers
    /\ \A o \in DOMAIN orders : "status" \in DOMAIN orders[o]
    /\ \A o \in DOMAIN book : Resting(o)
    /\ \A p \in Workers : JobOK(job[p])

IInv == Shapes /\ CancelledIsOffBook

-----------------------------------------------------------------------------
(* The kinds of steps.                                                     *)

LEMMA InitIInv == Init => IInv
BY SMT DEF Init, IInv, Shapes, CancelledIsOffBook, JobOK, Idle

LEMMA JobAfter == ASSUME Shapes, NEW p \in Workers, NEW j, Become(p, j)
                  PROVE  /\ DOMAIN job' = Workers
                         /\ \A q \in Workers : job'[q] = IF q = p THEN j ELSE job[q]
BY DEF Shapes, Become

\* A step that moves a request on and writes neither an order nor the book.
LEMMA MoveStep == ASSUME IInv, NEW p \in Workers, NEW j, Become(p, j), JobOK(j),
                         UNCHANGED <<orders, book>>, job[p].at \notin {"Remove", "SaveOpen"}
                  PROVE  IInv'
<1>1. \A q \in Workers : job'[q] = IF q = p THEN j ELSE job[q]
  BY JobAfter DEF IInv
<1>2. Shapes'
  <2>1. \A q \in Workers : JobOK(job'[q])
    BY <1>1 DEF IInv, Shapes
  <2>2. (\A q \in Workers : JobOK(job[q]))'
    BY <2>1, Zenon DEF JobOK, Market, Resting
  <2>3. QED
    BY <2>2, JobAfter DEF IInv, Shapes, Resting
<1>3. CancelledIsOffBook'
  <2> SUFFICES ASSUME NEW o \in DOMAIN book, orders[o].status = "CANCELLED", o \notin failed
               PROVE  \E q \in Workers : job'[q].at \in {"Remove", "SaveOpen"} /\ job'[q].order = o
    BY DEF CancelledIsOffBook, Become
  <2>1. PICK q \in Workers : job[q].at \in {"Remove", "SaveOpen"} /\ job[q].order = o
    BY DEF IInv, CancelledIsOffBook
  <2>2. QED
    BY <2>1, <1>1
<1>4. QED
  BY <1>2, <1>3 DEF IInv

\* A step that saves the status of the order o and moves its request on.
LEMMA StatusStep == ASSUME IInv, NEW p \in Workers, NEW j, Become(p, j), JobOK(j),
                           NEW o \in DOMAIN orders, NEW s, SetStatus(o, s), UNCHANGED book,
                           \A x \in DOMAIN book \ {o} :
                              ~(job[p].at \in {"Remove", "SaveOpen"} /\ job[p].order = x),
                           o \in DOMAIN book /\ s = "CANCELLED" =>
                              j.at = "Remove" /\ j.order = o
                    PROVE  IInv'
<1>1. \A q \in Workers : job'[q] = IF q = p THEN j ELSE job[q]
  BY JobAfter DEF IInv
<1>2. /\ DOMAIN orders' = DOMAIN orders /\ orders'[o].status = s
      /\ \A x \in DOMAIN orders : /\ orders'[x].type = orders[x].type
                                  /\ "status" \in DOMAIN orders'[x]
                                  /\ x # o => orders'[x] = orders[x]
  BY DEF SetStatus, IInv, Shapes
<1>3. Shapes'
  <2>1. \A q \in Workers : JobOK(job'[q])
    BY <1>1 DEF IInv, Shapes
  <2>2. (\A q \in Workers : JobOK(job[q]))'
    BY <2>1, <1>2 DEF JobOK, Market, Resting
  <2>3. QED
    BY <2>2, <1>2, JobAfter DEF IInv, Shapes, Resting
<1>4. CancelledIsOffBook'
  <2> SUFFICES ASSUME NEW x \in DOMAIN book, orders'[x].status = "CANCELLED", x \notin failed
               PROVE  \E q \in Workers : job'[q].at \in {"Remove", "SaveOpen"} /\ job'[q].order = x
    BY DEF CancelledIsOffBook, Become
  <2>1. CASE x = o
    BY <2>1, <1>1, <1>2
  <2>2. CASE x # o
    <3>1. x \in DOMAIN orders
      BY DEF IInv, Shapes, Resting
    <3>2. orders[x].status = "CANCELLED"
      BY <2>2, <3>1, <1>2
    <3>3. PICK q \in Workers : job[q].at \in {"Remove", "SaveOpen"} /\ job[q].order = x
      BY <3>2 DEF IInv, CancelledIsOffBook
    <3>4. q # p
      BY <2>2, <3>3
    <3>5. QED
      BY <3>3, <3>4, <1>1
  <2>3. QED
    BY <2>1, <2>2
<1>5. QED
  BY <1>3, <1>4 DEF IInv

LEMMA SaveOrderStep == ASSUME IInv, NEW p \in Workers, SaveOrder(p) PROVE IInv'
<1>1. PICK o \in Orders \ DOMAIN orders :
         /\ orders' = Put(orders, o,
              [user |-> job[p].user, side |-> job[p].side, type |-> job[p].type,
               quantity |-> job[p].quantity, price |-> job[p].price,
               status |-> IF job[p].type = "MARKET" THEN "OPEN" ELSE "PENDING",
               created |-> Cardinality(DOMAIN orders) + 1])
         /\ Become(p, IF job[p].type = "MARKET" THEN Fill(o, job[p].quantity)
                      ELSE [at |-> "AddToBook", order |-> o])
  BY DEF SaveOrder
<1>2. book' = book /\ job[p].at = "SaveOrder"
  BY DEF SaveOrder
<1> DEFINE j == IF job[p].type = "MARKET" THEN Fill(o, job[p].quantity)
                ELSE [at |-> "AddToBook", order |-> o]
<1>3. /\ DOMAIN orders' = DOMAIN orders \cup {o} /\ orders'[o].type = job[p].type
      /\ "status" \in DOMAIN orders'[o]
      /\ \A x \in DOMAIN orders : orders'[x] = orders[x]
  BY <1>1 DEF Put
<1>4. /\ job[p].type = "MARKET" => j.at \in {"GetBest", "SaveStatus"} /\ j.order = o
      /\ job[p].type # "MARKET" => j.at = "AddToBook" /\ j.order = o
  BY DEF Fill
<1>5. Become(p, j)
  BY <1>1
<1> HIDE DEF j
<1>6. \A q \in Workers : job'[q] = IF q = p THEN j ELSE job[q]
  BY <1>5, JobAfter DEF IInv
<1>7. Shapes'
  <2>1. (\A q \in Workers : JobOK(job[q]))'
    <3> SUFFICES ASSUME NEW q \in Workers PROVE JobOK(job[q])'
      OBVIOUS
    <3>1. CASE q = p
      BY <3>1, <1>3, <1>4, <1>6 DEF JobOK, Market, Resting
    <3>2. CASE q # p
      BY <3>2, <1>3, <1>6 DEF IInv, Shapes, JobOK, Market, Resting
    <3>3. QED
      BY <3>1, <3>2
  <2>2. QED
    BY <2>1, <1>2, <1>3, <1>5, JobAfter DEF IInv, Shapes, Resting
<1>8. CancelledIsOffBook'
  <2> SUFFICES ASSUME NEW x \in DOMAIN book, orders'[x].status = "CANCELLED", x \notin failed
               PROVE  \E q \in Workers : job'[q].at \in {"Remove", "SaveOpen"} /\ job'[q].order = x
    BY <1>1, <1>2 DEF CancelledIsOffBook, Become
  <2>1. orders[x].status = "CANCELLED"
    BY <1>3 DEF IInv, Shapes, Resting
  <2>2. PICK q \in Workers : job[q].at \in {"Remove", "SaveOpen"} /\ job[q].order = x
    BY <2>1 DEF IInv, CancelledIsOffBook
  <2>3. QED
    BY <2>2, <1>2, <1>6
<1>9. QED
  BY <1>7, <1>8 DEF IInv

LEMMA AddToBookStep == ASSUME IInv, NEW p \in Workers, AddToBook(p) PROVE IInv'
<1> DEFINE o == job[p].order
           j == [at |-> "SaveOpen", order |-> o]
<1>1. job[p].at = "AddToBook" /\ Resting(o) /\ orders' = orders
  BY DEF AddToBook, IInv, Shapes, JobOK
<1>2. book' = Put(book, o, Score(o)) /\ Become(p, j)
  BY DEF AddToBook
<1>3. DOMAIN book' = DOMAIN book \cup {o}
  BY <1>2 DEF Put
<1>4. j.at = "SaveOpen" /\ j.order = o
  OBVIOUS
<1> HIDE DEF j, o
<1>5. \A q \in Workers : job'[q] = IF q = p THEN j ELSE job[q]
  BY <1>2, JobAfter DEF IInv
<1>6. Shapes'
  <2>1. (\A q \in Workers : JobOK(job[q]))'
    BY <1>1, <1>4, <1>5 DEF IInv, Shapes, JobOK, Market, Resting
  <2>2. QED
    BY <2>1, <1>1, <1>2, <1>3, JobAfter DEF IInv, Shapes, Resting
<1>7. CancelledIsOffBook'
  <2> SUFFICES ASSUME NEW x \in DOMAIN book', orders[x].status = "CANCELLED", x \notin failed
               PROVE  \E q \in Workers : /\ job'[q].at \in {"Remove", "SaveOpen"}
                                         /\ job'[q].order = x
    BY <1>1, <1>2 DEF CancelledIsOffBook, Become
  <2>1. CASE x = o
    BY <2>1, <1>4, <1>5
  <2>2. CASE x # o
    <3>1. PICK q \in Workers : job[q].at \in {"Remove", "SaveOpen"} /\ job[q].order = x
      BY <2>2, <1>3 DEF IInv, CancelledIsOffBook
    <3>2. QED
      BY <3>1, <1>1, <1>5
  <2>3. QED
    BY <2>1, <2>2
<1>8. QED
  BY <1>6, <1>7 DEF IInv

LEMMA RemoveStep == ASSUME IInv, NEW p \in Workers, RemoveFromBook(p) PROVE IInv'
<1>1. /\ DOMAIN book' = DOMAIN book \ {job[p].order}
      /\ Become(p, Idle) /\ orders' = orders
  BY DEF RemoveFromBook, BookWithout
<1>2. \A q \in Workers : job'[q] = IF q = p THEN Idle ELSE job[q]
  BY <1>1, JobAfter DEF IInv
<1>3. Shapes'
  <2>1. (\A q \in Workers : JobOK(job[q]))'
    BY <1>1, <1>2 DEF IInv, Shapes, JobOK, Market, Resting, Idle
  <2>2. QED
    BY <2>1, <1>1, JobAfter DEF IInv, Shapes, Resting
<1>4. CancelledIsOffBook'
  <2> SUFFICES ASSUME NEW x \in DOMAIN book', orders[x].status = "CANCELLED", x \notin failed
               PROVE  \E q \in Workers : /\ job'[q].at \in {"Remove", "SaveOpen"}
                                         /\ job'[q].order = x
    BY <1>1 DEF CancelledIsOffBook, Become
  <2>1. PICK q \in Workers : job[q].at \in {"Remove", "SaveOpen"} /\ job[q].order = x
    BY <1>1 DEF IInv, CancelledIsOffBook
  <2>2. q # p
    BY <1>1, <2>1
  <2>3. QED
    BY <2>1, <2>2, <1>2
<1>5. QED
  BY <1>3, <1>4 DEF IInv

\* The steps of the matching loop that write neither an order nor the book.
LEMMA LoopStep == ASSUME IInv, NEW p \in Workers,
                         GetBest(p) \/ SaveTrade(p) \/ FindPosition(p) \/ SavePosition(p)
                  PROVE  IInv'
<1>1. /\ job[p].at \in {"GetBest", "SaveTrade", "FindPosition", "SavePosition"}
      /\ UNCHANGED <<orders, book>>
  BY DEF GetBest, SaveTrade, FindPosition, SavePosition
<1>2. Market(job[p].order)
  BY <1>1 DEF IInv, Shapes, JobOK
<1>3. \E j : /\ Become(p, j)
             /\ \/ j = Idle
                \/ /\ j.order = job[p].order
                   /\ j.at \in {"GetBest", "SaveTrade", "FindPosition", "SavePosition", "SaveStatus"}
  <2>1. CASE GetBest(p)
    <3>1. \/ Become(p, BreakLoop(p))
          \/ \E o : Become(p, [at |-> "SaveTrade", order |-> job[p].order, left |-> job[p].left,
                               resting |-> o, price |-> book[o]])
      BY <2>1 DEF GetBest
    <3>2. CASE Become(p, BreakLoop(p))
      BY <3>2 DEF BreakLoop
    <3>3. ASSUME NEW o, Become(p, [at |-> "SaveTrade", order |-> job[p].order,
                                   left |-> job[p].left, resting |-> o, price |-> book[o]])
          PROVE  \E j : /\ Become(p, j)
                        /\ j.order = job[p].order
                        /\ j.at \in {"GetBest", "SaveTrade", "FindPosition",
                                     "SavePosition", "SaveStatus"}
      <4> DEFINE i == [at |-> "SaveTrade", order |-> job[p].order,
                       left |-> job[p].left, resting |-> o, price |-> book[o]]
      <4>1. Become(p, i) /\ i.order = job[p].order /\ i.at = "SaveTrade"
        BY <3>3
      <4> HIDE DEF i
      <4> QED
        BY <4>1
    <3> QED
      BY <3>1, <3>2, <3>3
  <2>2. CASE SaveTrade(p)
    <3>1. \E left, legs :
             Become(p, [at |-> "FindPosition", order |-> job[p].order, left |-> left, legs |-> legs])
      BY <2>2 DEF SaveTrade
    <3>2. PICK left, legs :
             Become(p, [at |-> "FindPosition", order |-> job[p].order, left |-> left, legs |-> legs])
      BY <3>1
    <3> QED
      BY <3>2
  <2>3. CASE FindPosition(p)
    BY <2>3 DEF FindPosition
  <2>4. CASE SavePosition(p)
    BY <2>4 DEF SavePosition, Fill
  <2>5. QED
    BY <2>1, <2>2, <2>3, <2>4
<1>4. PICK j : /\ Become(p, j)
               /\ \/ j = Idle
                  \/ /\ j.order = job[p].order
                     /\ j.at \in {"GetBest", "SaveTrade", "FindPosition", "SavePosition", "SaveStatus"}
  BY <1>3
<1>5. JobOK(j)
  BY <1>2, <1>4 DEF JobOK, Idle
<1>6. QED
  BY <1>1, <1>4, <1>5, MoveStep

\* A request that fails leaves its order among the failed ones.
LEMMA AbortStep == ASSUME IInv, NEW p \in Workers, Abort(p) PROVE IInv'
<1>1. /\ UNCHANGED <<orders, book>> /\ failed \subseteq failed'
      /\ job[p].at # "SaveOrder" => job[p].order \in failed'
      /\ job' = [job EXCEPT ![p] = Idle]
  BY DEF Abort
<1>2. \A q \in Workers : job'[q] = IF q = p THEN Idle ELSE job[q]
  BY <1>1 DEF IInv, Shapes
<1>3. Shapes'
  <2>1. (\A q \in Workers : JobOK(job[q]))'
    BY <1>1, <1>2 DEF IInv, Shapes, JobOK, Market, Resting, Idle
  <2>2. QED
    BY <2>1, <1>1 DEF IInv, Shapes, Resting
<1>4. CancelledIsOffBook'
  <2> SUFFICES ASSUME NEW o \in DOMAIN book, orders[o].status = "CANCELLED", o \notin failed'
               PROVE  \E q \in Workers : job'[q].at \in {"Remove", "SaveOpen"} /\ job'[q].order = o
    BY <1>1 DEF CancelledIsOffBook
  <2>1. PICK q \in Workers : job[q].at \in {"Remove", "SaveOpen"} /\ job[q].order = o
    BY <1>1 DEF IInv, CancelledIsOffBook
  <2>2. q # p
    BY <1>1, <2>1
  <2>3. QED
    BY <2>1, <2>2, <1>2
<1>5. QED
  BY <1>3, <1>4 DEF IInv

LEMMA NextIInv == ASSUME IInv, [Next]_vars PROVE IInv'
<1>0. JobOK(Idle)
  BY DEF JobOK, Idle
<1>1. CASE UNCHANGED vars
  BY <1>1 DEF vars, IInv, Shapes, CancelledIsOffBook, JobOK, Market, Resting
<1>2. ASSUME NEW p \in Workers, PlaceOrder(p) PROVE IInv'
  <2>1. PICK u, dto :
           Become(p, [at |-> "SaveOrder", user |-> u, side |-> dto.side, type |-> dto.type,
                      quantity |-> dto.quantity, price |-> dto.price])
    BY <1>2 DEF PlaceOrder
  <2>2. JobOK([at |-> "SaveOrder", user |-> u, side |-> dto.side, type |-> dto.type,
               quantity |-> dto.quantity, price |-> dto.price])
    BY DEF JobOK
  <2>3. job[p].at \notin {"Remove", "SaveOpen"} /\ UNCHANGED <<orders, book>>
    BY <1>2 DEF PlaceOrder, Idle
  <2>4. QED
    BY <2>1, <2>2, <2>3, MoveStep
<1>3. ASSUME NEW p \in Workers, CancelOrder(p) PROVE IInv'
  <2>1. PICK o \in DOMAIN orders : Become(p, [at |-> "SaveCancelled", order |-> o])
    BY <1>3 DEF CancelOrder
  <2>2. JobOK([at |-> "SaveCancelled", order |-> o])
    BY DEF JobOK
  <2>3. job[p].at \notin {"Remove", "SaveOpen"} /\ UNCHANGED <<orders, book>>
    BY <1>3 DEF CancelOrder, Idle
  <2>4. QED
    BY <2>1, <2>2, <2>3, MoveStep
<1>4. ASSUME NEW p \in Workers, SaveOpen(p) PROVE IInv'
  <2>1. /\ job[p].at = "SaveOpen" /\ SetStatus(job[p].order, "OPEN")
        /\ Become(p, Idle) /\ UNCHANGED book
    BY <1>4 DEF SaveOpen
  <2>2. job[p].order \in DOMAIN orders
    BY <2>1 DEF IInv, Shapes, JobOK, Resting
  <2>3. QED
    BY <1>0, <2>1, <2>2, StatusStep
<1>5. ASSUME NEW p \in Workers, SaveStatus(p) PROVE IInv'
  <2>1. PICK s : SetStatus(job[p].order, s)
    BY <1>5 DEF SaveStatus
  <2>2. job[p].at = "SaveStatus" /\ Become(p, Idle) /\ UNCHANGED book
    BY <1>5 DEF SaveStatus
  <2>3. job[p].order \in DOMAIN orders /\ job[p].order \notin DOMAIN book
    BY <2>2 DEF IInv, Shapes, JobOK, Market, Resting
  <2>4. QED
    BY <1>0, <2>1, <2>2, <2>3, StatusStep
<1>6. ASSUME NEW p \in Workers, SaveCancelled(p) PROVE IInv'
  <2> DEFINE j == [at |-> "Remove", order |-> job[p].order]
  <2>1. /\ job[p].at = "SaveCancelled" /\ SetStatus(job[p].order, "CANCELLED")
        /\ Become(p, j) /\ UNCHANGED book
    BY <1>6 DEF SaveCancelled
  <2>2. job[p].order \in DOMAIN orders
    BY <2>1 DEF IInv, Shapes, JobOK
  <2>3. JobOK(j) /\ j.at = "Remove" /\ j.order = job[p].order
    BY <2>2 DEF JobOK
  <2> HIDE DEF j
  <2>4. QED
    BY <2>1, <2>2, <2>3, StatusStep
<1>7. QED
  BY <1>1, <1>2, <1>3, <1>4, <1>5, <1>6,
     SaveOrderStep, AddToBookStep, RemoveStep, LoopStep, AbortStep DEF Next, Step

-----------------------------------------------------------------------------
(* Theorems.                                                               *)

\* An order that placeOrder and cancelOrder work on at the same time does not stay
\* on the book as a cancelled one unless a request on this very order has failed,
\* whatever the order of their writes to Redis and to PostgreSQL.
THEOREM CancelledLeavesBook == Spec => []CancelledIsOffBook
<1>1. IInv => CancelledIsOffBook
  BY DEF IInv
<1>2. QED
  BY InitIInv, NextIInv, <1>1, PTL DEF Spec

-----------------------------------------------------------------------------
(* The types.  A request carries what the code reads again later.          *)

Loop == {"GetBest", "SaveTrade", "FindPosition", "SavePosition", "SaveStatus"}
Leg  == [user : Users, delta : Int]

\* j is what a request can be doing when D are the orders.
JobTyped(j, D) ==
    /\ \/ j = Idle
       \/ j.at \in {"SaveOrder", "AddToBook", "SaveOpen", "SaveCancelled", "Remove"} \cup Loop
    /\ j.at = "SaveOrder" =>
         /\ j.user \in Users /\ j.side \in {"BUY", "SELL"} /\ j.type \in Types
         /\ j.quantity \in Quantities /\ j.price \in Prices \cup {NoPrice}
    /\ j.at \in {"AddToBook", "SaveOpen", "SaveCancelled", "Remove"} \cup Loop => j.order \in D
    /\ j.at \in Loop => j.left \in Nat
    /\ j.at \in {"GetBest", "SaveTrade"} => j.left > 0
    /\ j.at = "SaveTrade" => j.resting \in D /\ j.price \in Scores
    /\ j.at \in {"FindPosition", "SavePosition"} => j.legs \in Seq(Leg) /\ j.legs # <<>>
    /\ j.at = "SavePosition" => j.seen \in Int

Data ==
    /\ DOMAIN orders \subseteq Orders /\ \A o \in DOMAIN orders : orders[o] \in Order
    /\ DOMAIN book \subseteq DOMAIN orders /\ \A o \in DOMAIN book : book[o] \in Scores
    /\ trades \in Seq(Trade)
    /\ DOMAIN positions \subseteq Users /\ \A u \in DOMAIN positions : positions[u] \in Position
    /\ failed \subseteq Orders

JobsTyped == DOMAIN job = Workers /\ \A p \in Workers : JobTyped(job[p], DOMAIN orders)

Typed == Data /\ JobsTyped

LEMMA IdleTyped == \A D : JobTyped(Idle, D)
BY DEF JobTyped, Idle, Loop

\* A step of one request, and orders are never deleted.
LEMMA JobsStayTyped ==
    ASSUME JobsTyped, NEW p \in Workers, NEW j, job' = [job EXCEPT ![p] = j],
           DOMAIN orders \subseteq DOMAIN orders', JobTyped(j, DOMAIN orders')
    PROVE  JobsTyped'
<1>1. DOMAIN job' = Workers /\ \A q \in Workers : job'[q] = IF q = p THEN j ELSE job[q]
  BY DEF JobsTyped
<1>2. ASSUME NEW q \in Workers PROVE JobTyped(job'[q], DOMAIN orders')
  <2>1. CASE q = p
    BY <1>1, <2>1
  <2>2. CASE q # p
    <3>1. job'[q] = job[q] /\ JobTyped(job[q], DOMAIN orders)
      BY <1>1, <2>2 DEF JobsTyped
    <3> QED
      BY <3>1 DEF JobTyped
  <2> QED
    BY <2>1, <2>2
<1> QED
  BY <1>1, <1>2 DEF JobsTyped

\* A step that writes no row.
LEMMA ReadTyped ==
    ASSUME Typed, NEW p \in Workers, NEW j, Become(p, j), JobTyped(j, DOMAIN orders),
           UNCHANGED <<orders, book, trades, positions>>
    PROVE  Typed'
<1>1. JobsTyped'
  BY JobsStayTyped DEF Typed, Become
<1> QED
  BY <1>1 DEF Typed, Data, Become

\* A step that saves a status.
LEMMA StatusTyped ==
    ASSUME Typed, NEW p \in Workers, NEW j, Become(p, j), JobTyped(j, DOMAIN orders),
           NEW o \in DOMAIN orders, NEW status \in Status, SetStatus(o, status),
           UNCHANGED <<book, trades, positions>>
    PROVE  Typed'
<1>1. DOMAIN orders' = DOMAIN orders
  BY DEF SetStatus
<1>2. JobsTyped'
  BY <1>1, JobsStayTyped DEF Typed, Become
<1>3. orders[o] \in Order
  BY DEF Typed, Data
<1>4. [orders[o] EXCEPT !.status = status] \in Order
  BY <1>3 DEF Order
<1>5. \A x \in DOMAIN orders' : orders'[x] \in Order
  BY <1>1, <1>4 DEF SetStatus, Typed, Data
<1> QED
  BY <1>1, <1>2, <1>5 DEF Typed, Data, Become

LEMMA FillTyped ==
    ASSUME NEW D, NEW o \in D, NEW left \in Nat
    PROVE  JobTyped(Fill(o, left), D)
BY DEF JobTyped, Fill, Loop

LEMMA PlaceOrderTyped == ASSUME Typed, NEW p \in Workers, PlaceOrder(p) PROVE Typed'
<1>1. PICK u \in Users, dto \in PlaceOrderDto :
         Become(p, [at |-> "SaveOrder", user |-> u, side |-> dto.side, type |-> dto.type,
                    quantity |-> dto.quantity, price |-> dto.price])
  BY DEF PlaceOrder
<1> DEFINE j == [at |-> "SaveOrder", user |-> u, side |-> dto.side, type |-> dto.type,
                 quantity |-> dto.quantity, price |-> dto.price]
<1>2. JobTyped(j, DOMAIN orders)
  BY DEF JobTyped, PlaceOrderDto, Loop
<1>3. Become(p, j) /\ UNCHANGED <<orders, book, trades, positions>>
  BY <1>1 DEF PlaceOrder
<1> HIDE DEF j
<1> QED
  BY <1>2, <1>3, ReadTyped

LEMMA SaveOrderTyped == ASSUME Typed, NEW p \in Workers, SaveOrder(p) PROVE Typed'
<1>1. PICK o \in Orders \ DOMAIN orders :
         /\ orders' = Put(orders, o,
              [user |-> job[p].user, side |-> job[p].side, type |-> job[p].type,
               quantity |-> job[p].quantity, price |-> job[p].price,
               status |-> IF job[p].type = "MARKET" THEN "OPEN" ELSE "PENDING",
               created |-> Cardinality(DOMAIN orders) + 1])
         /\ Become(p, IF job[p].type = "MARKET" THEN Fill(o, job[p].quantity)
                      ELSE [at |-> "AddToBook", order |-> o])
  BY DEF SaveOrder
<1> DEFINE row == [user |-> job[p].user, side |-> job[p].side, type |-> job[p].type,
                   quantity |-> job[p].quantity, price |-> job[p].price,
                   status |-> IF job[p].type = "MARKET" THEN "OPEN" ELSE "PENDING",
                   created |-> Cardinality(DOMAIN orders) + 1]
           j == IF job[p].type = "MARKET" THEN Fill(o, job[p].quantity)
                ELSE [at |-> "AddToBook", order |-> o]
<1>2. Cardinality(DOMAIN orders) \in Nat
  BY TradingAssumption, FS_Subset, FS_CardinalityType DEF Typed, Data
<1>3. row \in Order
  BY <1>2 DEF Order, Status, Typed, JobsTyped, JobTyped, SaveOrder
<1>4. job[p].quantity \in Nat
  BY TradingAssumption DEF Typed, JobsTyped, JobTyped, SaveOrder
<1> HIDE DEF row
<1>5. /\ DOMAIN orders' = DOMAIN orders \cup {o}
      /\ \A x \in DOMAIN orders' : orders'[x] \in Order
  BY <1>1, <1>3 DEF Put, Typed, Data, row
<1>6. JobTyped(j, DOMAIN orders')
  <2>1. JobTyped(Fill(o, job[p].quantity), DOMAIN orders')
    BY <1>4, <1>5, FillTyped
  <2>2. JobTyped([at |-> "AddToBook", order |-> o], DOMAIN orders')
    BY <1>5 DEF JobTyped, Loop
  <2> QED
    BY <2>1, <2>2
<1>7. Become(p, j) /\ UNCHANGED <<book, trades, positions>>
  BY <1>1 DEF SaveOrder
<1> HIDE DEF j
<1>8. JobsTyped'
  BY <1>5, <1>6, <1>7, JobsStayTyped DEF Typed, Become
<1> QED
  BY <1>5, <1>7, <1>8 DEF Typed, Data, Become

LEMMA BookTyped ==
    ASSUME Typed, NEW p \in Workers, AddToBook(p) \/ RemoveFromBook(p)
    PROVE  Typed'
<1> DEFINE o == job[p].order
           j == [at |-> "SaveOpen", order |-> o]
<1>1. o \in DOMAIN orders /\ orders[o] \in Order
  BY DEF Typed, Data, JobsTyped, JobTyped, AddToBook, RemoveFromBook
<1>2. JobTyped(j, DOMAIN orders)
  BY <1>1 DEF JobTyped, Loop
<1>3. /\ \E i \in {Idle, j} : Become(p, i)
      /\ UNCHANGED <<orders, trades, positions>>
  BY DEF AddToBook, RemoveFromBook
<1>4. \/ UNCHANGED book
      \/ book' = Put(book, o, Score(o))
      \/ book' = [x \in DOMAIN book \ {o} |-> book[x]]
  BY DEF AddToBook, RemoveFromBook, BookWithout
<1> HIDE DEF j
<1>5. JobsTyped'
  BY <1>2, <1>3, IdleTyped, JobsStayTyped DEF Typed, Become
<1>6. DOMAIN book' \subseteq DOMAIN orders' /\ \A x \in DOMAIN book' : book'[x] \in Scores
  <2> HIDE DEF o
  <2>1. Score(o) \in Scores
    BY <1>1 DEF Order, Score, Scores
  <2> QED
    BY <1>1, <1>3, <1>4, <2>1 DEF Typed, Data, Put
<1> QED
  BY <1>3, <1>5, <1>6 DEF Typed, Data, Become

LEMMA GetBestTyped == ASSUME Typed, NEW p \in Workers, GetBest(p) PROVE Typed'
<1> DEFINE best == IF orders[job[p].order].side = "BUY" THEN getBestAsk ELSE getBestBid
<1>1. /\ job[p].order \in DOMAIN orders /\ job[p].left \in Nat /\ job[p].left > 0
      /\ UNCHANGED <<orders, book, trades, positions>>
  BY DEF Typed, JobsTyped, JobTyped, GetBest, Loop
<1>2. CASE Become(p, BreakLoop(p))
  <2>1. JobTyped(BreakLoop(p), DOMAIN orders)
    BY <1>1 DEF JobTyped, BreakLoop, Loop
  <2> QED
    BY <1>1, <1>2, <2>1, ReadTyped
<1>3. ASSUME NEW o \in best,
             Become(p, [at |-> "SaveTrade", order |-> job[p].order, left |-> job[p].left,
                        resting |-> o, price |-> book[o]])
      PROVE  Typed'
  <2>1. o \in DOMAIN book
    BY <1>3 DEF getBestAsk, getBestBid, OnBook
  <2> DEFINE j == [at |-> "SaveTrade", order |-> job[p].order, left |-> job[p].left,
                   resting |-> o, price |-> book[o]]
  <2>2. JobTyped(j, DOMAIN orders)
    BY <1>1, <2>1 DEF JobTyped, Loop, Typed, Data
  <2>3. Become(p, j)
    BY <1>3
  <2> HIDE DEF j
  <2> QED
    BY <1>1, <2>2, <2>3, ReadTyped
<1> QED
  BY <1>2, <1>3 DEF GetBest

\* What SaveTrade writes, for whoever needs it.
LEMMA TradeFacts ==
    ASSUME Typed, NEW p \in Workers, SaveTrade(p)
    PROVE  \E t \in Trade, legs \in Seq(Leg) :
             /\ trades' = Append(trades, t)
             /\ legs # <<>>
             /\ Become(p, [at |-> "FindPosition", order |-> job[p].order,
                           left |-> job[p].left - t.quantity, legs |-> legs])
             /\ t.quantity <= job[p].left
             /\ {t.buy, t.sell} = {job[p].order, job[p].resting}
<1> DEFINE j        == job[p]
           quantity == IF j.left < Lot THEN j.left ELSE Lot
           isBuy    == orders[j.order].side = "BUY"
           buy      == IF isBuy THEN j.order ELSE j.resting
           sell     == IF isBuy THEN j.resting ELSE j.order
           t        == [buy |-> buy, sell |-> sell, quantity |-> quantity, price |-> j.price]
<1>1. /\ j.order \in DOMAIN orders /\ j.resting \in DOMAIN orders
      /\ j.left \in Nat /\ j.left > 0 /\ j.price \in Scores
  BY DEF Typed, JobsTyped, JobTyped, SaveTrade, Loop
<1>2. quantity \in 1..Lot /\ quantity <= j.left
  BY <1>1, TradingAssumption
<1>3. /\ buy \in DOMAIN orders /\ sell \in DOMAIN orders
      /\ {buy, sell} = {j.order, j.resting}
  BY <1>1
<1>4. /\ trades' = Append(trades, t)
      /\ Become(p, [at |-> "FindPosition", order |-> j.order, left |-> j.left - quantity,
                    legs |-> Legs(buy, sell, quantity)])
  BY DEF SaveTrade
<1> HIDE DEF quantity, buy, sell, isBuy, j
<1>5. t \in Trade
  BY <1>1, <1>2, <1>3 DEF Trade, Typed, Data
<1>6. Legs(buy, sell, quantity) \in Seq(Leg) /\ Legs(buy, sell, quantity) # <<>>
  <2>1. orders[buy].user \in Users /\ orders[sell].user \in Users
    BY <1>3 DEF Typed, Data, Order
  <2>2. quantity \in Int /\ -quantity \in Int
    BY <1>2, TradingAssumption
  <2> QED
    BY <2>1, <2>2 DEF Legs, Leg
<1>7. t.quantity = quantity /\ t.buy = buy /\ t.sell = sell
  OBVIOUS
<1> HIDE DEF t
<1> QED
  BY <1>2, <1>3, <1>4, <1>5, <1>6, <1>7 DEF j

LEMMA SaveTradeTyped == ASSUME Typed, NEW p \in Workers, SaveTrade(p) PROVE Typed'
<1>1. PICK t \in Trade, legs \in Seq(Leg) :
         /\ trades' = Append(trades, t)
         /\ legs # <<>>
         /\ Become(p, [at |-> "FindPosition", order |-> job[p].order,
                       left |-> job[p].left - t.quantity, legs |-> legs])
         /\ t.quantity <= job[p].left
  BY TradeFacts
<1> DEFINE j == [at |-> "FindPosition", order |-> job[p].order,
                 left |-> job[p].left - t.quantity, legs |-> legs]
<1>2. job[p].order \in DOMAIN orders /\ job[p].left - t.quantity \in Nat
  BY <1>1, TradingAssumption DEF Typed, JobsTyped, JobTyped, SaveTrade, Loop, Trade
<1>3. JobTyped(j, DOMAIN orders)
  BY <1>1, <1>2 DEF JobTyped, Loop
<1>4. Become(p, j) /\ UNCHANGED <<orders, book, positions>>
  BY <1>1 DEF SaveTrade
<1> HIDE DEF j
<1>5. JobsTyped'
  BY <1>3, <1>4, JobsStayTyped DEF Typed, Become
<1>6. trades' \in Seq(Trade)
  BY <1>1 DEF Typed, Data
<1> QED
  BY <1>4, <1>5, <1>6 DEF Typed, Data, Become

LEMMA LegFacts ==
    ASSUME NEW legs \in Seq(Leg), legs # <<>>
    PROVE  /\ Head(legs).user \in Users /\ Head(legs).delta \in Int
           /\ Len(legs) # 1 => Tail(legs) \in Seq(Leg) /\ Tail(legs) # <<>>
<1>1. Head(legs) \in Leg
  BY HeadTailProperties
<1>2. Tail(legs) \in Seq(Leg) /\ Len(Tail(legs)) = Len(legs) - 1 /\ Len(legs) \in Nat
  BY HeadTailProperties
<1>3. Len(legs) # 1 => Len(Tail(legs)) # 0
  BY <1>2
<1> QED
  BY <1>1, <1>2, <1>3, EmptySeq DEF Leg

LEMMA PositionTyped ==
    ASSUME Typed, NEW p \in Workers, FindPosition(p) \/ SavePosition(p)
    PROVE  Typed'
<1>1. /\ job[p].order \in DOMAIN orders /\ job[p].left \in Nat
      /\ job[p].legs \in Seq(Leg) /\ job[p].legs # <<>>
      /\ UNCHANGED <<orders, book, trades>>
  BY DEF Typed, JobsTyped, JobTyped, FindPosition, SavePosition, Loop
<1> DEFINE u == Head(job[p].legs).user
<1>2. u \in Users /\ Head(job[p].legs).delta \in Int
  BY <1>1, LegFacts
<1>3. CASE FindPosition(p)
  <2> DEFINE j == [at |-> "SavePosition", order |-> job[p].order, left |-> job[p].left,
                   legs |-> job[p].legs, known |-> u \in DOMAIN positions, seen |-> Quantity(u)]
  <2>1. Quantity(u) \in Int
    BY DEF Quantity, Typed, Data, Position
  <2> HIDE DEF u
  <2>2. JobTyped(j, DOMAIN orders)
    BY <1>1, <2>1 DEF JobTyped, Loop
  <2>3. Become(p, j) /\ UNCHANGED positions
    BY <1>3 DEF FindPosition, u
  <2> HIDE DEF j
  <2> QED
    BY <1>1, <2>2, <2>3, ReadTyped
<1>4. CASE SavePosition(p)
  <2> DEFINE next == IF Len(job[p].legs) = 1 THEN Fill(job[p].order, job[p].left)
                     ELSE [at |-> "FindPosition", order |-> job[p].order,
                           left |-> job[p].left, legs |-> Tail(job[p].legs)]
             quantity == job[p].seen + Head(job[p].legs).delta
  <2>1. quantity \in Int
    BY <1>2, <1>4 DEF Typed, JobsTyped, JobTyped, SavePosition
  <2>2. JobTyped(next, DOMAIN orders)
    <3>1. JobTyped(Fill(job[p].order, job[p].left), DOMAIN orders)
      BY <1>1, FillTyped
    <3>2. Len(job[p].legs) # 1 =>
            JobTyped([at |-> "FindPosition", order |-> job[p].order,
                      left |-> job[p].left, legs |-> Tail(job[p].legs)], DOMAIN orders)
      BY <1>1, LegFacts DEF JobTyped, Loop
    <3> QED
      BY <3>1, <3>2
  <2>3. \/ Become(p, Idle) /\ UNCHANGED positions
        \/ Become(p, next) /\ positions' = Put(positions, u, quantity)
    BY <1>4 DEF SavePosition
  <2> HIDE DEF next, quantity, u
  <2>4. JobsTyped'
    BY <1>1, <2>2, <2>3, IdleTyped, JobsStayTyped DEF Typed, Become
  <2>5. DOMAIN positions' \subseteq Users /\ \A v \in DOMAIN positions' : positions'[v] \in Position
    BY <1>2, <2>1, <2>3 DEF Typed, Data, Put, Position
  <2>6. failed' = failed
    BY <2>3 DEF Become
  <2> QED
    BY <1>1, <2>4, <2>5, <2>6 DEF Typed, Data
<1> QED
  BY <1>3, <1>4

LEMMA SavesTyped ==
    ASSUME Typed, NEW p \in Workers, SaveOpen(p) \/ SaveStatus(p) \/ SaveCancelled(p)
    PROVE  Typed'
<1> DEFINE o == job[p].order
           j == [at |-> "Remove", order |-> o]
<1>1. o \in DOMAIN orders /\ UNCHANGED <<book, trades, positions>>
  BY DEF Typed, JobsTyped, JobTyped, SaveOpen, SaveStatus, SaveCancelled, Loop
<1>2. JobTyped(j, DOMAIN orders) /\ JobTyped(Idle, DOMAIN orders)
  BY <1>1, IdleTyped DEF JobTyped, Loop
<1>3. \E status \in Status : SetStatus(o, status)
  BY DEF SaveOpen, SaveStatus, SaveCancelled, FinalStatus, Status
<1>4. Become(p, Idle) \/ Become(p, j)
  BY DEF SaveOpen, SaveStatus, SaveCancelled
<1> HIDE DEF j, o
<1> QED
  BY <1>1, <1>2, <1>3, <1>4, StatusTyped

LEMMA CancelAbortTyped ==
    ASSUME Typed, NEW p \in Workers, CancelOrder(p) \/ Abort(p)
    PROVE  Typed'
<1>1. CASE CancelOrder(p)
  <2>1. PICK o \in DOMAIN orders : Become(p, [at |-> "SaveCancelled", order |-> o])
    BY <1>1 DEF CancelOrder
  <2>2. JobTyped([at |-> "SaveCancelled", order |-> o], DOMAIN orders)
    BY DEF JobTyped, Loop
  <2> QED
    BY <1>1, <2>1, <2>2, ReadTyped DEF CancelOrder
<1>2. CASE Abort(p)
  <2>1. JobsTyped'
    BY <1>2, IdleTyped, JobsStayTyped DEF Typed, Abort
  <2>2. job[p].at = "SaveOrder" \/ job[p].order \in Orders
    BY <1>2 DEF Typed, Data, JobsTyped, JobTyped, Abort
  <2> QED
    BY <1>2, <2>1, <2>2 DEF Typed, Data, Abort
<1> QED
  BY <1>1, <1>2

LEMMA InitTyped == Init => Typed
<1> SUFFICES ASSUME Init PROVE Typed
  OBVIOUS
<1>1. Data
  BY DEF Init, Data
<1>2. JobsTyped
  BY IdleTyped DEF Init, JobsTyped
<1> QED
  BY <1>1, <1>2 DEF Typed

LEMMA NextTyped == Typed /\ [Next]_vars => Typed'
<1> SUFFICES ASSUME Typed, [Next]_vars PROVE Typed'
  OBVIOUS
<1>1. CASE UNCHANGED vars
  BY <1>1 DEF vars, Typed, Data, JobsTyped
<1> QED
  BY <1>1, PlaceOrderTyped, SaveOrderTyped, BookTyped, GetBestTyped, SaveTradeTyped, PositionTyped,
     SavesTyped, CancelAbortTyped DEF Next, Step

\* Rows, the book and the requests have their types.
THEOREM TypeCorrect == Spec => []TypeOK
<1>1. Typed => TypeOK
  BY DEF Typed, Data, JobsTyped, JobTyped, TypeOK, Loop
<1> QED
  BY <1>1, InitTyped, NextTyped, PTL DEF Spec

-----------------------------------------------------------------------------
(* Statuses and trades.  A market order that is being matched has one      *)
(* request, and what this has left and what was traded make the quantity.  *)

UnitsIn(ts, S, side) ==
    {x \in (1..Len(ts)) \X (1..Lot) :
        LET t == ts[x[1]] IN
          x[2] <= t.quantity /\ (IF side = "BUY" THEN t.buy ELSE t.sell) \in S}

Count(ts, o) == Cardinality(UnitsIn(ts, {o}, "BUY")) + Cardinality(UnitsIn(ts, {o}, "SELL"))

JobCounted(j, ts, os) ==
    /\ j.at \in Loop => /\ Count(ts, j.order) + j.left = os[j.order].quantity
                        /\ os[j.order].status \notin {"FILLED", "PARTIALLY_FILLED"}
    /\ j.at = "SaveTrade" => os[j.resting].type # "MARKET"

TrueStatus(o, ts, os) ==
    os[o].type = "MARKET" =>
        /\ os[o].status = "FILLED" => Count(ts, o) = os[o].quantity
        /\ os[o].status = "PARTIALLY_FILLED" => Count(ts, o) \in 1..os[o].quantity - 1

OneEach ==
    \A p, q \in Workers :
        p # q /\ job[p].at \in Loop /\ job[q].at \in Loop => job[p].order # job[q].order

TradesKnown ==
    \A i \in 1..Len(trades) : trades[i].buy \in DOMAIN orders /\ trades[i].sell \in DOMAIN orders

Counted ==
    /\ \A p \in Workers : JobCounted(job[p], trades, orders)
    /\ \A o \in DOMAIN orders : TrueStatus(o, trades, orders)
    /\ OneEach
    /\ TradesKnown

LEMMA UnitsFinite ==
    ASSUME NEW ts \in Seq(Trade), NEW S, NEW side
    PROVE  IsFiniteSet(UnitsIn(ts, S, side))
<1>1. IsFiniteSet(1..Len(ts)) /\ IsFiniteSet(1..Lot)
  BY FS_Interval, TradingAssumption, LenProperties
<1>2. IsFiniteSet((1..Len(ts)) \X (1..Lot))
  BY <1>1, FS_Product
<1> QED
  BY <1>2, FS_Subset DEF UnitsIn

\* One more trade is one more row of units.
LEMMA UnitsAfter ==
    ASSUME NEW ts \in Seq(Trade), NEW t \in Trade, NEW S, NEW side \in {"BUY", "SELL"},
           NEW n, n = (IF (IF side = "BUY" THEN t.buy ELSE t.sell) \in S THEN t.quantity ELSE 0)
    PROVE  Cardinality(UnitsIn(Append(ts, t), S, side)) = Cardinality(UnitsIn(ts, S, side)) + n
<1> DEFINE new == Append(ts, t)
           row == {Len(ts) + 1} \X (1..n)
<1>1. Len(ts) \in Nat /\ new \in Seq(Trade) /\ Len(new) = Len(ts) + 1
  BY AppendProperties, LenProperties
<1>2. new[Len(ts) + 1] = t /\ \A i \in 1..Len(ts) : new[i] = ts[i]
  BY AppendProperties
<1>3. n \in 0..Lot /\ t.quantity \in 1..Lot
  BY TradingAssumption DEF Trade
<1>4. UnitsIn(new, S, side) = UnitsIn(ts, S, side) \cup row
  <2> HIDE DEF new
  <2>1. ASSUME NEW x \in UnitsIn(new, S, side) PROVE x \in UnitsIn(ts, S, side) \cup row
    BY <1>1, <1>2, <1>3 DEF UnitsIn
  <2>2. ASSUME NEW x \in UnitsIn(ts, S, side) PROVE x \in UnitsIn(new, S, side)
    BY <1>1, <1>2, <1>3 DEF UnitsIn
  <2>3. ASSUME NEW x \in row PROVE x \in UnitsIn(new, S, side)
    BY <1>1, <1>2, <1>3, TradingAssumption DEF UnitsIn
  <2> QED
    BY <2>1, <2>2, <2>3
<1>5. UnitsIn(ts, S, side) \cap row = {}
  BY <1>1 DEF UnitsIn
<1>6. IsFiniteSet(row) /\ Cardinality(row) = n
  <2>1. IsFiniteSet({Len(ts) + 1}) /\ Cardinality({Len(ts) + 1}) = 1
    BY FS_Singleton
  <2>2. IsFiniteSet(1..n) /\ Cardinality(1..n) = n
    BY <1>3, TradingAssumption, FS_Interval
  <2> DEFINE A == {Len(ts) + 1}
             B == 1..n
  <2>3. row = A \X B /\ IsFiniteSet(A) /\ IsFiniteSet(B)
    BY <2>1, <2>2
  <2>4. Cardinality(A) = 1 /\ Cardinality(B) = n
    BY <2>1, <2>2
  <2> HIDE DEF row, A, B
  <2>5. IsFiniteSet(A \X B) /\ Cardinality(A \X B) = Cardinality(A) * Cardinality(B)
    BY <2>3, FS_Product, Zenon
  <2> QED
    BY <1>3, <2>3, <2>4, <2>5, TradingAssumption
<1>7. IsFiniteSet(UnitsIn(ts, S, side))
  BY UnitsFinite
<1> HIDE DEF row, new
<1>8. Cardinality(UnitsIn(ts, S, side) \cup row)
        = Cardinality(UnitsIn(ts, S, side)) + Cardinality(row) - Cardinality({})
  BY <1>5, <1>6, <1>7, FS_Union
<1>9. Cardinality({}) = 0 /\ Cardinality(UnitsIn(ts, S, side)) \in Nat
  BY <1>7, FS_EmptySet, FS_CardinalityType
<1> QED
  BY <1>3, <1>4, <1>6, <1>8, <1>9 DEF new

LEMMA CountAfter ==
    ASSUME NEW ts \in Seq(Trade), NEW t \in Trade, NEW o
    PROVE  /\ Count(ts, o) \in Nat
           /\ t.buy # o /\ t.sell # o => Count(Append(ts, t), o) = Count(ts, o)
           /\ t.buy = o /\ t.sell # o => Count(Append(ts, t), o) = Count(ts, o) + t.quantity
           /\ t.buy # o /\ t.sell = o => Count(Append(ts, t), o) = Count(ts, o) + t.quantity
<1> DEFINE b == IF t.buy = o THEN t.quantity ELSE 0
           s == IF t.sell = o THEN t.quantity ELSE 0
           B == Cardinality(UnitsIn(ts, {o}, "BUY"))
           S == Cardinality(UnitsIn(ts, {o}, "SELL"))
<1>1. b = IF (IF "BUY" = "BUY" THEN t.buy ELSE t.sell) \in {o} THEN t.quantity ELSE 0
  OBVIOUS
<1>2. s = IF (IF "SELL" = "BUY" THEN t.buy ELSE t.sell) \in {o} THEN t.quantity ELSE 0
  OBVIOUS
<1> HIDE DEF b, s
<1>3. Cardinality(UnitsIn(Append(ts, t), {o}, "BUY")) = B + b
  BY <1>1, UnitsAfter
<1>4. Cardinality(UnitsIn(Append(ts, t), {o}, "SELL")) = S + s
  BY <1>2, UnitsAfter
<1>5. B \in Nat /\ S \in Nat /\ t.quantity \in Nat
  <2>1. IsFiniteSet(UnitsIn(ts, {o}, "BUY")) /\ IsFiniteSet(UnitsIn(ts, {o}, "SELL"))
    BY UnitsFinite
  <2>2. t.quantity \in Nat
    BY TradingAssumption DEF Trade
  <2> QED
    BY <2>1, <2>2, FS_CardinalityType
<1>6. Count(ts, o) = B + S /\ Count(Append(ts, t), o) = (B + b) + (S + s)
  BY <1>3, <1>4 DEF Count
<1> HIDE DEF B, S
<1> QED
  BY <1>5, <1>6 DEF b, s

\* Nothing was traded of an order that no trade names.
LEMMA NothingTraded ==
    ASSUME NEW ts \in Seq(Trade), NEW o,
           \A i \in 1..Len(ts) : ts[i].buy # o /\ ts[i].sell # o
    PROVE  Count(ts, o) = 0
<1>1. UnitsIn(ts, {o}, "BUY") = {} /\ UnitsIn(ts, {o}, "SELL") = {}
  BY DEF UnitsIn
<1>2. Cardinality(UnitsIn(ts, {o}, "BUY")) = 0 /\ Cardinality(UnitsIn(ts, {o}, "SELL")) = 0
  BY <1>1, FS_EmptySet, Zenon
<1> QED
  BY <1>2 DEF Count

\* A step of the request p, to j: what it has to see to, of its own order and of others.
LEMMA CountStep ==
    ASSUME Counted, JobsTyped, NEW p \in Workers, NEW j,
           job' = [job EXCEPT ![p] = j],
           DOMAIN orders \subseteq DOMAIN orders',
           \A o \in DOMAIN orders : /\ orders'[o].type = orders[o].type
                                    /\ orders'[o].quantity = orders[o].quantity,
           \A q \in Workers : job[q].at \in Loop => Market(job[q].order),
           \A o \in DOMAIN orders :
              orders[o].type = "MARKET" /\ ~(job[p].at \in Loop /\ job[p].order = o) =>
                /\ Count(trades', o) = Count(trades, o)
                /\ orders'[o].status \in {orders[o].status, "CANCELLED"},
           j.at \in Loop => \/ job[p].at \in Loop /\ j.order = job[p].order
                            \/ j.order \notin DOMAIN orders,
           JobCounted(j, trades', orders'),
           \A o \in DOMAIN orders' :
              o \notin DOMAIN orders \/ (job[p].at \in Loop /\ job[p].order = o) =>
                TrueStatus(o, trades', orders'),
           TradesKnown'
    PROVE  Counted'
<1>1. DOMAIN job' = Workers /\ \A q \in Workers : job'[q] = IF q = p THEN j ELSE job[q]
  BY DEF JobsTyped
<1>2. \A q \in Workers : job[q].at \in Loop => job[q].order \in DOMAIN orders
  BY DEF Market
<1>3. OneEach'
  <2> SUFFICES ASSUME NEW q \in Workers, NEW r \in Workers, q # r,
                      job'[q].at \in Loop, job'[r].at \in Loop
               PROVE  job'[q].order # job'[r].order
    BY DEF OneEach
  <2>1. CASE q = p
    BY <1>1, <1>2, <2>1 DEF Counted, OneEach
  <2>2. CASE r = p
    BY <1>1, <1>2, <2>2 DEF Counted, OneEach
  <2>3. CASE q # p /\ r # p
    BY <1>1, <2>3 DEF Counted, OneEach
  <2> QED
    BY <2>1, <2>2, <2>3
<1>4. ASSUME NEW q \in Workers PROVE JobCounted(job'[q], trades', orders')
  <2>1. CASE q = p
    BY <1>1, <2>1
  <2>2. CASE q # p
    <3>1. job'[q] = job[q] /\ JobCounted(job[q], trades, orders)
      BY <1>1, <2>2 DEF Counted
    <3>2. ASSUME job[q].at \in Loop
          PROVE  /\ Count(trades', job[q].order) + job[q].left = orders'[job[q].order].quantity
                 /\ orders'[job[q].order].status \notin {"FILLED", "PARTIALLY_FILLED"}
      <4>1. job[q].order \in DOMAIN orders /\ orders[job[q].order].type = "MARKET"
        BY <3>2 DEF Market
      <4>2. ~(job[p].at \in Loop /\ job[p].order = job[q].order)
        BY <2>2, <3>2 DEF Counted, OneEach
      <4>3. /\ Count(trades, job[q].order) + job[q].left = orders[job[q].order].quantity
            /\ orders[job[q].order].status \notin {"FILLED", "PARTIALLY_FILLED"}
        BY <3>1, <3>2 DEF JobCounted
      <4> QED
        BY <4>1, <4>2, <4>3
    <3>3. ASSUME job[q].at = "SaveTrade" PROVE orders'[job[q].resting].type # "MARKET"
      <4>1. job[q].resting \in DOMAIN orders
        BY <3>3 DEF JobsTyped, JobTyped
      <4> QED
        BY <3>1, <3>3, <4>1 DEF JobCounted
    <3> QED
      BY <3>1, <3>2, <3>3 DEF JobCounted
  <2> QED
    BY <2>1, <2>2
<1>5. ASSUME NEW o \in DOMAIN orders' PROVE TrueStatus(o, trades', orders')
  <2>1. CASE o \notin DOMAIN orders \/ (job[p].at \in Loop /\ job[p].order = o)
    BY <2>1
  <2>2. CASE o \in DOMAIN orders /\ ~(job[p].at \in Loop /\ job[p].order = o)
    <3>1. TrueStatus(o, trades, orders)
      BY <2>2 DEF Counted
    <3> QED
      BY <2>2, <3>1 DEF TrueStatus
  <2> QED
    BY <2>1, <2>2
<1> QED
  BY <1>3, <1>4, <1>5 DEF Counted

\* A step that writes neither orders nor trades.
LEMMA QuietCounted ==
    ASSUME Counted, Typed, IInv, NEW p \in Workers, NEW j, job' = [job EXCEPT ![p] = j],
           UNCHANGED <<orders, trades>>,
           j.at \in Loop => /\ job[p].at \in Loop
                            /\ j.order = job[p].order /\ j.left = job[p].left,
           j.at = "SaveTrade" => orders[j.resting].type # "MARKET"
    PROVE  Counted'
<1>1. \A q \in Workers : job[q].at \in Loop => Market(job[q].order)
  BY DEF IInv, Shapes, JobOK, Loop
<1>2. JobCounted(j, trades, orders)
  BY DEF Counted, JobCounted
<1>3. \A o \in DOMAIN orders : TrueStatus(o, trades, orders)
  BY DEF Counted
<1>4. TradesKnown'
  BY DEF Counted, TradesKnown
<1>5. JobsTyped
  BY DEF Typed
<1>6. JobCounted(j, trades', orders') /\ \A o \in DOMAIN orders' : TrueStatus(o, trades', orders')
  BY <1>2, <1>3
<1> QED
  BY <1>1, <1>4, <1>5, <1>6, CountStep

LEMMA QuietStepsCounted ==
    ASSUME Counted, Typed, IInv, NEW p \in Workers,
           \/ PlaceOrder(p) \/ CancelOrder(p) \/ Abort(p) \/ AddToBook(p) \/ RemoveFromBook(p)
           \/ GetBest(p) \/ FindPosition(p) \/ SavePosition(p)
    PROVE  Counted'
<1> USE DEF Become
<1>1. CASE PlaceOrder(p)
  <2>1. PICK u \in Users, dto \in PlaceOrderDto :
         job' = [job EXCEPT ![p] =
           [at |-> "SaveOrder", user |-> u, side |-> dto.side, type |-> dto.type,
            quantity |-> dto.quantity, price |-> dto.price]]
    BY <1>1 DEF PlaceOrder
  <2> DEFINE j == [at |-> "SaveOrder", user |-> u, side |-> dto.side, type |-> dto.type,
                   quantity |-> dto.quantity, price |-> dto.price]
  <2>2. j.at \notin Loop /\ job' = [job EXCEPT ![p] = j]
    BY <2>1 DEF Loop
  <2> HIDE DEF j
  <2> QED
    BY <1>1, <2>2, QuietCounted DEF PlaceOrder, Loop
<1>2. CASE CancelOrder(p)
  <2>1. PICK o \in DOMAIN orders : job' = [job EXCEPT ![p] = [at |-> "SaveCancelled", order |-> o]]
    BY <1>2 DEF CancelOrder
  <2> DEFINE j == [at |-> "SaveCancelled", order |-> o]
  <2>2. j.at \notin Loop /\ job' = [job EXCEPT ![p] = j]
    BY <2>1 DEF Loop
  <2> HIDE DEF j
  <2> QED
    BY <1>2, <2>2, QuietCounted DEF CancelOrder, Loop
<1>3. CASE Abort(p) \/ AddToBook(p) \/ RemoveFromBook(p)
  <2> DEFINE i == [at |-> "SaveOpen", order |-> job[p].order]
  <2>1. i.at \notin Loop /\ Idle.at \notin Loop
    BY DEF Idle, Loop
  <2>2. /\ job' = [job EXCEPT ![p] = i] \/ job' = [job EXCEPT ![p] = Idle]
        /\ UNCHANGED <<orders, trades>>
    BY <1>3 DEF Abort, AddToBook, RemoveFromBook
  <2> HIDE DEF i
  <2> QED
    BY <2>1, <2>2, QuietCounted DEF Loop
<1>4. CASE GetBest(p)
  <2>1. job[p].at \in Loop /\ UNCHANGED <<orders, trades>>
    BY <1>4 DEF GetBest, Loop
  <2>2. CASE Become(p, BreakLoop(p))
    <3>1. /\ BreakLoop(p).at = "SaveStatus" /\ BreakLoop(p).order = job[p].order
          /\ BreakLoop(p).left = job[p].left
      BY DEF BreakLoop
    <3>2. job' = [job EXCEPT ![p] = BreakLoop(p)]
      BY <2>2
    <3> QED
      BY <2>1, <3>1, <3>2, QuietCounted
  <2>3. ASSUME NEW o \in getBestAsk \cup getBestBid,
               Become(p, [at |-> "SaveTrade", order |-> job[p].order, left |-> job[p].left,
                          resting |-> o, price |-> book[o]])
        PROVE  Counted'
    <3> DEFINE j == [at |-> "SaveTrade", order |-> job[p].order, left |-> job[p].left,
                     resting |-> o, price |-> book[o]]
    <3>1. o \in DOMAIN book
      BY DEF getBestAsk, getBestBid, OnBook
    <3>2. orders[j.resting].type # "MARKET"
      BY <3>1 DEF IInv, Shapes, Resting
    <3>3. j.order = job[p].order /\ j.left = job[p].left /\ job' = [job EXCEPT ![p] = j]
      BY <2>3
    <3> HIDE DEF j
    <3> QED
      BY <2>1, <3>2, <3>3, QuietCounted
  <2> QED
    BY <1>4, <2>2, <2>3 DEF GetBest
<1>5. CASE FindPosition(p)
  <2> DEFINE u == Head(job[p].legs).user
             j == [at |-> "SavePosition", order |-> job[p].order, left |-> job[p].left,
                   legs |-> job[p].legs, known |-> u \in DOMAIN positions, seen |-> Quantity(u)]
  <2>1. /\ j.order = job[p].order /\ j.left = job[p].left /\ j.at # "SaveTrade"
        /\ job' = [job EXCEPT ![p] = j]
    BY <1>5 DEF FindPosition
  <2>2. job[p].at \in Loop /\ UNCHANGED <<orders, trades>>
    BY <1>5 DEF FindPosition, Loop
  <2> HIDE DEF j
  <2> QED
    BY <2>1, <2>2, QuietCounted
<1>6. CASE SavePosition(p)
  <2> DEFINE next == IF Len(job[p].legs) = 1 THEN Fill(job[p].order, job[p].left)
                     ELSE [at |-> "FindPosition", order |-> job[p].order,
                           left |-> job[p].left, legs |-> Tail(job[p].legs)]
  <2>1. /\ next.order = job[p].order /\ next.left = job[p].left /\ next.at # "SaveTrade"
    BY DEF Fill
  <2>2. job[p].at \in Loop /\ UNCHANGED <<orders, trades>>
    BY <1>6 DEF SavePosition, Loop
  <2>3. job' = [job EXCEPT ![p] = next] \/ job' = [job EXCEPT ![p] = Idle]
    BY <1>6 DEF SavePosition
  <2>4. Idle.at \notin Loop /\ Idle.at # "SaveTrade"
    BY DEF Idle, Loop
  <2> HIDE DEF next
  <2> QED
    BY <2>1, <2>2, <2>3, <2>4, QuietCounted
<1> QED
  BY <1>1, <1>2, <1>3, <1>4, <1>5, <1>6

LEMMA SaveOrderCounted ==
    ASSUME Counted, Typed, IInv, NEW p \in Workers, SaveOrder(p)
    PROVE  Counted'
<1>1. PICK o \in Orders \ DOMAIN orders :
         /\ orders' = Put(orders, o,
              [user |-> job[p].user, side |-> job[p].side, type |-> job[p].type,
               quantity |-> job[p].quantity, price |-> job[p].price,
               status |-> IF job[p].type = "MARKET" THEN "OPEN" ELSE "PENDING",
               created |-> Cardinality(DOMAIN orders) + 1])
         /\ Become(p, IF job[p].type = "MARKET" THEN Fill(o, job[p].quantity)
                      ELSE [at |-> "AddToBook", order |-> o])
  BY DEF SaveOrder
<1> DEFINE j == IF job[p].type = "MARKET" THEN Fill(o, job[p].quantity)
                ELSE [at |-> "AddToBook", order |-> o]
<1>2. /\ DOMAIN orders' = DOMAIN orders \cup {o}
      /\ \A x \in DOMAIN orders : orders'[x] = orders[x]
      /\ orders'[o].quantity = job[p].quantity
      /\ orders'[o].status \in {"OPEN", "PENDING"}
  BY <1>1 DEF Put
<1>3. trades' = trades /\ job[p].at \notin Loop
  BY DEF SaveOrder, Loop
<1>4. Count(trades, o) = 0
  <2>1. \A i \in 1..Len(trades) : trades[i].buy # o /\ trades[i].sell # o
    BY <1>1 DEF Counted, TradesKnown
  <2> QED
    BY <2>1, NothingTraded DEF Typed, Data
<1>5. job[p].quantity \in Nat
  BY TradingAssumption DEF Typed, JobsTyped, JobTyped, SaveOrder
<1>6. job' = [job EXCEPT ![p] = j]
  BY <1>1 DEF Become
<1>7. j.at \in Loop => j.order = o /\ j.left = job[p].quantity
  BY DEF Fill, Loop
<1>8. j.at # "SaveTrade"
  BY DEF Fill
<1> HIDE DEF j
<1>9. JobCounted(j, trades', orders')
  BY <1>2, <1>3, <1>4, <1>5, <1>7, <1>8 DEF JobCounted
<1>10. TrueStatus(o, trades', orders')
  BY <1>2 DEF TrueStatus
<1>11. TradesKnown'
  BY <1>2, <1>3 DEF Counted, TradesKnown
<1>12. \A q \in Workers : job[q].at \in Loop => Market(job[q].order)
  BY DEF IInv, Shapes, JobOK, Loop
<1>13. j.at \in Loop => j.order \notin DOMAIN orders
  BY <1>1, <1>7
<1>14. JobsTyped
  BY DEF Typed
<1> QED
  BY <1>2, <1>3, <1>6, <1>9, <1>10, <1>11, <1>12, <1>13, <1>14, CountStep

\* A step that saves a status and leaves the loop, if the request was in it.
LEMMA StatusCounted ==
    ASSUME Counted, Typed, IInv, NEW p \in Workers, NEW j, j.at \notin Loop,
           job' = [job EXCEPT ![p] = j], UNCHANGED trades,
           NEW o \in DOMAIN orders, NEW status, SetStatus(o, status),
           \/ status = "CANCELLED"
           \/ orders[o].type # "MARKET" /\ job[p].at \notin Loop
           \/ /\ job[p].at \in Loop /\ job[p].order = o
              /\ status = FinalStatus(o, job[p].left)
    PROVE  Counted'
<1>1. /\ DOMAIN orders' = DOMAIN orders
      /\ \A x \in DOMAIN orders : x # o => orders'[x] = orders[x]
  BY DEF SetStatus
<1>2. orders[o] \in Order
  BY DEF Typed, Data
<1>3. orders'[o] = [orders[o] EXCEPT !.status = status]
  BY DEF SetStatus
<1>4. /\ orders'[o].status = status
      /\ orders'[o].type = orders[o].type /\ orders'[o].quantity = orders[o].quantity
  BY <1>2, <1>3 DEF Order
<1>5. \A x \in DOMAIN orders : /\ orders'[x].type = orders[x].type
                               /\ orders'[x].quantity = orders[x].quantity
  BY <1>1, <1>4
<1>6. JobCounted(j, trades', orders')
  BY DEF JobCounted, Loop
<1>7. \A x \in DOMAIN orders :
         orders[x].type = "MARKET" /\ ~(job[p].at \in Loop /\ job[p].order = x) =>
            orders'[x].status \in {orders[x].status, "CANCELLED"}
  BY <1>1, <1>4
<1>8. ASSUME NEW x \in DOMAIN orders', job[p].at \in Loop, job[p].order = x
      PROVE  TrueStatus(x, trades', orders')
  <2>1. /\ Count(trades, x) + job[p].left = orders[x].quantity
        /\ orders[x].status \notin {"FILLED", "PARTIALLY_FILLED"}
    BY <1>8 DEF Counted, JobCounted
  <2>2. CASE x # o
    BY <1>1, <1>8, <2>1, <2>2 DEF TrueStatus
  <2>3. CASE x = o /\ status = "CANCELLED"
    BY <1>4, <2>3 DEF TrueStatus
  <2>4. CASE x = o /\ status = FinalStatus(o, job[p].left)
    <3>1. job[p].left \in Nat /\ orders[o].quantity \in Nat \ {0}
      BY <1>2, <1>8, TradingAssumption DEF Order, Typed, JobsTyped, JobTyped
    <3>2. Count(trades, o) \in Nat
      <4>1. trades \in Seq(Trade)
        BY DEF Typed, Data
      <4>2. IsFiniteSet(UnitsIn(trades, {o}, "BUY")) /\ IsFiniteSet(UnitsIn(trades, {o}, "SELL"))
        BY <4>1, UnitsFinite
      <4>3. /\ Cardinality(UnitsIn(trades, {o}, "BUY")) \in Nat
            /\ Cardinality(UnitsIn(trades, {o}, "SELL")) \in Nat
        BY <4>2, FS_CardinalityType
      <4> QED
        BY <4>3 DEF Count
    <3>3. \/ status = "FILLED" /\ job[p].left = 0
          \/ status = "PARTIALLY_FILLED" /\ 0 < job[p].left /\ job[p].left < orders[o].quantity
          \/ status = "CANCELLED"
      BY <2>4, <3>1 DEF FinalStatus
    <3> QED
      BY <1>4, <2>1, <2>4, <3>1, <3>2, <3>3 DEF TrueStatus
  <2> QED
    BY <1>8, <2>2, <2>3, <2>4
<1>9. \A q \in Workers : job[q].at \in Loop => Market(job[q].order)
  BY DEF IInv, Shapes, JobOK, Loop
<1>10. TradesKnown'
  BY <1>1 DEF Counted, TradesKnown
<1>11. JobsTyped /\ trades' = trades
  BY DEF Typed
<1> QED
  BY <1>1, <1>5, <1>6, <1>7, <1>8, <1>9, <1>10, <1>11, CountStep

LEMMA SavesCounted ==
    ASSUME Counted, Typed, IInv, NEW p \in Workers, SaveOpen(p) \/ SaveStatus(p) \/ SaveCancelled(p)
    PROVE  Counted'
<1> DEFINE o == job[p].order
           j == [at |-> "Remove", order |-> o]
<1>1. o \in DOMAIN orders /\ trades' = trades
  BY DEF Typed, JobsTyped, JobTyped, SaveOpen, SaveStatus, SaveCancelled, Loop
<1>2. j.at \notin Loop /\ Idle.at \notin Loop
  BY DEF Idle, Loop
<1>3. CASE SaveOpen(p)
  <2>1. SetStatus(o, "OPEN") /\ job' = [job EXCEPT ![p] = Idle]
    BY <1>3 DEF SaveOpen, Become
  <2>2. orders[o].type # "MARKET" /\ job[p].at \notin Loop
    BY <1>3 DEF SaveOpen, IInv, Shapes, JobOK, Resting, Loop
  <2> HIDE DEF o
  <2> QED
    BY <1>1, <1>2, <2>1, <2>2, StatusCounted
<1>4. CASE SaveStatus(p)
  <2>1. SetStatus(o, FinalStatus(o, job[p].left)) /\ job' = [job EXCEPT ![p] = Idle]
    BY <1>4 DEF SaveStatus, Become
  <2>2. job[p].at \in Loop /\ job[p].order = o
    BY <1>4 DEF SaveStatus, Loop
  <2> HIDE DEF o
  <2> QED
    BY <1>1, <1>2, <2>1, <2>2, StatusCounted
<1>5. CASE SaveCancelled(p)
  <2>1. SetStatus(o, "CANCELLED") /\ job' = [job EXCEPT ![p] = j]
    BY <1>5 DEF SaveCancelled, Become
  <2> HIDE DEF j, o
  <2> QED
    BY <1>1, <1>2, <2>1, StatusCounted
<1> QED
  BY <1>3, <1>4, <1>5

LEMMA SaveTradeCounted ==
    ASSUME Counted, Typed, IInv, NEW p \in Workers, SaveTrade(p)
    PROVE  Counted'
<1> DEFINE o == job[p].order
<1>1. PICK t \in Trade, legs \in Seq(Leg) :
         /\ trades' = Append(trades, t)
         /\ Become(p, [at |-> "FindPosition", order |-> job[p].order,
                       left |-> job[p].left - t.quantity, legs |-> legs])
         /\ t.quantity <= job[p].left
         /\ {t.buy, t.sell} = {job[p].order, job[p].resting}
  BY TradeFacts
<1> DEFINE j == [at |-> "FindPosition", order |-> o, left |-> job[p].left - t.quantity, legs |-> legs]
<1>2. job[p].at = "SaveTrade" /\ job[p].at \in Loop /\ orders' = orders
  BY DEF SaveTrade, Loop
<1>3. /\ o \in DOMAIN orders /\ job[p].resting \in DOMAIN orders
      /\ job[p].left \in Nat /\ trades \in Seq(Trade) /\ t.quantity \in Nat
  BY <1>2, TradingAssumption DEF Typed, Data, JobsTyped, JobTyped, Trade
<1>4. orders[o].type = "MARKET" /\ orders[job[p].resting].type # "MARKET"
  BY <1>2 DEF IInv, Shapes, JobOK, Market, Counted, JobCounted
<1>5. Count(trades, o) \in Nat /\ Count(trades', o) = Count(trades, o) + t.quantity
  <2>1. \/ t.buy = o /\ t.sell # o
        \/ t.buy # o /\ t.sell = o
    BY <1>1, <1>4
  <2> HIDE DEF o
  <2> QED
    BY <1>1, <1>3, <2>1, CountAfter
<1>6. ASSUME NEW x \in DOMAIN orders, orders[x].type = "MARKET", x # o
      PROVE  Count(trades', x) = Count(trades, x)
  <2>1. t.buy # x /\ t.sell # x
    BY <1>1, <1>4, <1>6
  <2> QED
    BY <1>1, <1>3, <2>1, CountAfter
<1>7. /\ Count(trades, o) + job[p].left = orders[o].quantity
      /\ orders[o].status \notin {"FILLED", "PARTIALLY_FILLED"}
  BY <1>2 DEF Counted, JobCounted
<1>8. /\ j.at = "FindPosition" /\ j.order = o /\ j.left = job[p].left - t.quantity
      /\ job' = [job EXCEPT ![p] = j]
  BY <1>1 DEF Become
<1>9. t.buy \in DOMAIN orders /\ t.sell \in DOMAIN orders
  BY <1>1, <1>3
<1> HIDE DEF j, o
<1>10. JobCounted(j, trades', orders')
  BY <1>2, <1>3, <1>5, <1>7, <1>8 DEF JobCounted
<1>11. TrueStatus(o, trades', orders')
  BY <1>2, <1>7 DEF TrueStatus
<1>12. TradesKnown'
  <2>1. Len(trades') = Len(trades) + 1 /\ Len(trades) \in Nat
    BY <1>1, <1>3, AppendProperties, LenProperties
  <2>2. trades'[Len(trades) + 1] = t /\ \A i \in 1..Len(trades) : trades'[i] = trades[i]
    BY <1>1, <1>3, AppendProperties
  <2> QED
    BY <1>2, <1>9, <2>1, <2>2 DEF Counted, TradesKnown
<1>13. \A q \in Workers : job[q].at \in Loop => Market(job[q].order)
  BY DEF IInv, Shapes, JobOK, Loop
<1>14. JobsTyped
  BY DEF Typed
<1>15. job[p].order = o
  BY DEF o
<1> QED
  BY <1>2, <1>6, <1>8, <1>10, <1>11, <1>12, <1>13, <1>14, <1>15, CountStep

LEMMA NextCounted == IInv /\ Typed /\ Counted /\ [Next]_vars => Counted'
<1> SUFFICES ASSUME IInv, Typed, Counted, [Next]_vars PROVE Counted'
  OBVIOUS
<1>1. CASE UNCHANGED vars
  BY <1>1 DEF vars, Counted, OneEach, TradesKnown
<1> QED
  BY <1>1, QuietStepsCounted, SaveOrderCounted, SavesCounted, SaveTradeCounted DEF Next, Step

\* The status of a market order is true to its trades, whatever the other
\* requests do and wherever one fails.
THEOREM StatusIsTrue == Spec => []StatusMatchesTrades
<1>1. Init => Counted
  BY DEF Init, Counted, JobCounted, OneEach, TradesKnown, Idle, Loop
<1>2. Counted => StatusMatchesTrades
  <2>1. \A o : Traded(o) = Count(trades, o)
    BY DEF Traded, Bought, Sold, Units, Count, UnitsIn
  <2> QED
    BY <2>1 DEF Counted, TrueStatus, StatusMatchesTrades
<1> QED
  BY <1>1, <1>2, InitIInv, NextIInv, InitTyped, NextTyped, NextCounted, PTL DEF Spec

-----------------------------------------------------------------------------
(* What a user bought and sold.                                            *)

LEMMA SidesNat ==
    ASSUME Data, NEW u PROVE Bought(OrdersOf(u)) \in Nat /\ Sold(OrdersOf(u)) \in Nat
<1>1. \A S, side : IsFiniteSet(UnitsIn(trades, S, side))
  BY UnitsFinite DEF Data
<1>2. \A S, side : Cardinality(UnitsIn(trades, S, side)) \in Nat
  BY <1>1, FS_CardinalityType
<1>3. \A S, side : Units(S, side) = UnitsIn(trades, S, side)
  BY DEF Units, UnitsIn
<1> QED
  BY <1>2, <1>3 DEF Bought, Sold

\* A trade is what its buyer bought and its seller sold.
LEMMA SidesAfterTrade ==
    ASSUME Data, NEW t \in Trade, trades' = Append(trades, t), orders' = orders, NEW u,
           t.buy \in DOMAIN orders, t.sell \in DOMAIN orders
    PROVE  /\ Bought(OrdersOf(u))' = Bought(OrdersOf(u))
                                     + (IF orders[t.buy].user = u THEN t.quantity ELSE 0)
           /\ Sold(OrdersOf(u))' = Sold(OrdersOf(u))
                                   + (IF orders[t.sell].user = u THEN t.quantity ELSE 0)
<1> DEFINE S == OrdersOf(u)
           b == IF orders[t.buy].user = u THEN t.quantity ELSE 0
           s == IF orders[t.sell].user = u THEN t.quantity ELSE 0
<1>1. trades \in Seq(Trade)
  BY DEF Data
<1>2. /\ b = IF (IF "BUY" = "BUY" THEN t.buy ELSE t.sell) \in S THEN t.quantity ELSE 0
      /\ s = IF (IF "SELL" = "BUY" THEN t.buy ELSE t.sell) \in S THEN t.quantity ELSE 0
  BY DEF OrdersOf
<1>3. /\ Bought(S) = Cardinality(UnitsIn(trades, S, "BUY"))
      /\ Sold(S) = Cardinality(UnitsIn(trades, S, "SELL"))
  BY DEF Bought, Sold, Units, UnitsIn
<1>4. /\ Bought(S)' = Cardinality(UnitsIn(Append(trades, t), S, "BUY"))
      /\ Sold(S)' = Cardinality(UnitsIn(Append(trades, t), S, "SELL"))
  BY DEF Bought, Sold, Units, UnitsIn, OrdersOf
<1> HIDE DEF b, s, S
<1>5. /\ Cardinality(UnitsIn(Append(trades, t), S, "BUY"))
           = Cardinality(UnitsIn(trades, S, "BUY")) + b
      /\ Cardinality(UnitsIn(Append(trades, t), S, "SELL"))
           = Cardinality(UnitsIn(trades, S, "SELL")) + s
  BY <1>1, <1>2, UnitsAfter
<1> QED
  BY <1>3, <1>4, <1>5 DEF b, s, S

\* New orders that no trade names yet change nothing of that.
LEMMA SidesSame ==
    ASSUME TradesKnown, trades' = trades, DOMAIN orders \subseteq DOMAIN orders',
           \A o \in DOMAIN orders : orders'[o].user = orders[o].user, NEW u
    PROVE  /\ Bought(OrdersOf(u))' = Bought(OrdersOf(u))
           /\ Sold(OrdersOf(u))' = Sold(OrdersOf(u))
<1>1. \A o \in DOMAIN orders : o \in OrdersOf(u)' <=> o \in OrdersOf(u)
  BY DEF OrdersOf
<1>2. ASSUME NEW side PROVE Units(OrdersOf(u), side)' = Units(OrdersOf(u), side)
  BY <1>1 DEF TradesKnown, Units
<1> QED
  BY <1>2 DEF Bought, Sold

-----------------------------------------------------------------------------
(* Positions and trades, with one request at a time.  What the trades of a *)
(* user add up to and what the row of positions says differ by what the    *)
(* request under way still owes the row, and by at most one fill for each  *)
(* market order whose request has failed.                                  *)

Alone == \A p, q \in Workers : p = q

Updates == {"FindPosition", "SavePosition"}

LegFor(leg, u) == IF leg.user = u THEN leg.delta ELSE 0

Owed(j, u) ==
    IF j.at \in Updates
    THEN LegFor(j.legs[1], u) + (IF Len(j.legs) = 1 THEN 0 ELSE LegFor(j.legs[2], u))
    ELSE 0

FailedMarket == {o \in DOMAIN orders : orders[o].type = "MARKET" /\ o \in failed}

JobSerial(j) ==
    /\ j.at \in Loop => orders[j.order].status = "OPEN" /\ j.order \notin failed
    /\ j.at \in Updates =>
         \/ Len(j.legs) = 1 /\ j.legs[1].delta \in -Lot..Lot
         \/ /\ Len(j.legs) = 2 /\ j.legs[1].delta \in 1..Lot
            /\ j.legs[2].delta = -j.legs[1].delta
    /\ j.at = "SavePosition" => /\ j.known <=> j.legs[1].user \in DOMAIN positions
                                /\ j.seen = Quantity(j.legs[1].user)

Drift(j, u) == Net(u) - Quantity(u) - Owed(j, u)

Limit == Lot * Cardinality(FailedMarket)

Serial(p) ==
    /\ failed \subseteq DOMAIN orders
    /\ JobSerial(job[p])
    /\ \A u \in Users : Drift(job[p], u) \in -Limit..Limit

LEMMA NetInt == ASSUME Data, NEW u PROVE Net(u) \in Int
BY SidesNat DEF Net

LEMMA NetAfterTrade ==
    ASSUME Data, NEW t \in Trade, trades' = Append(trades, t), orders' = orders, NEW u,
           t.buy \in DOMAIN orders, t.sell \in DOMAIN orders
    PROVE  Net(u)' = Net(u) + (IF orders[t.buy].user = u THEN t.quantity ELSE 0)
                            - (IF orders[t.sell].user = u THEN t.quantity ELSE 0)
<1>1. t.quantity \in Int
  BY TradingAssumption DEF Trade
<1> QED
  BY <1>1, SidesNat, SidesAfterTrade DEF Net

LEMMA NetSame ==
    ASSUME TradesKnown, trades' = trades, DOMAIN orders \subseteq DOMAIN orders',
           \A o \in DOMAIN orders : orders'[o].user = orders[o].user, NEW u
    PROVE  Net(u)' = Net(u)
BY SidesSame DEF Net

\* The failed market orders are counted, and one more of them allows one more fill.
LEMMA LimitOf ==
    ASSUME NEW S, IsFiniteSet(S), NEW T \in SUBSET S
    PROVE  /\ Lot * Cardinality(T) \in Nat /\ Lot * Cardinality(S) \in Nat
           /\ Lot * Cardinality(T) <= Lot * Cardinality(S)
           /\ \A x \in S \ T : Lot * Cardinality(T) + Lot <= Lot * Cardinality(S)
<1>1. /\ IsFiniteSet(T) /\ Cardinality(T) <= Cardinality(S)
      /\ Cardinality(T) \in Nat /\ Cardinality(S) \in Nat
  BY FS_Subset, FS_CardinalityType
<1>2. \A m, n \in Nat : m <= n => Lot * m \in Nat /\ Lot * n \in Nat /\ Lot * m <= Lot * n
  BY TradingAssumption
<1>3. ASSUME NEW x \in S \ T
      PROVE  Lot * Cardinality(T) + Lot <= Lot * Cardinality(S)
  <2>1. Cardinality(T \cup {x}) = Cardinality(T) + 1
    BY <1>1, FS_AddElement
  <2>2. T \cup {x} \in SUBSET S
    BY <1>3
  <2>3. Cardinality(T) + 1 <= Cardinality(S)
    BY <2>1, <2>2, FS_Subset
  <2>4. Lot * (Cardinality(T) + 1) <= Lot * Cardinality(S)
    BY <1>1, <1>2, <2>3
  <2>5. Lot * (Cardinality(T) + 1) = Lot * Cardinality(T) + Lot
    BY <1>1, TradingAssumption
  <2> QED
    BY <2>4, <2>5
<1> QED
  BY <1>1, <1>2, <1>3

\* A step of the request p outside the updates of positions, that books no trade.
LEMMA QuietSerial ==
    ASSUME Typed, TradesKnown, NEW p \in Workers, Serial(p), NEW j, job' = [job EXCEPT ![p] = j],
           job[p].at \notin Updates, j.at \notin Updates,
           UNCHANGED <<trades, positions, failed>>,
           DOMAIN orders \subseteq DOMAIN orders',
           \A o \in DOMAIN orders : /\ orders'[o].user = orders[o].user
                                    /\ orders'[o].type = orders[o].type,
           j.at \in Loop => orders'[j.order].status = "OPEN" /\ j.order \notin failed
    PROVE  Serial(p)'
<1>1. job'[p] = j
  BY DEF Typed, JobsTyped
<1>2. failed \subseteq DOMAIN orders
  BY DEF Serial
<1>3. JobSerial(job[p])'
  <2>1. j.at # "SavePosition"
    BY DEF Updates
  <2> QED
    BY <1>1, <2>1 DEF JobSerial
<1>4. Limit' = Limit
  <2>1. FailedMarket' = FailedMarket
    BY <1>2 DEF FailedMarket
  <2> QED
    BY <2>1 DEF Limit
<1>5. ASSUME NEW u \in Users PROVE Drift(job[p], u)' = Drift(job[p], u)
  <2>1. Net(u)' = Net(u)
    BY NetSame
  <2>2. Quantity(u)' = Quantity(u)
    BY DEF Quantity
  <2>3. Owed(job[p], u)' = 0 /\ Owed(job[p], u) = 0
    BY <1>1 DEF Owed
  <2> QED
    BY <2>1, <2>2, <2>3 DEF Drift
<1> QED
  BY <1>2, <1>3, <1>4, <1>5 DEF Serial

LEMMA SetStatusKeeps ==
    ASSUME Data, NEW o \in DOMAIN orders, NEW s, SetStatus(o, s)
    PROVE  /\ DOMAIN orders' = DOMAIN orders
           /\ \A x \in DOMAIN orders : /\ orders'[x].user = orders[x].user
                                       /\ orders'[x].type = orders[x].type
<1>1. DOMAIN orders' = DOMAIN orders
  BY DEF SetStatus
<1>2. \A x \in DOMAIN orders : orders'[x] = orders[x] \/ orders'[x] = [orders[x] EXCEPT !.status = s]
  BY DEF SetStatus
<1>3. \A row \in Order : /\ [row EXCEPT !.status = s].user = row.user
                         /\ [row EXCEPT !.status = s].type = row.type
  BY DEF Order
<1> QED
  BY <1>1, <1>2, <1>3 DEF Data

\* Placing, resting, cancelling, and what the loop does before and after a trade.
LEMMA QuietStepsSerial ==
    ASSUME Typed, TradesKnown, NEW p \in Workers, Serial(p),
           \/ PlaceOrder(p) \/ CancelOrder(p) \/ SaveOrder(p) \/ AddToBook(p) \/ SaveOpen(p)
           \/ GetBest(p) \/ SaveStatus(p) \/ SaveCancelled(p) \/ RemoveFromBook(p)
    PROVE  Serial(p)'
<1> USE DEF Become
<1>0. Idle.at \notin Updates \cup Loop
  BY DEF Idle, Updates, Loop
<1>1. CASE PlaceOrder(p)
  <2>1. PICK u, dto :
         job' = [job EXCEPT ![p] =
           [at |-> "SaveOrder", user |-> u, side |-> dto.side, type |-> dto.type,
            quantity |-> dto.quantity, price |-> dto.price]]
    BY <1>1 DEF PlaceOrder
  <2> DEFINE j == [at |-> "SaveOrder", user |-> u, side |-> dto.side, type |-> dto.type,
                   quantity |-> dto.quantity, price |-> dto.price]
  <2>2. j.at \notin Updates \cup Loop /\ job' = [job EXCEPT ![p] = j]
    BY <2>1 DEF Updates, Loop
  <2> HIDE DEF j
  <2>3. job[p].at \notin Updates /\ UNCHANGED <<orders, trades, positions, failed>>
    BY <1>0, <1>1 DEF PlaceOrder
  <2> QED
    BY <2>2, <2>3, QuietSerial
<1>2. CASE CancelOrder(p)
  <2>1. PICK o : job' = [job EXCEPT ![p] = [at |-> "SaveCancelled", order |-> o]]
    BY <1>2 DEF CancelOrder
  <2> DEFINE j == [at |-> "SaveCancelled", order |-> o]
  <2>2. j.at \notin Updates \cup Loop /\ job' = [job EXCEPT ![p] = j]
    BY <2>1 DEF Updates, Loop
  <2> HIDE DEF j
  <2>3. job[p].at \notin Updates /\ UNCHANGED <<orders, trades, positions, failed>>
    BY <1>0, <1>2 DEF CancelOrder
  <2> QED
    BY <2>2, <2>3, QuietSerial
<1>3. CASE SaveOrder(p)
  <2>1. PICK o \in Orders \ DOMAIN orders :
         /\ orders' = Put(orders, o,
              [user |-> job[p].user, side |-> job[p].side, type |-> job[p].type,
               quantity |-> job[p].quantity, price |-> job[p].price,
               status |-> IF job[p].type = "MARKET" THEN "OPEN" ELSE "PENDING",
               created |-> Cardinality(DOMAIN orders) + 1])
         /\ Become(p, IF job[p].type = "MARKET" THEN Fill(o, job[p].quantity)
                      ELSE [at |-> "AddToBook", order |-> o])
    BY <1>3 DEF SaveOrder
  <2> DEFINE j == IF job[p].type = "MARKET" THEN Fill(o, job[p].quantity)
                  ELSE [at |-> "AddToBook", order |-> o]
  <2>2. /\ DOMAIN orders' = DOMAIN orders \cup {o}
        /\ \A x \in DOMAIN orders : orders'[x] = orders[x]
        /\ job[p].type = "MARKET" => orders'[o].status = "OPEN"
    BY <2>1 DEF Put
  <2>3. job' = [job EXCEPT ![p] = j] /\ UNCHANGED <<trades, positions, failed>>
    BY <1>3, <2>1 DEF SaveOrder
  <2>4. j.at \notin Updates /\ job[p].at \notin Updates
    BY <1>3 DEF SaveOrder, Fill, Updates
  <2>5. j.at \in Loop => job[p].type = "MARKET" /\ j.order = o
    BY DEF Fill, Loop
  <2>6. o \notin failed
    BY <2>1 DEF Serial
  <2> HIDE DEF j
  <2> QED
    BY <2>2, <2>3, <2>4, <2>5, <2>6, QuietSerial
<1>4. CASE AddToBook(p) \/ RemoveFromBook(p)
  <2> DEFINE i == [at |-> "SaveOpen", order |-> job[p].order]
  <2>1. i.at \notin Updates \cup Loop
    BY DEF Updates, Loop
  <2>2. /\ job' = [job EXCEPT ![p] = i] \/ job' = [job EXCEPT ![p] = Idle]
        /\ UNCHANGED <<orders, trades, positions, failed>>
        /\ job[p].at \notin Updates
    BY <1>4 DEF AddToBook, RemoveFromBook, Updates
  <2> HIDE DEF i
  <2> QED
    BY <1>0, <2>1, <2>2, QuietSerial
<1>5. CASE SaveOpen(p) \/ SaveStatus(p) \/ SaveCancelled(p)
  <2> DEFINE i == [at |-> "Remove", order |-> job[p].order]
  <2>1. i.at \notin Updates \cup Loop
    BY DEF Updates, Loop
  <2>2. /\ job' = [job EXCEPT ![p] = i] \/ job' = [job EXCEPT ![p] = Idle]
        /\ UNCHANGED <<trades, positions, failed>>
        /\ job[p].at \notin Updates
    BY <1>5 DEF SaveOpen, SaveStatus, SaveCancelled, Updates
  <2>3. job[p].order \in DOMAIN orders
    BY <1>5 DEF Typed, JobsTyped, JobTyped, SaveOpen, SaveStatus, SaveCancelled, Loop
  <2>4. PICK s : SetStatus(job[p].order, s)
    BY <1>5 DEF SaveOpen, SaveStatus, SaveCancelled
  <2>5. /\ DOMAIN orders \subseteq DOMAIN orders'
        /\ \A x \in DOMAIN orders : /\ orders'[x].user = orders[x].user
                                    /\ orders'[x].type = orders[x].type
    BY <2>3, <2>4, SetStatusKeeps DEF Typed
  <2> HIDE DEF i
  <2> QED
    BY <1>0, <2>1, <2>2, <2>5, QuietSerial
<1>6. CASE GetBest(p)
  <2>1. /\ orders[job[p].order].status = "OPEN" /\ job[p].order \notin failed
        /\ job[p].at \notin Updates
        /\ UNCHANGED <<orders, trades, positions, failed>>
    BY <1>6 DEF GetBest, Serial, JobSerial, Loop, Updates
  <2>2. CASE Become(p, BreakLoop(p))
    <3>1. BreakLoop(p).at \notin Updates /\ BreakLoop(p).order = job[p].order
          /\ job' = [job EXCEPT ![p] = BreakLoop(p)]
      BY <2>2 DEF BreakLoop, Updates
    <3> QED
      BY <2>1, <3>1, QuietSerial
  <2>3. ASSUME NEW o, Become(p, [at |-> "SaveTrade", order |-> job[p].order, left |-> job[p].left,
                                 resting |-> o, price |-> book[o]])
        PROVE  Serial(p)'
    <3> DEFINE j == [at |-> "SaveTrade", order |-> job[p].order, left |-> job[p].left,
                     resting |-> o, price |-> book[o]]
    <3>1. j.at \notin Updates /\ j.order = job[p].order /\ job' = [job EXCEPT ![p] = j]
      BY <2>3 DEF Updates
    <3> HIDE DEF j
    <3> QED
      BY <2>1, <3>1, QuietSerial
  <2> QED
    BY <1>6, <2>2, <2>3 DEF GetBest
<1> QED
  BY <1>1, <1>2, <1>3, <1>4, <1>5, <1>6

\* The trade is booked, and owed to the positions of its two users.
LEMMA SaveTradeSerial ==
    ASSUME Typed, TradesKnown, NEW p \in Workers, Serial(p), SaveTrade(p)
    PROVE  Serial(p)'
<1> DEFINE i        == job[p]
           quantity == IF i.left < Lot THEN i.left ELSE Lot
           isBuy    == orders[i.order].side = "BUY"
           buy      == IF isBuy THEN i.order ELSE i.resting
           sell     == IF isBuy THEN i.resting ELSE i.order
           t        == [buy |-> buy, sell |-> sell, quantity |-> quantity, price |-> i.price]
           j        == [at |-> "FindPosition", order |-> i.order, left |-> i.left - quantity,
                        legs |-> Legs(buy, sell, quantity)]
<1>1. /\ i.at = "SaveTrade" /\ i.order \in DOMAIN orders /\ i.resting \in DOMAIN orders
      /\ i.left \in Nat /\ i.left > 0 /\ i.price \in Scores
  BY DEF Typed, JobsTyped, JobTyped, SaveTrade, Loop
<1>2. quantity \in 1..Lot /\ quantity \in Int
  BY <1>1, TradingAssumption
<1>3. buy \in DOMAIN orders /\ sell \in DOMAIN orders
  BY <1>1
<1>4. /\ trades' = Append(trades, t) /\ job' = [job EXCEPT ![p] = j]
      /\ UNCHANGED <<orders, positions, failed>>
  BY DEF SaveTrade, Become
<1>5. job'[p] = j
  BY <1>4 DEF Typed, JobsTyped
<1>6. orders[i.order].status = "OPEN" /\ i.order \notin failed /\ failed \subseteq DOMAIN orders
  BY <1>1 DEF Serial, JobSerial, Loop
<1> HIDE DEF quantity, buy, sell, isBuy, i
<1>7. /\ j.at = "FindPosition" /\ j.order = i.order
      /\ Len(j.legs) = 2
      /\ j.legs[1].user = orders[buy].user /\ j.legs[1].delta = quantity
      /\ j.legs[2].user = orders[sell].user /\ j.legs[2].delta = -quantity
  BY DEF Legs
<1>8. t \in Trade /\ t.buy = buy /\ t.sell = sell /\ t.quantity = quantity
  BY <1>1, <1>2, <1>3 DEF Trade, Typed, Data, i
<1> HIDE DEF j, t
<1>9. JobSerial(job[p])'
  BY <1>2, <1>4, <1>5, <1>6, <1>7 DEF JobSerial
<1>10. Limit' = Limit
  BY <1>4 DEF Limit, FailedMarket
<1>11. ASSUME NEW u \in Users PROVE Drift(job[p], u)' = Drift(job[p], u)
  <2> DEFINE b == IF orders[buy].user = u THEN quantity ELSE 0
             s == IF orders[sell].user = u THEN quantity ELSE 0
  <2>1. Net(u)' = Net(u) + b - s
    BY <1>3, <1>4, <1>8, NetAfterTrade DEF Typed
  <2>2. Quantity(u)' = Quantity(u) /\ Quantity(u) \in Int
    BY <1>4 DEF Quantity, Typed, Data, Position
  <2>3. Owed(job[p], u) = 0
    BY <1>1 DEF Owed, Updates, i
  <2>4. Owed(j, u) = b + (-s)
    BY <1>2, <1>7 DEF Owed, Updates, LegFor
  <2>5. b \in Int /\ s \in Int /\ Net(u) \in Int
    BY <1>2, NetInt DEF Typed
  <2>6. Owed(job[p], u)' = Owed(j, u)
    BY <1>5 DEF Owed, LegFor
  <2> HIDE DEF b, s
  <2> QED
    BY <2>1, <2>2, <2>3, <2>4, <2>5, <2>6 DEF Drift
<1> QED
  BY <1>4, <1>6, <1>9, <1>10, <1>11 DEF Serial

\* The row is read for the first of the updates that are owed.
LEMMA FindPositionSerial ==
    ASSUME Typed, TradesKnown, NEW p \in Workers, Serial(p), FindPosition(p)
    PROVE  Serial(p)'
<1> DEFINE i == job[p]
           u0 == Head(i.legs).user
           j == [at |-> "SavePosition", order |-> i.order, left |-> i.left, legs |-> i.legs,
                 known |-> u0 \in DOMAIN positions, seen |-> Quantity(u0)]
<1>1. /\ i.at = "FindPosition" /\ i.legs \in Seq(Leg) /\ i.legs # <<>>
      /\ job' = [job EXCEPT ![p] = j]
      /\ UNCHANGED <<orders, trades, positions, failed>>
  BY DEF FindPosition, Become, Typed, JobsTyped, JobTyped
<1>2. job'[p] = j
  BY <1>1 DEF Typed, JobsTyped
<1>3. u0 = i.legs[1].user
  BY <1>1
<1>4. /\ j.at = "SavePosition" /\ j.order = i.order /\ j.legs = i.legs
      /\ j.known = (u0 \in DOMAIN positions) /\ j.seen = Quantity(u0)
  OBVIOUS
<1> HIDE DEF j, u0
<1>5. JobSerial(i) /\ i.at \in Loop /\ i.at \in Updates
  BY <1>1 DEF Serial, Loop, Updates
<1>6. JobSerial(j)
  BY <1>3, <1>4, <1>5 DEF JobSerial
<1>7. JobSerial(job[p])'
  BY <1>1, <1>2, <1>6 DEF JobSerial, Quantity
<1>8. Limit' = Limit
  BY <1>1 DEF Limit, FailedMarket
<1>9. ASSUME NEW u \in Users PROVE Drift(job[p], u)' = Drift(job[p], u)
  <2>1. Net(u)' = Net(u)
    BY <1>1, NetSame
  <2>2. Quantity(u)' = Quantity(u)
    BY <1>1 DEF Quantity
  <2>3. Owed(job[p], u)' = Owed(job[p], u)
    BY <1>1, <1>2, <1>4 DEF Owed, LegFor, Updates
  <2> QED
    BY <2>1, <2>2, <2>3 DEF Drift
<1> QED
  BY <1>1, <1>7, <1>8, <1>9 DEF Serial

\* The row takes what it is owed: nobody has written it since it was read.
LEMMA SavePositionSerial ==
    ASSUME Typed, TradesKnown, NEW p \in Workers, Serial(p), SavePosition(p)
    PROVE  Serial(p)'
<1> DEFINE i == job[p]
           u0 == Head(i.legs).user
           quantity == i.seen + Head(i.legs).delta
           j == IF Len(i.legs) = 1 THEN Fill(i.order, i.left)
                ELSE [at |-> "FindPosition", order |-> i.order, left |-> i.left,
                      legs |-> Tail(i.legs)]
<1>1. /\ i.at = "SavePosition" /\ i.legs \in Seq(Leg) /\ i.legs # <<>>
      /\ UNCHANGED <<orders, trades, failed>>
  BY DEF SavePosition, Become, Typed, JobsTyped, JobTyped
<1>2. JobSerial(i) /\ i.at \in Loop /\ i.at \in Updates
  BY <1>1 DEF Serial, Loop, Updates
<1>3. /\ u0 = i.legs[1].user /\ Head(i.legs).delta = i.legs[1].delta
      /\ i.legs[1].delta \in Int
      /\ Len(i.legs) = 2 => i.legs[2].delta \in Int
  <2>1. Head(i.legs) = i.legs[1] /\ Len(i.legs) \in Nat /\ Len(i.legs) >= 1
    BY <1>1, HeadTailProperties, EmptySeq, LenProperties
  <2>2. i.legs[1] \in Leg /\ (Len(i.legs) = 2 => i.legs[2] \in Leg)
    BY <1>1, <2>1, ElementOfSeq
  <2> QED
    BY <2>1, <2>2 DEF Leg
<1>4. i.known <=> u0 \in DOMAIN positions
  BY <1>1, <1>2, <1>3 DEF JobSerial
<1>5. i.seen = Quantity(u0)
  BY <1>1, <1>2, <1>3 DEF JobSerial
<1>6. positions' = Put(positions, u0, quantity) /\ job' = [job EXCEPT ![p] = j]
  BY <1>4 DEF SavePosition, Become
<1>7. job'[p] = j
  BY <1>6 DEF Typed, JobsTyped
<1>8. Len(i.legs) = 1 \/ Len(i.legs) = 2
  BY <1>2 DEF JobSerial
<1>9. Len(i.legs) = 1 => j.at \in {"GetBest", "SaveStatus"} /\ j.order = i.order
  BY DEF Fill
<1>10. Len(i.legs) = 2 => /\ j.at = "FindPosition" /\ j.order = i.order
                          /\ Len(j.legs) = 1 /\ j.legs[1] = i.legs[2]
  BY <1>1
<1> HIDE DEF j
<1>11. JobSerial(job[p])'
  <2>1. orders[i.order].status = "OPEN" /\ i.order \notin failed
    BY <1>2 DEF JobSerial
  <2>2. CASE Len(i.legs) = 1
    BY <1>1, <1>7, <1>9, <2>1, <2>2 DEF JobSerial, Updates
  <2>3. CASE Len(i.legs) = 2
    <3>1. i.legs[2].delta \in -Lot..Lot
      BY <1>2, <2>3, TradingAssumption DEF JobSerial
    <3> QED
      BY <1>1, <1>7, <1>10, <2>1, <2>3, <3>1 DEF JobSerial, Updates
  <2> QED
    BY <1>8, <2>2, <2>3
<1>12. Limit' = Limit
  BY <1>1 DEF Limit, FailedMarket
<1>13. ASSUME NEW u \in Users PROVE Drift(job[p], u)' = Drift(job[p], u)
  <2> DEFINE d == LegFor(i.legs[1], u)
             e == IF Len(i.legs) = 1 THEN 0 ELSE LegFor(i.legs[2], u)
  <2>1. Net(u)' = Net(u) /\ Net(u) \in Int
    BY <1>1, NetSame, NetInt DEF Typed
  <2>2. Quantity(u)' = Quantity(u) + d /\ Quantity(u) \in Int
    <3>1. Quantity(u) \in Int
      BY DEF Quantity, Typed, Data, Position
    <3>2. CASE u = u0
      BY <1>3, <1>5, <1>6, <3>1, <3>2 DEF Quantity, Put, LegFor
    <3>3. CASE u # u0
      BY <1>3, <1>6, <3>1, <3>3 DEF Quantity, Put, LegFor
    <3> QED
      BY <3>1, <3>2, <3>3
  <2>3. d \in Int /\ e \in Int
    BY <1>3, <1>8 DEF LegFor
  <2>4. Owed(i, u) = d + e
    BY <1>2 DEF Owed
  <2>5. Owed(j, u) = e
    <3>1. CASE Len(i.legs) = 1
      BY <1>9, <3>1 DEF Owed, Updates
    <3>2. CASE Len(i.legs) = 2
      BY <1>10, <2>3, <3>2 DEF Owed, Updates, LegFor
    <3> QED
      BY <1>8, <3>1, <3>2
  <2>6. Owed(job[p], u)' = Owed(j, u)
    BY <1>7 DEF Owed, LegFor
  <2> HIDE DEF d, e
  <2> QED
    BY <2>1, <2>2, <2>3, <2>4, <2>5, <2>6 DEF Drift
<1> QED
  BY <1>1, <1>11, <1>12, <1>13 DEF Serial

LEMMA OwedBound ==
    ASSUME Typed, NEW p \in Workers, Serial(p), NEW u
    PROVE  Owed(job[p], u) \in -Lot..Lot
<1>1. JobSerial(job[p])
  BY DEF Serial
<1>2. 0 \in -Lot..Lot /\ Lot \in Nat
  BY TradingAssumption
<1> QED
  BY <1>1, <1>2 DEF JobSerial, Owed, LegFor

\* A request that fails leaves the row with what it was owed, and its order
\* among the failed ones.
LEMMA AbortSerial ==
    ASSUME Typed, Typed', IInv, NEW p \in Workers, Serial(p), Abort(p), TradesKnown
    PROVE  Serial(p)'
<1>1. /\ UNCHANGED <<orders, book, trades, positions>> /\ job'[p] = Idle
      /\ failed' = IF job[p].at = "SaveOrder" THEN failed ELSE failed \cup {job[p].order}
  BY DEF Abort, Typed, JobsTyped
<1>2. job[p].at # "SaveOrder" => job[p].order \in DOMAIN orders
  BY DEF Typed, JobsTyped, JobTyped, Abort, Loop
<1>3. failed' \subseteq DOMAIN orders'
  BY <1>1, <1>2 DEF Serial
<1>4. JobSerial(job[p])'
  BY <1>1 DEF JobSerial, Idle, Loop, Updates
<1>5. FailedMarket \in SUBSET FailedMarket' /\ IsFiniteSet(FailedMarket')
  <2>1. FailedMarket' \in SUBSET DOMAIN orders
    BY <1>1 DEF FailedMarket
  <2>2. IsFiniteSet(DOMAIN orders)
    BY TradingAssumption, FS_Subset DEF Typed, Data
  <2> QED
    BY <1>1, <2>1, <2>2, FS_Subset DEF FailedMarket
<1>6. /\ Limit \in Nat /\ Limit' \in Nat /\ Limit <= Limit'
      /\ \A x \in FailedMarket' \ FailedMarket : Limit + Lot <= Limit'
  BY <1>5, LimitOf DEF Limit
<1>7. ASSUME NEW u \in Users PROVE Drift(job[p], u)' \in -Limit'..Limit'
  <2>1. Net(u)' = Net(u) /\ Net(u) \in Int
    BY <1>1, NetSame, NetInt DEF Typed
  <2>2. Quantity(u)' = Quantity(u) /\ Quantity(u) \in Int
    BY <1>1 DEF Quantity, Typed, Data, Position
  <2>3. Owed(job[p], u)' = 0
    BY <1>1 DEF Owed, Idle, Updates
  <2>4. Drift(job[p], u) \in -Limit..Limit
    BY DEF Serial
  <2>5. CASE job[p].at \in Updates
    <3>1. job[p].order \in FailedMarket' \ FailedMarket
      <4>1. Market(job[p].order) /\ job[p].at \in Loop
        BY <2>5 DEF IInv, Shapes, JobOK, Updates, Loop
      <4>2. job[p].order \notin failed
        BY <4>1 DEF Serial, JobSerial
      <4> QED
        BY <1>1, <2>5, <4>1, <4>2 DEF FailedMarket, Market, Updates
    <3>2. Limit + Lot <= Limit'
      BY <1>6, <3>1
    <3>3. Owed(job[p], u) \in -Lot..Lot
      BY OwedBound
    <3> QED
      BY <1>6, <2>1, <2>2, <2>3, <2>4, <3>2, <3>3, TradingAssumption DEF Drift
  <2>6. CASE job[p].at \notin Updates
    <3>1. Owed(job[p], u) = 0
      BY <2>6 DEF Owed
    <3> QED
      BY <1>6, <2>1, <2>2, <2>3, <2>4, <3>1 DEF Drift
  <2> QED
    BY <2>5, <2>6
<1> QED
  BY <1>3, <1>4, <1>7 DEF Serial

LEMMA NextSerial ==
    ASSUME Alone, NEW p \in Workers, IInv, Typed, Counted, Serial(p), [Next]_vars
    PROVE  Serial(p)'
<1>1. CASE UNCHANGED vars
  BY <1>1 DEF vars, Serial, JobSerial, Drift, Net, Bought, Sold, Units, OrdersOf, Quantity,
     Owed, Limit, FailedMarket
<1>2. CASE Abort(p)
  BY <1>2, AbortSerial, NextTyped DEF Counted
<1>3. CASE PlaceOrder(p) \/ CancelOrder(p) \/ Step(p)
  BY <1>3, QuietStepsSerial, SaveTradeSerial, FindPositionSerial, SavePositionSerial
  DEF Counted, Step
<1> QED
  BY <1>1, <1>2, <1>3 DEF Alone, Next

LEMMA InitSerial == ASSUME NEW p \in Workers, Init PROVE Serial(p)
<1>1. ASSUME NEW S, NEW side PROVE Units(S, side) = {}
  BY DEF Init, Units
<1>2. ASSUME NEW u PROVE Drift(job[p], u) = 0
  <2>1. Bought(OrdersOf(u)) = 0 /\ Sold(OrdersOf(u)) = 0
    BY <1>1, FS_EmptySet DEF Bought, Sold
  <2>2. Quantity(u) = 0 /\ Owed(job[p], u) = 0
    BY DEF Init, Quantity, Owed, Idle, Updates
  <2> QED
    BY <2>1, <2>2 DEF Drift, Net
<1>3. Limit = 0
  <2>1. FailedMarket = {}
    BY DEF Init, FailedMarket
  <2> QED
    BY <2>1, FS_EmptySet, TradingAssumption DEF Limit
<1>4. failed \subseteq DOMAIN orders /\ JobSerial(job[p])
  BY DEF Init, JobSerial, Idle, Loop, Updates
<1> QED
  BY <1>2, <1>3, <1>4 DEF Serial

\* What the request under way still owes is a fill of its own order, which is
\* open and so is counted beside the failed ones.
LEMMA SerialBound ==
    ASSUME NEW p \in Workers, IInv, Typed, Serial(p)
    PROVE  FailureCostsOneFill
<1> DEFINE unsure == {o \in DOMAIN orders : /\ orders[o].type = "MARKET"
                                            /\ o \in failed \/ orders[o].status = "OPEN"}
           bound  == Lot * Cardinality(unsure)
<1>1. FailedMarket \in SUBSET unsure /\ IsFiniteSet(unsure)
  <2>1. IsFiniteSet(DOMAIN orders)
    BY TradingAssumption, FS_Subset DEF Typed, Data
  <2> QED
    BY <2>1, FS_Subset DEF FailedMarket
<1>2. job[p].at \in Updates => job[p].order \in unsure \ FailedMarket
  BY DEF Serial, JobSerial, FailedMarket, IInv, Shapes, JobOK, Market, Updates, Loop
<1> HIDE DEF unsure
<1>3. /\ Limit \in Nat /\ bound \in Nat /\ Limit <= bound
      /\ job[p].at \in Updates => Limit + Lot <= bound
  BY <1>1, <1>2, LimitOf DEF Limit
<1> HIDE DEF bound
<1>4. ASSUME NEW u \in Users PROVE Net(u) - Quantity(u) \in -bound..bound
  <2>1. Net(u) \in Int /\ Quantity(u) \in Int
    BY NetInt DEF Quantity, Typed, Data, Position
  <2>2. Net(u) - Quantity(u) - Owed(job[p], u) \in -Limit..Limit
    BY DEF Serial, Drift
  <2>3. Owed(job[p], u) \in -Lot..Lot
    BY OwedBound
  <2>4. job[p].at \notin Updates => Owed(job[p], u) = 0
    BY DEF Owed
  <2> QED
    BY <1>3, <2>1, <2>2, <2>3, <2>4, TradingAssumption
<1> QED
  BY <1>4 DEF FailureCostsOneFill, unsure, bound

\* The positions differ from what the trades add up to by at most one fill for
\* each market order whose request has failed or is under way, if requests do
\* not overlap.
THEOREM FailuresCostOneFill ==
    ASSUME Alone, NEW p \in Workers
    PROVE  Spec => []FailureCostsOneFill
<1>1. Init => Counted
  BY DEF Init, Counted, JobCounted, OneEach, TradesKnown, Idle, Loop
<1>2. Init => Serial(p)
  BY InitSerial
<1>3. IInv /\ Typed /\ Counted /\ Serial(p) /\ [Next]_vars => Serial(p)'
  BY NextSerial
<1>4. IInv /\ Typed /\ Serial(p) => FailureCostsOneFill
  BY SerialBound
<1> QED
  BY <1>1, <1>2, <1>3, <1>4, InitIInv, NextIInv, InitTyped, NextTyped, NextCounted, PTL DEF Spec
-----------------------------------------------------------------------------
(* Positions and trades, with any number of requests at a time.  A request *)
(* that has saved a trade and not yet both positions owes the rest, and    *)
(* what is stored or has been read of a row never was more than what its   *)
(* user bought, less what is still owed of it; nor less, of what was sold. *)

\* What j still adds to u's position, or takes from it, for the trade it has saved.
Owes(j, u, side) ==
    IF j.at \in Updates /\ side = "BUY" /\ Len(j.legs) = 2 /\ j.legs[1].user = u
    THEN j.legs[1].delta
    ELSE IF j.at \in Updates /\ side = "SELL" /\ j.legs[Len(j.legs)].user = u
    THEN -j.legs[Len(j.legs)].delta
    ELSE 0

LegsOK(j) ==
    j.at \in Updates =>
      \/ Len(j.legs) = 1 /\ -j.legs[1].delta \in 1..Lot
      \/ Len(j.legs) = 2 /\ j.legs[1].delta \in 1..Lot /\ -j.legs[2].delta \in 1..Lot

Owing(u, side) == {x \in Workers \X (1..Lot) : x[2] <= Owes(job[x[1]], u, side)}

OwingFinite(u) == IsFiniteSet(Owing(u, "BUY")) /\ IsFiniteSet(Owing(u, "SELL"))

\* The position v of u is made of fills that were made and are not owed any more.
Within(v, u) ==
    /\ v + Cardinality(Owing(u, "BUY")) <= Bought(OrdersOf(u))
    /\ -Sold(OrdersOf(u)) <= v - Cardinality(Owing(u, "SELL"))

Fills ==
    /\ \A p \in Workers : LegsOK(job[p])
    /\ \A u \in Users : OwingFinite(u) /\ Within(Quantity(u), u)
    /\ \A p \in Workers, u \in Users, v \in Int :
         job[p].at = "SavePosition" /\ u = job[p].legs[1].user /\ v = job[p].seen
           => Within(v, u)

LEMMA RowOf ==
    ASSUME NEW p, NEW n \in 0..Lot
    PROVE  IsFiniteSet({p} \X (1..n)) /\ Cardinality({p} \X (1..n)) = n
<1> DEFINE A == {p}
           B == 1..n
<1>1. IsFiniteSet(A) /\ Cardinality(A) = 1
  BY FS_Singleton
<1>2. n \in Nat /\ IsFiniteSet(B) /\ Cardinality(B) = n
  BY TradingAssumption, FS_Interval
<1> HIDE DEF A, B
<1>3. IsFiniteSet(A \X B) /\ Cardinality(A \X B) = Cardinality(A) * Cardinality(B)
  BY <1>1, <1>2, FS_Product, Zenon
<1>4. IsFiniteSet(A \X B) /\ Cardinality(A \X B) = n
  BY <1>1, <1>2, <1>3
<1> QED
  BY <1>4 DEF A, B

LEMMA OwesBounded ==
    ASSUME NEW j, LegsOK(j), NEW u, NEW side PROVE Owes(j, u, side) \in 0..Lot
<1>1. CASE j.at \notin Updates
  BY <1>1, TradingAssumption DEF Owes
<1>2. CASE j.at \in Updates /\ Len(j.legs) = 1
  BY <1>2, TradingAssumption DEF Owes, LegsOK
<1>3. CASE j.at \in Updates /\ Len(j.legs) = 2
  BY <1>3, TradingAssumption DEF Owes, LegsOK
<1> QED
  BY <1>1, <1>2, <1>3 DEF LegsOK

\* A step of the request p, to j, changes what is owed by what p owed and owes.
LEMMA OwingAfter ==
    ASSUME DOMAIN job = Workers, NEW p \in Workers, NEW j, job' = [job EXCEPT ![p] = j],
           LegsOK(job[p]), LegsOK(j), NEW u \in Users, NEW side \in {"BUY", "SELL"},
           IsFiniteSet(Owing(u, side))
    PROVE  /\ IsFiniteSet(Owing(u, side)')
           /\ Cardinality(Owing(u, side)) \in Nat
           /\ Cardinality(Owing(u, side)')
                = Cardinality(Owing(u, side)) - Owes(job[p], u, side) + Owes(j, u, side)
<1> DEFINE rest == {x \in Owing(u, side) : x[1] # p}
           a == Owes(job[p], u, side)
           b == Owes(j, u, side)
<1>1. a \in 0..Lot /\ b \in 0..Lot
  BY OwesBounded
<1>2. \A q \in Workers : job'[q] = IF q = p THEN j ELSE job[q]
  OBVIOUS
<1>3. Owing(u, side) = rest \cup {p} \X (1..a)
  BY <1>1, TradingAssumption DEF Owing
<1>4. Owing(u, side)' = rest \cup {p} \X (1..b)
  <2>1. ASSUME NEW x \in Owing(u, side)' PROVE x \in rest \cup {p} \X (1..b)
    BY <1>1, <1>2, TradingAssumption DEF Owing
  <2>2. ASSUME NEW x \in rest PROVE x \in Owing(u, side)'
    BY <1>2 DEF Owing
  <2>3. ASSUME NEW x \in {p} \X (1..b) PROVE x \in Owing(u, side)'
    BY <1>1, <1>2, TradingAssumption DEF Owing
  <2> QED
    BY <2>1, <2>2, <2>3
<1>5. IsFiniteSet(rest) /\ Cardinality(rest) \in Nat
  BY FS_Subset, FS_CardinalityType
<1>6. ASSUME NEW n \in 0..Lot
      PROVE  /\ IsFiniteSet(rest \cup {p} \X (1..n))
             /\ Cardinality(rest \cup {p} \X (1..n)) = Cardinality(rest) + n
  <2> DEFINE row == {p} \X (1..n)
  <2>1. IsFiniteSet(row) /\ Cardinality(row) = n
    BY RowOf
  <2>2. rest \cap row = {}
    OBVIOUS
  <2> HIDE DEF rest, row
  <2>3. /\ IsFiniteSet(rest \cup row)
        /\ Cardinality(rest \cup row) = Cardinality(rest) + Cardinality(row) - Cardinality({})
    BY <1>5, <2>1, <2>2, FS_Union
  <2>4. Cardinality({}) = 0
    BY FS_EmptySet
  <2>5. IsFiniteSet(rest \cup row) /\ Cardinality(rest \cup row) = Cardinality(rest) + n
    BY <1>5, <2>1, <2>3, <2>4, TradingAssumption
  <2> QED
    BY <2>5 DEF row
<1> HIDE DEF a, b, rest
<1>7. /\ Cardinality(Owing(u, side)) = Cardinality(rest) + a
      /\ Cardinality(Owing(u, side)') = Cardinality(rest) + b /\ IsFiniteSet(Owing(u, side)')
  BY <1>1, <1>3, <1>4, <1>6
<1>8. a \in Nat /\ b \in Nat
  BY <1>1, TradingAssumption
<1> QED
  BY <1>5, <1>7, <1>8 DEF a, b

LEMMA OwingChanges ==
    ASSUME Fills, Typed, NEW p \in Workers, NEW j, job' = [job EXCEPT ![p] = j], LegsOK(j),
           NEW u \in Users, NEW side \in {"BUY", "SELL"}
    PROVE  /\ Cardinality(Owing(u, side)) \in Nat
           /\ Cardinality(Owing(u, side)') = Cardinality(Owing(u, side))
                                            - Owes(job[p], u, side) + Owes(j, u, side)
<1>1. DOMAIN job = Workers /\ LegsOK(job[p])
  BY DEF Fills, Typed, JobsTyped
<1>2. IsFiniteSet(Owing(u, side))
  BY DEF Fills, OwingFinite
<1> QED
  BY <1>1, <1>2, OwingAfter

\* A step of the request p, to j, after which w is what v was of u's position.
LEMMA WithinAfter ==
    ASSUME Fills, Typed, NEW p \in Workers, NEW j, job' = [job EXCEPT ![p] = j], LegsOK(j),
           NEW u \in Users, NEW v \in Int, NEW w \in Int, Within(v, u),
           NEW b \in Nat, Bought(OrdersOf(u))' = Bought(OrdersOf(u)) + b,
           NEW s \in Nat, Sold(OrdersOf(u))' = Sold(OrdersOf(u)) + s,
           w - v + Owes(j, u, "BUY") - Owes(job[p], u, "BUY") <= b,
           v - w + Owes(j, u, "SELL") - Owes(job[p], u, "SELL") <= s
    PROVE  Within(w, u)'
<1>1. /\ Cardinality(Owing(u, "BUY")) \in Nat
      /\ Cardinality(Owing(u, "BUY")') = Cardinality(Owing(u, "BUY"))
                                          - Owes(job[p], u, "BUY") + Owes(j, u, "BUY")
      /\ Cardinality(Owing(u, "SELL")) \in Nat
      /\ Cardinality(Owing(u, "SELL")') = Cardinality(Owing(u, "SELL"))
                                           - Owes(job[p], u, "SELL") + Owes(j, u, "SELL")
  BY OwingChanges
<1>2. /\ Owes(job[p], u, "BUY") \in Int /\ Owes(j, u, "BUY") \in Int
      /\ Owes(job[p], u, "SELL") \in Int /\ Owes(j, u, "SELL") \in Int
  <2>1. 0..Lot \subseteq Int
    BY TradingAssumption
  <2> QED
    BY <2>1, OwesBounded DEF Fills
<1>3. Bought(OrdersOf(u)) \in Nat /\ Sold(OrdersOf(u)) \in Nat
  BY SidesNat DEF Typed
<1>4. /\ v + Cardinality(Owing(u, "BUY")) <= Bought(OrdersOf(u))
      /\ -Sold(OrdersOf(u)) <= v - Cardinality(Owing(u, "SELL"))
  BY DEF Within
<1>5. /\ w + Cardinality(Owing(u, "BUY")') <= Bought(OrdersOf(u))'
      /\ -(Sold(OrdersOf(u))') <= w - Cardinality(Owing(u, "SELL")')
  BY <1>1, <1>2, <1>3, <1>4
<1> QED
  BY <1>5 DEF Within

\* A step of the request p, to j, as Fills asks it: every position that is stored
\* or that j has read afterwards comes from one that was.
LEMMA FillsStep ==
    ASSUME Fills, Typed, NEW p \in Workers, NEW j, job' = [job EXCEPT ![p] = j], LegsOK(j),
           \A u \in Users : Within(Quantity(u), u)',
           \A u \in Users, v \in Int : Within(v, u) /\ (\E q \in Workers \ {p} :
               job[q].at = "SavePosition" /\ u = job[q].legs[1].user /\ v = job[q].seen)
             => Within(v, u)',
           j.at = "SavePosition" => \A u \in Users, v \in Int :
               u = j.legs[1].user /\ v = j.seen => Within(v, u)'
    PROVE  Fills'
<1>1. DOMAIN job = Workers /\ DOMAIN job' = Workers
  BY DEF Typed, JobsTyped
<1>2. \A q \in Workers : job'[q] = IF q = p THEN j ELSE job[q]
  BY <1>1
<1>3. (\A q \in Workers : LegsOK(job[q]))'
  BY <1>2 DEF Fills
<1>4. ASSUME NEW u \in Users PROVE OwingFinite(u)'
  <2>1. IsFiniteSet(Owing(u, "BUY")) /\ IsFiniteSet(Owing(u, "SELL"))
    BY DEF Fills, OwingFinite
  <2>2. LegsOK(job[p])
    BY DEF Fills
  <2> QED
    BY <1>1, <2>1, <2>2, OwingAfter DEF OwingFinite
<1>5. ASSUME NEW q \in Workers, NEW u \in Users, NEW v \in Int,
             job'[q].at = "SavePosition", u = job'[q].legs[1].user, v = job'[q].seen
      PROVE  Within(v, u)'
  <2>1. CASE q = p
    BY <1>2, <1>5, <2>1
  <2>2. CASE q # p
    BY <1>2, <1>5, <2>2 DEF Fills
  <2> QED
    BY <2>1, <2>2
<1> QED
  BY <1>3, <1>4, <1>5 DEF Fills

\* A step that writes no trade and no position and after which no more is owed.
LEMMA QuietFills ==
    ASSUME Fills, Typed, TradesKnown, NEW p \in Workers, NEW j, job' = [job EXCEPT ![p] = j],
           LegsOK(j), j.at # "SavePosition",
           UNCHANGED <<trades, positions>>, DOMAIN orders \subseteq DOMAIN orders',
           \A o \in DOMAIN orders : orders'[o].user = orders[o].user,
           \A u \in Users, side \in {"BUY", "SELL"} :
              Owes(j, u, side) \in {0, Owes(job[p], u, side)}
    PROVE  Fills'
<1>1. ASSUME NEW u \in Users, NEW v \in Int, Within(v, u) PROVE Within(v, u)'
  <2>1. /\ Bought(OrdersOf(u))' = Bought(OrdersOf(u)) + 0
        /\ Sold(OrdersOf(u))' = Sold(OrdersOf(u)) + 0
    BY SidesSame, SidesNat DEF Typed
  <2>2. /\ Owes(job[p], u, "BUY") \in Nat /\ Owes(job[p], u, "SELL") \in Nat
    <3>1. 0..Lot \subseteq Nat
      BY TradingAssumption
    <3> QED
      BY <3>1, OwesBounded DEF Fills
  <2>3. /\ v - v + Owes(j, u, "BUY") - Owes(job[p], u, "BUY") <= 0
        /\ v - v + Owes(j, u, "SELL") - Owes(job[p], u, "SELL") <= 0
    BY <2>2
  <2> QED
    BY <1>1, <2>1, <2>3, WithinAfter
<1>2. ASSUME NEW u \in Users PROVE Within(Quantity(u), u)'
  <2>1. Quantity(u)' = Quantity(u) /\ Quantity(u) \in Int
    BY DEF Quantity, Typed, Data, Position
  <2>2. Within(Quantity(u), u)
    BY DEF Fills
  <2>3. PICK v \in Int : v = Quantity(u)
    BY <2>1
  <2>4. Within(v, u)
    BY <2>2, <2>3
  <2>5. Within(v, u)'
    BY <1>1, <2>4
  <2> QED
    BY <2>1, <2>3, <2>5 DEF Within
<1> QED
  BY <1>1, <1>2, FillsStep

LEMMA NoLegs == ASSUME NEW j, j.at \notin Updates
                PROVE  LegsOK(j) /\ j.at # "SavePosition" /\ \A u, side : Owes(j, u, side) = 0
BY DEF LegsOK, Owes, Updates

\* All but the trade and the two halves of an update.
LEMMA QuietStepsFills ==
    ASSUME Fills, Typed, TradesKnown, NEW p \in Workers,
           \/ PlaceOrder(p) \/ CancelOrder(p) \/ SaveOrder(p) \/ AddToBook(p) \/ SaveOpen(p)
           \/ GetBest(p) \/ SaveStatus(p) \/ SaveCancelled(p) \/ RemoveFromBook(p) \/ Abort(p)
    PROVE  Fills'
<1>1. /\ UNCHANGED <<trades, positions>> /\ DOMAIN orders \subseteq DOMAIN orders'
      /\ \A o \in DOMAIN orders : orders'[o].user = orders[o].user
  <2>1. CASE SaveOrder(p)
    BY <2>1 DEF SaveOrder, Put
  <2>2. CASE SaveOpen(p) \/ SaveStatus(p) \/ SaveCancelled(p)
    <3>1. PICK status : SetStatus(job[p].order, status)
      BY <2>2 DEF SaveOpen, SaveStatus, SaveCancelled
    <3>2. job[p].order \in DOMAIN orders
      BY <2>2 DEF Typed, JobsTyped, JobTyped, SaveOpen, SaveStatus, SaveCancelled, Loop
    <3>3. Data
      BY DEF Typed
    <3>4. /\ DOMAIN orders' = DOMAIN orders
          /\ \A o \in DOMAIN orders : orders'[o].user = orders[o].user
      BY <3>1, <3>2, <3>3, SetStatusKeeps
    <3> QED
      BY <2>2, <3>4 DEF SaveOpen, SaveStatus, SaveCancelled
  <2> QED
    BY <2>1, <2>2 DEF PlaceOrder, CancelOrder, AddToBook, GetBest, RemoveFromBook, Abort
<1>2. \E j : job' = [job EXCEPT ![p] = j] /\ j.at \notin Updates
  <2>1. Idle.at \notin Updates
    BY DEF Idle, Updates
  <2>2. CASE PlaceOrder(p)
    <3>1. PICK u \in Users, dto \in PlaceOrderDto :
             job' = [job EXCEPT ![p] =
               [at |-> "SaveOrder", user |-> u, side |-> dto.side, type |-> dto.type,
                quantity |-> dto.quantity, price |-> dto.price]]
      BY <2>2 DEF PlaceOrder, Become
    <3> DEFINE j == [at |-> "SaveOrder", user |-> u, side |-> dto.side, type |-> dto.type,
                     quantity |-> dto.quantity, price |-> dto.price]
    <3>2. job' = [job EXCEPT ![p] = j] /\ j.at \notin Updates
      BY <3>1 DEF Updates
    <3> HIDE DEF j
    <3> QED
      BY <3>2
  <2>7. CASE CancelOrder(p)
    <3>1. PICK o : job' = [job EXCEPT ![p] = [at |-> "SaveCancelled", order |-> o]]
      BY <2>7 DEF CancelOrder, Become
    <3> DEFINE j == [at |-> "SaveCancelled", order |-> o]
    <3>2. job' = [job EXCEPT ![p] = j] /\ j.at \notin Updates
      BY <3>1 DEF Updates
    <3> HIDE DEF j
    <3> QED
      BY <3>2
  <2>3. CASE SaveOrder(p)
    BY <2>3 DEF SaveOrder, Become, Fill, Updates
  <2>4. CASE AddToBook(p) \/ SaveCancelled(p)
    BY <2>4 DEF AddToBook, SaveCancelled, Become, Updates
  <2>5. CASE SaveOpen(p) \/ SaveStatus(p) \/ RemoveFromBook(p) \/ Abort(p)
    BY <2>1, <2>5 DEF SaveOpen, SaveStatus, RemoveFromBook, Abort, Become
  <2>6. CASE GetBest(p)
    BY <2>6 DEF GetBest, BreakLoop, Become, Updates
  <2> QED
    BY <2>2, <2>3, <2>4, <2>5, <2>6, <2>7
<1>3. PICK j : job' = [job EXCEPT ![p] = j] /\ j.at \notin Updates
  BY <1>2
<1> QED
  BY <1>1, <1>3, NoLegs, QuietFills

LEMMA SaveTradeFills ==
    ASSUME Fills, Typed, NEW p \in Workers, SaveTrade(p)
    PROVE  Fills'
<1> DEFINE i        == job[p]
           quantity == IF i.left < Lot THEN i.left ELSE Lot
           isBuy    == orders[i.order].side = "BUY"
           buy      == IF isBuy THEN i.order ELSE i.resting
           sell     == IF isBuy THEN i.resting ELSE i.order
           t        == [buy |-> buy, sell |-> sell, quantity |-> quantity, price |-> i.price]
           j        == [at |-> "FindPosition", order |-> i.order, left |-> i.left - quantity,
                        legs |-> Legs(buy, sell, quantity)]
<1>1. /\ i.at = "SaveTrade" /\ i.order \in DOMAIN orders /\ i.resting \in DOMAIN orders
      /\ i.left \in Nat /\ i.left > 0 /\ i.price \in Scores
  BY DEF Typed, JobsTyped, JobTyped, SaveTrade, Loop
<1>2. quantity \in 1..Lot
  BY <1>1, TradingAssumption
<1>3. /\ trades' = Append(trades, t) /\ job' = [job EXCEPT ![p] = j]
      /\ UNCHANGED <<orders, book, positions>>
  BY DEF SaveTrade, Become
<1>4. buy \in DOMAIN orders /\ sell \in DOMAIN orders
  BY <1>1
<1> HIDE DEF quantity, isBuy, buy, sell, i
<1>5. t \in Trade /\ t.buy = buy /\ t.sell = sell /\ t.quantity = quantity
  BY <1>1, <1>2, <1>4 DEF Trade, Typed, Data
<1>6. /\ j.at = "FindPosition" /\ j.at \in Updates /\ Len(j.legs) = 2
      /\ j.legs[1] = [user |-> orders[buy].user, delta |-> quantity]
      /\ j.legs[2] = [user |-> orders[sell].user, delta |-> -quantity]
  BY DEF Legs, Updates
<1> HIDE DEF t, j
<1>7. LegsOK(j)
  BY <1>2, <1>6, TradingAssumption DEF LegsOK
<1>8. quantity \in Nat
  BY <1>2, TradingAssumption
<1>9. ASSUME NEW u \in Users, NEW v \in Int, Within(v, u) PROVE Within(v, u)'
  <2> DEFINE b == IF orders[buy].user = u THEN quantity ELSE 0
             s == IF orders[sell].user = u THEN quantity ELSE 0
  <2>1. b \in Nat /\ s \in Nat
    BY <1>8
  <2>2. /\ Bought(OrdersOf(u))' = Bought(OrdersOf(u)) + b
        /\ Sold(OrdersOf(u))' = Sold(OrdersOf(u)) + s
    BY <1>3, <1>4, <1>5, SidesAfterTrade DEF Typed
  <2>3. /\ Owes(job[p], u, "BUY") = 0 /\ Owes(job[p], u, "SELL") = 0
    BY <1>1 DEF Owes, Updates, i
  <2>4. /\ Owes(j, u, "BUY") = b /\ Owes(j, u, "SELL") = s
    BY <1>6, <1>8 DEF Owes
  <2> HIDE DEF b, s
  <2>5. /\ v - v + Owes(j, u, "BUY") - Owes(job[p], u, "BUY") <= b
        /\ v - v + Owes(j, u, "SELL") - Owes(job[p], u, "SELL") <= s
    BY <2>1, <2>3, <2>4
  <2> QED
    BY <1>3, <1>7, <1>9, <2>1, <2>2, <2>5, WithinAfter
<1>10. ASSUME NEW u \in Users PROVE Within(Quantity(u), u)'
  <2>1. Quantity(u)' = Quantity(u) /\ Quantity(u) \in Int
    BY <1>3 DEF Quantity, Typed, Data, Position
  <2>2. PICK v \in Int : v = Quantity(u)
    BY <2>1
  <2>3. Within(v, u)'
    BY <1>9, <2>2 DEF Fills
  <2> QED
    BY <2>1, <2>2, <2>3 DEF Within
<1>11. j.at # "SavePosition"
  BY <1>6
<1> QED
  BY <1>3, <1>7, <1>9, <1>10, <1>11, FillsStep

LEMMA FindPositionFills ==
    ASSUME Fills, Typed, TradesKnown, NEW p \in Workers, FindPosition(p)
    PROVE  Fills'
<1> DEFINE i == job[p]
           x == Head(i.legs).user
           j == [at |-> "SavePosition", order |-> i.order, left |-> i.left, legs |-> i.legs,
                 known |-> x \in DOMAIN positions, seen |-> Quantity(x)]
<1>1. i.at = "FindPosition" /\ i.legs \in Seq(Leg) /\ i.legs # <<>>
  BY DEF Typed, JobsTyped, JobTyped, FindPosition
<1>2. x \in Users /\ x = i.legs[1].user
  BY <1>1, LegFacts
<1>3. job' = [job EXCEPT ![p] = j] /\ UNCHANGED <<orders, book, trades, positions>>
  BY DEF FindPosition, Become
<1>4. j.at = "SavePosition" /\ j.legs = i.legs /\ j.seen = Quantity(x)
  OBVIOUS
<1> HIDE DEF j, x
<1>5. LegsOK(j) /\ \A u, side : Owes(j, u, side) = Owes(job[p], u, side)
  BY <1>1, <1>4 DEF Fills, LegsOK, Owes, Updates
<1>6. ASSUME NEW u \in Users, NEW v \in Int, Within(v, u) PROVE Within(v, u)'
  <2>1. /\ Bought(OrdersOf(u))' = Bought(OrdersOf(u)) + 0
        /\ Sold(OrdersOf(u))' = Sold(OrdersOf(u)) + 0
    BY <1>3, SidesSame, SidesNat DEF Typed
  <2>2. /\ Owes(job[p], u, "BUY") \in Nat /\ Owes(job[p], u, "SELL") \in Nat
    <3>1. 0..Lot \subseteq Nat
      BY TradingAssumption
    <3> QED
      BY <3>1, OwesBounded DEF Fills
  <2>3. /\ v - v + Owes(j, u, "BUY") - Owes(job[p], u, "BUY") <= 0
        /\ v - v + Owes(j, u, "SELL") - Owes(job[p], u, "SELL") <= 0
    BY <1>5, <2>2
  <2> QED
    BY <1>3, <1>5, <1>6, <2>1, <2>3, WithinAfter
<1>7. ASSUME NEW u \in Users, NEW v \in Int, v = Quantity(u) PROVE Within(v, u)'
  BY <1>6, <1>7 DEF Fills
<1>8. ASSUME NEW u \in Users PROVE Within(Quantity(u), u)'
  <2>1. Quantity(u)' = Quantity(u) /\ Quantity(u) \in Int
    BY <1>3 DEF Quantity, Typed, Data, Position
  <2>2. PICK v \in Int : v = Quantity(u)
    BY <2>1
  <2> QED
    BY <1>7, <2>1, <2>2 DEF Within
<1>9. ASSUME NEW u \in Users, NEW v \in Int, u = j.legs[1].user, v = j.seen
      PROVE  Within(v, u)'
  BY <1>2, <1>4, <1>7, <1>9
<1> QED
  BY <1>3, <1>5, <1>6, <1>8, <1>9, FillsStep

LEMMA SavePositionFills ==
    ASSUME Fills, Typed, TradesKnown, NEW p \in Workers, SavePosition(p)
    PROVE  Fills'
<1> DEFINE i == job[p]
           x == Head(i.legs).user
           d == Head(i.legs).delta
           j == IF Len(i.legs) = 1 THEN Fill(i.order, i.left)
                ELSE [at |-> "FindPosition", order |-> i.order, left |-> i.left,
                      legs |-> Tail(i.legs)]
<1>1. /\ i.at = "SavePosition" /\ i.legs \in Seq(Leg) /\ i.legs # <<>> /\ i.seen \in Int
      /\ UNCHANGED <<orders, book, trades>>
  BY DEF Typed, JobsTyped, JobTyped, SavePosition
<1>2. x \in Users /\ d \in Int /\ x = i.legs[1].user /\ d = i.legs[1].delta
  BY <1>1, LegFacts
<1>3. \/ Len(i.legs) = 1 /\ -d \in 1..Lot
      \/ Len(i.legs) = 2 /\ d \in 1..Lot /\ -i.legs[2].delta \in 1..Lot
  BY <1>1, <1>2 DEF Fills, LegsOK, Updates
<1>4. \/ job' = [job EXCEPT ![p] = Idle] /\ UNCHANGED positions
      \/ job' = [job EXCEPT ![p] = j] /\ positions' = Put(positions, x, i.seen + d)
  BY DEF SavePosition, Become
<1>5. CASE job' = [job EXCEPT ![p] = Idle] /\ UNCHANGED positions
  <2>1. Idle.at \notin Updates
    BY DEF Idle, Updates
  <2>2. LegsOK(Idle) /\ Idle.at # "SavePosition" /\ \A u, side : Owes(Idle, u, side) = 0
    BY <2>1, NoLegs
  <2>3. /\ UNCHANGED <<trades, positions>> /\ DOMAIN orders \subseteq DOMAIN orders'
        /\ \A o \in DOMAIN orders : orders'[o].user = orders[o].user
    BY <1>1, <1>5
  <2> QED
    BY <1>5, <2>2, <2>3, QuietFills
<1>6. CASE job' = [job EXCEPT ![p] = j] /\ positions' = Put(positions, x, i.seen + d)
  <2>1. j.at # "SavePosition"
    BY DEF Fill
  <2>2. /\ LegsOK(j)
        /\ \A u : /\ Owes(j, u, "BUY") = 0
                  /\ Owes(i, u, "BUY") = IF Len(i.legs) = 2 /\ x = u THEN d ELSE 0
                  /\ Owes(j, u, "SELL") = IF Len(i.legs) = 2 THEN Owes(i, u, "SELL") ELSE 0
                  /\ Owes(i, u, "SELL") \in Nat
                  /\ Len(i.legs) = 1 => Owes(i, u, "SELL") = IF x = u THEN -d ELSE 0
    <3>1. \A u : Owes(i, u, "SELL") \in Nat
      <4>1. 0..Lot \subseteq Nat
        BY TradingAssumption
      <4> QED
        BY <4>1, OwesBounded DEF Fills
    <3>2. CASE Len(i.legs) = 1
      <4>1. j.at \notin Updates
        BY <3>2 DEF Fill, Updates
      <4> HIDE DEF j
      <4> QED
        BY <1>1, <1>2, <3>1, <3>2, <4>1, NoLegs DEF Owes, Updates
    <3>3. CASE Len(i.legs) = 2
      <4>1. /\ j.at = "FindPosition" /\ Len(j.legs) = 1 /\ j.legs[1] = i.legs[2]
        BY <1>1, <3>3, HeadTailProperties
      <4> HIDE DEF j
      <4> QED
        BY <1>1, <1>2, <1>3, <3>1, <3>3, <4>1 DEF Owes, LegsOK, Updates
    <3> QED
      BY <1>3, <3>2, <3>3
  <2> HIDE DEF j, x, d
  <2>3. ASSUME NEW u \in Users, NEW v \in Int, Within(v, u),
               NEW w \in Int, w = v \/ (u = x /\ w = v + d)
        PROVE  Within(w, u)'
    <3>1. /\ Bought(OrdersOf(u))' = Bought(OrdersOf(u)) + 0
          /\ Sold(OrdersOf(u))' = Sold(OrdersOf(u)) + 0
      BY <1>1, SidesSame, SidesNat DEF Typed
    <3>2. /\ w - v + Owes(j, u, "BUY") - Owes(i, u, "BUY") <= 0
          /\ v - w + Owes(j, u, "SELL") - Owes(i, u, "SELL") <= 0
      <4>1. d \in Nat \/ -d \in Nat
        BY <1>3, TradingAssumption
      <4>2. CASE Len(i.legs) = 1
        BY <1>2, <1>3, <2>2, <2>3, <4>2, TradingAssumption
      <4>3. CASE Len(i.legs) = 2
        BY <1>2, <1>3, <2>2, <2>3, <4>3, TradingAssumption
      <4> QED
        BY <1>3, <4>2, <4>3
    <3> QED
      BY <1>6, <2>2, <2>3, <3>1, <3>2, WithinAfter
  <2>4. ASSUME NEW u \in Users PROVE Within(Quantity(u), u)'
    <3>1. CASE u = x
      <4>1. PICK v \in Int : v = i.seen
        BY <1>1
      <4>2. Within(v, u)
        BY <1>1, <1>2, <3>1, <4>1 DEF Fills
      <4>3. PICK w \in Int : w = v + d
        BY <1>2
      <4>4. Within(w, u)'
        BY <2>3, <3>1, <4>2, <4>3
      <4>5. Quantity(u)' = w
        BY <1>6, <3>1, <4>1, <4>3 DEF Quantity, Put
      <4> QED
        BY <4>4, <4>5 DEF Within
    <3>2. CASE u # x
      <4>1. Quantity(u)' = Quantity(u) /\ Quantity(u) \in Int
        BY <1>6, <3>2 DEF Quantity, Put, Typed, Data, Position
      <4>2. PICK v \in Int : v = Quantity(u)
        BY <4>1
      <4>3. Within(v, u)'
        BY <2>3, <4>2 DEF Fills
      <4> QED
        BY <4>1, <4>2, <4>3 DEF Within
    <3> QED
      BY <3>1, <3>2
  <2>5. ASSUME NEW u \in Users, NEW v \in Int, Within(v, u) PROVE Within(v, u)'
    BY <2>3, <2>5
  <2> QED
    BY <1>6, <2>1, <2>2, <2>4, <2>5, FillsStep
<1> QED
  BY <1>4, <1>5, <1>6

LEMMA NextFills == Typed /\ Counted /\ Fills /\ [Next]_vars => Fills'
<1> SUFFICES ASSUME Typed, Counted, Fills, [Next]_vars PROVE Fills'
  OBVIOUS
<1>1. TradesKnown
  BY DEF Counted
<1>2. CASE UNCHANGED vars
  BY <1>2 DEF vars, Fills, OwingFinite, Owing, Within, Quantity, Bought, Sold, Units, OrdersOf
<1> QED
  BY <1>1, <1>2, QuietStepsFills, SaveTradeFills, FindPositionFills, SavePositionFills
     DEF Next, Step

LEMMA InitFills == Init => Fills
<1> SUFFICES ASSUME Init PROVE Fills
  OBVIOUS
<1>1. \A p \in Workers : job[p].at \notin Updates
  BY DEF Init, Idle, Updates
<1>2. \A u, side : Owing(u, side) = {}
  BY <1>1, TradingAssumption DEF Owing, Owes
<1>3. Cardinality({}) = 0 /\ IsFiniteSet({})
  BY FS_EmptySet
<1>4. \A u : Quantity(u) = 0
  BY DEF Init, Quantity
<1>5. \A u : Bought(OrdersOf(u)) \in Nat /\ Sold(OrdersOf(u)) \in Nat
  BY InitTyped, SidesNat DEF Typed
<1>6. ASSUME NEW u PROVE OwingFinite(u) /\ Within(Quantity(u), u)
  <2>1. /\ IsFiniteSet(Owing(u, "BUY")) /\ Cardinality(Owing(u, "BUY")) = 0
        /\ IsFiniteSet(Owing(u, "SELL")) /\ Cardinality(Owing(u, "SELL")) = 0
    BY <1>2, <1>3
  <2> QED
    BY <1>4, <1>5, <2>1 DEF OwingFinite, Within
<1> QED
  BY <1>1, <1>6 DEF Fills, LegsOK, Updates

\* A position is made of fills that were made, each at most once, for any number
\* of requests that overlap and fail anywhere: updates that read the same row
\* lose some, and none is booked twice or for another user.
THEOREM PositionsAreFills == Spec => []PositionIsMadeOfFills
<1>1. Init => Counted
  BY DEF Init, Counted, JobCounted, OneEach, TradesKnown, Idle, Loop
<1>2. Typed /\ Fills => PositionIsMadeOfFills
  <2> SUFFICES ASSUME Typed, Fills, NEW u \in Users
               PROVE  Quantity(u) \in -Sold(OrdersOf(u))..Bought(OrdersOf(u))
    BY DEF PositionIsMadeOfFills
  <2>1. Cardinality(Owing(u, "BUY")) \in Nat /\ Cardinality(Owing(u, "SELL")) \in Nat
    BY FS_CardinalityType DEF Fills, OwingFinite
  <2>2. Bought(OrdersOf(u)) \in Nat /\ Sold(OrdersOf(u)) \in Nat
    BY SidesNat DEF Typed
  <2>3. Quantity(u) \in Int
    BY DEF Quantity, Typed, Data, Position
  <2>4. Within(Quantity(u), u)
    BY DEF Fills
  <2> QED
    BY <2>1, <2>2, <2>3, <2>4 DEF Within
<1> QED
  BY <1>1, <1>2, InitIInv, NextIInv, InitTyped, NextTyped, NextCounted, InitFills, NextFills, PTL
     DEF Spec
=============================================================================
