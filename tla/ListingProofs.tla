--------------------------- MODULE ListingProofs ----------------------------
(***************************************************************************)
(* A walk through all pages misses nobody who was there when it began, for *)
(* any number of users and clients and any page sizes.                     *)
(*                                                                         *)
(* Rows only move to later places.  So what a walk has still to see is     *)
(* behind the pages that it has read (Ahead), and once the count says that *)
(* there is no page left, nothing is behind them.                          *)
(***************************************************************************)
EXTENDS Listing, SequenceTheorems, TLAPS

Walk ==
    [at : {"Find", "Count", "Done"}, page : Nat \ {0}, limit : Limits,
     there : SUBSET Users, seen : SUBSET Users]

\* How many rows the walk w has gone past.
Past(w) == IF w.at = "Find" THEN (w.page - 1) * w.limit ELSE w.page * w.limit

Typed ==
    /\ rows \in Seq(Users)
    /\ walk \in [Clients -> {Idle} \cup Walk]

\* Whoever was there is on the list, who was not seen is not yet passed, and a
\* page that was announced begins within the list.
Ahead(w) ==
    /\ w.there \cup w.seen \subseteq ToSet(rows)
    /\ \A i \in DOMAIN rows : rows[i] \in w.there \ w.seen => i > Past(w)
    /\ w.at = "Done" => w.there \subseteq w.seen
    /\ w.at = "Find" /\ w.page > 1 => Past(w) < Len(rows)

IInv == Typed /\ \A c \in Clients : walk[c] # Idle => Ahead(walk[c])

-----------------------------------------------------------------------------
(* Arithmetic of pages.                                                    *)

LEMMA Product == ASSUME NEW a \in Nat, NEW b \in Nat PROVE a * b \in Nat
OBVIOUS

\* The pages that totalPages counts hold the whole list.
LEMMA PagesHoldAll ==
    ASSUME NEW n \in Nat, NEW l \in Nat \ {0}, NEW p \in Nat, p >= totalPages(n, l)
    PROVE  p * l >= n
<1> DEFINE q == (n + l - 1) \div l
<1> DEFINE m == n + l - 1
           r == m % l
<1>0. m \in Nat
  OBVIOUS
<1>1. q \in Int /\ m = (l * q) + r /\ r \in 0..(l - 1)
  BY <1>0
<1>2. l * q >= n
  BY <1>1
<1>3. p >= q
  BY DEF totalPages
<1>4. p * l >= q * l
  BY <1>1, <1>3
<1> QED
  BY <1>1, <1>2, <1>4

\* A page that has a next one ends before the list does.
LEMMA PageEndsBefore ==
    ASSUME NEW n \in Nat, NEW l \in Nat \ {0}, NEW p \in Nat, p < totalPages(n, l)
    PROVE  p * l < n
<1> DEFINE q == (n + l - 1) \div l
<1> DEFINE m == n + l - 1
           r == m % l
<1>0. m \in Nat
  OBVIOUS
<1>1. q \in Int /\ m = (l * q) + r /\ r \in 0..(l - 1)
  BY <1>0
<1>2. p <= q - 1
  BY <1>1 DEF totalPages
<1>3. p * l <= (q - 1) * l
  BY <1>1, <1>2
<1>4. (q - 1) * l = (l * q) - l
  BY <1>1
<1> HIDE DEF q, r
<1>5. (l * q) - l < n
  BY <1>1
<1> DEFINE a == p * l
           b == (q - 1) * l
<1>6. a \in Int /\ b \in Int
  BY <1>1
<1> QED
  BY <1>3, <1>4, <1>5, <1>6

LEMMA LimitIsPositive == Limits \subseteq Nat \ {0}
BY ListingAssumption

LEMMA PastIsInt == ASSUME NEW w \in Walk PROVE Past(w) \in Int
<1>1. w.page \in Nat \ {0} /\ w.limit \in Nat \ {0}
  BY LimitIsPositive DEF Walk
<1>2. w.page * w.limit \in Nat /\ (w.page - 1) * w.limit \in Nat
  BY <1>1, Product
<1> QED
  BY <1>2 DEF Past

LEMMA StillWalk ==
    ASSUME NEW w \in Walk, NEW a \in {"Find", "Count", "Done"}, NEW p \in Nat \ {0}
    PROVE  [w EXCEPT !.at = a, !.page = p] \in Walk
BY DEF Walk

\* The next page begins where this one ends.
LEMMA NextPage ==
    ASSUME NEW p \in Nat, NEW l \in Nat
    PROVE  p * l = (p - 1) * l + l /\ ((p + 1) - 1) * l = p * l
OBVIOUS

\* What InsertAt does to the places of a sequence.
LEMMA Insertion ==
    ASSUME NEW S, NEW s \in Seq(S), NEW u \in S, NEW i \in 1..Len(s) + 1
    PROVE  /\ InsertAt(s, i, u) \in Seq(S) /\ Len(InsertAt(s, i, u)) = Len(s) + 1
           /\ \A j \in 1..(i - 1) : InsertAt(s, i, u)[j] = s[j]
           /\ InsertAt(s, i, u)[i] = u
           /\ \A j \in i..Len(s) : InsertAt(s, i, u)[j + 1] = s[j]
<1> DEFINE a == SubSeq(s, 1, i - 1)
           m == <<u>>
           b == SubSeq(s, i, Len(s))
<1>0. Len(s) \in Nat /\ i \in 1..(Len(s) + 1) /\ \A j \in 1..Len(s) : s[j] \in S
  BY LenProperties
<1>1. a \in Seq(S) /\ Len(a) = i - 1 /\ \A j \in 1..(i - 1) : a[j] = s[j]
  BY <1>0, SubSeqProperties
<1>2. m \in Seq(S) /\ Len(m) = 1 /\ m[1] = u
  OBVIOUS
<1>3. b \in Seq(S) /\ Len(b) = Len(s) - i + 1 /\ \A j \in 1..(Len(s) - i + 1) : b[j] = s[i + j - 1]
  BY <1>0, SubSeqProperties
<1> HIDE DEF a, m, b
<1>4. /\ a \o m \in Seq(S) /\ Len(a \o m) = i
      /\ \A j \in 1..i : (a \o m)[j] = IF j <= i - 1 THEN a[j] ELSE m[j - (i - 1)]
  <2>1. /\ a \o m \in Seq(S) /\ Len(a \o m) = Len(a) + Len(m)
        /\ \A j \in 1..Len(a) + Len(m) : (a \o m)[j] = IF j <= Len(a) THEN a[j] ELSE m[j - Len(a)]
    BY <1>1, <1>2, ConcatProperties
  <2>2. Len(a) + Len(m) = i
    BY <1>0, <1>1, <1>2
  <2> QED
    BY <1>1, <2>1, <2>2
<1> DEFINE am == a \o m
<1>5. am[i] = u /\ \A j \in 1..(i - 1) : am[j] = s[j]
  BY <1>0, <1>1, <1>2, <1>4
<1> HIDE DEF am
<1>6. /\ am \o b \in Seq(S) /\ Len(am \o b) = Len(s) + 1
      /\ \A j \in 1..(Len(s) + 1) : (am \o b)[j] = IF j <= i THEN am[j] ELSE b[j - i]
  <2>1. /\ am \o b \in Seq(S) /\ Len(am \o b) = Len(am) + Len(b)
        /\ \A j \in 1..Len(am) + Len(b) : (am \o b)[j] = IF j <= Len(am) THEN am[j] ELSE b[j - Len(am)]
    BY <1>3, <1>4, ConcatProperties DEF am
  <2>2. Len(am) = i /\ Len(am) + Len(b) = Len(s) + 1
    BY <1>0, <1>3, <1>4 DEF am
  <2> QED
    BY <2>1, <2>2
<1>7. ASSUME NEW j \in i..Len(s) PROVE (am \o b)[j + 1] = s[j]
  <2>1. (am \o b)[j + 1] = b[(j + 1) - i]
    BY <1>0, <1>6
  <2>2. (j + 1) - i \in 1..(Len(s) - i + 1) /\ i + ((j + 1) - i) - 1 = j
    BY <1>0
  <2> QED
    BY <1>3, <2>1, <2>2
<1>8. (am \o b)[i] = u
  <2>1. i \in 1..(Len(s) + 1) /\ i <= i
    BY <1>0
  <2> QED
    BY <1>5, <1>6, <2>1
<1>9. ASSUME NEW j \in 1..(i - 1) PROVE (am \o b)[j] = s[j]
  <2>1. j \in 1..(Len(s) + 1) /\ j <= i
    BY <1>0
  <2> QED
    BY <1>5, <1>6, <2>1
<1>10. InsertAt(s, i, u) = am \o b
  BY DEF InsertAt, am, a, m, b
<1> QED
  BY <1>6, <1>7, <1>8, <1>9, <1>10

-----------------------------------------------------------------------------

LEMMA InitHolds == Init => IInv
BY DEF Init, IInv, Typed

LEMMA BeginKeeps == ASSUME IInv, NEW c \in Clients, Begin(c) PROVE IInv'
<1>1. PICK limit \in Limits :
        Become(c, [at |-> "Find", page |-> 1, limit |-> limit, there |-> ToSet(rows), seen |-> {}])
  BY DEF Begin
<1> DEFINE w == [at |-> "Find", page |-> 1, limit |-> limit, there |-> ToSet(rows), seen |-> {}]
<1>2. ToSet(rows) \subseteq Users
  BY DEF IInv, Typed, ToSet
<1>3. w \in Walk
  BY <1>2 DEF Walk
<1>4. Past(w) = 0
  BY LimitIsPositive DEF Past
<1>5. Ahead(w)
  BY <1>4 DEF Ahead, IInv, Typed
<1>6. rows' = rows
  BY DEF Begin
<1>7. walk' = [walk EXCEPT ![c] = w]
  BY <1>1 DEF Become
<1> HIDE DEF w
<1> QED
  BY <1>3, <1>5, <1>6, <1>7 DEF IInv, Typed, Ahead

LEMMA CreateKeeps == ASSUME IInv, CreateUser PROVE IInv'
<1>1. PICK u \in Users \ ToSet(rows), i \in 1..Len(rows) + 1 : rows' = InsertAt(rows, i, u)
  BY DEF CreateUser
<1>2. rows \in Seq(Users) /\ walk \in [Clients -> {Idle} \cup Walk] /\ walk' = walk
  BY DEF IInv, Typed, CreateUser
<1>3. /\ rows' \in Seq(Users) /\ Len(rows') = Len(rows) + 1
      /\ \A j \in 1..(i - 1) : rows'[j] = rows[j]
      /\ rows'[i] = u
      /\ \A j \in i..Len(rows) : rows'[j + 1] = rows[j]
  BY <1>1, <1>2, Insertion
<1>4. /\ DOMAIN rows = 1..Len(rows) /\ DOMAIN rows' = 1..(Len(rows) + 1)
      /\ Len(rows) \in Nat /\ i \in 1..(Len(rows) + 1)
  BY <1>1, <1>2, <1>3
<1>5. ToSet(rows) \subseteq ToSet(rows')
  <2> SUFFICES ASSUME NEW j \in DOMAIN rows PROVE \E k \in DOMAIN rows' : rows'[k] = rows[j]
    BY DEF ToSet
  <2>1. CASE j < i
    <3>1. j \in DOMAIN rows' /\ rows'[j] = rows[j]
      BY <1>3, <1>4, <2>1
    <3> QED
      BY <3>1
  <2>2. CASE ~(j < i)
    <3>1. j + 1 \in DOMAIN rows' /\ rows'[j + 1] = rows[j]
      BY <1>3, <1>4, <2>2
    <3> QED
      BY <3>1
  <2> QED
    BY <2>1, <2>2
<1>6. ASSUME NEW c \in Clients, walk[c] # Idle PROVE Ahead(walk[c])'
  <2> DEFINE w == walk[c]
  <2>1. w \in Walk /\ Ahead(w) /\ walk'[c] = w
    BY <1>2, <1>6 DEF IInv
  <2>2. Past(w) \in Int
    BY <2>1, PastIsInt
  <2>3. w.there \cup w.seen \subseteq ToSet(rows)
    BY <2>1 DEF Ahead
  <2>4. \A j \in DOMAIN rows : rows[j] \in w.there \ w.seen => j > Past(w)
    BY <2>1 DEF Ahead
  <2>5. ASSUME NEW j \in DOMAIN rows', rows'[j] \in w.there \ w.seen PROVE j > Past(w)
    <3>1. CASE j < i
      <4>1. j \in DOMAIN rows /\ rows'[j] = rows[j]
        BY <1>3, <1>4, <3>1
      <4> QED
        BY <2>4, <2>5, <4>1
    <3>2. CASE j = i
      BY <1>1, <1>3, <2>3, <2>5, <3>2
    <3>3. CASE j > i
      <4>1. j - 1 \in i..Len(rows) /\ j - 1 \in DOMAIN rows /\ (j - 1) + 1 = j
        BY <1>4, <3>3
      <4>2. rows'[j] = rows[j - 1]
        BY <1>3, <4>1
      <4>3. j - 1 > Past(w)
        BY <2>4, <2>5, <4>1, <4>2
      <4> QED
        BY <1>4, <2>2, <4>3
    <3> QED
      BY <1>4, <3>1, <3>2, <3>3
  <2>6. w.at = "Done" => w.there \subseteq w.seen
    BY <2>1 DEF Ahead
  <2>7. w.at = "Find" /\ w.page > 1 => Past(w) < Len(rows')
    BY <1>3, <1>4, <2>1, <2>2 DEF Ahead
  <2> HIDE DEF w
  <2>8. w.there \cup w.seen \subseteq ToSet(rows')
    BY <1>5, <2>3
  <2> QED
    BY <2>1, <2>5, <2>6, <2>7, <2>8 DEF Ahead, Past, w
<1> QED
  BY <1>2, <1>3, <1>6 DEF IInv, Typed

LEMMA FindKeeps == ASSUME IInv, NEW c \in Clients, Find(c) PROVE IInv'
<1> DEFINE v == walk[c]
           data == Page(v.page, v.limit)
           w == [v EXCEPT !.at = "Count", !.seen = @ \cup data]
<1>1. v \in Walk /\ Ahead(v) /\ v.at = "Find"
  BY DEF IInv, Typed, Find, Idle
<1>2. v.page \in Nat \ {0} /\ v.limit \in Nat \ {0}
  BY <1>1, LimitIsPositive DEF Walk
<1>3. data \subseteq ToSet(rows) /\ data \subseteq Users
  BY DEF Page, ToSet, IInv, Typed
<1>4. /\ w \in Walk /\ w.at = "Count" /\ w.page = v.page /\ w.limit = v.limit
      /\ w.there = v.there /\ w.seen = v.seen \cup data
  BY <1>1, <1>3 DEF Walk
<1>5. Past(w) = skip(v.page, v.limit) + v.limit /\ Past(v) = skip(v.page, v.limit)
  BY <1>1, <1>2, <1>4, NextPage DEF Past, skip
<1>6. ASSUME NEW i \in DOMAIN rows, rows[i] \in w.there \ w.seen PROVE i > Past(w)
  <2>1. i > skip(v.page, v.limit)
    BY <1>1, <1>4, <1>5, <1>6 DEF Ahead
  <2>2. rows[i] \notin data
    BY <1>4, <1>6
  <2>3. ~(i <= skip(v.page, v.limit) + v.limit)
    BY <2>1, <2>2 DEF Page
  <2>4. skip(v.page, v.limit) \in Int /\ i \in Int
    BY <1>2 DEF skip, IInv, Typed
  <2> QED
    BY <1>2, <1>5, <2>3, <2>4
<1>7. Ahead(w)
  BY <1>1, <1>3, <1>4, <1>6 DEF Ahead
<1>8. rows' = rows /\ walk' = [walk EXCEPT ![c] = w]
  BY DEF Find, Become
<1> HIDE DEF w
<1> QED
  BY <1>4, <1>7, <1>8 DEF IInv, Typed, Ahead

LEMMA CountKeeps == ASSUME IInv, NEW c \in Clients, Count(c) PROVE IInv'
<1> DEFINE v == walk[c]
           next == [v EXCEPT !.at = "Find", !.page = @ + 1]
           done == [v EXCEPT !.at = "Done"]
<1>1. v \in Walk /\ Ahead(v) /\ v.at = "Count"
  BY DEF IInv, Typed, Count, Idle
<1>2. v.page \in Nat \ {0} /\ v.limit \in Nat \ {0} /\ Len(rows) \in Nat
  <2>1. Len(rows) \in Nat
    BY LenProperties DEF IInv, Typed
  <2> QED
    BY <1>1, <2>1, LimitIsPositive DEF Walk
<1>3. next \in Walk /\ done \in Walk
  <2>1. v.page + 1 \in Nat \ {0}
    BY <1>2
  <2>2. [v EXCEPT !.at = "Find", !.page = v.page + 1] \in Walk
    BY <1>1, <2>1, StillWalk
  <2>3. [v EXCEPT !.at = "Done"] \in Walk
    BY <1>1 DEF Walk
  <2> QED
    BY <2>2, <2>3
<1>4. ASSUME hasNextPage(v.page, v.limit, Len(rows)) PROVE Ahead(next)
  <2>1. /\ next.at = "Find" /\ next.page = v.page + 1 /\ next.limit = v.limit
        /\ next.there = v.there /\ next.seen = v.seen
    BY <1>1 DEF Walk
  <2>2. Past(next) = Past(v)
    BY <1>1, <1>2, <2>1, NextPage DEF Past
  <2>3. v.page * v.limit < Len(rows)
    BY <1>2, <1>4, PageEndsBefore DEF hasNextPage
  <2>4. Past(next) < Len(rows)
    BY <1>1, <2>2, <2>3 DEF Past
  <2> QED
    BY <1>1, <2>1, <2>2, <2>4 DEF Ahead
<1>5. CASE ~hasNextPage(v.page, v.limit, Len(rows))
  <2>1. totalPages(Len(rows), v.limit) \in Int
    BY <1>2 DEF totalPages
  <2>2. v.page * v.limit >= Len(rows)
    BY <1>2, <1>5, <2>1, PagesHoldAll DEF hasNextPage
  <2>3. Past(v) = v.page * v.limit
    BY <1>1 DEF Past
  <2>4. \A i \in DOMAIN rows : ~(i > v.page * v.limit)
    BY <1>2, <2>2 DEF IInv, Typed
  <2>5. v.there \subseteq v.seen
    BY <1>1, <2>3, <2>4 DEF Ahead, ToSet
  <2>6. /\ done.at = "Done" /\ done.page = v.page /\ done.limit = v.limit
        /\ done.there = v.there /\ done.seen = v.seen
    BY <1>1 DEF Walk
  <2>7. Ahead(done)
    BY <1>1, <2>5, <2>6 DEF Ahead
  <2>8. rows' = rows /\ walk' = [walk EXCEPT ![c] = done]
    BY <1>5 DEF Count, Become
  <2> HIDE DEF done
  <2> QED
    BY <1>3, <2>7, <2>8 DEF IInv, Typed, Ahead
<1>6. CASE hasNextPage(v.page, v.limit, Len(rows))
  <2>1. rows' = rows /\ walk' = [walk EXCEPT ![c] = next]
    BY <1>6 DEF Count, Become
  <2> HIDE DEF next
  <2> QED
    BY <1>3, <1>4, <1>6, <2>1 DEF IInv, Typed, Ahead
<1> QED
  BY <1>5, <1>6

LEMMA NextHolds == IInv /\ [Next]_vars => IInv'
<1> SUFFICES ASSUME IInv, [Next]_vars PROVE IInv'
  OBVIOUS
<1>1. CASE UNCHANGED vars
  BY <1>1 DEF vars, IInv, Typed, Ahead, Past
<1>2. ASSUME NEW c \in Clients, Leave(c) PROVE IInv'
  BY <1>2 DEF Leave, Become, IInv, Typed, Ahead
<1> QED
  BY <1>1, <1>2, CreateKeeps, BeginKeeps, FindKeeps, CountKeeps DEF Next

\* The rows are users, and walks are on pages from 1.
THEOREM TypeCorrect == Spec => []TypeOK
<1>1. ASSUME IInv, NEW c \in Clients, walk[c] # Idle
      PROVE  /\ walk[c].at \in {"Find", "Count", "Done"}
             /\ walk[c].page \in Nat \ {0} /\ walk[c].limit \in Limits
             /\ walk[c].there \subseteq ToSet(rows) /\ walk[c].seen \subseteq ToSet(rows)
  <2>1. walk[c] \in Walk /\ Ahead(walk[c])
    BY <1>1 DEF IInv, Typed
  <2>2. walk[c].there \cup walk[c].seen \subseteq ToSet(rows)
    BY <2>1 DEF Ahead
  <2> QED
    BY <2>1, <2>2 DEF Walk
<1>2. IInv => TypeOK
  BY <1>1 DEF IInv, Typed, TypeOK
<1> QED
  BY InitHolds, NextHolds, <1>2, PTL DEF Spec

\* A client that goes through all pages has seen each user that was there when
\* it began, whoever registers between and within its requests.
THEOREM WalkIsComplete == Spec => []NothingIsMissed
<1>1. IInv => NothingIsMissed
  BY DEF IInv, Ahead, NothingIsMissed, Idle
<1> QED
  BY InitHolds, NextHolds, <1>1, PTL DEF Spec

\* No response sends its client to an empty page.
THEOREM AnnouncedPageHasRows == Spec => []NextPageHasRows
<1>1. ASSUME IInv, NEW c \in Clients, walk[c].at = "Find", walk[c].page > 1
      PROVE  Page(walk[c].page, walk[c].limit) # {}
  <2> DEFINE w == walk[c]
             k == skip(w.page, w.limit) + 1
  <2>1. w \in Walk /\ Ahead(w)
    BY <1>1 DEF IInv, Typed, Idle
  <2>2. w.page \in Nat \ {0} /\ w.limit \in Nat \ {0}
    BY <2>1, LimitIsPositive DEF Walk
  <2>3. skip(w.page, w.limit) = Past(w) /\ skip(w.page, w.limit) \in Nat
    BY <1>1, <2>2, Product DEF skip, Past
  <2>4. Past(w) < Len(rows)
    BY <1>1, <2>1 DEF Ahead
  <2>5. Len(rows) \in Nat /\ DOMAIN rows = 1..Len(rows)
    BY <1>1, LenProperties DEF IInv, Typed
  <2>6. k \in DOMAIN rows /\ skip(w.page, w.limit) < k /\ k <= skip(w.page, w.limit) + w.limit
    BY <2>2, <2>3, <2>4, <2>5
  <2>7. rows[k] \in Page(w.page, w.limit)
    BY <2>6 DEF Page
  <2> QED
    BY <2>7
<1>2. IInv => NextPageHasRows
  BY <1>1 DEF NextPageHasRows
<1> QED
  BY InitHolds, NextHolds, <1>2, PTL DEF Spec
=============================================================================
