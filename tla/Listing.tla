------------------------------ MODULE Listing -------------------------------
(***************************************************************************)
(* A list that is read page by page: the pagination of packages/shared, as *)
(* UsersService.findAll uses it.                                           *)
(*                                                                         *)
(* findAndCount is two queries, one for the page and one for the count,    *)
(* and a client that goes through the list makes a request for each page;  *)
(* users register in between.  Users are never deleted.  No two rows have  *)
(* the same createdAt.                                                     *)
(***************************************************************************)
EXTENDS Integers, SequencesExt

CONSTANTS
    Users,    \* user ids
    Clients,  \* that go through the list
    Limits    \* page sizes that they ask for

ASSUME ListingAssumption == Limits \subseteq 1..100

VARIABLES
    rows,   \* rows of users, as createdAt DESC sorts them
    walk    \* where each client is

vars == <<rows, walk>>

Idle == [at |-> "Idle"]

-----------------------------------------------------------------------------
(* pagination.dto *)

skip(page, limit) == (page - 1) * limit

\* Mutant: Math.floor.
WholePages(total, limit) == total \div limit

\* Math.ceil(total / limit)
totalPages(total, limit) == (total + limit - 1) \div limit

\* Mutant: the last page has a next one.
HasNextOrLast(page, limit, total) == page <= totalPages(total, limit)

hasNextPage(page, limit, total) == page < totalPages(total, limit)

\* What ORDER BY, OFFSET and LIMIT select.
Page(page, limit) ==
    {rows[i] : i \in {j \in DOMAIN rows : skip(page, limit) < j /\ j <= skip(page, limit) + limit}}

-----------------------------------------------------------------------------

Init ==
    /\ rows = <<>>
    /\ walk = [c \in Clients |-> Idle]

Become(c, w) == walk' = [walk EXCEPT ![c] = w]

\* A user registers.  createdAt is when the transaction began, and of two that
\* overlap the older one may be committed last: the place is not always the first.
CreateUser ==
    /\ \E u \in Users \ ToSet(rows), i \in 1..Len(rows) + 1 : rows' = InsertAt(rows, i, u)
    /\ UNCHANGED walk

\* A client begins with page 1; there and seen are ghosts.
Begin(c) ==
    /\ walk[c] = Idle
    /\ \E limit \in Limits :
         Become(c, [at |-> "Find", page |-> 1, limit |-> limit, there |-> ToSet(rows), seen |-> {}])
    /\ UNCHANGED rows

\* The query for the rows of the page.
Find(c) ==
    /\ walk[c].at = "Find"
    /\ LET data == Page(walk[c].page, walk[c].limit) IN
         Become(c, [walk[c] EXCEPT !.at = "Count", !.seen = @ \cup data])
    /\ UNCHANGED rows

\* The query for the count, and the response: its client goes on to the next
\* page if there is one.  (TypeORM leaves the query out where a short page tells
\* the count; that is this step with nobody registering before it.)
Count(c) ==
    /\ walk[c].at = "Count"
    /\ Become(c, IF hasNextPage(walk[c].page, walk[c].limit, Len(rows))
                 THEN [walk[c] EXCEPT !.at = "Find", !.page = @ + 1]
                 ELSE [walk[c] EXCEPT !.at = "Done"])
    /\ UNCHANGED rows

\* The client is done, or gives up.
Leave(c) ==
    /\ walk[c] # Idle
    /\ Become(c, Idle)
    /\ UNCHANGED rows

Next == CreateUser \/ \E c \in Clients : Begin(c) \/ Find(c) \/ Count(c) \/ Leave(c)

Spec == Init /\ [][Next]_vars

-----------------------------------------------------------------------------
(* Properties. *)

TypeOK ==
    /\ rows \in Seq(Users)
    /\ \A c \in Clients :
         \/ walk[c] = Idle
         \/ /\ walk[c].at \in {"Find", "Count", "Done"}
            /\ walk[c].page \in Nat \ {0} /\ walk[c].limit \in Limits
            /\ walk[c].there \subseteq ToSet(rows) /\ walk[c].seen \subseteq ToSet(rows)

\* A client that goes through all pages sees every user that was there when it
\* began, however many register meanwhile: they only move to later pages, and
\* the count that ends the walk is not older than the page.
NothingIsMissed ==
    \A c \in Clients : walk[c].at = "Done" => walk[c].there \subseteq walk[c].seen

\* A page that a response announced has rows.
NextPageHasRows ==
    \A c \in Clients : walk[c].at = "Find" /\ walk[c].page > 1
        => Page(walk[c].page, walk[c].limit) # {}
=============================================================================
