--------------------------- MODULE WalletService ----------------------------
(***************************************************************************)
(* The public half of apps/wallet-api: WalletService, which creates        *)
(* wallets.  A worker is one request in flight.                            *)
(*                                                                         *)
(* getBalance is left out: it changes nothing, and it has no answer.  Two  *)
(* of its three computations need LedgerService.getBalance, whose query    *)
(* PostgreSQL refuses (GetBalanceAnswers in the module Wallet).            *)
(***************************************************************************)
EXTENDS Integers, FiniteSets

CONSTANTS
    Workers,
    Wallets,   \* wallet ids
    Owners     \* pairs of a user and a currency

VARIABLES
    wallets,   \* the owner in each row of wallets, by id
    told,      \* the ids that clients have been told, by owner
    job        \* what each worker is doing

vars == <<wallets, told, job>>

Idle == [at |-> "Idle"]

-----------------------------------------------------------------------------

Init ==
    /\ wallets = [w \in {} |-> 0]
    /\ told    = [o \in Owners |-> {}]
    /\ job     = [p \in Workers |-> Idle]

Become(p, j) == job' = [job EXCEPT ![p] = j]

Tell(o, w) == told' = [told EXCEPT ![o] = @ \cup {w}]

Owned(o) == \E w \in DOMAIN wallets : wallets[w] = o

\* create looks for the owner's wallet of this currency, which is the answer if
\* there is one.
Create(p) ==
    /\ job[p] = Idle
    /\ \E o \in Owners :
         \/ /\ \E w \in DOMAIN wallets : wallets[w] = o /\ Tell(o, w)
            /\ UNCHANGED job
         \/ /\ ~Owned(o)
            /\ Become(p, [at |-> "Insert", owner |-> o])
            /\ UNCHANGED told
    /\ UNCHANGED wallets

NewRow(w, o) ==
    wallets' = [v \in DOMAIN wallets \cup {w} |-> IF v = w THEN o ELSE wallets[v]]

\* Mutants: (user_id, currency) has no unique index; the user is not stored; the
\* answer is the new entity although the INSERT was refused.
InsertUnindexed(p) ==
    /\ job[p].at = "Insert"
    /\ \E w \in Wallets \ DOMAIN wallets : NewRow(w, job[p].owner) /\ UNCHANGED told
    /\ Become(p, Idle)
InsertAnonymous(p) ==
    /\ job[p].at = "Insert"
    /\ \E w \in Wallets \ DOMAIN wallets : NewRow(w, "null") /\ UNCHANGED told
    /\ Become(p, Idle)
InsertIgnored(p) ==
    /\ job[p].at = "Insert"
    /\ \E w \in Wallets \ DOMAIN wallets :
         /\ IF Owned(job[p].owner) THEN UNCHANGED wallets ELSE NewRow(w, job[p].owner)
         /\ Tell(job[p].owner, w)
    /\ Become(p, Idle)

\* The INSERT, which fails if another create of this owner was faster.  If it does
\* not, the client is told the id of the row, or the answer is lost.
Insert(p) ==
    /\ job[p].at = "Insert"
    /\ \/ Owned(job[p].owner) /\ UNCHANGED <<wallets, told>>
       \/ /\ ~Owned(job[p].owner)
          /\ \E w \in Wallets \ DOMAIN wallets :
               NewRow(w, job[p].owner) /\ (Tell(job[p].owner, w) \/ UNCHANGED told)
    /\ Become(p, Idle)

\* A query fails or the process dies.
Abort(p) ==
    /\ job[p] # Idle
    /\ Become(p, Idle)
    /\ UNCHANGED <<wallets, told>>

Next == \E p \in Workers : Create(p) \/ Insert(p) \/ Abort(p)

Spec == Init /\ [][Next]_vars

-----------------------------------------------------------------------------
(* Properties. *)

\* Rows, answers and requests have their types.
TypeOK ==
    /\ \E W \in SUBSET Wallets : wallets \in [W -> Owners]
    /\ told \in [Owners -> SUBSET Wallets]
    /\ job \in [Workers -> {Idle} \cup [at : {"Insert"}, owner : Owners]]

\* One wallet for each user and currency, although create looks for it in one
\* query and inserts it in another.
OneWalletPerOwner ==
    \A v, w \in DOMAIN wallets : wallets[v] = wallets[w] => v = w

\* However many clients ask for the same wallet, at the same time, one after the
\* other, or again because an answer was lost, all that are answered are told the
\* same id, and it is that of a stored row.
AnswersAgree ==
    \A o \in Owners : \A v, w \in told[o] : v = w /\ w \in DOMAIN wallets /\ wallets[w] = o
=============================================================================
