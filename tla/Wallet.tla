------------------------------- MODULE Wallet -------------------------------
(***************************************************************************)
(* The wallet service: packages/wallet (LedgerService, HoldService) as the *)
(* internal endpoints of apps/wallet-api drive it.                         *)
(*                                                                         *)
(* A worker is one request in flight.  Node runs a request up to its next  *)
(* await and then any other request may run, in this process or in another *)
(* replica, so every await is a point of interleaving: the field "at" of a *)
(* job names the query the request is about to issue.  The database is     *)
(* PostgreSQL at its default READ COMMITTED: a query sees what is          *)
(* committed when it runs, a transaction with one INSERT takes effect at   *)
(* that INSERT, and a unique index refuses the second of two INSERTs.      *)
(* The code takes no lock of its own.                                      *)
(***************************************************************************)
EXTENDS Integers, Sequences, FiniteSets

CONSTANTS
    Workers,       \* requests that can be in flight at the same time
    Wallets,       \* wallet rows, all of them existing
    HoldRefs,      \* reference ids that callers put on holds
    CreditRefs,    \* reference ids that callers put on direct credits
    MaxAmount,     \* largest amount of one request, in indivisible units
    SweepEnabled,  \* whether something calls HoldService.releaseExpired
    Failures,      \* whether a request may fail at an await
    ListsExpand    \* whether `IN (:list)` stands for the elements of the list

ASSUME WalletAssumption ==
    /\ IsFiniteSet(Workers) /\ Workers # {}
    /\ IsFiniteSet(HoldRefs)
    /\ MaxAmount \in Nat \ {0}
    /\ {SweepEnabled, Failures, ListsExpand} \subseteq BOOLEAN

VARIABLES
    ledger,   \* committed rows of ledger_entries, in commit order
    holds,    \* committed rows of holds, by their unique reference id
    job       \* what each worker is doing

vars == <<ledger, holds, job>>

-----------------------------------------------------------------------------
(* The data.                                                               *)

\* The bodies have inline types, which validate nothing: an amount may be 0 or
\* negative.  DTOs that would refuse it (packages/wallet/src/dto.ts) have no use.
Amounts  == -MaxAmount..MaxAmount
Outcomes == {"WIN", "LOSS", "CANCEL"}

HoldStatus  == {"active", "settled", "released", "expired"}
CreditTypes == {"DEPOSIT", "BET_WIN_CREDIT", "BONUS_CREDIT", "ADJUSTMENT"}
DebitTypes  == {"WITHDRAWAL", "BET_DEBIT", "TRADE_SETTLEMENT", "FEE_DEBIT"}
EntryTypes  == CreditTypes \cup DebitTypes
                 \cup {"BET_HOLD", "BET_HOLD_RELEASE", "TRADE_HOLD"}

\* (referenceId, referenceType).  A payout's reference, `${holdId}-payout`,
\* determines the hold, and the hold's unique reference id determines holdId.
HoldKey(ref)   == <<ref, "hold">>
PayoutKey(ref) == <<ref, "payout">>
DirectKey(ref) == <<ref, "direct">>

Keys == {HoldKey(r) : r \in HoldRefs} \cup {PayoutKey(r) : r \in HoldRefs}
          \cup {DirectKey(r) : r \in CreditRefs}

Hold == [wallet : Wallets, amount : Amounts, status : HoldStatus, overdue : BOOLEAN]

LedgerEntry == [key : Keys, wallet : Wallets, type : EntryTypes,
                amount : Amounts, balanceAfter : Int]

Stages == {"CheckAvailable", "SaveHold", "Debit", "SaveDebit",
           "SaveSettle", "Credit", "SaveCredit"}

\* "seen" is the number the request last read: the total of the active holds
\* at CheckAvailable, the balance inside its transaction at SaveDebit and
\* SaveCredit.
Job  == [at : Stages, wallet : Wallets, amount : Amounts, key : Keys,
         outcome : Outcomes \cup {"NONE"}, seen : Int]
Idle == [at |-> "Idle"]

-----------------------------------------------------------------------------
(* The SQL sums.  Money is counted in units: the sum of some numbers is the *)
(* number of units of the positive ones less that of the negative ones.    *)

\* What an entry adds to the sum of computeBalanceInTx.
Worth(e) == CASE e.type \in CreditTypes -> e.amount
              [] e.type \in DebitTypes  -> -e.amount
              [] OTHER                  -> 0

LedgerUnits(log, w, sign) ==
    {x \in (1..Len(log)) \X (1..MaxAmount) :
        log[x[1]].wallet = w /\ x[2] <= sign * Worth(log[x[1]])}

BalanceOf(log, w) == Cardinality(LedgerUnits(log, w, 1))
                       - Cardinality(LedgerUnits(log, w, -1))

Balance(w) == BalanceOf(ledger, w)

\* The other balance query, LedgerService.getBalance, binds each list of types to
\* one parameter.  PostgreSQL takes that for one value of the enum and refuses the
\* query, whatever rows there are: it has an answer only if lists were expanded.
GetBalanceAnswers == ListsExpand

HeldUnits(w, sign) ==
    {x \in (DOMAIN holds) \X (1..MaxAmount) :
        LET h == holds[x[1]] IN
        h.wallet = w /\ h.status = "active" /\ x[2] <= sign * h.amount}

ActiveHoldsTotal(w) == Cardinality(HeldUnits(w, 1)) - Cardinality(HeldUnits(w, -1))

Booked(key) == \E i \in 1..Len(ledger) : ledger[i].key = key

-----------------------------------------------------------------------------

Init ==
    /\ ledger = <<>>
    /\ holds  = [r \in {} |-> 0]
    /\ job    = [p \in Workers |-> Idle]

Finish(p)    == job' = [job EXCEPT ![p] = Idle]
GoTo(p, at)  == job' = [job EXCEPT ![p].at = at]
Reads(p, at, n) == job' = [job EXCEPT ![p].at = at, ![p].seen = n]

\* Mutant: the table has no unique index and only the earlier SELECT protects.
InsertEntryUnindexed(p, type, balanceAfter) ==
    /\ ledger' = Append(ledger,
                   [key |-> job[p].key, wallet |-> job[p].wallet, type |-> type,
                    amount |-> job[p].amount, balanceAfter |-> balanceAfter])
    /\ Finish(p)
    /\ UNCHANGED holds

\* Mutant: ON CONFLICT DO UPDATE.
InsertEntryUpsert(p, type, balanceAfter) ==
    /\ LET e == [key |-> job[p].key, wallet |-> job[p].wallet, type |-> type,
                 amount |-> job[p].amount, balanceAfter |-> balanceAfter]
       IN  ledger' = IF Booked(e.key)
                     THEN [i \in DOMAIN ledger |-> IF ledger[i].key = e.key THEN e ELSE ledger[i]]
                     ELSE Append(ledger, e)
    /\ Finish(p)
    /\ UNCHANGED holds

\* INSERT INTO ledger_entries: the unique index on the key decides.
InsertEntry(p, type, balanceAfter) ==
    /\ ledger' = IF Booked(job[p].key) THEN ledger ELSE Append(ledger,
                   [key |-> job[p].key, wallet |-> job[p].wallet, type |-> type,
                    amount |-> job[p].amount, balanceAfter |-> balanceAfter])
    /\ Finish(p)
    /\ UNCHANGED holds

(* POST /internal/wallet/hold *)

\* createHold enters HoldService.create and sums the active holds.
CreateHold(p) ==
    /\ job[p] = Idle
    /\ \E w \in Wallets, a \in Amounts, r \in HoldRefs :
         job' = [job EXCEPT ![p] =
                   [at |-> "CheckAvailable", wallet |-> w, amount |-> a,
                    key |-> HoldKey(r), outcome |-> "NONE",
                    seen |-> ActiveHoldsTotal(w)]]
    /\ UNCHANGED <<ledger, holds>>

\* It reads the balance and compares it with the earlier sum of the holds.
CheckAvailable(p) ==
    /\ job[p].at = "CheckAvailable"
    /\ \/ /\ \/ ~GetBalanceAnswers
             \/ Balance(job[p].wallet) - job[p].seen < job[p].amount
          /\ Finish(p)
       \/ /\ GetBalanceAnswers
          /\ Balance(job[p].wallet) - job[p].seen >= job[p].amount
          /\ GoTo(p, "SaveHold")
    /\ UNCHANGED <<ledger, holds>>

NewHold(p) == [wallet |-> job[p].wallet, amount |-> job[p].amount,
               status |-> "active", overdue |-> FALSE]

\* Mutants of the INSERT: a stored row is overwritten; the INSERT is not awaited,
\* and the request goes on although it may be refused.
SaveHoldUpsert(p) ==
    /\ job[p].at = "SaveHold"
    /\ holds' = [q \in DOMAIN holds \cup {job[p].key[1]} |->
                   IF q = job[p].key[1] THEN NewHold(p) ELSE holds[q]]
    /\ GoTo(p, "Debit")
    /\ UNCHANGED ledger
SaveHoldUnawaited(p) ==
    /\ job[p].at = "SaveHold"
    /\ \/ UNCHANGED holds
       \/ holds' = [q \in DOMAIN holds \cup {job[p].key[1]} |->
                      IF q \in DOMAIN holds THEN holds[q] ELSE NewHold(p)]
    /\ GoTo(p, "Debit")
    /\ UNCHANGED ledger

\* INSERT INTO holds: the unique index on reference_id decides.
SaveHold(p) ==
    /\ job[p].at = "SaveHold"
    /\ LET r == job[p].key[1] IN
       \/ /\ r \in DOMAIN holds
          /\ Finish(p)
          /\ UNCHANGED holds
       \/ /\ r \notin DOMAIN holds
          /\ holds' = [q \in DOMAIN holds \cup {r} |->
                         IF q = r THEN NewHold(p) ELSE holds[q]]
          /\ GoTo(p, "Debit")
    /\ UNCHANGED ledger

\* LedgerService.debit up to its INSERT.
Debit(p) ==
    /\ job[p].at = "Debit"
    /\ IF Booked(job[p].key) \/ Balance(job[p].wallet) < job[p].amount
       THEN Finish(p)
       ELSE Reads(p, "SaveDebit", Balance(job[p].wallet))
    /\ UNCHANGED <<ledger, holds>>

SaveDebit(p) ==
    /\ job[p].at = "SaveDebit"
    /\ InsertEntry(p, "BET_HOLD", job[p].seen - job[p].amount)

(* POST /internal/wallet/settle *)

\* settle loads the hold; a missing or closed one ends the request at once.
SettleHold(p) ==
    /\ job[p] = Idle
    /\ \E r \in DOMAIN holds, o \in Outcomes, payout \in Amounts :
         /\ holds[r].status = "active"
         /\ job' = [job EXCEPT ![p] =
                      [at |-> "SaveSettle", wallet |-> holds[r].wallet,
                       amount |-> payout, key |-> PayoutKey(r),
                       outcome |-> o, seen |-> 0]]
    /\ UNCHANGED <<ledger, holds>>

\* Mutants: the outcome is stored as the status; a win leaves the hold as it is.
SaveSettleOutcome(p) ==
    /\ job[p].at = "SaveSettle"
    /\ holds' = [holds EXCEPT ![job[p].key[1]].status = job[p].outcome]
    /\ IF job[p].outcome = "WIN" /\ job[p].amount > 0 THEN GoTo(p, "Credit") ELSE Finish(p)
    /\ UNCHANGED ledger
SaveSettleCreditFirst(p) ==
    /\ job[p].at = "SaveSettle"
    /\ IF job[p].outcome = "WIN" /\ job[p].amount > 0
       THEN GoTo(p, "Credit") /\ UNCHANGED holds
       ELSE /\ Finish(p)
            /\ holds' = [holds EXCEPT ![job[p].key[1]].status =
                          IF job[p].outcome = "CANCEL" THEN "released" ELSE "settled"]
    /\ UNCHANGED ledger

\* The loaded row is written back with its new status, whatever the stored
\* status has become, and a win with a payout goes on to the credit.
SaveSettle(p) ==
    /\ job[p].at = "SaveSettle"
    /\ holds' = [holds EXCEPT ![job[p].key[1]].status =
                   IF job[p].outcome = "CANCEL" THEN "released" ELSE "settled"]
    /\ \/ /\ job[p].outcome = "WIN" /\ job[p].amount > 0
          /\ GoTo(p, "Credit")
       \/ /\ ~(job[p].outcome = "WIN" /\ job[p].amount > 0)
          /\ Finish(p)
    /\ UNCHANGED ledger

\* LedgerService.credit up to its INSERT, for a payout.
Credit(p) ==
    /\ job[p].at = "Credit"
    /\ \/ /\ Booked(job[p].key)
          /\ Finish(p)
       \/ /\ ~Booked(job[p].key)
          /\ Reads(p, "SaveCredit", Balance(job[p].wallet))
    /\ UNCHANGED <<ledger, holds>>

(* POST /internal/wallet/credit: the same, for a reference of the caller.  *)
DirectCredit(p) ==
    /\ job[p] = Idle
    /\ \E w \in Wallets, a \in Amounts, r \in CreditRefs :
         /\ ~Booked(DirectKey(r))
         /\ job' = [job EXCEPT ![p] =
                      [at |-> "SaveCredit", wallet |-> w, amount |-> a,
                       key |-> DirectKey(r), outcome |-> "NONE",
                       seen |-> Balance(w)]]
    /\ UNCHANGED <<ledger, holds>>

\* Mutant: balance_after is the balance before.
SaveCreditBefore(p) ==
    /\ job[p].at = "SaveCredit"
    /\ InsertEntry(p, "DEPOSIT", job[p].seen)

SaveCredit(p) ==
    /\ job[p].at = "SaveCredit"
    /\ InsertEntry(p, "DEPOSIT", job[p].seen + job[p].amount)

(* Not requests. *)

\* 24 hours pass: every hold stored so far is past its expires_at.
TimePasses ==
    /\ SweepEnabled
    /\ holds' = [r \in DOMAIN holds |-> [holds[r] EXCEPT !.overdue = TRUE]]
    /\ UNCHANGED <<ledger, job>>

ReleaseExpired ==
    /\ SweepEnabled
    /\ holds' = [r \in DOMAIN holds |->
                   IF holds[r].status = "active" /\ holds[r].overdue
                   THEN [holds[r] EXCEPT !.status = "expired"] ELSE holds[r]]
    /\ UNCHANGED <<ledger, job>>

\* A query fails, or the process dies and is restarted: the request is gone,
\* and so is what its open transaction had not committed.  The restart of the
\* whole process is an Abort of each of its requests.
Abort(p) ==
    /\ Failures
    /\ job[p] # Idle
    /\ Finish(p)
    /\ UNCHANGED <<ledger, holds>>

Step(p) ==
    \/ CheckAvailable(p) \/ SaveHold(p) \/ Debit(p) \/ SaveDebit(p)
    \/ SaveSettle(p) \/ Credit(p) \/ SaveCredit(p)

Next ==
    \/ \E p \in Workers :
         CreateHold(p) \/ SettleHold(p) \/ DirectCredit(p) \/ Step(p) \/ Abort(p)
    \/ TimePasses
    \/ ReleaseExpired

Spec == Init /\ [][Next]_vars

\* The event loop resumes a request whose query has been answered.  Nothing
\* obliges a caller to send a request, and nothing prevents a failure.
FairSpec == Spec /\ \A p \in Workers : WF_vars(Step(p))

-----------------------------------------------------------------------------
(* Properties. *)

TypeOK ==
    /\ ledger \in Seq(LedgerEntry)
    /\ DOMAIN holds \subseteq HoldRefs
    /\ holds \in [DOMAIN holds -> Hold]
    /\ job \in [Workers -> Job \cup {Idle}]

\* No (referenceId, referenceType) is booked twice, however many requests with
\* that reference are in flight, are retried or have failed half way: a credit
\* is applied at most once and a hold pays out at most once.
EachReferenceOnce ==
    \A i, j \in 1..Len(ledger) : ledger[i].key = ledger[j].key => i = j

\* Money leaves the house only for a hold that is closed, and to the wallet
\* that placed it: a payout entry names a hold that is no longer active, and is
\* more than 0 although nothing validates what the caller asks to be paid.
PayoutOnlyForClosedHold ==
    \A i \in 1..Len(ledger), r \in HoldRefs :
        ledger[i].key = PayoutKey(r) =>
            /\ r \in DOMAIN holds
            /\ holds[r].status # "active"
            /\ holds[r].wallet = ledger[i].wallet
            /\ ledger[i].amount > 0

\* A BET_HOLD entry is the record of a hold that was stored, with its wallet
\* and its amount, although two requests may carry the same reference.
HoldEntryMatchesHold ==
    \A i \in 1..Len(ledger), r \in HoldRefs :
        ledger[i].key = HoldKey(r) =>
            /\ r \in DOMAIN holds
            /\ holds[r].wallet = ledger[i].wallet
            /\ holds[r].amount = ledger[i].amount

\* A hold that has been settled, released or expired is never active again,
\* and no hold is ever deleted, moved to another wallet or given another amount.
ClosedHoldsStayClosed ==
    [][\A r \in DOMAIN holds :
         /\ r \in DOMAIN holds'
         /\ holds[r].status # "active" => holds'[r].status # "active"
         /\ holds'[r].wallet = holds[r].wallet
         /\ holds'[r].amount = holds[r].amount]_vars

\* Every entry's balance_after is the entry's amount applied to a balance that
\* this wallet really had at some earlier moment: entries committed between the
\* SELECT and the INSERT make it old, but never a balance of another wallet, of
\* uncommitted rows or of no moment at all.
Change(e) == IF e.type \in CreditTypes THEN e.amount ELSE -e.amount

BalanceAfterWasReal ==
    \A i \in 1..Len(ledger) : \E k \in 0..i-1 :
        ledger[i].balanceAfter =
            BalanceOf(SubSeq(ledger, 1, k), ledger[i].wallet) + Change(ledger[i])

\* Seen from outside, the service is a set of accounts (Account): the balance of a
\* wallet moves only when a credit is applied, once for each reference, or when a
\* closed hold is paid, once and upwards; opening, closing and recording holds
\* moves no money.  Requests overlap, are retried and fail; none of it shows.
Promise == INSTANCE Account WITH
             balance  <- [w \in Wallets |-> Balance(w)],
             owner    <- [r \in DOMAIN holds |-> holds[r].wallet],
             closed   <- {r \in DOMAIN holds : holds[r].status # "active"},
             paid     <- {r \in HoldRefs : Booked(PayoutKey(r))},
             credited <- {r \in CreditRefs : Booked(DirectKey(r))}

WalletIsAccount == Promise!Spec

(* What the documents claim. *)

Quiescent == \A p \in Workers : job[p] = Idle

\* docs/architecture.md, section 9: "Check available balance", "If sufficient ->
\* INSERT hold record": a hold of more than 0 that the balance read now covers is
\* made.  None ever is, because the query that reads the balance is refused.
CoveredHoldIsMade ==
    [][\A p \in Workers :
         (/\ job[p].at = "CheckAvailable" /\ job'[p] # job[p]
          /\ job[p].amount > 0
          /\ Balance(job[p].wallet) - job[p].seen >= job[p].amount)
         => job'[p].at = "SaveHold"]_vars

(* What the documents claim, and what would not hold if lists were expanded. *)

\* docs/architecture.md, section 9: the available balance is checked before a hold
\* is inserted, under a lock, so no hold is made beyond what is available.
HoldIsAvailable ==
    [][\A r \in DOMAIN holds' \ DOMAIN holds, w \in Wallets :
         holds'[r].wallet = w => ActiveHoldsTotal(w)' <= Balance(w)]_vars

\* docs/architecture.md, section 9: "All operations are atomic": a hold comes
\* with its ledger entry.
HoldIsRecorded ==
    Quiescent => \A r \in DOMAIN holds : Booked(HoldKey(r))

\* docs/architecture.md, section 9: settlement deletes the hold and inserts the
\* payout in one operation, so a hold closed as won is paid.
WonHoldIsPaid ==
    \A p \in Workers, r \in HoldRefs :
        (job[p].at = "Credit" /\ job[p].key = PayoutKey(r)) ~> Booked(PayoutKey(r))

\* docs/architecture.md, section 9: "INSERT ledger: DEBIT (stake consumed)":
\* a settled hold leaves an entry that reduces the balance.
StakeIsConsumed ==
    Quiescent => \A r \in DOMAIN holds :
        holds[r].status = "settled" =>
            \E i \in 1..Len(ledger) :
                ledger[i].key[1] = r /\ ledger[i].type \in DebitTypes
=============================================================================
