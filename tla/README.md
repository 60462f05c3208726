# Open Gaming Platform in TLA+

Models of the services of this repository, the TLC configurations that check
them on small instances, and theorems about them that TLAPS proves for every
value of their constants.  Paths are relative to the root of the repository.

## 1. The system

Five NestJS services share one PostgreSQL and one Redis, and packages with the
domain logic.  A service keeps no state of its own, except constant registries:
what a request knows is in its local variables and is lost when it fails.

| Component | State | Operations | Where it is hard |
|---|---|---|---|
| Wallet ledger and holds: `packages/wallet`, `apps/wallet-api/src/holds` | `ledger_entries` (unique `(referenceId, referenceType)`), `holds` (unique `referenceId`) | create a hold, settle it (win, loss, cancel), credit directly, release expired holds | check then insert with no lock; a hold and its entry, a settlement and its payout in two transactions; retries; saves of rows read earlier |
| Wallet service: `apps/wallet-api/src/wallet` | `wallets` (unique `(user, currency)`) | create; get balance, which has no answer | look up then insert; clients that ask again because an answer was lost |
| Distributed lock: `packages/shared/src/redis/lock.service.ts` | one key per resource, with a lifetime | `withLock`, `acquire`, `release` | lost replies, slow holders, crashes, a deadline.  Nothing calls it |
| Trading: `apps/trading-api/src/orders`, `packages/trading` | `orders`, `trades`, `positions` in PostgreSQL, the book in Redis | place, match, rest, cancel, update positions | the two stores are written one after the other; positions are read, added to and written back; a loop over a book that others change |
| Keno: `apps/gaming-api/src/keno`, `packages/keno` | `keno_games`, `keno_tickets` | buy a ticket, draw, settle | sales overlap draws, draws overlap each other, settlement dies half way |
| Betting: `apps/gaming-api/src/betting`, `packages/betting` | `bet_slips`, `bet_lines`; markets and selections, kept elsewhere | place a bet; the payout calculator | slip and lines in two transactions, odds that move meanwhile, limits, a stake that nothing validates, legs in any order |
| Identity: `apps/identity-api`, `packages/auth/src/refresh` | `users` (unique email, unique username), `session:<user>:<token>` in Redis | register, login, refresh, logout (one or all), update | look up then write; a token exchanged twice at a time; a SCAN while keys change |
| Pagination: `packages/shared/src/pagination`, under `UsersService.findAll` | none; the rows of `users` | read a list page by page | a page and its count in two queries, rows that are inserted while a client goes through the pages |
| Cache: `packages/shared/src/redis/cache.service.ts` | entries with a lifetime in Redis, beside a source kept elsewhere | `getOrSet`, `set`, `del`, `delNamespace` | a value read before an invalidation and stored after it; a SCAN while keys come, go and expire.  Nothing calls it |
| Payments, notifications, casino, admin, events, odds converter | none, or none that anything writes | stubs, registries and pure functions | see section 7 |

The components hardly interact at this commit.  Betting, Keno and trading take no
stake and pay nothing: no service calls `wallet-api`, and no event bus is
implemented.

What makes each component correct, in one line:

* ledger and holds: no reference is booked twice, closed holds stay closed, a
  payout follows a closed hold, entries agree with their holds, and money moves for
  no other reason than a credit or a payout;
* wallet service: one wallet per user and currency, and all who ask are told the same;
* lock: exclusive while the holder is inside its lease, never lost, never waited
  for beyond the deadline;
* trading: statuses and positions agree with the trades, cancelled orders leave the
  book, requests end;
* Keno: no result before the sales are over, and results are final;
* betting: the lines fit the slip; nothing pays more than was promised; the order of
  the legs does not matter;
* identity: names are unique, a deactivated user gets nothing but what was due
  already, a logout from everywhere gets every session that was there;
* cache: an invalidation is lost only to a call that overlaps it, and not for ever;
* pagination: who reads all pages misses nobody, and no page is announced in vain.

## 2. How code becomes TLA+

* **A worker is a request in flight.**  Node runs a request up to its next `await`,
  and then any other request may run, in this process or another replica.  An
  action is the code between two awaits and is named for the query that it issues.
  `job[p].at` names the next one, and the other fields of `job[p]` are the local
  variables that the rest of the handler still reads, so a value read early is
  used late exactly where the code does so.
* **The database** is PostgreSQL at READ COMMITTED: a query sees what is committed
  when it runs, a unique index refuses the second of two inserts.
* **A TypeORM `save` of a loaded row** reads the stored row again and writes the
  columns of the loaded copy that differ from what is stored now, so the copy wins
  over whatever was stored since.  `Identity`, where several columns can differ, has
  both queries (`Load`, `SaveUser`); elsewhere one column is at stake, and the two
  queries come to one write.
* **Numbers that nothing validates** are what a request can contain: `Wallet` takes
  amounts of 0 and below, since the bodies of its internal endpoints have inline types,
  and `Betting` stakes of either sign and `NaN`, which passes comparisons that refuse
  a number.  What a text does in JavaScript's arithmetic is left out.
* **A refused request** (validation, not found, conflict) changes nothing and is no step.
* **Failure.**  `Abort` ends a request at any await: a failed query, or a
  process that is killed and restarted.  What it has written stays.  Where it would
  hide a question, a constant (`Failures`, in `Trading` the bound `MaxFailures`) or the
  absence of fairness decides.
* **Data** is reduced to what the properties tell apart: ids are model values,
  amounts and odds small numbers; texts, times of day and currencies are left out.
  The text that a `simple-array` column turns numbers into is kept (`Keno`), and so
  is the order in which Redis returns members of equal score (`Trading`).
* **Mutants.**  Operators marked as mutants are plausible bugs: a missing index, two
  swapped writes, a dropped comparison.  Nothing uses them; they document which
  slip in the code each property would notice, and PROJECT.json pairs them.

| Module | Extends | Models |
|---|---|---|
| `Account` | | the abstract wallet: credits, holds that are opened and closed, payouts of closed holds |
| `Wallet` | | `LedgerService`, `HoldService`, `InternalHoldService`, `InternalHoldController` |
| `WalletService` | | `WalletService.create`; nothing else writes wallets |
| `Lock` | | `LockService` on one resource, Redis expiry and retransmission by ioredis |
| `Trading` | | `OrdersService`, `OrderBookService`, `PositionService`, `RiskService.checkOrder` |
| `Keno` | | `KenoService`, the draw engine, the payout table |
| `Payout` | | the slip validator and the payout calculator, as operators |
| `Betting` | `Payout` | `BettingService.placeBet` |
| `SlipResults` | `Betting` | what the payout calculator would pay for the slips that were placed, for every result of their legs; its loop, leg by leg |
| `Identity` | | `AuthService`, `UsersService`, `RefreshTokenService` |
| `Listing` | | `OffsetPaginationQueryDto`, `PaginatedResponseDto`, `UsersService.findAll` |
| `Cache` | | `CacheService`: hits, fills, deletions page by page, expiry, a source that changes |
| `MCWallet`, `MCTrading`, `MCBetting`, `MCIdentity`, `MCListing` | each of these | symmetry sets for TLC, and the stakes of `Betting`; the other modules are checked as they are |
| `…Proofs` | each of them and `TLAPS` | theorems; those of `SlipResults` are in `BettingProofs` |
| `RedisProofs` | `Cache`, `Lock` and `TLAPS` | the theorems of both services of `packages/shared/src/redis`, which is why the names of `Lock` carry a prefix (`LockInit`, `LockNext`, …) |

How the actions follow the code:

* `Wallet`: `CreateHold` → `CheckAvailable` → `SaveHold` → `Debit` → `SaveDebit` is
  `createHold`, with `HoldService.create` and then `LedgerService.debit`;
  `SettleHold` → `SaveSettle` → `Credit` → `SaveCredit` is `settleHold` and, for a
  win, its payout; `DirectCredit` joins at `Credit`.  `ReleaseExpired` is the one
  UPDATE of the sweep.  The sweep has no caller in the repository, which is why
  `SweepEnabled` is a constant; the checked instance enables it, the harder case.
  `CheckAvailable` calls `LedgerService.getBalance`, whose query has
  `IN (:creditTypes)` with an array where TypeORM expands only `IN (:...creditTypes)`:
  PostgreSQL refuses it against the enum column, and so the request fails, every time.
  `GetBalanceAnswers`, that is the constant `ListsExpand`, says whether it does.
  `computeBalanceInTx`, which `credit` and `debit` use, lists the types in its text and works.
* `WalletService`: `Create` → `Insert`; a client that is told nothing can ask again.
* `Lock`: a command is sent, takes effect (`SetNX`, `Release`) and is answered in
  separate steps, so a reply can come after the key has expired.  `SetNXTwice` is a
  SET that ioredis sends again.  Time passes in `Tick`.
* `Trading`: `PlaceOrder` → `SaveOrder`, then for market orders the loop
  `GetBest` → `SaveTrade` → `FindPosition` → `SavePosition` (twice) and `SaveStatus`,
  for others `AddToBook` → `SaveOpen`; `CancelOrder` → `SaveCancelled` → `RemoveFromBook`.
  An order without a price rests at the score 0, because `Number(null)` is 0: as an ask
  it is the best one, and is bought for nothing.
* `Keno`: `BuyTicket` → `SaveTicket`; `DrawGame` → `SaveDrawing` → `SaveDrawn` →
  `FindTickets` → `Settle` for one ticket after the other.
* `Betting`: `PlaceBet` → `SaveSlip` → `SaveLines`, while `Maintain`
  changes odds and statuses of selections.  A slip whose stake is no number is stored
  if the column takes what it is sent, and else refused (`RefuseSlip`).
* `Identity`: `Register` → `InsertUser` → `CreateSession`; `Login` → `CreateSession`;
  `Refresh` → `FindUser` → `DelOld` → `CreateNew` → `CreateSession`, which is the
  session that the client learns of; `LogoutAll` → `Scan`… → `DelKeys`;
  `Update` → `Load` → `SaveUser`.
* `Listing`: a client's `Begin`, and for each page the two queries of `findAndCount`,
  `Find` and `Count`; `CreateUser` puts a row into the order of `createdAt`, at any
  place, because that is the time at which its transaction began.  No two rows have the
  same `createdAt`: between such rows ORDER BY would promise nothing.
* `Cache`: `GetOrSet` is a hit, or a miss that goes on to `Factory`, where the source is
  read, and `SetEx`; `Set` joins at `SetEx`.  `DelNamespace` → `Scan` and `DelPage` in
  turn until the cursor is 0.  `Tick` is a second, `Change` a change of the source.

`SlipResults` has no actions.  Nothing in the repository settles a slip, so it asks
of every stored slip, and of every result its legs could have, what `calculateActualPayout`
would answer.  `calculateActualPayout` in `Payout` says in terms of sets what the answer
is; `LegByLeg` is the loop of the code with its early return, and `LegOrderDoesNotMatter`
that the two agree in every order of the lines.

## 3. Runs

Each run is one question about one component, on the smallest instance that has
all its cases; `trading_concurrent` takes three to four minutes on two cores, `identity` more
than two, the others less than one.

| Run | Instance | What it shows |
|---|---|---|
| `wallet_concurrent` | 2 requests, 2 wallets, 1 hold reference, 1 credit reference, amounts -1 to 1, sweep, failures | references are booked once; payouts are positive and follow closed holds; entries fit their holds; closed holds stay closed; each `balance_after` was computed from a balance that there was; `Wallet` implements `Account` |
| `wallet_service` | 3 requests, 2 owners, 3 ids, failures | one wallet per owner; all that are answered are told the same, stored id |
| `lock` | 3 clients, lifetime 2, deadline 1 | exclusive within the lease; `acquire` ends; no key is leaked |
| `keno` | 2 requests, 1 game, 2 tickets, balls 1 and 2, failures | no result while sales are open; results are final; what a dead draw or a late sale left pending, later draws settle |
| `trading_serial` | 1 request that may fail, 3 orders, 2 users, 2 prices and none, quantities of one and a half and two lots | positions are the trades but for one fill of each order whose request failed or is under way |
| `trading_concurrent` | 2 requests, 3 orders of 2 or 3 lots with no price, 1 user | the status of a market order is true to its trades; a cancelled order leaves the book; positions are made of fills, each at most once; requests end |
| `betting_safety` | 2 requests, 3 selections, 2 slips, odds 1 and 3, stakes -1 to 3 and `NaN`, payouts on both sides of the limit, maxima with 0, failures | the lines fit the slip, although odds move; of what was placed, the order of the legs does not matter, no result pays more than was promised, void legs drop out, a worse result never pays more |
| `identity` | 2 requests, 2 users, 2 names, 3 tokens, failures | unique names; a deactivated user gets no session that was not due; a logout from everywhere gets what it found |
| `listing` | 1 client, 6 users, pages of 1 to 4 | who reads all pages misses nobody; a page that was announced has rows |
| `cache` | 2 calls, 1 namespace of 2 keys, lifetimes to 2, 2 versions of the source, failures | `delNamespace` leaves nothing of what it found; an invalidation is lost only to a call that overlaps it; in the end the cache agrees with the source |
| `wallet_no_hold` | 1 request, nothing fails, the balance query as it is | **violated**: a hold that the balance covers is not made |
| `keno_matches` | 1 request, nothing fails | **violated**: the matches of a ticket are never counted |

Why these bounds are enough to be interesting.  Every race in this code is between
two requests, one that has read and one that writes, so two workers show it; a third
only repeats one of the two roles.  (Clients of `Listing` only read, so they cannot
tell whether there is another one.)  (`Lock` has three clients, since the key can
pass from a late holder to a second client and on to a third.)  Two rows of each
kind tell "the same" from "another"; where there is one (a hold and a credit in
`wallet_concurrent`, a user in `trading_concurrent`), two requests meet on it, and the theorems of
section 6 are about any number.  Quantities that are not multiples of a lot,
stakes and odds on both sides of every limit, and a configured maximum of 0
are in the instances because the code compares there.  `MaxTokens` in `Identity` and
the sets of ids bound how much is created.  Where a request begins, the tokens that
all requests in flight have yet to draw are reserved (`Room`), so that none stops half way
because of the bound: with three tokens a session is exchanged and both sessions
of its refresh are created.  `MaxFailures` in `Trading`
bounds the orders of which a request failed: one in `trading_serial`, none in
`trading_concurrent`, where two requests with failures are beyond a few minutes; the theorems have no bound.  Where `CHECK_DEADLOCK
FALSE` is set, all ids can be used up, and the system then rests.

Properties that are read with care:

* All wallet configurations but `WalletNoHold` take the balance query of a hold as it is
  meant (`ListsExpand`): they hold or fail of the code with that query repaired.  The
  properties of `wallet_concurrent` hold of the code as it is too: a refused query is an
  `Abort` at `CheckAvailable`, and direct credits, which work, are the same in both.  The
  theorems are about both values of `ListsExpand`.
* `WalletIsAccount` puts no bound on a balance: a credit may be negative, and holds
  are checked against sums read at different moments (`WalletOvercommit`).
* `ResultsAreFinal` of `Keno` holds although two draws can settle one ticket with
  different numbers: since no match is ever counted (`keno_matches`), each of them
  finds the ticket lost.  Its mutant repairs the matching, and the property fails.
* `LaterDrawSettles` has two premises, that failures stop and that the game is drawn
  again and again.  Neither is promised by the code; without the second, a ticket
  sold during the last draw stays pending (`KenoLate`).
* `PositionIsMadeOfFills` is what is left when requests overlap: an update of a position
  can be lost (`TradingLostUpdate`), but none is booked twice or to another user.
* `FailureCostsOneFill` is about one request at a time; with two, updates of positions
  are lost (`TradingLostUpdate`).  It is what is left of "positions are the sum of the
  trades" when a request may die: one fill for each order, and never two.
* `DeactivationHolds` counts what a user may still get after being deactivated (`Due`):
  one session for a login that has read the row, two for a refresh, which creates a
  session that nobody is told of (`CreateNew`) before the one it answers with.

## 4. Where code and documents disagree

The two violated runs are listed in PROJECT.json under `findings`, with the line
that promises otherwise.  More promises of the documents are stated in the modules,
under "What the documents claim", and have a configuration that shows them violated:

| Configuration | Module | Claim | What happens |
|---|---|---|---|
| `WalletOvercommit` | `MCWallet` | `HoldIsAvailable` (docs/architecture.md:731) | two holds pass the check of the balance together |
| `WalletUnrecorded` | `MCWallet` | `HoldIsRecorded` (docs/architecture.md:731) | a failure leaves a hold without its ledger entry |
| `WalletUnpaid` | `MCWallet` | `WonHoldIsPaid` (docs/architecture.md:731) | a failure between settlement and payout loses the payout |
| `WalletStake` | `MCWallet` | `StakeIsConsumed` (docs/architecture.md:763) | settling writes no entry that reduces the balance |
| `LockOverrun` | `Lock` | `MutualExclusion` (lock.service.ts:14) | an `fn` that outlives the key runs beside the next holder's |
| `KenoLate` | `Keno` | `EveryTicketIsSettled` (docs/architecture.md:871) | a ticket sold during the draw stays pending |
| `KenoRedraw` | `Keno` | `DrawIsFinal` (docs/architecture.md:868) | a drawn game is drawn again |
| `TradingCrossed` | `MCTrading` | `BookNotCrossed` (docs/architecture.md:953) | limit orders are never matched on arrival |
| `TradingIOC` | `MCTrading` | `IOCNeverRests` (docs/architecture.md:971) | an IOC order rests |
| `TradingFIFO` | `MCTrading` | `FirstInFirstOut` (packages/trading/README.md:16) | the order id decides at equal prices |
| `TradingLimit` | `MCTrading` | `PositionWithinLimit` (docs/architecture.md:983) | the check reads a key that nobody writes |
| `TradingLostUpdate` | `MCTrading` | `PositionsMatchTrades` (docs/architecture.md:976) | of two updates of a position one is lost |
| `TradingLostCancel` | `MCTrading` | `CancelIsFinal` (docs/architecture.md:968) | an order cancelled while it is placed ends up open |
| `TradingOverfill` | `MCTrading` | `NotOverfilled` (docs/architecture.md:957) | a resting order is never reduced: it trades again and again |
| `TradingBestPrice` | `MCTrading` | `BestPriceFirst` (docs/architecture.md:969) | a better order comes, or the chosen one is cancelled, before the trade |
| `BettingStake` | `MCBetting` | `StakeIsLimited` (packages/betting/README.md:8) | a stake that is no number passes the limits |
| `IdentityRotation` | `MCIdentity` | `TokensRotate` (docs/architecture.md:700) | two exchanges of one token both succeed |
| `BettingNoLines` | `MCBetting` | `SlipHasLines` (docs/architecture.md:807) | a failure leaves a slip without lines |
| `BettingMarket` | `MCBetting` | `OneLinePerMarket` (packages/betting/README.md:8) | two selections of one market pass |
| `BettingAccepted` | `MCBetting` | `SlipIsAccepted` (docs/architecture.md:813) | nothing changes the status of a slip |
| `SlipResultsCap` | `MCBetting` | `WinIsCapped` (packages/betting/README.md:21) | a maximum of 0 is no maximum |

To run one: `tlc -config KenoLate.cfg Keno.tla`.

## 5. Fairness

* `Wallet`, `Trading`, `Keno`, `Betting`: weak fairness of `Step(p)` for each
  worker, the steps of a request after its first.  Node goes on with a handler
  when its query has answered, and a query answers or fails.  Nothing
  makes a client send a request, and nothing makes a request fail.
* `Lock`: weak fairness of `Tick`, the clock and Redis expiry, and of
  each client's commands and polls.  `fn` may run for ever and nobody need call
  `withLock`, so `Leave` and `WithLock` have none; `LockIsNotLeaked` has to hold
  in spite of that.
* `Cache`: weak fairness of `Tick`, the clock and Redis expiry, and of each call's
  `Step`.  The source may change and callers may come and go as they like.  SCAN may
  answer with empty pages, so `EventuallyFresh` does not rely on `delNamespace` returning.
* Strong fairness is assumed nowhere.

## 6. Theorems

For any number of workers, rows and references, and for any bounds:

| Module | Theorem | States |
|---|---|---|
| `WalletProofs` | `TypeCorrect`, `ReferencesOnce`, `PayoutsFollowHolds`, `HoldEntriesMatch`, `HoldsStayClosed`, `BalancesAfterWereReal` | the invariants and the action property of `wallet_concurrent` |
| | `ImplementsAccount` | `WalletIsAccount`: the refinement of `Account` |
| `WalletServiceProofs` | `TypeCorrect`, `OneWallet`, `AnswersStayTrue` | the properties of `wallet_service` |
| `RedisProofs` | `LockTypeCorrect`, `LeaseIsExclusive` | the safety of `lock` |
| | `TypeCorrect`, `DelNamespaceClears`, `InvalidationIsKept` | the invariants of `cache` |
| `KenoProofs` | `TypeCorrect`, `NoEarlyResult`, `ResultsStay` | the safety of `keno` |
| `TradingProofs` | `TypeCorrect`, `CancelledLeavesBook`, `StatusIsTrue`, `PositionsAreFills` | the invariants of `trading_concurrent` |
| | `FailuresCostOneFill` | the property of `trading_serial`, where no two requests overlap (`Alone`) |
| `BettingProofs` | `TypeCorrect`, `LinesFitSlip` | the safety of `Betting` in `betting_safety` |
| | `PromiseIsKept`, `VoidsDropOut`, `WorsePaysLess` | the properties of `SlipResults` in the same run |
| `IdentityProofs` | `TypeCorrect`, `UniqueNames`, `DeactivationIsFinal`, `LogoutTakesAll` | the invariants and the action property of `identity` |
| `ListingProofs` | `WalkIsComplete`, `AnnouncedPageHasRows`, and `TypeCorrect` | the invariants of `listing`, and its types |

None of the properties is inductive, since each depends on what requests in flight
know, so each proof strengthens it to an `IInv`:

* **Wallet.** `IInv` adds to the type of each job what a request at that place can
  rely on (`JobHolds`): one that is about to book a hold's entry has the wallet and
  the amount of a stored hold; one about to credit a payout has a hold that is
  closed.  Two lemmas carry the proof: holds only grow and close (`HoldsGrow`),
  so what a job relies on outlives the steps of others; and an insert adds at
  most one entry, with a key that was not there (`LedgerInsert`).  Nothing relies on
  the lookup that `credit` and `debit` make before they insert: the unique
  index alone carries `EachReferenceOnce`.  For `balance_after`, `BInv` says that
  what a request has read is the balance of some prefix of the ledger (`SeenIsReal`),
  which it stays, because entries are only appended.
  `ImplementsAccount` maps each insert to `Credit` or `Pay`: the sums of units grow by
  what the new entry is worth (`BalanceAfterAppend`), no other wallet's do, and its
  key is one that was not booked, so its reference is not yet among the paid or credited.
* **WalletService.** The three properties are inductive together: a row is
  never changed, so what a client was told stays that of a stored row, and while an
  owner has a row, no insert of another succeeds.
* **Lock.** `KeyIsLive`: while a client's token is in the key, the lifetime that the
  key has left and the age of the client's SET add up to `TTL`.  `HolderHasKey`: so a
  client whose lease is not over still finds its own token.
* **Keno.** A game with a result is past its sales, and every request that
  will settle knows such a game (`SalesOver`).  `ResultsStay` rests on `SettledIsLost`:
  texts and balls have no element in common, so each settlement gives one result.
* **Trading.** A request knows whether its order is a market or a resting one
  (`JobOK`); a resting order in state CANCELLED is on the book only while a request
  is at `Remove` or `SaveOpen` with it, or after one of its own requests has failed.
  `StatusIsTrue` adds `Counted`: a market order that is being matched has one request,
  and what that has left and what was traded of the order make its quantity.  Units
  traded are counted as a set of pairs (trade, unit), so one more trade is one more
  row of the set (`UnitsAfter`), and no fold over the trades is needed.
  `FailuresCostOneFill` (`Serial`): what the trades say of a user, less what the positions
  say and what the request has still to write (`Owed`), is within one lot for each
  market order whose request failed.
  `PositionsAreFills` (`Fills`): of each fill that was made, a request may still owe
  the buyer's or the seller's update (`Owes`); a stored quantity, and one that a
  request has read and is about to write back, is within what was made and is not owed
  any more (`Within`).  A value that was read early stays within these limits, because
  trades are only added, and the update that is written with it was owed by its own request
  alone (`Owing` counts the units of all).
* **Betting.** A request that will save lines has odds which the stored slip was
  computed from (`Fits`), and a slip whose lines are there has all of them (`LinesFit`).
  The product of the odds is a fold; the induction over the legs is an induction over
  the subsets of a finite set, with a set for the property (`SubsetInduction`).  From it
  comes the lemma `ProductStep`: any leg can be split off the product as a factor, whatever order the
  fold takes.  The three properties of `SlipResults` are arithmetic from there: a void leg
  is a factor of 1, a lost one makes the payout 0, and a maximum is kept or not needed.
  Of a slip whose stake is no number nothing is paid that is one (`NoNumberPaid`).
* **Identity.** Names rest on the
  unique indexes, through every insert and update.  `DeactivationIsFinal`: from the
  moment of the update on, the tokens of the user that are new and those that
  requests have still to create are no more than were due then.  `LogoutTakesAll`: what
  a scan has to find (`start`) has ids that are drawn, so nothing that is created
  meanwhile is in it (`ScanStays`).
* **Listing.** Rows only move to later places, so what a walk has still to see lies
  behind the pages it has read (`Ahead`); when the count announces no further
  page, nothing lies there (`PagesHoldAll`), and when it announces one, the list
  goes on (`PageEndsBefore`).
* **Cache.** What a SCAN has still to delete is in the cache or in the page it is
  about to delete; a call about to store what it read, read it no earlier than
  the last invalidation that counts.

Assumptions: those named `…Assumption` in the modules (kinds and signs of
constants; finite sets where something is counted or summed), which TLC evaluates in
the runs; and where the theorem says so,

* `Alone` in `FailuresCostOneFill`: there is one worker, that is, one replica which handles
  one request at a time, and any of them may fail.  The code does not make it so; with
  more workers `PositionsAreFills` is what remains.

Only checked by TLC: the liveness properties (`AcquireEnds`, `LockIsNotLeaked`,
`RequestsEnd`, `LaterDrawSettles`, `EventuallyFresh`), which need fairness and ENABLED, and
`LegOrderDoesNotMatter`, whose proof would be an induction over the legs in an order.
Every other property that a passing run checks is also a theorem.

## 7. What is not modelled

* Odds converter, cursor pagination: no callers in the repository; pure conversions.
* The `sessions` table: its `create` has no caller, so it is empty.  Roles likewise.
* Payments, notifications, casino, admin, events: registries and stubs that answer
  with constants and keep no state, or interfaces that nothing implements.
* JWTs, password hashing, guards, error formatting, configuration, logging,
  deployment: pure functions and set-up.  That processes are restarted, as
  `infrastructure/docker` asks for, is what `Abort` stands for.
* Within the modelled parts: average entry price and profit of positions, the
  rounding of decimals and doubles, `isDefault` of wallets, an amount that is sent as text
  (`currentBalance + amount` then concatenates), the balance of a wallet as
  `WalletService.getBalance` reports it, which always ends in an error, more than one instrument
  or lock resource, reads that change nothing.

## 8. Plan

Done, in this order: the wallet (holds, ledger, `Account`), the lock, Keno, trading,
betting with the payout calculator, identity, the wallet service, pagination, failures
in trading, the cache; then the theorems, types and invariants first; then the inputs
that nothing validates, and the balance query as it is.

What could follow:

1. `OddsConverter`: exact fractions; conversions to decimal and back.
2. `Positions`: average entry price through a position's flips, against the
   trades; `unrealizedPnl`.
3. An abstract exchange (orders, fills, positions) that serial `Trading` implements.
4. `Stake`: a composition of betting or Keno with the wallet, once the code has it.
5. `AcquireEnds` by a bound on the steps to the deadline, as a safety property.
