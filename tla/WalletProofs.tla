---------------------------- MODULE WalletProofs ----------------------------
(***************************************************************************)
(* Proofs about Wallet, for every set of requests, wallets and references  *)
(* and every bound on the amounts.                                         *)
(***************************************************************************)
EXTENDS Wallet, FiniteSetTheorems, TLAPS

(* The sums are numbers.                                                   *)

LEMMA UnitsFinite == IsFiniteSet(1..MaxAmount)
<1>1. 1 \in Int /\ MaxAmount \in Int
  BY WalletAssumption
<1> QED BY <1>1, FS_Interval

LEMMA LedgerSumsFinite ==
  ASSUME NEW log \in Seq(LedgerEntry), NEW w, NEW sign
  PROVE  IsFiniteSet(LedgerUnits(log, w, sign))
<1>1. IsFiniteSet(1..Len(log))
  <2>1. 1 \in Int /\ Len(log) \in Int
    OBVIOUS
  <2> QED BY <2>1, FS_Interval
<1>2. IsFiniteSet((1..Len(log)) \X (1..MaxAmount))
  BY <1>1, UnitsFinite, FS_Product
<1>3. LedgerUnits(log, w, sign) \in SUBSET ((1..Len(log)) \X (1..MaxAmount))
  BY DEF LedgerUnits
<1> QED BY <1>2, <1>3, FS_Subset

LEMMA BalanceInt ==
  ASSUME NEW log \in Seq(LedgerEntry), NEW w
  PROVE  BalanceOf(log, w) \in Int
BY LedgerSumsFinite, FS_CardinalityType DEF BalanceOf

LEMMA HeldInt ==
  ASSUME TypeOK, NEW w
  PROVE  ActiveHoldsTotal(w) \in Int
<1>1. IsFiniteSet((DOMAIN holds) \X (1..MaxAmount))
  BY UnitsFinite, FS_Subset, FS_Product, WalletAssumption DEF TypeOK
<1>2. ASSUME NEW sign PROVE Cardinality(HeldUnits(w, sign)) \in Nat
  <2>1. HeldUnits(w, sign) \in SUBSET ((DOMAIN holds) \X (1..MaxAmount))
    BY DEF HeldUnits
  <2> QED BY <1>1, <2>1, FS_Subset, FS_CardinalityType
<1> QED BY <1>2 DEF ActiveHoldsTotal

(* Keys of different kinds differ, and a key determines its reference.     *)

LEMMA KeyFacts ==
  /\ \A r, q : /\ HoldKey(r) # PayoutKey(q)
               /\ HoldKey(r) # DirectKey(q)
               /\ PayoutKey(r) # DirectKey(q)
  /\ \A r, q : /\ HoldKey(r) = HoldKey(q) => r = q
               /\ PayoutKey(r) = PayoutKey(q) => r = q
               /\ DirectKey(r) = DirectKey(q) => r = q
  /\ \A r : HoldKey(r)[1] = r /\ PayoutKey(r)[1] = r
  /\ \A r \in HoldRefs : HoldKey(r) \in Keys /\ PayoutKey(r) \in Keys
  /\ \A r \in CreditRefs : DirectKey(r) \in Keys
BY DEF HoldKey, PayoutKey, DirectKey, Keys

-----------------------------------------------------------------------------
(* What a request knows about the rows it depends on, at each of its awaits. *)

HoldStages   == {"CheckAvailable", "SaveHold", "Debit", "SaveDebit"}
SettleStages == {"SaveSettle", "Credit"}

JobKey(p) ==
    /\ job[p].at \in HoldStages =>
         \E r \in HoldRefs : job[p].key = HoldKey(r)
    /\ job[p].at \in SettleStages => \E r \in HoldRefs : job[p].key = PayoutKey(r)
    /\ job[p].at = "Credit" => job[p].amount > 0
    /\ job[p].at = "SaveCredit" =>
         \/ job[p].amount > 0 /\ \E r \in HoldRefs : job[p].key = PayoutKey(r)
         \/ \E r \in CreditRefs : job[p].key = DirectKey(r)

JobKeys == \A p \in Workers : JobKey(p)

Typed == TypeOK /\ JobKeys

LEMMA JobType ==
  ASSUME Typed, NEW p \in Workers, job[p] # Idle
  PROVE  /\ job[p] \in Job
         /\ job[p].at \in Stages
         /\ job[p].wallet \in Wallets
         /\ job[p].key \in Keys
         /\ job[p].seen \in Int
         /\ job[p].amount \in Amounts
         /\ job[p].amount \in Int
         /\ JobKey(p)
BY WalletAssumption DEF Typed, JobKeys, TypeOK, Job, Amounts

LEMMA AppendFacts ==
  ASSUME NEW S, NEW s \in Seq(S), NEW e \in S
  PROVE  /\ Append(s, e) \in Seq(S)
         /\ Len(Append(s, e)) = Len(s) + 1
         /\ \A i \in 1..Len(s) : Append(s, e)[i] = s[i]
         /\ Append(s, e)[Len(s) + 1] = e
OBVIOUS

\* What one INSERT into the ledger does.
LEMMA InsertType ==
  ASSUME Typed, NEW p \in Workers, NEW type \in EntryTypes, NEW b \in Int,
         job[p] # Idle, InsertEntry(p, type, b)
  PROVE  Typed'
<1> DEFINE e == [key |-> job[p].key, wallet |-> job[p].wallet, type |-> type,
                 amount |-> job[p].amount, balanceAfter |-> b]
<1>1. e \in LedgerEntry
  BY JobType DEF LedgerEntry
<1>2. ledger' \in Seq(LedgerEntry)
  <2>1. CASE Booked(job[p].key)
    BY <2>1 DEF InsertEntry, Typed, TypeOK
  <2>2. CASE ~Booked(job[p].key)
    BY <2>2, <1>1, AppendFacts DEF InsertEntry, Typed, TypeOK
  <2> QED BY <2>1, <2>2
<1>3. job' \in [Workers -> Job \cup {Idle}] /\ job'[p] = Idle
  BY DEF InsertEntry, Finish, Typed, TypeOK
<1>4. \A q \in Workers \ {p} : job'[q] = job[q]
  BY DEF InsertEntry, Finish, Typed, TypeOK
<1>5. JobKeys'
  BY <1>3, <1>4 DEF Typed, JobKeys, JobKey, Idle, HoldStages, SettleStages
<1> QED BY <1>2, <1>3, <1>5 DEF InsertEntry, Typed, TypeOK

\* A step that changes one job only, to one of the right shape.
LEMMA JobStep ==
  ASSUME Typed, NEW p \in Workers, NEW j \in Job \cup {Idle},
         job' = [job EXCEPT ![p] = j],
         JobKey(p)'
  PROVE  job' \in [Workers -> Job \cup {Idle}] /\ JobKeys'
<1>1. \A q \in Workers \ {p} : job'[q] = job[q]
  BY DEF Typed, TypeOK
<1>2. \A q \in Workers \ {p} : JobKey(q)'
  BY <1>1 DEF Typed, JobKeys, JobKey
<1> QED BY <1>2 DEF Typed, TypeOK, JobKeys

\* A step that moves one request on, and may record what it has read.
Moves(p, at) == GoTo(p, at) \/ \E n \in Int : Reads(p, at, n)

LEMMA MoveStep ==
  ASSUME Typed, NEW p \in Workers, job[p] # Idle, NEW at \in Stages, Moves(p, at)
  PROVE  /\ job' \in [Workers -> Job \cup {Idle}]
         /\ \A q \in Workers \ {p} : job'[q] = job[q]
         /\ job'[p].at = at
         /\ job'[p].key = job[p].key
         /\ job'[p].amount = job[p].amount
         /\ job'[p].wallet = job[p].wallet
         /\ job'[p].outcome = job[p].outcome
<1>1. job[p] \in Job /\ job \in [Workers -> Job \cup {Idle}]
  BY JobType DEF Typed, TypeOK
<1>2. PICK j \in Job : /\ job' = [job EXCEPT ![p] = j]
                       /\ j.at = at
                       /\ j.key = job[p].key
                       /\ j.amount = job[p].amount
                       /\ j.wallet = job[p].wallet
                       /\ j.outcome = job[p].outcome
  <2>1. CASE GoTo(p, at)
    <3> DEFINE j == [job[p] EXCEPT !.at = at]
    <3>1. j \in Job /\ j.at = at /\ j.key = job[p].key /\ j.amount = job[p].amount
          /\ j.wallet = job[p].wallet /\ j.outcome = job[p].outcome
      BY <1>1 DEF Job
    <3>2. job' = [job EXCEPT ![p] = j]
      BY <2>1 DEF GoTo
    <3> QED BY <3>1, <3>2
  <2>2. ASSUME NEW n \in Int, Reads(p, at, n)
        PROVE  \E j \in Job : /\ job' = [job EXCEPT ![p] = j]
                              /\ j.at = at
                              /\ j.key = job[p].key
                              /\ j.amount = job[p].amount
                              /\ j.wallet = job[p].wallet
                              /\ j.outcome = job[p].outcome
    <3> DEFINE j == [job[p] EXCEPT !.at = at, !.seen = n]
    <3>1. j \in Job /\ j.at = at /\ j.key = job[p].key /\ j.amount = job[p].amount
          /\ j.wallet = job[p].wallet /\ j.outcome = job[p].outcome
      BY <1>1 DEF Job
    <3>2. job' = [job EXCEPT ![p] = j]
      BY <2>2 DEF Reads
    <3> QED BY <3>1, <3>2
  <2> QED BY <2>1, <2>2 DEF Moves
<1> QED BY <1>1, <1>2

LEMMA MoveKeys ==
  ASSUME Typed, NEW p \in Workers, job[p] # Idle, NEW at \in Stages, Moves(p, at),
         JobKey(p)'
  PROVE  JobKeys'
<1>1. \A q \in Workers \ {p} : job'[q] = job[q]
  BY MoveStep
<1>2. \A q \in Workers \ {p} : JobKey(q)'
  BY <1>1 DEF Typed, JobKeys, JobKey
<1> QED BY <1>2 DEF JobKeys

LEMMA FinishStep ==
  ASSUME Typed, NEW p \in Workers, Finish(p)
  PROVE  /\ job' \in [Workers -> Job \cup {Idle}]
         /\ \A q \in Workers \ {p} : job'[q] = job[q]
         /\ job'[p] = Idle
         /\ JobKeys'
<1>1. /\ job' \in [Workers -> Job \cup {Idle}]
      /\ \A q \in Workers \ {p} : job'[q] = job[q]
      /\ job'[p] = Idle
  BY DEF Finish, Typed, TypeOK
<1> QED BY <1>1 DEF Typed, JobKeys, JobKey, Idle, HoldStages, SettleStages

\* The two invariants of the data types hold initially and are preserved.
LEMMA TypedInit == Init => Typed
<1> SUFFICES ASSUME Init PROVE Typed
  OBVIOUS
<1>1. TypeOK
  BY DEF Init, TypeOK
<1>2. JobKeys
  BY DEF Init, JobKeys, JobKey, Idle, HoldStages, SettleStages
<1> QED BY <1>1, <1>2 DEF Typed

LEMMA TypedNext == Typed /\ [Next]_vars => Typed'
<1> SUFFICES ASSUME Typed, [Next]_vars PROVE Typed'
  OBVIOUS
<1>1. ASSUME NEW p \in Workers, CreateHold(p) PROVE Typed'
  <2>1. PICK w \in Wallets, a \in Amounts, r \in HoldRefs :
          job' = [job EXCEPT ![p] =
                    [at |-> "CheckAvailable", wallet |-> w, amount |-> a,
                     key |-> HoldKey(r), outcome |-> "NONE",
                     seen |-> ActiveHoldsTotal(w)]]
    BY <1>1 DEF CreateHold
  <2>2. ActiveHoldsTotal(w) \in Int /\ HoldKey(r) \in Keys
    BY HeldInt, KeyFacts DEF Typed
  <2> DEFINE j == [at |-> "CheckAvailable", wallet |-> w, amount |-> a,
                   key |-> HoldKey(r), outcome |-> "NONE",
                   seen |-> ActiveHoldsTotal(w)]
  <2>3. j \in Job
    BY <2>2 DEF Job, Stages
  <2>4. job'[p] = j
    BY <2>1 DEF Typed, TypeOK
  <2>5. JobKey(p)'
    BY <2>4 DEF JobKey, HoldStages, SettleStages
  <2> QED BY <1>1, <2>1, <2>3, <2>5, JobStep DEF CreateHold, Typed, TypeOK
<1>2. ASSUME NEW p \in Workers, CheckAvailable(p) PROVE Typed'
  <2>1. job[p] # Idle
    BY <1>2 DEF CheckAvailable, Idle
  <2>2. CASE Finish(p)
    BY <1>2, <2>2, FinishStep DEF CheckAvailable, Typed, TypeOK
  <2>3. CASE GoTo(p, "SaveHold")
    <3>1. Moves(p, "SaveHold") /\ "SaveHold" \in Stages
      BY <2>3 DEF Moves, Stages
    <3>2. JobKey(p)'
      BY <1>2, <2>1, <3>1, JobType, MoveStep DEF CheckAvailable, JobKey, HoldStages, SettleStages
    <3> QED BY <1>2, <2>1, <3>1, <3>2, MoveStep, MoveKeys DEF CheckAvailable, Typed, TypeOK
  <2> QED BY <1>2, <2>2, <2>3 DEF CheckAvailable
<1>3. ASSUME NEW p \in Workers, SaveHold(p) PROVE Typed'
  <2> DEFINE r == job[p].key[1]
  <2>1. job[p] # Idle
    BY <1>3 DEF SaveHold, Idle
  <2>2. r \in HoldRefs /\ job[p].amount \in Amounts /\ job[p].wallet \in Wallets
    BY <1>3, <2>1, JobType, KeyFacts DEF SaveHold, JobKey, HoldStages
  <2>3. CASE r \in DOMAIN holds
    <3>1. Finish(p) /\ UNCHANGED holds
      BY <1>3, <2>3 DEF SaveHold
    <3> QED BY <1>3, <3>1, FinishStep DEF SaveHold, Typed, TypeOK
  <2>4. CASE r \notin DOMAIN holds
    <3>1. /\ holds' = [q \in DOMAIN holds \cup {r} |->
                         IF q = r THEN NewHold(p) ELSE holds[q]]
          /\ GoTo(p, "Debit")
      BY <1>3, <2>4 DEF SaveHold
    <3>2. NewHold(p) \in Hold
      BY <2>2 DEF NewHold, Hold, HoldStatus
    <3>3. DOMAIN holds' \subseteq HoldRefs /\ holds' \in [DOMAIN holds' -> Hold]
      BY <2>2, <3>1, <3>2 DEF Typed, TypeOK
    <3>4. Moves(p, "Debit") /\ "Debit" \in Stages
      BY <3>1 DEF Moves, Stages
    <3>5. JobKey(p)'
      BY <1>3, <2>1, <3>4, JobType, MoveStep DEF SaveHold, JobKey, HoldStages, SettleStages
    <3> QED BY <1>3, <2>1, <3>3, <3>4, <3>5, MoveStep, MoveKeys DEF SaveHold, Typed, TypeOK
  <2> QED BY <2>3, <2>4
<1>4. ASSUME NEW p \in Workers, Debit(p) PROVE Typed'
  <2>1. job[p] # Idle
    BY <1>4 DEF Debit, Idle
  <2>2. CASE Finish(p)
    BY <1>4, <2>2, FinishStep DEF Debit, Typed, TypeOK
  <2>3. CASE Reads(p, "SaveDebit", Balance(job[p].wallet))
    <3>1. Balance(job[p].wallet) \in Int
      BY BalanceInt DEF Balance, Typed, TypeOK
    <3>2. Moves(p, "SaveDebit") /\ "SaveDebit" \in Stages
      BY <2>3, <3>1 DEF Moves, Stages
    <3>3. JobKey(p)'
      BY <1>4, <2>1, <3>2, JobType, MoveStep DEF Debit, JobKey, HoldStages, SettleStages
    <3> QED BY <1>4, <2>1, <3>2, <3>3, MoveStep, MoveKeys DEF Debit, Typed, TypeOK
  <2> QED BY <1>4, <2>2, <2>3 DEF Debit
<1>5. ASSUME NEW p \in Workers, SaveDebit(p) PROVE Typed'
  <2>1. job[p] # Idle
    BY <1>5 DEF SaveDebit, Idle
  <2>2. job[p].amount \in Amounts /\ job[p].seen - job[p].amount \in Int
    BY <1>5, <2>1, JobType DEF SaveDebit, JobKey, HoldStages
  <2>3. "BET_HOLD" \in EntryTypes
    BY DEF EntryTypes
  <2> QED BY <1>5, <2>1, <2>2, <2>3, InsertType DEF SaveDebit
<1>6. ASSUME NEW p \in Workers, SettleHold(p) PROVE Typed'
  <2>1. PICK r \in DOMAIN holds, o \in Outcomes, payout \in Amounts :
          job' = [job EXCEPT ![p] =
                    [at |-> "SaveSettle", wallet |-> holds[r].wallet,
                     amount |-> payout, key |-> PayoutKey(r),
                     outcome |-> o, seen |-> 0]]
    BY <1>6 DEF SettleHold
  <2> DEFINE j == [at |-> "SaveSettle", wallet |-> holds[r].wallet,
                   amount |-> payout, key |-> PayoutKey(r),
                   outcome |-> o, seen |-> 0]
  <2>2. r \in HoldRefs /\ holds[r].wallet \in Wallets
    BY DEF Typed, TypeOK, Hold
  <2>3. j \in Job
    BY <2>2, KeyFacts DEF Job, Stages
  <2>4. job'[p] = j
    BY <2>1 DEF Typed, TypeOK
  <2>5. JobKey(p)'
    BY <2>2, <2>4 DEF JobKey, HoldStages, SettleStages
  <2> QED BY <1>6, <2>1, <2>3, <2>5, JobStep DEF SettleHold, Typed, TypeOK
<1>7. ASSUME NEW p \in Workers, SaveSettle(p) PROVE Typed'
  <2>1. job[p] # Idle
    BY <1>7 DEF SaveSettle, Idle
  <2>2. DOMAIN holds' \subseteq HoldRefs /\ holds' \in [DOMAIN holds' -> Hold]
    <3>1. DOMAIN holds \subseteq HoldRefs /\ holds \in [DOMAIN holds -> Hold]
      BY DEF Typed, TypeOK
    <3>2. PICK s \in {"released", "settled"} :
            holds' = [holds EXCEPT ![job[p].key[1]].status = s]
      BY <1>7 DEF SaveSettle
    <3>3. \A h \in Hold : [h EXCEPT !.status = s] \in Hold
      BY <3>2 DEF Hold, HoldStatus
    <3> QED BY <3>1, <3>2, <3>3
  <2>3. CASE Finish(p)
    BY <1>7, <2>2, <2>3, FinishStep DEF SaveSettle, Typed, TypeOK
  <2>4. CASE job[p].amount > 0 /\ GoTo(p, "Credit")
    <3>2. Moves(p, "Credit") /\ "Credit" \in Stages
      BY <2>4 DEF Moves, Stages
    <3>3. JobKey(p)'
      BY <1>7, <2>1, <2>4, <3>2, JobType, MoveStep DEF SaveSettle, JobKey, HoldStages, SettleStages
    <3> QED BY <1>7, <2>1, <2>2, <3>2, <3>3, MoveStep, MoveKeys DEF SaveSettle, Typed, TypeOK
  <2> QED BY <1>7, <2>3, <2>4 DEF SaveSettle
<1>8. ASSUME NEW p \in Workers, Credit(p) PROVE Typed'
  <2>1. job[p] # Idle
    BY <1>8 DEF Credit, Idle
  <2>2. CASE Finish(p)
    BY <1>8, <2>2, FinishStep DEF Credit, Typed, TypeOK
  <2>3. CASE Reads(p, "SaveCredit", Balance(job[p].wallet))
    <3>1. Balance(job[p].wallet) \in Int
      BY BalanceInt DEF Balance, Typed, TypeOK
    <3>2. Moves(p, "SaveCredit") /\ "SaveCredit" \in Stages
      BY <2>3, <3>1 DEF Moves, Stages
    <3>3. JobKey(p)'
      BY <1>8, <2>1, <3>2, JobType, MoveStep DEF Credit, JobKey, HoldStages, SettleStages
    <3> QED BY <1>8, <2>1, <3>2, <3>3, MoveStep, MoveKeys DEF Credit, Typed, TypeOK
  <2> QED BY <1>8, <2>2, <2>3 DEF Credit
<1>9. ASSUME NEW p \in Workers, DirectCredit(p) PROVE Typed'
  <2>1. PICK w \in Wallets, a \in Amounts, r \in CreditRefs :
          job' = [job EXCEPT ![p] =
                    [at |-> "SaveCredit", wallet |-> w, amount |-> a,
                     key |-> DirectKey(r), outcome |-> "NONE", seen |-> Balance(w)]]
    BY <1>9 DEF DirectCredit
  <2> DEFINE j == [at |-> "SaveCredit", wallet |-> w, amount |-> a,
                   key |-> DirectKey(r), outcome |-> "NONE", seen |-> Balance(w)]
  <2>2. Balance(w) \in Int /\ DirectKey(r) \in Keys
    BY BalanceInt, KeyFacts DEF Balance, Typed, TypeOK
  <2>3. j \in Job
    BY <2>2 DEF Job, Stages
  <2>4. job'[p] = j
    BY <2>1 DEF Typed, TypeOK
  <2>5. JobKey(p)'
    BY <2>4 DEF JobKey, HoldStages, SettleStages
  <2> QED BY <1>9, <2>1, <2>3, <2>5, JobStep DEF DirectCredit, Typed, TypeOK
<1>10. ASSUME NEW p \in Workers, SaveCredit(p) PROVE Typed'
  <2>1. job[p] # Idle
    BY <1>10 DEF SaveCredit, Idle
  <2>2. job[p].amount \in Amounts /\ job[p].seen + job[p].amount \in Int
    BY <1>10, <2>1, JobType DEF SaveCredit, JobKey
  <2>3. "DEPOSIT" \in EntryTypes
    BY DEF EntryTypes, CreditTypes
  <2> QED BY <1>10, <2>1, <2>2, <2>3, InsertType DEF SaveCredit
<1>11. ASSUME TimePasses \/ ReleaseExpired PROVE Typed'
  <2>1. DOMAIN holds' = DOMAIN holds /\ \A r \in DOMAIN holds : holds[r] \in Hold
    BY <1>11 DEF TimePasses, ReleaseExpired, Typed, TypeOK
  <2>3. \A r \in DOMAIN holds : holds'[r] \in Hold
    <3>1. \A h \in Hold : /\ [h EXCEPT !.overdue = TRUE] \in Hold
                          /\ [h EXCEPT !.status = "expired"] \in Hold
      BY DEF Hold, HoldStatus
    <3>2. CASE TimePasses
      BY <2>1, <3>1, <3>2 DEF TimePasses
    <3>3. CASE ReleaseExpired
      BY <2>1, <3>1, <3>3 DEF ReleaseExpired
    <3> QED BY <1>11, <3>2, <3>3
  <2>4. holds' \in [DOMAIN holds' -> Hold]
    BY <1>11, <2>1, <2>3 DEF TimePasses, ReleaseExpired
  <2>2. UNCHANGED <<ledger, job>>
    BY <1>11 DEF TimePasses, ReleaseExpired
  <2> QED BY <2>1, <2>2, <2>4 DEF Typed, TypeOK, JobKeys, JobKey
<1>12. ASSUME NEW p \in Workers, Abort(p) PROVE Typed'
  BY <1>12, FinishStep DEF Abort, Typed, TypeOK
<1>13. CASE UNCHANGED vars
  BY <1>13 DEF vars, Typed, TypeOK, JobKeys, JobKey
<1> QED
  BY <1>1, <1>2, <1>3, <1>4, <1>5, <1>6, <1>7, <1>8, <1>9, <1>10, <1>11, <1>12, <1>13
     DEF Next, Step

LEMMA AlwaysTyped == Spec => []Typed
BY TypedInit, TypedNext, PTL DEF Spec

\* Type correctness: every row and every request in flight has its shape.
THEOREM TypeCorrect == Spec => []TypeOK
<1>1. Typed => TypeOK
  BY DEF Typed
<1> QED BY <1>1, AlwaysTyped, PTL

-----------------------------------------------------------------------------
(* A balance that a request has read goes out of date, but it stays the     *)
(* balance of a prefix of the ledger, because entries are only appended.    *)

RealBalance(b, w) == \E k \in 0..Len(ledger) : b = BalanceOf(SubSeq(ledger, 1, k), w)

SeenIsReal(p) == job[p].at \in {"SaveDebit", "SaveCredit"} => RealBalance(job[p].seen, job[p].wallet)

BInv == Typed /\ (\A p \in Workers : SeenIsReal(p)) /\ BalanceAfterWasReal

LEMMA PrefixFacts ==
  ASSUME NEW S, NEW s \in Seq(S), NEW e \in S
  PROVE  /\ SubSeq(s, 1, Len(s)) = s
         /\ \A k \in 0..Len(s) : SubSeq(Append(s, e), 1, k) = SubSeq(s, 1, k)
OBVIOUS

LEMMA NowIsReal == ASSUME Typed, NEW w PROVE RealBalance(Balance(w), w)
<1>1. ledger \in Seq(LedgerEntry) /\ Len(ledger) \in 0..Len(ledger)
  BY DEF Typed, TypeOK
<1>2. SubSeq(ledger, 1, Len(ledger)) = ledger
  BY <1>1
<1> QED BY <1>1, <1>2 DEF RealBalance, Balance

\* What a step may do to the ledger: nothing, or one entry at its end.
Appends == ledger' = ledger \/ \E e \in LedgerEntry : ledger' = Append(ledger, e)

LEMMA RealStaysReal ==
  ASSUME Typed, Appends, NEW b, NEW w, RealBalance(b, w)
  PROVE  RealBalance(b, w)'
<1>1. PICK k \in 0..Len(ledger) : b = BalanceOf(SubSeq(ledger, 1, k), w)
  BY DEF RealBalance
<1>2. CASE ledger' = ledger
  BY <1>1, <1>2 DEF RealBalance
<1>3. ASSUME NEW e \in LedgerEntry, ledger' = Append(ledger, e) PROVE RealBalance(b, w)'
  <2>1. ledger \in Seq(LedgerEntry)
    BY DEF Typed, TypeOK
  <2>2. SubSeq(ledger', 1, k) = SubSeq(ledger, 1, k) /\ Len(ledger') = Len(ledger) + 1
    BY <1>3, <2>1, PrefixFacts, AppendFacts
  <2>3. k \in 0..Len(ledger')
    BY <2>1, <2>2
  <2> QED BY <1>1, <2>2, <2>3 DEF RealBalance
<1> QED BY <1>2, <1>3 DEF Appends

LEMMA OthersSeen ==
  ASSUME Typed, Appends, NEW q, SeenIsReal(q), job'[q] = job[q]
  PROVE  SeenIsReal(q)'
BY RealStaysReal DEF SeenIsReal

LEMMA EntriesStayReal ==
  ASSUME BInv, NEW e \in LedgerEntry, ledger' = Append(ledger, e),
         RealBalance(e.balanceAfter - Change(e), e.wallet), e.balanceAfter - Change(e) \in Int
  PROVE  BalanceAfterWasReal'
<1> DEFINE n == Len(ledger)
<1>1. ledger \in Seq(LedgerEntry) /\ n \in Nat
  BY DEF BInv, Typed, TypeOK
<1>2. /\ Len(ledger') = n + 1 /\ ledger'[n + 1] = e
      /\ \A i \in 1..n : ledger'[i] = ledger[i]
      /\ \A k \in 0..n : SubSeq(ledger', 1, k) = SubSeq(ledger, 1, k)
  BY <1>1, AppendFacts, PrefixFacts
<1> SUFFICES ASSUME NEW i \in 1..(n + 1)
             PROVE  \E k \in 0..i-1 : ledger'[i].balanceAfter =
                       BalanceOf(SubSeq(ledger', 1, k), ledger'[i].wallet) + Change(ledger'[i])
  BY <1>2 DEF BalanceAfterWasReal
<1>3. CASE i \in 1..n
  <2>1. PICK k \in 0..i-1 : ledger[i].balanceAfter =
                       BalanceOf(SubSeq(ledger, 1, k), ledger[i].wallet) + Change(ledger[i])
    BY <1>3 DEF BInv, BalanceAfterWasReal
  <2>2. k \in 0..n
    BY <1>1, <1>3
  <2> QED BY <1>2, <1>3, <2>1, <2>2
<1>4. CASE i = n + 1
  <2>1. PICK k \in 0..n : e.balanceAfter - Change(e) = BalanceOf(SubSeq(ledger, 1, k), e.wallet)
    BY DEF RealBalance
  <2>2. e.balanceAfter \in Int /\ Change(e) \in Int
    BY WalletAssumption DEF LedgerEntry, Amounts, Change
  <2>3. e.balanceAfter = BalanceOf(SubSeq(ledger, 1, k), e.wallet) + Change(e)
    BY <2>1, <2>2
  <2>4. k \in 0..i-1
    BY <1>1, <1>4
  <2> QED BY <1>2, <1>4, <2>1, <2>3, <2>4
<1> QED BY <1>1, <1>3, <1>4

LEMMA BInvInsert ==
  ASSUME BInv, NEW p \in Workers, SaveDebit(p) \/ SaveCredit(p)
  PROVE  BInv'
<1>1. Typed'
  BY TypedNext DEF BInv, Next, Step
<1>2. job[p] # Idle /\ Finish(p)
  BY DEF SaveDebit, SaveCredit, InsertEntry, Idle
<1>3. /\ job[p].amount \in Amounts /\ job[p].seen \in Int /\ job[p].amount \in Int
      /\ RealBalance(job[p].seen, job[p].wallet)
  BY <1>2, JobType DEF BInv, SeenIsReal, JobKey, HoldStages, SaveDebit, SaveCredit
<1>4. Appends /\ BalanceAfterWasReal'
  <2>1. CASE ledger' = ledger
    BY <2>1 DEF Appends, BInv, BalanceAfterWasReal
  <2>2. CASE ledger' # ledger
    <3>1. ASSUME NEW type \in {"BET_HOLD", "DEPOSIT"}, NEW b \in Int,
                 ledger' = Append(ledger, [key |-> job[p].key, wallet |-> job[p].wallet,
                           type |-> type, amount |-> job[p].amount, balanceAfter |-> b]),
                 b = job[p].seen + (IF type = "DEPOSIT" THEN job[p].amount ELSE -job[p].amount)
          PROVE  Appends /\ BalanceAfterWasReal'
      <4> DEFINE e == [key |-> job[p].key, wallet |-> job[p].wallet,
                       type |-> type, amount |-> job[p].amount, balanceAfter |-> b]
      <4>1. e \in LedgerEntry
        BY <1>2, <1>3, JobType DEF BInv, LedgerEntry, EntryTypes, CreditTypes
      <4>2. e.wallet = job[p].wallet /\ e.balanceAfter - Change(e) = job[p].seen
        BY <1>3, <3>1 DEF Change, CreditTypes
      <4> QED BY <1>3, <3>1, <4>1, <4>2, EntriesStayReal DEF Appends
    <3>2. CASE SaveDebit(p)
      <4>1. ledger' = Append(ledger, [key |-> job[p].key, wallet |-> job[p].wallet,
                 type |-> "BET_HOLD", amount |-> job[p].amount,
                 balanceAfter |-> job[p].seen - job[p].amount])
        BY <2>2, <3>2 DEF SaveDebit, InsertEntry
      <4>2. job[p].seen - job[p].amount \in Int
            /\ job[p].seen - job[p].amount = job[p].seen + (-job[p].amount)
        BY <1>3
      <4> QED BY <3>1, <4>1, <4>2
    <3>3. CASE SaveCredit(p)
      <4>1. ledger' = Append(ledger, [key |-> job[p].key, wallet |-> job[p].wallet,
                 type |-> "DEPOSIT", amount |-> job[p].amount,
                 balanceAfter |-> job[p].seen + job[p].amount])
        BY <2>2, <3>3 DEF SaveCredit, InsertEntry
      <4>2. job[p].seen + job[p].amount \in Int
        BY <1>3
      <4> QED BY <3>1, <4>1, <4>2
    <3> QED BY <3>2, <3>3
  <2> QED BY <2>1, <2>2
<1>5. ASSUME NEW q \in Workers PROVE SeenIsReal(q)'
  <2>1. CASE q = p
    BY <1>2, <2>1, FinishStep DEF BInv, SeenIsReal, Idle
  <2>2. CASE q # p
    BY <1>2, <1>4, <2>2, FinishStep, OthersSeen DEF BInv
  <2> QED BY <2>1, <2>2
<1> QED BY <1>1, <1>4, <1>5 DEF BInv

LEMMA BInvNext == BInv /\ [Next]_vars => BInv'
<1> SUFFICES ASSUME BInv, [Next]_vars PROVE BInv'
  OBVIOUS
<1>1. Typed' /\ job \in [Workers -> Job \cup {Idle}]
  BY TypedNext DEF BInv, Typed, TypeOK
<1>2. ASSUME NEW p \in Workers, ledger' = ledger,
             \A q \in Workers \ {p} : job'[q] = job[q], SeenIsReal(p)'
      PROVE  BInv'
  BY <1>1, <1>2, OthersSeen DEF BInv, BalanceAfterWasReal, Appends
<1>3. ASSUME NEW p \in Workers, ledger' = ledger, Finish(p) PROVE BInv'
  BY <1>2, <1>3, FinishStep DEF BInv, SeenIsReal, Idle
<1>4. ASSUME NEW p \in Workers, ledger' = ledger, NEW at \in Stages, GoTo(p, at),
             at \notin {"SaveDebit", "SaveCredit"}, job[p] # Idle
      PROVE  BInv'
  BY <1>2, <1>4, MoveStep DEF BInv, SeenIsReal, Moves
<1>5. ASSUME NEW p \in Workers, ledger' = ledger, job[p] # Idle,
             NEW at \in Stages, Reads(p, at, Balance(job[p].wallet))
      PROVE  BInv'
  <2>1. job'[p].seen = Balance(job[p].wallet) /\ job'[p].wallet = job[p].wallet
    BY <1>1, <1>5, JobType DEF Reads, BInv, Job
  <2>2. RealBalance(job'[p].seen, job'[p].wallet)
    BY <2>1, NowIsReal DEF BInv
  <2>3. SeenIsReal(p)'
    BY <1>5, <2>2 DEF SeenIsReal, RealBalance
  <2> QED BY <1>1, <1>2, <1>5, <2>3 DEF Reads
<1>6. ASSUME NEW p \in Workers, CreateHold(p) \/ SettleHold(p) \/ DirectCredit(p) PROVE BInv'
  <2>1. ledger' = ledger /\ \A q \in Workers \ {p} : job'[q] = job[q]
    BY <1>1, <1>6 DEF CreateHold, SettleHold, DirectCredit
  <2>2. CASE CreateHold(p) \/ SettleHold(p)
    <3>1. job'[p].at \in {"CheckAvailable", "SaveSettle"}
      BY <1>1, <2>2 DEF CreateHold, SettleHold
    <3> QED BY <1>2, <2>1, <3>1 DEF SeenIsReal
  <2>3. CASE DirectCredit(p)
    <3>1. PICK w \in Wallets : job'[p].wallet = w /\ job'[p].seen = Balance(w)
      BY <1>1, <2>3 DEF DirectCredit
    <3>2. RealBalance(job'[p].seen, job'[p].wallet)
      BY <3>1, NowIsReal DEF BInv
    <3>3. SeenIsReal(p)'
      BY <2>1, <3>2 DEF SeenIsReal, RealBalance
    <3> QED BY <1>2, <2>1, <3>3
  <2> QED BY <1>6, <2>2, <2>3
<1>7. ASSUME NEW p \in Workers, CheckAvailable(p) \/ SaveHold(p) \/ SaveSettle(p) PROVE BInv'
  <2>1. job[p] # Idle /\ ledger' = ledger
    BY <1>7 DEF CheckAvailable, SaveHold, SaveSettle, Idle
  <2>2. Finish(p) \/ \E at \in {"SaveHold", "Debit", "Credit"} : GoTo(p, at)
    BY <1>7 DEF CheckAvailable, SaveHold, SaveSettle
  <2> QED BY <1>3, <1>4, <2>1, <2>2 DEF Stages
<1>8. ASSUME NEW p \in Workers, Debit(p) \/ Credit(p) PROVE BInv'
  <2>1. job[p] # Idle /\ ledger' = ledger
    BY <1>8 DEF Debit, Credit, Idle
  <2>2. Finish(p) \/ \E at \in {"SaveDebit", "SaveCredit"} : Reads(p, at, Balance(job[p].wallet))
    BY <1>8 DEF Debit, Credit
  <2> QED BY <1>3, <1>5, <2>1, <2>2 DEF Stages
<1>9. ASSUME UNCHANGED <<ledger, job>> PROVE BInv'
  BY <1>1, <1>9 DEF BInv, SeenIsReal, RealBalance, BalanceAfterWasReal
<1> QED
  BY <1>3, <1>6, <1>7, <1>8, <1>9, BInvInsert
     DEF Next, Step, TimePasses, ReleaseExpired, Abort, vars

\* Each balance_after is the entry's amount applied to a balance that its wallet
\* had, however many requests write to the ledger meanwhile.
THEOREM BalancesAfterWereReal == Spec => []BalanceAfterWasReal
<1>1. Init => BInv
  BY TypedInit DEF Init, BInv, SeenIsReal, BalanceAfterWasReal, Idle
<1>2. BInv => BalanceAfterWasReal
  BY DEF BInv
<1> QED BY <1>1, <1>2, BInvNext, PTL DEF Spec

-----------------------------------------------------------------------------
(* The ledger agrees with the holds.  A request between its awaits relies   *)
(* on a row that other requests can change; what makes it safe is that they *)
(* change nothing but an active status.                                     *)

HoldsGrow ==
    \A r \in DOMAIN holds :
      /\ r \in DOMAIN holds'
      /\ holds[r].status # "active" => holds'[r].status # "active"
      /\ holds'[r].wallet = holds[r].wallet
      /\ holds'[r].amount = holds[r].amount

JobHold(p) ==
    /\ job[p].at \in {"Debit", "SaveDebit"} =>
         \A r \in HoldRefs : job[p].key = HoldKey(r) =>
            /\ r \in DOMAIN holds
            /\ holds[r].wallet = job[p].wallet
            /\ holds[r].amount = job[p].amount
    /\ job[p].at = "SaveSettle" =>
         \A r \in HoldRefs : job[p].key = PayoutKey(r) =>
            /\ r \in DOMAIN holds
            /\ holds[r].wallet = job[p].wallet
    /\ job[p].at \in {"Credit", "SaveCredit"} =>
         \A r \in HoldRefs : job[p].key = PayoutKey(r) =>
            /\ r \in DOMAIN holds
            /\ holds[r].status # "active"
            /\ holds[r].wallet = job[p].wallet

JobHolds == \A p \in Workers : JobHold(p)

LedgerInv == EachReferenceOnce /\ PayoutOnlyForClosedHold /\ HoldEntryMatchesHold

IInv == Typed /\ JobHolds /\ LedgerInv

LEMMA HoldsGrowNext == Typed /\ [Next]_vars => HoldsGrow
<1> SUFFICES ASSUME Typed, [Next]_vars PROVE HoldsGrow
  OBVIOUS
<1>1. CASE UNCHANGED holds
  BY <1>1 DEF HoldsGrow
<1>2. ASSUME NEW p \in Workers, SaveHold(p) PROVE HoldsGrow
  BY <1>2 DEF SaveHold, HoldsGrow
<1>3. ASSUME NEW p \in Workers, SaveSettle(p) PROVE HoldsGrow
  <2>1. \A r \in DOMAIN holds : holds[r] \in Hold
    BY DEF Typed, TypeOK
  <2>2. DOMAIN holds' = DOMAIN holds
    BY <1>3 DEF SaveSettle
  <2>3. ASSUME NEW r \in DOMAIN holds
        PROVE  \/ holds'[r] = holds[r]
               \/ holds'[r] = [holds[r] EXCEPT !.status = "released"]
               \/ holds'[r] = [holds[r] EXCEPT !.status = "settled"]
    <3>1. PICK s \in {"released", "settled"} :
            holds' = [holds EXCEPT ![job[p].key[1]].status = s]
      BY <1>3 DEF SaveSettle
    <3>2. holds'[r] = holds[r] \/ holds'[r] = [holds[r] EXCEPT !.status = s]
      BY <3>1
    <3> QED BY <3>1, <3>2
  <2>4. \A h \in Hold :
          /\ [h EXCEPT !.status = "released"].status = "released"
          /\ [h EXCEPT !.status = "settled"].status = "settled"
          /\ [h EXCEPT !.status = "released"].wallet = h.wallet
          /\ [h EXCEPT !.status = "settled"].wallet = h.wallet
          /\ [h EXCEPT !.status = "released"].amount = h.amount
          /\ [h EXCEPT !.status = "settled"].amount = h.amount
    BY DEF Hold
  <2> QED BY <2>1, <2>2, <2>3, <2>4 DEF HoldsGrow
<1>4. CASE TimePasses \/ ReleaseExpired
  <2>1. \A h \in Hold :
          /\ [h EXCEPT !.status = "expired"].status = "expired"
          /\ [h EXCEPT !.status = "expired"].wallet = h.wallet
          /\ [h EXCEPT !.status = "expired"].amount = h.amount
          /\ [h EXCEPT !.overdue = TRUE].status = h.status
          /\ [h EXCEPT !.overdue = TRUE].wallet = h.wallet
          /\ [h EXCEPT !.overdue = TRUE].amount = h.amount
    BY DEF Hold
  <2>2. \A r \in DOMAIN holds : holds[r] \in Hold
    BY DEF Typed, TypeOK
  <2>3. CASE TimePasses
    BY <2>1, <2>2, <2>3 DEF TimePasses, HoldsGrow
  <2>4. CASE ReleaseExpired
    <3>1. DOMAIN holds' = DOMAIN holds
      BY <2>4 DEF ReleaseExpired
    <3>2. ASSUME NEW r \in DOMAIN holds
          PROVE  \/ holds'[r] = holds[r]
                 \/ /\ holds[r].status = "active"
                    /\ holds'[r] = [holds[r] EXCEPT !.status = "expired"]
      BY <2>4 DEF ReleaseExpired
    <3> QED BY <2>1, <2>2, <3>1, <3>2 DEF HoldsGrow
  <2> QED BY <1>4, <2>3, <2>4
<1> QED
  BY <1>1, <1>2, <1>3, <1>4
     DEF Next, Step, CreateHold, SettleHold, DirectCredit, CheckAvailable, Debit,
         SaveDebit, Credit, SaveCredit, InsertEntry, Abort, vars

\* The rows that a request relies on still say the same after any other step.
LEMMA OthersKeep ==
  ASSUME JobHolds, HoldsGrow, NEW q \in Workers, job'[q] = job[q]
  PROVE  JobHold(q)'
BY DEF JobHolds, JobHold, HoldsGrow

LEMMA IdleHold ==
  ASSUME NEW p \in Workers, job[p] = Idle
  PROVE  JobHold(p)
BY DEF JobHold, Idle

LEMMA JobHoldsNext ==
  ASSUME IInv, [Next]_vars
  PROVE  JobHolds'
<1>1. HoldsGrow
  BY HoldsGrowNext DEF IInv
<1>2. ASSUME NEW p \in Workers,
             \A q \in Workers \ {p} : job'[q] = job[q],
             JobHold(p)'
      PROVE  JobHolds'
  BY <1>1, <1>2, OthersKeep DEF IInv, JobHolds
<1>3. ASSUME NEW p \in Workers, Finish(p) PROVE JobHolds'
  <2>1. JobHold(p)'
    BY <1>3, FinishStep DEF IInv, JobHold, Idle
  <2> QED BY <1>2, <1>3, <2>1, FinishStep DEF IInv
<1>4. ASSUME NEW p \in Workers, CreateHold(p) \/ DirectCredit(p) PROVE JobHolds'
  <2>1. job \in [Workers -> Job \cup {Idle}]
    BY DEF IInv, Typed, TypeOK
  <2>2. \A q \in Workers \ {p} : job'[q] = job[q]
    BY <1>4, <2>1 DEF CreateHold, DirectCredit
  <2>3. \/ job'[p].at = "CheckAvailable"
        \/ \E r \in CreditRefs : job'[p].at = "SaveCredit" /\ job'[p].key = DirectKey(r)
    BY <1>4, <2>1 DEF CreateHold, DirectCredit
  <2>4. JobHold(p)'
    BY <2>3, KeyFacts DEF JobHold
  <2> QED BY <1>2, <2>2, <2>4
<1>5. ASSUME NEW p \in Workers, CheckAvailable(p) PROVE JobHolds'
  <2>1. CASE GoTo(p, "SaveHold")
    <3>1. job[p] # Idle /\ Moves(p, "SaveHold") /\ "SaveHold" \in Stages
      BY <1>5, <2>1 DEF CheckAvailable, Idle, Moves, Stages
    <3>2. JobHold(p)'
      BY <3>1, MoveStep DEF IInv, JobHold
    <3> QED BY <1>2, <3>1, <3>2, MoveStep DEF IInv
  <2> QED BY <1>3, <1>5, <2>1 DEF CheckAvailable
<1>6. ASSUME NEW p \in Workers, SaveHold(p) PROVE JobHolds'
  <2>1. CASE job[p].key[1] \notin DOMAIN holds
    <3>1. job[p] # Idle /\ Moves(p, "Debit") /\ "Debit" \in Stages
      BY <1>6, <2>1 DEF SaveHold, Idle, Moves, Stages
    <3>2. /\ job[p].key[1] \in DOMAIN holds'
          /\ holds'[job[p].key[1]] = NewHold(p)
      BY <1>6, <2>1 DEF SaveHold
    <3>3. JobHold(p)'
      BY <3>1, <3>2, KeyFacts, MoveStep DEF IInv, JobHold, NewHold
    <3> QED BY <1>2, <3>1, <3>3, MoveStep DEF IInv
  <2> QED BY <1>3, <1>6, <2>1 DEF SaveHold
<1>7. ASSUME NEW p \in Workers, Debit(p) PROVE JobHolds'
  <2>1. CASE Reads(p, "SaveDebit", Balance(job[p].wallet))
    <3>1. Balance(job[p].wallet) \in Int
      BY BalanceInt DEF Balance, IInv, Typed, TypeOK
    <3>2. job[p] # Idle /\ Moves(p, "SaveDebit") /\ "SaveDebit" \in Stages
      BY <1>7, <2>1, <3>1 DEF Debit, Idle, Moves, Stages
    <3>3. JobHold(p) /\ UNCHANGED holds /\ job[p].at = "Debit"
      BY <1>7 DEF Debit, IInv, JobHolds
    <3>4. JobHold(p)'
      BY <3>2, <3>3, MoveStep DEF IInv, JobHold
    <3> QED BY <1>2, <3>2, <3>4, MoveStep DEF IInv
  <2> QED BY <1>3, <1>7, <2>1 DEF Debit
<1>8. ASSUME NEW p \in Workers, SettleHold(p) PROVE JobHolds'
  <2>1. job \in [Workers -> Job \cup {Idle}]
    BY DEF IInv, Typed, TypeOK
  <2>2. \A q \in Workers \ {p} : job'[q] = job[q]
    BY <1>8, <2>1 DEF SettleHold
  <2>3. PICK r \in DOMAIN holds : /\ job'[p].at = "SaveSettle"
                                  /\ job'[p].key = PayoutKey(r)
                                  /\ job'[p].wallet = holds[r].wallet
    BY <1>8, <2>1 DEF SettleHold
  <2>4. JobHold(p)'
    BY <1>8, <2>3, KeyFacts DEF JobHold, SettleHold
  <2> QED BY <1>2, <2>2, <2>4
<1>9. ASSUME NEW p \in Workers, SaveSettle(p) PROVE JobHolds'
  <2>1. CASE GoTo(p, "Credit")
    <3>1. job[p] # Idle /\ Moves(p, "Credit") /\ "Credit" \in Stages
      BY <1>9, <2>1 DEF SaveSettle, Idle, Moves, Stages
    <3>2. PICK r \in HoldRefs : job[p].key = PayoutKey(r)
      BY <1>9, <3>1, JobType DEF SaveSettle, JobKey, SettleStages, IInv
    <3>3. r \in DOMAIN holds /\ holds[r].wallet = job[p].wallet /\ holds[r] \in Hold
      BY <1>9, <3>2 DEF SaveSettle, JobHolds, JobHold, IInv, Typed, TypeOK
    <3>4. r \in DOMAIN holds' /\ holds'[r].status # "active"
          /\ holds'[r].wallet = job[p].wallet
      BY <1>1, <1>9, <3>2, <3>3, KeyFacts DEF SaveSettle, Hold, HoldsGrow
    <3>5. JobHold(p)'
      BY <3>1, <3>2, <3>4, KeyFacts, MoveStep DEF JobHold, IInv
    <3> QED BY <1>2, <3>1, <3>5, MoveStep DEF IInv
  <2> QED BY <1>3, <1>9, <2>1 DEF SaveSettle
<1>10. ASSUME NEW p \in Workers, Credit(p) PROVE JobHolds'
  <2>1. CASE Reads(p, "SaveCredit", Balance(job[p].wallet))
    <3>1. Balance(job[p].wallet) \in Int
      BY BalanceInt DEF Balance, IInv, Typed, TypeOK
    <3>2. job[p] # Idle /\ Moves(p, "SaveCredit") /\ "SaveCredit" \in Stages
      BY <1>10, <2>1, <3>1 DEF Credit, Idle, Moves, Stages
    <3>3. JobHold(p) /\ UNCHANGED holds /\ job[p].at = "Credit"
      BY <1>10 DEF Credit, IInv, JobHolds
    <3>4. JobHold(p)'
      BY <3>2, <3>3, MoveStep DEF IInv, JobHold
    <3> QED BY <1>2, <3>2, <3>4, MoveStep DEF IInv
  <2> QED BY <1>3, <1>10, <2>1 DEF Credit
<1>11. ASSUME NEW p \in Workers, SaveDebit(p) \/ SaveCredit(p) \/ Abort(p) PROVE JobHolds'
  BY <1>3, <1>11 DEF SaveDebit, SaveCredit, Abort, InsertEntry
<1>12. CASE UNCHANGED job
  BY <1>1, <1>12, OthersKeep DEF IInv, JobHolds
<1> QED
  BY <1>4, <1>5, <1>6, <1>7, <1>8, <1>9, <1>10, <1>11, <1>12
     DEF Next, Step, TimePasses, ReleaseExpired, vars

\* An INSERT adds an entry that the holds vouch for.
LEMMA LedgerInsert ==
  ASSUME IInv, HoldsGrow, NEW p \in Workers, SaveDebit(p) \/ SaveCredit(p)
  PROVE  LedgerInv'
<1>1. job[p] # Idle /\ UNCHANGED holds
  BY DEF SaveDebit, SaveCredit, InsertEntry, Idle
<1>2. CASE UNCHANGED ledger
  BY <1>1, <1>2 DEF IInv, LedgerInv, EachReferenceOnce, PayoutOnlyForClosedHold,
                    HoldEntryMatchesHold
<1>3. ASSUME ~Booked(job[p].key), NEW type \in EntryTypes, NEW b \in Int,
             ledger' = Append(ledger,
                [key |-> job[p].key, wallet |-> job[p].wallet, type |-> type,
                 amount |-> job[p].amount, balanceAfter |-> b])
      PROVE  LedgerInv'
  <2> DEFINE e == [key |-> job[p].key, wallet |-> job[p].wallet, type |-> type,
                   amount |-> job[p].amount, balanceAfter |-> b]
             n == Len(ledger)
  <2>1. ledger \in Seq(LedgerEntry) /\ n \in Nat
    BY DEF IInv, Typed, TypeOK
  <2>2. e \in LedgerEntry
    <3>1. job[p].amount \in Amounts
      BY <1>1, JobType DEF IInv, JobKey, HoldStages, SaveDebit, SaveCredit
    <3> QED BY <1>1, <3>1, JobType DEF IInv, LedgerEntry
  <2>3. /\ Len(ledger') = n + 1
        /\ \A i \in 1..n : ledger'[i] = ledger[i]
        /\ ledger'[n + 1] = e
    BY <1>3, <2>1, <2>2, AppendFacts
  <2>4. \A i \in 1..n : ledger[i].key # e.key
    BY <1>3 DEF Booked
  <2>5. EachReferenceOnce'
    <3> SUFFICES ASSUME NEW i \in 1..(n + 1), NEW k \in 1..(n + 1),
                        ledger'[i].key = ledger'[k].key
                 PROVE  i = k
      BY <2>3 DEF EachReferenceOnce
    <3>1. (i \in 1..n \/ i = n + 1) /\ (k \in 1..n \/ k = n + 1)
      BY <2>1
    <3> QED BY <2>3, <2>4, <3>1 DEF IInv, LedgerInv, EachReferenceOnce
  <2>6. PayoutOnlyForClosedHold'
    <3> SUFFICES ASSUME NEW i \in 1..(n + 1), NEW r \in HoldRefs,
                        ledger'[i].key = PayoutKey(r)
                 PROVE  /\ r \in DOMAIN holds
                        /\ holds[r].status # "active"
                        /\ holds[r].wallet = ledger'[i].wallet
                        /\ ledger'[i].amount > 0
      BY <1>1, <2>3 DEF PayoutOnlyForClosedHold
    <3>1. CASE i \in 1..n
      BY <2>3, <3>1 DEF IInv, LedgerInv, PayoutOnlyForClosedHold
    <3>2. CASE i = n + 1
      <4>1. /\ job[p].key = PayoutKey(r)
            /\ ledger'[i].wallet = job[p].wallet
            /\ ledger'[i].amount = job[p].amount
        BY <2>3, <3>2
      <4>2. job[p].at = "SaveCredit" /\ job[p].amount > 0
        BY <1>1, <4>1, JobType, KeyFacts DEF SaveDebit, SaveCredit, IInv, JobKey, HoldStages
      <4> QED BY <4>1, <4>2 DEF IInv, JobHolds, JobHold
    <3> QED BY <2>1, <3>1, <3>2
  <2>7. HoldEntryMatchesHold'
    <3> SUFFICES ASSUME NEW i \in 1..(n + 1), NEW r \in HoldRefs,
                        ledger'[i].key = HoldKey(r)
                 PROVE  /\ r \in DOMAIN holds
                        /\ holds[r].wallet = ledger'[i].wallet
                        /\ holds[r].amount = ledger'[i].amount
      BY <1>1, <2>3 DEF HoldEntryMatchesHold
    <3>1. CASE i \in 1..n
      BY <2>3, <3>1 DEF IInv, LedgerInv, HoldEntryMatchesHold
    <3>2. CASE i = n + 1
      <4>1. /\ job[p].key = HoldKey(r)
            /\ ledger'[i].wallet = job[p].wallet
            /\ ledger'[i].amount = job[p].amount
        BY <2>3, <3>2
      <4>2. job[p].at = "SaveDebit"
        BY <1>1, <4>1, JobType, KeyFacts DEF SaveDebit, SaveCredit, IInv, JobKey
      <4> QED BY <4>1, <4>2 DEF IInv, JobHolds, JobHold
    <3> QED BY <2>1, <3>1, <3>2
  <2> QED BY <2>5, <2>6, <2>7 DEF LedgerInv
<1>4. job[p].seen - job[p].amount \in Int /\ job[p].seen + job[p].amount \in Int
  BY <1>1, JobType DEF IInv
<1>5. "BET_HOLD" \in EntryTypes /\ "DEPOSIT" \in EntryTypes
  BY DEF EntryTypes, CreditTypes
<1> QED BY <1>2, <1>3, <1>4, <1>5 DEF SaveDebit, SaveCredit, InsertEntry

LEMMA LedgerInvNext ==
  ASSUME IInv, [Next]_vars
  PROVE  LedgerInv'
<1>1. HoldsGrow
  BY HoldsGrowNext DEF IInv
<1>2. CASE UNCHANGED ledger
  BY <1>1, <1>2 DEF IInv, Typed, TypeOK, LedgerInv, EachReferenceOnce,
                    PayoutOnlyForClosedHold, HoldEntryMatchesHold, HoldsGrow
<1>3. ASSUME NEW p \in Workers, SaveDebit(p) \/ SaveCredit(p) PROVE LedgerInv'
  BY <1>1, <1>3, LedgerInsert
<1> QED
  BY <1>2, <1>3
     DEF Next, Step, CreateHold, CheckAvailable, SaveHold, Debit, SettleHold, SaveSettle,
         Credit, DirectCredit, TimePasses, ReleaseExpired, Abort, vars

LEMMA IInvInit == Init => IInv
<1> SUFFICES ASSUME Init PROVE IInv
  OBVIOUS
<1>1. JobHolds
  BY IdleHold DEF Init, JobHolds
<1>2. LedgerInv
  BY DEF Init, LedgerInv, EachReferenceOnce, PayoutOnlyForClosedHold, HoldEntryMatchesHold
<1> QED BY <1>1, <1>2, TypedInit DEF IInv

LEMMA IInvNext == IInv /\ [Next]_vars => IInv'
BY TypedNext, JobHoldsNext, LedgerInvNext DEF IInv

LEMMA AlwaysIInv == Spec => []IInv
BY IInvInit, IInvNext, PTL DEF Spec

\* A reference is booked at most once, so a credit is applied once and a hold
\* pays out once, whatever is retried, fails or runs at the same time.
THEOREM ReferencesOnce == Spec => []EachReferenceOnce
<1>1. IInv => EachReferenceOnce
  BY DEF IInv, LedgerInv
<1> QED BY <1>1, AlwaysIInv, PTL

\* A payout is booked only for a hold that is closed, to the wallet that placed
\* the hold.
THEOREM PayoutsFollowHolds == Spec => []PayoutOnlyForClosedHold
<1>1. IInv => PayoutOnlyForClosedHold
  BY DEF IInv, LedgerInv
<1> QED BY <1>1, AlwaysIInv, PTL

\* A BET_HOLD entry has the wallet and the amount of the stored hold.
THEOREM HoldEntriesMatch == Spec => []HoldEntryMatchesHold
<1>1. IInv => HoldEntryMatchesHold
  BY DEF IInv, LedgerInv
<1> QED BY <1>1, AlwaysIInv, PTL

\* A closed hold is never active again, and its wallet and amount are fixed.
THEOREM HoldsStayClosed == Spec => ClosedHoldsStayClosed
<1>1. Typed /\ [Next]_vars => [HoldsGrow]_vars
  BY HoldsGrowNext
<1>2. Spec => [][HoldsGrow]_vars
  BY <1>1, AlwaysTyped, PTL DEF Spec
<1> QED BY <1>2 DEF ClosedHoldsStayClosed, HoldsGrow

-----------------------------------------------------------------------------
(* The wallet implements Account.  An entry changes the balance of its own  *)
(* wallet, by what it is worth.                                             *)

\* The units of one number, none if it is not positive.
UnitsOf(n) == {u \in 1..MaxAmount : u <= n}

LEMMA UnitsOfFacts ==
  ASSUME NEW i, NEW n \in Int, n <= MaxAmount
  PROVE  /\ IsFiniteSet({i} \X UnitsOf(n))
         /\ Cardinality({i} \X UnitsOf(n)) = IF n > 0 THEN n ELSE 0
<1> DEFINE m == IF n > 0 THEN n ELSE 0
<1>1. m \in Nat /\ 1 \in Int /\ m \in Int
  OBVIOUS
<1>2. UnitsOf(n) = 1..m
  BY WalletAssumption DEF UnitsOf
<1> HIDE DEF m
<1>3. IsFiniteSet(1..m) /\ Cardinality(1..m) = m
  BY <1>1, FS_Interval
<1>4. IsFiniteSet({i}) /\ Cardinality({i}) = 1
  BY FS_Singleton
<1>5. Cardinality({i} \X (1..m)) = Cardinality({i}) * Cardinality(1..m)
  BY <1>3, <1>4, FS_Product
<1>6. Cardinality({i} \X (1..m)) = m
  BY <1>1, <1>3, <1>4, <1>5
<1>7. IsFiniteSet({i} \X (1..m))
  BY <1>3, <1>4, FS_Product
<1> QED BY <1>2, <1>6, <1>7 DEF m

LEMMA DisjointSum ==
  ASSUME NEW A, NEW B, IsFiniteSet(A), IsFiniteSet(B), A \cap B = {}
  PROVE  Cardinality(A \cup B) = Cardinality(A) + Cardinality(B)
<1>1. Cardinality(A) \in Nat /\ Cardinality(B) \in Nat /\ Cardinality({}) = 0
  BY FS_CardinalityType, FS_EmptySet
<1>2. Cardinality(A \cup B) = Cardinality(A) + Cardinality(B) - Cardinality(A \cap B)
  BY FS_Union
<1>3. Cardinality(A \cap B) = 0
  BY <1>1
<1> QED BY <1>1, <1>2, <1>3

LEMMA WorthInt ==
  ASSUME NEW e \in LedgerEntry
  PROVE  Worth(e) \in Int /\ Worth(e) <= MaxAmount /\ -Worth(e) <= MaxAmount
<1>1. e.amount \in Int /\ e.amount <= MaxAmount /\ -e.amount <= MaxAmount /\ MaxAmount >= 0
  BY WalletAssumption DEF LedgerEntry, Amounts
<1> QED BY <1>1 DEF Worth

\* The units of one sign after one more entry.
LEMMA UnitsAfterAppend ==
  ASSUME NEW log \in Seq(LedgerEntry), NEW e \in LedgerEntry, NEW w, NEW sign \in {1, -1}
  PROVE  Cardinality(LedgerUnits(Append(log, e), w, sign)) =
           Cardinality(LedgerUnits(log, w, sign))
             + (IF e.wallet = w /\ sign * Worth(e) > 0 THEN sign * Worth(e) ELSE 0)
<1> DEFINE n   == Len(log)
           old == LedgerUnits(log, w, sign)
           new == LedgerUnits(Append(log, e), w, sign)
           row == {n + 1} \X UnitsOf(sign * Worth(e))
<1>1. n \in Nat /\ sign * Worth(e) \in Int /\ sign * Worth(e) <= MaxAmount
  BY WorthInt
<1>2. /\ Len(Append(log, e)) = n + 1
      /\ \A i \in 1..n : Append(log, e)[i] = log[i]
      /\ Append(log, e)[n + 1] = e
  BY AppendFacts
<1>3. 1..(n + 1) = (1..n) \cup {n + 1} /\ n + 1 \notin 1..n
  BY <1>1
<1>4. IsFiniteSet(old) /\ Cardinality(old) \in Nat
  BY LedgerSumsFinite, FS_CardinalityType
<1>5. CASE e.wallet = w
  <2>1. new = old \cup row
    BY <1>2, <1>3, <1>5 DEF LedgerUnits, UnitsOf
  <2>2. old \cap row = {}
    BY <1>3 DEF LedgerUnits
  <2>3. IsFiniteSet(row)
        /\ Cardinality(row) = IF sign * Worth(e) > 0 THEN sign * Worth(e) ELSE 0
    BY <1>1, UnitsOfFacts
  <2>4. Cardinality(new) = Cardinality(old) + Cardinality(row)
    BY <1>4, <2>1, <2>2, <2>3, DisjointSum
  <2> QED BY <1>5, <2>3, <2>4
<1>6. CASE e.wallet # w
  <2>1. new = old
    BY <1>2, <1>3, <1>6 DEF LedgerUnits
  <2> QED BY <1>4, <1>6, <2>1
<1> QED BY <1>5, <1>6

LEMMA BalanceAfterAppend ==
  ASSUME NEW log \in Seq(LedgerEntry), NEW e \in LedgerEntry, NEW w
  PROVE  BalanceOf(Append(log, e), w) =
           BalanceOf(log, w) + (IF e.wallet = w THEN Worth(e) ELSE 0)
<1> DEFINE up == Cardinality(LedgerUnits(log, w, 1))
           down == Cardinality(LedgerUnits(log, w, -1))
<1>1. up \in Nat /\ down \in Nat
  BY LedgerSumsFinite, FS_CardinalityType
<1>2. Worth(e) \in Int /\ 1 * Worth(e) = Worth(e) /\ (-1) * Worth(e) = -Worth(e)
  BY WorthInt
<1>3. Cardinality(LedgerUnits(Append(log, e), w, 1)) =
        up + (IF e.wallet = w /\ Worth(e) > 0 THEN Worth(e) ELSE 0)
  BY <1>2, UnitsAfterAppend
<1>4. Cardinality(LedgerUnits(Append(log, e), w, -1)) =
        down + (IF e.wallet = w /\ -Worth(e) > 0 THEN -Worth(e) ELSE 0)
  BY <1>2, UnitsAfterAppend
<1> QED BY <1>1, <1>2, <1>3, <1>4 DEF BalanceOf

-----------------------------------------------------------------------------
(* The state of the account that the wallet's rows stand for.               *)

balances == [w \in Wallets |-> Balance(w)]
owners   == [r \in DOMAIN holds |-> holds[r].wallet]
closeds  == {r \in DOMAIN holds : holds[r].status # "active"}
paids    == {r \in HoldRefs : Booked(PayoutKey(r))}
credits  == {r \in CreditRefs : Booked(DirectKey(r))}

Accounts == <<balances, owners, closeds, paids, credits>>

LEMMA StartsAsAccount == Init => Promise!Init
<1> SUFFICES ASSUME Init PROVE Promise!Init
  OBVIOUS
<1>1. ASSUME NEW w PROVE Balance(w) = 0
  <2>1. LedgerUnits(ledger, w, 1) = {} /\ LedgerUnits(ledger, w, -1) = {}
    BY DEF Init, LedgerUnits
  <2> QED BY <2>1, FS_EmptySet DEF Balance, BalanceOf
<1>2. \A key : ~Booked(key)
  BY DEF Init, Booked
<1>3. DOMAIN holds = {} /\ owners = [r \in {} |-> 0]
  BY DEF Init, owners
<1> QED BY <1>1, <1>2, <1>3 DEF Promise!Init, owners

\* A step that writes no row, and one that closes holds.
LEMMA LedgerSame ==
  ASSUME ledger' = ledger
  PROVE  balances' = balances /\ paids' = paids /\ credits' = credits
BY DEF balances, Balance, paids, credits, Booked

LEMMA StaysPut ==
  ASSUME ledger' = ledger, holds' = holds
  PROVE  UNCHANGED Accounts
BY LedgerSame DEF Accounts, owners, closeds

LEMMA Closing ==
  ASSUME HoldsGrow, ledger' = ledger, DOMAIN holds' = DOMAIN holds
  PROVE  Promise!Close
<1>1. owners' = owners
  BY DEF HoldsGrow, owners
<1>2. closeds \subseteq closeds' /\ closeds' \subseteq DOMAIN owners
  BY DEF HoldsGrow, closeds, owners
<1> QED BY <1>1, <1>2, LedgerSame DEF Promise!Close, balances, owners, closeds, paids, credits

LEMMA Opening ==
  ASSUME IInv, NEW p \in Workers, SaveHold(p), ~UNCHANGED holds
  PROVE  /\ job[p].key[1] \in HoldRefs /\ job[p].wallet \in Wallets
         /\ Promise!Open(job[p].key[1], job[p].wallet)
<1> DEFINE r == job[p].key[1]
           w == job[p].wallet
<1>1. job[p] # Idle
  BY DEF SaveHold, Idle
<1>2. r \in HoldRefs /\ w \in Wallets
  BY <1>1, JobType, KeyFacts DEF IInv, SaveHold, JobKey, HoldStages
<1>3. /\ r \notin DOMAIN holds /\ ledger' = ledger
      /\ holds' = [q \in DOMAIN holds \cup {r} |-> IF q = r THEN NewHold(p) ELSE holds[q]]
  BY DEF SaveHold
<1>4. owners' = [q \in DOMAIN owners \cup {r} |-> IF q = r THEN w ELSE owners[q]]
  BY <1>3 DEF owners, NewHold
<1>5. closeds' = closeds
  BY <1>3 DEF closeds, NewHold
<1>6. Promise!Open(r, w)
  BY <1>3, <1>4, <1>5, LedgerSame DEF Promise!Open, balances, owners, closeds, paids, credits
<1> QED BY <1>2, <1>6

\* One entry more, with a key that was not booked.
LEMMA BookedAfter ==
  ASSUME Typed, NEW e \in LedgerEntry, ledger' = Append(ledger, e), NEW key
  PROVE  Booked(key)' <=> Booked(key) \/ key = e.key
<1>1. ledger \in Seq(LedgerEntry) /\ Len(ledger) \in Nat
  BY DEF Typed, TypeOK
<1>2. /\ Len(ledger') = Len(ledger) + 1
      /\ \A i \in 1..Len(ledger) : ledger'[i] = ledger[i]
      /\ ledger'[Len(ledger) + 1] = e
  BY <1>1, AppendFacts
<1>3. 1..(Len(ledger) + 1) = (1..Len(ledger)) \cup {Len(ledger) + 1}
  BY <1>1
<1> QED BY <1>2, <1>3 DEF Booked

LEMMA BalancesAfter ==
  ASSUME Typed, NEW e \in LedgerEntry, ledger' = Append(ledger, e)
  PROVE  /\ \A w \in Wallets : balances[w] \in Int
         /\ balances' = [balances EXCEPT ![e.wallet] = balances'[e.wallet]]
         /\ balances'[e.wallet] = balances[e.wallet] + Worth(e)
<1>1. ledger \in Seq(LedgerEntry) /\ e.wallet \in Wallets
  BY DEF Typed, TypeOK, LedgerEntry
<1>2. \A w : Balance(w) \in Int
  BY <1>1, BalanceInt DEF Balance
<1>3. \A w : Balance(w)' = Balance(w) + (IF e.wallet = w THEN Worth(e) ELSE 0)
  BY <1>1, BalanceAfterAppend DEF Balance
<1>4. \A w \in Wallets : w # e.wallet => Balance(w)' = Balance(w)
  BY <1>2, <1>3
<1> QED BY <1>1, <1>2, <1>3, <1>4 DEF balances

LEMMA Inserting ==
  ASSUME IInv, NEW p \in Workers, SaveDebit(p) \/ SaveCredit(p)
  PROVE  [Promise!Next]_Accounts
<1>1. job[p] # Idle /\ holds' = holds /\ Typed
  BY DEF SaveDebit, SaveCredit, InsertEntry, Idle, IInv
<1>2. CASE ledger' = ledger
  BY <1>1, <1>2, StaysPut
<1>3. ASSUME NEW type \in {"BET_HOLD", "DEPOSIT"}, NEW b \in Int, ~Booked(job[p].key),
             ledger' = Append(ledger, [key |-> job[p].key, wallet |-> job[p].wallet,
                        type |-> type, amount |-> job[p].amount, balanceAfter |-> b]),
             type = "BET_HOLD" <=> SaveDebit(p)
      PROVE  [Promise!Next]_Accounts
  <2> DEFINE e == [key |-> job[p].key, wallet |-> job[p].wallet, type |-> type,
                   amount |-> job[p].amount, balanceAfter |-> b]
  <2>1. e \in LedgerEntry /\ job[p].wallet \in Wallets
    BY <1>1, JobType DEF LedgerEntry, EntryTypes, CreditTypes
  <2>2. /\ \A w \in Wallets : balances[w] \in Int
        /\ balances' = [balances EXCEPT ![job[p].wallet] = balances'[job[p].wallet]]
        /\ balances'[job[p].wallet] = balances[job[p].wallet] + Worth(e)
    BY <1>1, <1>3, <2>1, BalancesAfter
  <2>3. \A key : Booked(key)' <=> Booked(key) \/ key = job[p].key
    BY <1>1, <1>3, <2>1, BookedAfter
  <2>4. owners' = owners /\ closeds' = closeds
    BY <1>1 DEF owners, closeds
  <2>5. Worth(e) = IF type = "DEPOSIT" THEN job[p].amount ELSE 0
    BY DEF Worth, CreditTypes, DebitTypes
  <2>6. CASE SaveDebit(p)
    <3>1. \E r \in HoldRefs : job[p].key = HoldKey(r)
      BY <1>1, <2>6, JobType DEF SaveDebit, JobKey, HoldStages
    <3>2. paids' = paids /\ credits' = credits
      BY <2>3, <3>1, KeyFacts DEF paids, credits
    <3>3. balances'[job[p].wallet] = balances[job[p].wallet]
      BY <1>3, <2>1, <2>2, <2>5, <2>6
    <3>4. balances' = balances
      BY <2>2, <3>3 DEF balances
    <3> QED BY <2>4, <3>2, <3>4 DEF Accounts
  <2>7. CASE SaveCredit(p)
    <3>1. job[p].at = "SaveCredit" /\ type = "DEPOSIT"
      BY <1>3, <2>7 DEF SaveDebit, SaveCredit
    <3>2. job[p].amount \in Int
      BY <1>1, JobType
    <3>3. ASSUME NEW r \in HoldRefs, job[p].key = PayoutKey(r), job[p].amount > 0
          PROVE  Promise!Pay(r)
      <4>1. r \in closeds /\ r \in DOMAIN holds /\ holds[r].wallet = job[p].wallet
        BY <3>1, <3>3 DEF IInv, JobHolds, JobHold, closeds
      <4>2. r \notin paids
        BY <1>3, <3>3 DEF paids
      <4>3. paids' = paids \cup {r} /\ credits' = credits
        BY <2>3, <3>3, KeyFacts DEF paids, credits
      <4>4. owners[r] = job[p].wallet
        BY <4>1 DEF owners
      <4>5. balances'[job[p].wallet] > balances[job[p].wallet]
        BY <2>1, <2>2, <2>5, <3>1, <3>2, <3>3
      <4> QED BY <2>2, <2>4, <4>1, <4>2, <4>3, <4>4, <4>5
              DEF Promise!Pay, Promise!Moves, balances, owners, closeds, paids, credits
    <3>4. ASSUME NEW c \in CreditRefs, job[p].key = DirectKey(c)
          PROVE  Promise!Credit(c, job[p].wallet)
      <4>1. c \notin credits
        BY <1>3, <3>4 DEF credits
      <4>2. credits' = credits \cup {c} /\ paids' = paids
        BY <2>3, <3>4, KeyFacts DEF paids, credits
      <4> QED BY <2>2, <2>4, <4>1, <4>2
              DEF Promise!Credit, Promise!Moves, balances, owners, closeds, paids, credits
    <3>5. JobKey(p)
      BY <1>1, JobType
    <3> QED BY <2>1, <3>1, <3>3, <3>4, <3>5 DEF JobKey, Promise!Next
  <2> QED BY <1>1, <2>6, <2>7
<1>4. job[p].seen - job[p].amount \in Int /\ job[p].seen + job[p].amount \in Int
  BY <1>1, JobType
<1>5. CASE SaveDebit(p)
  BY <1>2, <1>3, <1>4, <1>5 DEF SaveDebit, InsertEntry
<1>6. CASE SaveCredit(p)
  <2>1. ~SaveDebit(p)
    BY <1>6 DEF SaveDebit, SaveCredit
  <2> QED BY <1>2, <1>3, <1>4, <1>6, <2>1 DEF SaveCredit, InsertEntry
<1> QED BY <1>5, <1>6

\* Each step is a step of the account, or leaves it as it is.
LEMMA StepsAsAccount ==
  ASSUME IInv, [Next]_vars
  PROVE  [Promise!Next]_Accounts
<1>1. HoldsGrow
  BY HoldsGrowNext DEF IInv
<1>2. CASE UNCHANGED <<ledger, holds>>
  BY <1>2, StaysPut
<1>3. ASSUME NEW p \in Workers, SaveHold(p) PROVE [Promise!Next]_Accounts
  <2>1. CASE UNCHANGED holds
    BY <1>3, <2>1, StaysPut DEF SaveHold
  <2>2. CASE ~UNCHANGED holds
    <3>1. PICK r \in HoldRefs, w \in Wallets : r = job[p].key[1] /\ w = job[p].wallet
      BY <1>3, <2>2, Opening
    <3>2. Promise!Open(r, w)
      BY <1>3, <2>2, <3>1, Opening DEF Promise!Open
    <3> QED BY <3>2 DEF Promise!Next
  <2> QED BY <2>1, <2>2
<1>4. ASSUME NEW p \in Workers, SaveSettle(p) PROVE [Promise!Next]_Accounts
  <2>1. ledger' = ledger /\ DOMAIN holds' = DOMAIN holds
    BY <1>4 DEF SaveSettle
  <2> QED BY <1>1, <2>1, Closing DEF Promise!Next
<1>5. CASE TimePasses \/ ReleaseExpired
  <2>1. ledger' = ledger /\ DOMAIN holds' = DOMAIN holds
    BY <1>5 DEF TimePasses, ReleaseExpired
  <2> QED BY <1>1, <2>1, Closing DEF Promise!Next
<1>6. ASSUME NEW p \in Workers, SaveDebit(p) \/ SaveCredit(p) PROVE [Promise!Next]_Accounts
  BY <1>6, Inserting
<1> QED
  BY <1>2, <1>3, <1>4, <1>5, <1>6
     DEF Next, Step, CreateHold, SettleHold, DirectCredit, CheckAvailable, Debit, Credit,
         Abort, vars

\* The wallet service implements the account: whatever overlaps, is retried or
\* fails, a balance moves only by a credit that was not applied before, or by the
\* one payment of a closed hold to the wallet that opened it.
THEOREM ImplementsAccount == Spec => WalletIsAccount
<1>1. IInv /\ [Next]_vars => [Promise!Next]_Accounts
  BY StepsAsAccount
<1>2. Spec => Promise!Init /\ [][Promise!Next]_Accounts
  BY <1>1, IInvInit, IInvNext, StartsAsAccount, PTL DEF Spec
<1> QED BY <1>2, PTL
        DEF WalletIsAccount, Promise!Spec, Accounts, balances, owners, closeds, paids, credits
=============================================================================
