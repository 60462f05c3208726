---------------------------- MODULE RedisProofs -----------------------------
(***************************************************************************)
(* The two services of packages/shared/src/redis.  First Cache, for any    *)
(* number of calls, keys and versions and any lifetimes; then Lock, for    *)
(* every set of clients, lifetime and timeout.                             *)
(*                                                                         *)
(* Both invariants of Cache rest on what a call carries from one await to  *)
(* the next, Carries: a value that is about to be stored is not older than *)
(* the last invalidation of its key, and what a delNamespace has yet to    *)
(* delete is still there and, on the last page, all of it is on that page. *)
(***************************************************************************)
EXTENDS Cache, Lock, TLAPS

Scanning == {"Scan", "DelPage", "Done"}

\* j, with the keys D in the cache and the history f.
Carries(j, D, f) ==
    /\ j \in Job
    /\ j.at = "SetEx" => f[j.key] <= j.value
    /\ j.at \in Scanning => j.old \subseteq Of(j.ns) /\ j.old \subseteq D
    /\ j.at = "DelPage" /\ j.last => j.old \subseteq j.page
    /\ j.at = "Done" => j.old = {}

Data ==
    /\ source \in [Keys -> Version]
    /\ DOMAIN cache \subseteq Keys /\ \A k \in DOMAIN cache : cache[k] \in Entry
    /\ floor \in [Keys -> Version]
    /\ job = [p \in Workers |-> job[p]]

FloorIsPast == \A k \in Keys : floor[k] <= source[k]

IInv ==
    /\ Data
    /\ FloorIsPast
    /\ InvalidationHolds
    /\ \A p \in Workers : Carries(job[p], DOMAIN cache, floor)

-----------------------------------------------------------------------------
(* The operators. *)

LEMMA OfIsKeys == \A ns \in Namespaces : Of(ns) \subseteq Keys
BY DEF Of, Keys

LEMMA IdleCarries == \A D, f : Carries(Idle, D, f)
BY DEF Carries, Idle, Job, Scanning

LEMMA ForgetType ==
    ASSUME NEW j \in Job, NEW K
    PROVE  /\ Forget(j, K) \in Job
           /\ j.at \notin Scanning => Forget(j, K) = j
           /\ j.at \in Scanning => Forget(j, K) = [j EXCEPT !.old = j.old \ K]
<1>1. CASE j \in [at : {"Scan", "Done"}, ns : Namespaces, old : SUBSET Keys]
  BY <1>1 DEF Forget, Job, Scanning
<1>2. CASE j \in [at : {"DelPage"}, ns : Namespaces, old : SUBSET Keys,
                  page : SUBSET Keys, last : BOOLEAN]
  BY <1>2 DEF Forget, Job, Scanning
<1>3. CASE j.at \notin Scanning
  BY <1>3 DEF Forget, Scanning
<1> QED
  BY <1>1, <1>2, <1>3 DEF Job, Scanning

\* Keys that leave the cache leave what is yet to be deleted.
LEMMA ForgetCarries ==
    ASSUME NEW j, NEW D, NEW f, NEW K, Carries(j, D, f)
    PROVE  Carries(Forget(j, K), D \ K, f)
<1>1. j \in Job
  BY DEF Carries
<1>2. CASE j.at \notin Scanning
  BY <1>1, <1>2, ForgetType DEF Carries, Scanning
<1>3. CASE j.at \in Scanning
  <2> DEFINE i == Forget(j, K)
  <2>1. i \in Job /\ i = [j EXCEPT !.old = j.old \ K]
    BY <1>1, <1>3, ForgetType
  <2>2. CASE j \in [at : {"Scan", "Done"}, ns : Namespaces, old : SUBSET Keys]
    <3>1. i.at = j.at /\ i.ns = j.ns /\ i.old = j.old \ K
      BY <2>1, <2>2
    <3> HIDE DEF i
    <3>2. Carries(i, D \ K, f)
      BY <2>1, <2>2, <3>1 DEF Carries, Scanning
    <3> QED
      BY <3>2 DEF i
  <2>3. CASE j \in [at : {"DelPage"}, ns : Namespaces, old : SUBSET Keys,
                    page : SUBSET Keys, last : BOOLEAN]
    <3>1. i.at = j.at /\ i.ns = j.ns /\ i.old = j.old \ K /\ i.page = j.page /\ i.last = j.last
      BY <2>1, <2>3
    <3> HIDE DEF i
    <3>2. Carries(i, D \ K, f)
      BY <2>1, <2>3, <3>1 DEF Carries, Scanning
    <3> QED
      BY <3>2 DEF i
  <2> QED
    BY <1>1, <1>3, <2>2, <2>3 DEF Job, Scanning
<1> QED
  BY <1>2, <1>3

LEMMA MoreKeys ==
    ASSUME NEW j, NEW D, NEW E, NEW f, Carries(j, D, f), D \subseteq E
    PROVE  Carries(j, E, f)
BY DEF Carries

-----------------------------------------------------------------------------
(* The steps. *)

LEMMA InitHolds == Init => IInv
<1> SUFFICES ASSUME Init PROVE IInv
  OBVIOUS
<1>1. Data /\ FloorIsPast /\ InvalidationHolds
  BY CacheAssumption DEF Init, Data, FloorIsPast, InvalidationHolds, Version
<1> QED
  BY <1>1, IdleCarries DEF Init, IInv

\* A step that only moves a call on.
LEMMA BecomeKeeps ==
    ASSUME IInv, NEW p \in Workers, NEW j, Become(p, j), UNCHANGED <<source, cache, floor>>,
           Carries(j, DOMAIN cache, floor)
    PROVE  IInv'
BY DEF IInv, Data, FloorIsPast, InvalidationHolds, Become

LEMMA GetOrSetKeeps == ASSUME IInv, NEW p \in Workers, GetOrSet(p) PROVE IInv'
<1>1. CASE UNCHANGED vars
  BY <1>1 DEF IInv, Data, FloorIsPast, InvalidationHolds, vars
<1>2. ASSUME NEW k \in Keys, Become(p, [at |-> "Factory", key |-> k]), UNCHANGED cache
      PROVE  IInv'
  <2>1. Carries([at |-> "Factory", key |-> k], DOMAIN cache, floor)
    BY DEF Carries, Job, Scanning
  <2> QED
    BY <1>2, <2>1, BecomeKeeps DEF GetOrSet
<1> QED
  BY <1>1, <1>2 DEF GetOrSet, AfterHit, vars

\* What is read from the source is not older than any invalidation.
LEMMA ReadKeeps ==
    ASSUME IInv, NEW p \in Workers, NEW k \in Keys,
           Become(p, [at |-> "SetEx", key |-> k, value |-> source[k]]),
           UNCHANGED <<source, cache, floor>>
    PROVE  IInv'
<1>1. Carries([at |-> "SetEx", key |-> k, value |-> source[k]], DOMAIN cache, floor)
  BY DEF IInv, Data, FloorIsPast, Carries, Job, Scanning
<1> QED
  BY <1>1, BecomeKeeps

LEMMA FactoryKeeps == ASSUME IInv, NEW p \in Workers, Factory(p) PROVE IInv'
<1>1. job[p].key \in Keys
  BY DEF IInv, Carries, Job, Factory
<1> QED
  BY <1>1, ReadKeeps DEF Factory

LEMMA SetKeeps == ASSUME IInv, NEW p \in Workers, Set(p) PROVE IInv'
BY ReadKeeps DEF Set

LEMMA SetExKeeps == ASSUME IInv, NEW p \in Workers, SetEx(p) PROVE IInv'
<1> DEFINE stored == job[p].key
           value  == job[p].value
<1>1. stored \in Keys /\ value \in Version /\ floor[stored] <= value
  BY DEF IInv, Carries, Job, SetEx
<1>2. PICK lifetime \in 1..MaxTTL :
         cache' = [k \in DOMAIN cache \cup {stored} |->
                     IF k = stored THEN [value |-> value, ttl |-> lifetime] ELSE cache[k]]
  BY DEF SetEx, Expiring
<1>3. UNCHANGED <<source, floor>>
  BY DEF SetEx
<1>4. job' = [q \in Workers |-> Forget(IF q = p THEN Idle ELSE job[q], {stored})]
  BY DEF SetEx, BecomeWithout
<1> HIDE DEF stored, value
<1>5. DOMAIN cache' = DOMAIN cache \cup {stored}
  BY <1>2
<1>6. \A k \in DOMAIN cache' : cache'[k] \in Entry /\ cache'[k].value >= floor[k]
  BY <1>1, <1>2 DEF IInv, Data, InvalidationHolds, Entry, Version
<1>7. ASSUME NEW q \in Workers PROVE Carries(job'[q], DOMAIN cache', floor')
  <2>1. Carries(IF q = p THEN Idle ELSE job[q], DOMAIN cache, floor)
    BY IdleCarries DEF IInv
  <2>2. Carries(job'[q], DOMAIN cache \ {stored}, floor)
    BY <1>4, <2>1, ForgetCarries
  <2> QED
    BY <1>3, <1>5, <2>2, MoreKeys
<1> QED
  BY <1>1, <1>3, <1>4, <1>5, <1>6, <1>7 DEF IInv, Data, FloorIsPast, InvalidationHolds

\* Keys are deleted, one of them or a page of them.
LEMMA DeletingKeeps ==
    ASSUME IInv, NEW p \in Workers, NEW K \in SUBSET Keys, NEW j,
           cache' = Without(K), BecomeWithout(p, j, K), Vouch(K), UNCHANGED source,
           Carries(Forget(j, K), DOMAIN cache \ K, floor),
           j.at # "SetEx", Forget(j, K).at # "SetEx"
    PROVE  IInv'
<1>1. DOMAIN cache' = DOMAIN cache \ K /\ \A k \in DOMAIN cache' : cache'[k] = cache[k]
  BY DEF Without
<1>2. ASSUME NEW k \in Keys
      PROVE  /\ floor'[k] \in {source[k], floor[k]}
             /\ k \notin K => floor'[k] = floor[k]
             /\ \A q \in Workers : Holds(q, k) => floor'[k] = floor[k]
  BY DEF Vouch
<1>3. floor' \in [Keys -> Version]
  BY DEF Vouch, IInv, Data
<1>4. FloorIsPast'
  BY <1>2 DEF FloorIsPast, IInv, Data, Version
<1>5. InvalidationHolds'
  BY <1>1, <1>2 DEF InvalidationHolds, IInv, Data
<1>6. ASSUME NEW q \in Workers PROVE Carries(job'[q], DOMAIN cache', floor')
  <2>1. CASE q = p
    <3>1. job'[q] = Forget(j, K)
      BY <2>1 DEF BecomeWithout
    <3> QED
      BY <1>1, <3>1 DEF Carries
  <2>2. CASE q # p
    <3>1. job'[q] = Forget(job[q], K) /\ Carries(job[q], DOMAIN cache, floor) /\ job[q] \in Job
      BY <2>2 DEF BecomeWithout, IInv, Carries
    <3>2. Carries(job'[q], DOMAIN cache', floor)
      BY <1>1, <3>1, ForgetCarries
    <3>3. job'[q].at = "SetEx" => job'[q] = job[q] /\ Holds(q, job[q].key) /\ job[q].key \in Keys
      <4>1. CASE job[q].at \in Scanning
        <5>1. job'[q] = [job[q] EXCEPT !.old = job[q].old \ K]
          BY <3>1, <4>1, ForgetType
        <5>2. job'[q].at = job[q].at
          BY <3>1, <4>1, <5>1 DEF Job, Scanning
        <5> QED
          BY <4>1, <5>2 DEF Scanning
      <4>2. CASE job[q].at \notin Scanning
        <5>1. job'[q] = job[q]
          BY <3>1, <4>2, ForgetType
        <5> QED
          BY <3>1, <5>1 DEF Holds, Job
      <4> QED
        BY <4>1, <4>2
    <3> QED
      BY <1>2, <3>2, <3>3 DEF Carries
  <2> QED
    BY <2>1, <2>2
<1>7. Data'
  BY <1>1, <1>3 DEF Data, IInv, BecomeWithout
<1> QED
  BY <1>4, <1>5, <1>6, <1>7 DEF IInv

LEMMA DelKeeps == ASSUME IInv, NEW p \in Workers, Del(p) PROVE IInv'
<1>1. PICK k \in Keys : cache' = Without({k}) /\ BecomeWithout(p, Idle, {k}) /\ Vouch({k})
  BY DEF Del, Deleted
<1>2. Forget(Idle, {k}) = Idle /\ Idle.at = "Idle"
  BY DEF Forget, Idle
<1>3. Carries(Forget(Idle, {k}), DOMAIN cache \ {k}, floor)
  BY <1>2, IdleCarries
<1>4. UNCHANGED source /\ {k} \in SUBSET Keys
  BY DEF Del
<1>5. Idle.at # "SetEx" /\ Forget(Idle, {k}).at # "SetEx"
  BY <1>2
<1> QED
  BY <1>1, <1>3, <1>4, <1>5, DeletingKeeps

LEMMA DelNamespaceKeeps == ASSUME IInv, NEW p \in Workers, DelNamespace(p) PROVE IInv'
<1>1. PICK ns \in Namespaces :
         Become(p, [at |-> "Scan", ns |-> ns, old |-> Of(ns) \cap DOMAIN cache])
  BY DEF DelNamespace
<1>2. Carries([at |-> "Scan", ns |-> ns, old |-> Of(ns) \cap DOMAIN cache], DOMAIN cache, floor)
  BY OfIsKeys DEF Carries, Job, Scanning
<1> QED
  BY <1>1, <1>2, BecomeKeeps DEF DelNamespace

LEMMA ScanKeeps == ASSUME IInv, NEW p \in Workers, Scan(p) PROVE IInv'
<1>1. /\ job[p] \in [at : {"Scan", "Done"}, ns : Namespaces, old : SUBSET Keys]
      /\ Carries(job[p], DOMAIN cache, floor) /\ job[p].at = "Scan"
      /\ job[p].old \subseteq Of(job[p].ns) /\ job[p].old \subseteq DOMAIN cache
  BY DEF IInv, Carries, Job, Scan, Scanning
<1>2. PICK page \in SUBSET (Of(job[p].ns) \cap DOMAIN cache), last \in BOOLEAN :
         /\ last => job[p].old \subseteq page
         /\ Become(p, IF page # {} THEN [at |-> "DelPage", ns |-> job[p].ns, old |-> job[p].old,
                                         page |-> page, last |-> last]
                      ELSE IF last
                      THEN [at |-> "Done", ns |-> job[p].ns, old |-> job[p].old]
                      ELSE job[p])
  BY DEF Scan, EndsLoop
<1>3. CASE page # {}
  <2>1. page \in SUBSET Keys
    BY <1>1, OfIsKeys
  <2>2. Carries([at |-> "DelPage", ns |-> job[p].ns, old |-> job[p].old,
                 page |-> page, last |-> last], DOMAIN cache, floor)
    BY <1>1, <1>2, <2>1 DEF Carries, Job, Scanning
  <2> QED
    BY <1>2, <1>3, <2>2, BecomeKeeps DEF Scan
<1>4. CASE page = {} /\ last
  <2>1. Carries([at |-> "Done", ns |-> job[p].ns, old |-> job[p].old], DOMAIN cache, floor)
    BY <1>1, <1>2, <1>4 DEF Carries, Job, Scanning
  <2> QED
    BY <1>2, <1>4, <2>1, BecomeKeeps DEF Scan
<1>5. CASE page = {} /\ ~last
  BY <1>1, <1>2, <1>5, BecomeKeeps DEF Scan
<1> QED
  BY <1>3, <1>4, <1>5

LEMMA DelPageKeeps == ASSUME IInv, NEW p \in Workers, DelPage(p) PROVE IInv'
<1> DEFINE j    == job[p]
           next == [at  |-> IF j.last THEN "Done" ELSE "Scan", ns |-> j.ns, old |-> j.old]
<1>1. /\ j \in [at : {"DelPage"}, ns : Namespaces, old : SUBSET Keys,
                page : SUBSET Keys, last : BOOLEAN]
      /\ j.old \subseteq Of(j.ns) /\ j.old \subseteq DOMAIN cache
      /\ j.last => j.old \subseteq j.page
  BY DEF IInv, Carries, Job, DelPage, Scanning
<1>2. cache' = Without(j.page) /\ BecomeWithout(p, next, j.page) /\ Vouch(j.page)
  BY DEF DelPage, EndsLoop
<1>3. Forget(next, j.page) = [at  |-> IF j.last THEN "Done" ELSE "Scan",
                              ns  |-> j.ns, old |-> j.old \ j.page]
  BY DEF Forget
<1>4. Carries(Forget(next, j.page), DOMAIN cache \ j.page, floor)
  BY <1>1, <1>3 DEF Carries, Job, Scanning
<1>5. next.at # "SetEx" /\ Forget(next, j.page).at # "SetEx"
  BY <1>3
<1>6. UNCHANGED source /\ j.page \in SUBSET Keys
  BY <1>1 DEF DelPage
<1> HIDE DEF next, j
<1> QED
  BY <1>2, <1>4, <1>5, <1>6, DeletingKeeps

LEMMA TickKeeps == ASSUME IInv, Tick PROVE IInv'
<1> DEFINE expired == {k \in DOMAIN cache : cache[k].ttl <= 1}
<1>1. /\ cache' = [k \in DOMAIN cache \ expired |-> [cache[k] EXCEPT !.ttl = @ - 1]]
      /\ job' = [q \in Workers |-> Forget(job[q], expired)]
      /\ UNCHANGED <<source, floor>>
  BY DEF Tick
<1>2. DOMAIN cache' = DOMAIN cache \ expired
  BY <1>1
<1>3. ASSUME NEW k \in DOMAIN cache'
      PROVE  cache'[k] \in Entry /\ cache'[k].value = cache[k].value
  <2>1. cache[k] \in Entry /\ ~(cache[k].ttl <= 1)
    BY <1>2 DEF IInv, Data
  <2>2. cache'[k] = [cache[k] EXCEPT !.ttl = cache[k].ttl - 1]
    BY <1>1, <1>2
  <2>3. cache[k].ttl - 1 \in 1..MaxTTL
    BY <2>1, CacheAssumption DEF Entry
  <2> QED
    BY <2>1, <2>2, <2>3 DEF Entry
<1>4. ASSUME NEW q \in Workers PROVE Carries(job'[q], DOMAIN cache', floor')
  BY <1>1, <1>2, ForgetCarries DEF IInv
<1>5. Data' /\ FloorIsPast'
  BY <1>1, <1>2, <1>3 DEF IInv, Data, FloorIsPast
<1>6. InvalidationHolds'
  BY <1>1, <1>2, <1>3 DEF IInv, InvalidationHolds
<1> QED
  BY <1>4, <1>5, <1>6 DEF IInv

LEMMA ChangeKeeps == ASSUME IInv, Change PROVE IInv'
<1>1. PICK k \in Keys : source[k] < MaxVersion /\ source' = [source EXCEPT ![k] = source[k] + 1]
  BY DEF Change
<1>2. source' \in [Keys -> Version] /\ \A i \in Keys : source[i] <= source'[i]
  BY <1>1, CacheAssumption DEF IInv, Data, Version
<1> QED
  BY <1>2 DEF IInv, Data, FloorIsPast, InvalidationHolds, Change, Version

LEMMA ReturnKeeps == ASSUME IInv, NEW p \in Workers, Return(p) \/ Abort(p) PROVE IInv'
BY IdleCarries, BecomeKeeps DEF Return, Abort

LEMMA NextKeeps == IInv /\ [Next]_vars => IInv'
<1> SUFFICES ASSUME IInv, [Next]_vars PROVE IInv'
  OBVIOUS
<1>1. CASE UNCHANGED vars
  BY <1>1 DEF IInv, Data, FloorIsPast, InvalidationHolds, vars
<1>2. ASSUME NEW p \in Workers,
             GetOrSet(p) \/ Set(p) \/ Del(p) \/ DelNamespace(p) \/ Step(p) \/ Abort(p)
      PROVE  IInv'
  BY <1>2, GetOrSetKeeps, SetKeeps, DelKeeps, DelNamespaceKeeps, FactoryKeeps, SetExKeeps,
     ScanKeeps, DelPageKeeps, ReturnKeeps DEF Step
<1> QED
  BY <1>1, <1>2, TickKeeps, ChangeKeeps DEF Next

-----------------------------------------------------------------------------
(* The theorems. *)

LEMMA Inductive == Spec => []IInv
BY InitHolds, NextKeeps, PTL DEF Spec

\* The entries of the cache and what each call holds have their types.
THEOREM TypeCorrect == Spec => []TypeOK
<1>1. IInv => TypeOK
  BY DEF IInv, Data, Carries, TypeOK
<1> QED
  BY <1>1, Inductive, PTL

\* When delNamespace returns, nothing that it found is left.
THEOREM DelNamespaceClears == Spec => []NamespaceIsCleared
<1>1. IInv => NamespaceIsCleared
  BY DEF IInv, Carries, NamespaceIsCleared
<1> QED
  BY <1>1, Inductive, PTL

\* No entry is older than the last invalidation that no reader overlapped.
THEOREM InvalidationIsKept == Spec => []InvalidationHolds
<1>1. IInv => InvalidationHolds
  BY DEF IInv
<1> QED
  BY <1>1, Inductive, PTL

-----------------------------------------------------------------------------
(* The lock.                                                               *)

\* Type correctness of the key, its lifetime and the calls.
THEOREM LockTypeCorrect == LockSpec => []LockTypeOK
<1>1. LockInit => LockTypeOK
  BY LockAssumption DEF LockInit, LockTypeOK, Places
<1>2. LockTypeOK /\ [LockNext]_lockVars => LockTypeOK'
  <2> SUFFICES ASSUME LockTypeOK, [LockNext]_lockVars PROVE LockTypeOK'
    OBVIOUS
  <2> USE LockAssumption DEF LockTypeOK, Places
  <2>1. ASSUME NEW c \in Clients, WithLock(c) PROVE LockTypeOK'
    BY <2>1 DEF WithLock
  <2>2. ASSUME NEW c \in Clients, SetNX(c) PROVE LockTypeOK'
    BY <2>2 DEF SetNX, Take
  <2>3. ASSUME NEW c \in Clients, SetNXTwice(c) PROVE LockTypeOK'
    BY <2>3 DEF SetNXTwice, Take
  <2>4. ASSUME NEW c \in Clients, Poll(c) PROVE LockTypeOK'
    BY <2>4 DEF Poll, EndCall
  <2>5. ASSUME NEW c \in Clients, Enter(c) \/ Leave(c) PROVE LockTypeOK'
    BY <2>5 DEF Enter, Leave
  <2>6. ASSUME NEW c \in Clients, Release(c) PROVE LockTypeOK'
    BY <2>6 DEF Release
  <2>7. ASSUME NEW c \in Clients, AbortCall(c) PROVE LockTypeOK'
    BY <2>7 DEF AbortCall, EndCall
  <2>8. CASE LockTick
    BY <2>8 DEF LockTick
  <2>9. CASE UNCHANGED lockVars
    BY <2>9 DEF lockVars
  <2> QED BY <2>1, <2>2, <2>3, <2>4, <2>5, <2>6, <2>7, <2>8, <2>9 DEF LockNext
<1> QED BY <1>1, <1>2, PTL DEF LockSpec

(***************************************************************************)
(* The key tells who is inside a lease: a call that has the lock and whose *)
(* age is below TTL still finds its own token, because the lifetime of the *)
(* key and the age of the call add up to TTL.                              *)
(***************************************************************************)
KeyIsLive == \A c \in Clients : key = c => ttl + age[c] = TTL /\ ttl > 0

HolderHasKey == \A c \in Clients : at[c] \in Holding /\ age[c] < TTL => key = c

LeaseInv == LockTypeOK /\ KeyIsLive /\ HolderHasKey

LEMMA LeaseInvNext == LeaseInv /\ LockTypeOK' /\ [LockNext]_lockVars => LeaseInv'
<1> SUFFICES ASSUME LeaseInv, LockTypeOK', [LockNext]_lockVars PROVE KeyIsLive' /\ HolderHasKey'
  BY DEF LeaseInv
<1> USE LockAssumption DEF LeaseInv, LockTypeOK, KeyIsLive, HolderHasKey, Holding, Places
<1>1. ASSUME NEW c \in Clients, WithLock(c) PROVE KeyIsLive' /\ HolderHasKey'
  BY <1>1 DEF WithLock
<1>2. ASSUME NEW c \in Clients, SetNX(c) PROVE KeyIsLive' /\ HolderHasKey'
  BY <1>2 DEF SetNX, Take
<1>3. ASSUME NEW c \in Clients, SetNXTwice(c) PROVE KeyIsLive' /\ HolderHasKey'
  BY <1>3 DEF SetNXTwice, Take
<1>4. ASSUME NEW c \in Clients, Poll(c) PROVE KeyIsLive' /\ HolderHasKey'
  BY <1>4 DEF Poll, EndCall
<1>5. ASSUME NEW c \in Clients, Enter(c) \/ Leave(c) PROVE KeyIsLive' /\ HolderHasKey'
  BY <1>5 DEF Enter, Leave
<1>6. ASSUME NEW c \in Clients, Release(c) PROVE KeyIsLive' /\ HolderHasKey'
  BY <1>6 DEF Release
<1>7. ASSUME NEW c \in Clients, AbortCall(c) PROVE KeyIsLive' /\ HolderHasKey'
  BY <1>7 DEF AbortCall, EndCall
<1>8. CASE LockTick
  BY <1>8 DEF LockTick
<1>9. CASE UNCHANGED lockVars
  BY <1>9 DEF lockVars
<1> QED BY <1>1, <1>2, <1>3, <1>4, <1>5, <1>6, <1>7, <1>8, <1>9 DEF LockNext

\* Two clients are never both inside their lease.
THEOREM LeaseIsExclusive == LockSpec => []ExclusiveWithinLease
<1>1. LockInit => LeaseInv
  <2> SUFFICES ASSUME LockInit PROVE LeaseInv
    OBVIOUS
  <2> QED BY LockAssumption DEF LockInit, LeaseInv, LockTypeOK, Places, KeyIsLive, HolderHasKey, Holding
<1>2. LeaseInv => ExclusiveWithinLease
  BY DEF LeaseInv, HolderHasKey, ExclusiveWithinLease, InLease, Holding
<1> QED BY <1>1, <1>2, LeaseInvNext, LockTypeCorrect, PTL DEF LockSpec
=============================================================================
