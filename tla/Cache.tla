-------------------------------- MODULE Cache --------------------------------
(***************************************************************************)
(* CacheService (packages/shared/src/redis/cache.service.ts): values kept  *)
(* in Redis beside the source they were read from.                         *)
(*                                                                         *)
(* A worker is one call in flight; other calls, of this process and of     *)
(* others, run at each of its awaits.  What factory() reads is "source";   *)
(* a value is the version of the source it was read from.  A command of    *)
(* Redis is atomic, and a SCAN is many commands: it returns each key that  *)
(* is there from its beginning to its end, and may return any other key,   *)
(* any key twice and empty pages.                                          *)
(***************************************************************************)
EXTENDS Integers

CONSTANTS
    Workers,      \* calls that can be in flight at the same time
    Namespaces,   \* namespaces of keys, none a prefix of another up to a colon
    Names,        \* keys within a namespace
    MaxTTL,       \* bound on ttlSeconds
    MaxVersion    \* bound on the changes of the source of a key

ASSUME CacheAssumption == MaxTTL \in Nat \ {0} /\ MaxVersion \in Nat

VARIABLES
    source,   \* the version of what each key stands for
    cache,    \* entries by key
    job,      \* what each worker is doing
    floor     \* history: the version at the last invalidation of a key that no
              \* call overlapped which had already read the source

vars == <<source, cache, job, floor>>

buildKey(ns, name) == <<ns, name>>

Keys == {buildKey(ns, name) : ns \in Namespaces, name \in Names}
Of(ns) == {buildKey(ns, name) : name \in Names}

Version == 0..MaxVersion
Entry   == [value : Version, ttl : 1..MaxTTL]

\* "old" is what a delNamespace is there for: the keys of its namespace that
\* have been in the cache since it began and have not been stored again.
Job == [at : {"Factory"}, key : Keys]
         \cup [at : {"SetEx"}, key : Keys, value : Version]
         \cup [at : {"Scan", "Done"}, ns : Namespaces, old : SUBSET Keys]
         \cup [at : {"DelPage"}, ns : Namespaces, old : SUBSET Keys,
               page : SUBSET Keys, last : BOOLEAN]
         \cup [at : {"Idle"}]

Idle == [at |-> "Idle"]

Init ==
    /\ source = [k \in Keys |-> 0]
    /\ cache  = [k \in {} |-> 0]
    /\ job    = [p \in Workers |-> Idle]
    /\ floor  = [k \in Keys |-> 0]

-----------------------------------------------------------------------------

Become(p, j) == job' = [job EXCEPT ![p] = j]

\* p goes on with j, and the keys K are no longer what they were.
Forget(j, K) == IF j.at \in {"Scan", "DelPage", "Done"} THEN [j EXCEPT !.old = @ \ K] ELSE j

BecomeWithout(p, j, K) ==
    job' = [q \in Workers |-> Forget(IF q = p THEN j ELSE job[q], K)]

Without(K) == [k \in DOMAIN cache \ K |-> cache[k]]

\* A call that has read the source of k and has not yet stored what it read.
Holds(q, k) == job[q].at = "SetEx" /\ job[q].key = k

\* The keys K are invalidated now.
Vouch(K) == floor' = [k \in Keys |-> IF k \in K /\ \A q \in Workers : ~Holds(q, k)
                                     THEN source[k] ELSE floor[k]]

(* getOrSet, set *)

\* A hit is returned as it is.
Sliding(k) == [cache EXCEPT ![k].ttl = MaxTTL]    \* mutant: each hit extends the life
AfterHit(k) == cache

GetOrSet(p) ==
    /\ job[p] = Idle
    /\ \E k \in Keys :
         \/ /\ k \in DOMAIN cache
            /\ cache' = AfterHit(k)
            /\ UNCHANGED job
         \/ /\ k \notin DOMAIN cache
            /\ Become(p, [at |-> "Factory", key |-> k])
            /\ UNCHANGED cache
    /\ UNCHANGED <<source, floor>>

Factory(p) ==
    /\ job[p].at = "Factory"
    /\ Become(p, [at |-> "SetEx", key |-> job[p].key, value |-> source[job[p].key]])
    /\ UNCHANGED <<source, cache, floor>>

\* The caller of set has the value from the same source.
Set(p) ==
    /\ job[p] = Idle
    /\ \E k \in Keys : Become(p, [at |-> "SetEx", key |-> k, value |-> source[k]])
    /\ UNCHANGED <<source, cache, floor>>

Forever(value, ttl)  == [value |-> value, ttl |-> 0]    \* mutant: SET instead of SETEX
Expiring(value, ttl) == [value |-> value, ttl |-> ttl]

SetEx(p) ==
    /\ job[p].at = "SetEx"
    /\ LET key == job[p].key IN
         /\ \E ttl \in 1..MaxTTL :
              cache' = [k \in DOMAIN cache \cup {key} |->
                          IF k = key THEN Expiring(job[p].value, ttl) ELSE cache[k]]
         /\ BecomeWithout(p, Idle, {key})
    /\ UNCHANGED <<source, floor>>

(* del, delNamespace *)

BareDeleted(k) == cache    \* mutant: the key is sent without its prefix
Deleted(k)     == Without({k})

Del(p) ==
    /\ job[p] = Idle
    /\ \E k \in Keys :
         /\ cache' = Deleted(k)
         /\ BecomeWithout(p, Idle, {k})
         /\ Vouch({k})
    /\ UNCHANGED source

DelNamespace(p) ==
    /\ job[p] = Idle
    /\ \E ns \in Namespaces :
         Become(p, [at |-> "Scan", ns |-> ns, old |-> Of(ns) \cap DOMAIN cache])
    /\ UNCHANGED <<source, cache, floor>>

\* The loop goes on until the cursor is 0 again.
UntilEmpty(page, last) == page = {}    \* mutant: until a page has no keys
EndsLoop(page, last)   == last

Scan(p) ==
    /\ job[p].at = "Scan"
    /\ LET j == job[p] IN
         \E page \in SUBSET (Of(j.ns) \cap DOMAIN cache), last \in BOOLEAN :
            /\ last => j.old \subseteq page
            /\ Become(p, IF page # {} THEN [at |-> "DelPage", ns |-> j.ns, old |-> j.old,
                                            page |-> page, last |-> last]
                         ELSE IF EndsLoop(page, last)
                         THEN [at |-> "Done", ns |-> j.ns, old |-> j.old]
                         ELSE j)
    /\ UNCHANGED <<source, cache, floor>>

DelPage(p) ==
    /\ job[p].at = "DelPage"
    /\ LET j == job[p] IN
         /\ cache' = Without(j.page)
         /\ BecomeWithout(p, [at  |-> IF EndsLoop(j.page, j.last) THEN "Done" ELSE "Scan",
                              ns  |-> j.ns, old |-> j.old], j.page)
         /\ Vouch(j.page)
    /\ UNCHANGED source

\* delNamespace returns.
Return(p) ==
    /\ job[p].at = "Done"
    /\ Become(p, Idle)
    /\ UNCHANGED <<source, cache, floor>>

(* Not calls. *)

\* A second passes, and Redis drops what has expired.
Tick ==
    /\ DOMAIN cache # {}
    /\ LET expired == {k \in DOMAIN cache : cache[k].ttl <= 1} IN
         /\ cache' = [k \in DOMAIN cache \ expired |-> [cache[k] EXCEPT !.ttl = @ - 1]]
         /\ job' = [q \in Workers |-> Forget(job[q], expired)]
    /\ UNCHANGED <<source, floor>>

\* What a key stands for is changed by whoever owns it.
Change ==
    /\ \E k \in Keys : source[k] < MaxVersion /\ source' = [source EXCEPT ![k] = @ + 1]
    /\ UNCHANGED <<cache, job, floor>>

\* factory() throws, a command fails, or the process dies.
Abort(p) ==
    /\ job[p] # Idle
    /\ Become(p, Idle)
    /\ UNCHANGED <<source, cache, floor>>

Step(p) == Factory(p) \/ SetEx(p) \/ Scan(p) \/ DelPage(p) \/ Return(p)

Next ==
    \/ \E p \in Workers :
         GetOrSet(p) \/ Set(p) \/ Del(p) \/ DelNamespace(p) \/ Step(p) \/ Abort(p)
    \/ Tick
    \/ Change

Spec == Init /\ [][Next]_vars

\* Calls that have begun are carried on with, and time passes.
FairSpec == Spec /\ WF_vars(Tick) /\ \A p \in Workers : WF_vars(Step(p))

-----------------------------------------------------------------------------
(* Properties. *)

TypeOK ==
    /\ source \in [Keys -> Version]
    /\ DOMAIN cache \subseteq Keys /\ \A k \in DOMAIN cache : cache[k] \in Entry
    /\ job \in [Workers -> Job]
    /\ floor \in [Keys -> Version]

\* When delNamespace returns, nothing that was in the namespace when it began is
\* left, although calls store, delete and expire keys while its cursor moves.
NamespaceIsCleared ==
    \A p \in Workers : job[p].at = "Done" => job[p].old = {}

\* An invalidation is lost only to a call that had read the source and not yet
\* stored it: where there is none, nothing older than the source at that moment
\* is ever in the cache again, whichever calls missed before and store later.
InvalidationHolds == \A k \in DOMAIN cache : cache[k].value >= floor[k]

\* Once the source stands still, the cache comes to agree with it for good, even
\* where an invalidation was lost or never sent: hits do not prolong an entry.
EventuallyFresh == <>[](\A k \in DOMAIN cache : cache[k].value = source[k])
==============================================================================
