-------------------------------- MODULE Lock --------------------------------
(***************************************************************************)
(* LockService of packages/shared: one resource, locked with SET NX PX in  *)
(* a single Redis and released by a script that compares the token.        *)
(*                                                                         *)
(* A client is a caller of withLock.  Commands to Redis take time: a       *)
(* command takes effect at one step and its caller goes on at a later one. *)
(* Time passes in ticks, and every duration is counted down in ticks.      *)
(*                                                                         *)
(* The names that a specification always has are prefixed, so that this    *)
(* module and Cache, the other half of the package, can be extended        *)
(* together (RedisProofs).                                                 *)
(***************************************************************************)
EXTENDS Integers

CONSTANTS
    Clients,
    TTL,       \* ttlMs, in ticks
    Timeout,   \* timeoutMs, in ticks
    Free,      \* the key does not exist
    Orphan     \* the key holds the token of a call that is over

ASSUME LockAssumption ==
    /\ TTL \in Nat \ {0}
    /\ Timeout \in Nat \ {0}
    /\ Free \notin Clients /\ Orphan \notin Clients /\ Free # Orphan

VARIABLES
    key,    \* the value of lock:{resource}: each call has a token of its own,
            \* written here as the client that makes the call
    ttl,    \* ticks left until Redis expires the key
    at,     \* where each call is
    wait,   \* ticks left until the deadline of acquire
    age     \* ticks since the call's SET took effect (at most TTL); a ghost,
            \* nothing in the code reads it

lockVars == <<key, ttl, at, wait, age>>

\* "try": SET sent.  "nap": refused, sleeping retryDelayMs.  "won": accepted,
\* the reply is on its way.  "critical": fn runs.  "release": script sent.
Places  == {"idle", "try", "nap", "won", "critical", "release"}
Holding == {"won", "critical", "release"}

-----------------------------------------------------------------------------

LockInit ==
    /\ key  = Free
    /\ ttl  = 0
    /\ at   = [c \in Clients |-> "idle"]
    /\ wait = [c \in Clients |-> 0]
    /\ age  = [c \in Clients |-> 0]

\* The call ends without deleting the key; its token is never used again.
EndCall(c) ==
    /\ key' = IF key = c THEN Orphan ELSE key
    /\ at'  = [at EXCEPT ![c] = "idle"]

\* withLock draws a token and enters the loop of acquire.
WithLock(c) ==
    /\ at[c] = "idle"
    /\ at'   = [at EXCEPT ![c] = "try"]
    /\ wait' = [wait EXCEPT ![c] = Timeout]
    /\ UNCHANGED <<key, ttl, age>>

Take(c) ==
    /\ key' = c
    /\ ttl' = TTL
    /\ age' = [age EXCEPT ![c] = 0]

\* Mutant: SET with a lifetime that is one tick longer.
SetNXLonger(c) ==
    /\ at[c] = "try" /\ key = Free
    /\ key' = c /\ ttl' = TTL + 1
    /\ age' = [age EXCEPT ![c] = 0]
    /\ at' = [at EXCEPT ![c] = "won"]
    /\ UNCHANGED wait

\* SET key token PX ttl NX takes effect.
SetNX(c) ==
    /\ at[c] = "try"
    /\ \/ /\ key = Free
          /\ Take(c)
          /\ at' = [at EXCEPT ![c] = "won"]
       \/ /\ key # Free
          /\ at' = [at EXCEPT ![c] = "nap"]
          /\ UNCHANGED <<key, ttl, age>>
    /\ UNCHANGED wait

\* SET takes effect but its reply is lost with the connection.  ioredis sends
\* it again, and the second one finds the key that the first one wrote.
SetNXTwice(c) ==
    /\ at[c] = "try"
    /\ key = Free
    /\ Take(c)
    /\ at' = [at EXCEPT ![c] = "nap"]
    /\ UNCHANGED wait

\* Mutant of the loop: the deadline is not looked at again.
PollForever(c) ==
    /\ at[c] = "nap"
    /\ at' = [at EXCEPT ![c] = "try"]
    /\ UNCHANGED <<key, ttl, wait, age>>

\* The sleep is over: another attempt, or the deadline has passed.
Poll(c) ==
    /\ at[c] = "nap"
    /\ \/ /\ wait[c] > 0
          /\ at' = [at EXCEPT ![c] = "try"]
          /\ UNCHANGED key
       \/ /\ wait[c] = 0
          /\ EndCall(c)
    /\ UNCHANGED <<ttl, wait, age>>

\* The reply 'OK' arrives and fn starts.
Enter(c) ==
    /\ at[c] = "won"
    /\ at' = [at EXCEPT ![c] = "critical"]
    /\ UNCHANGED <<key, ttl, wait, age>>

\* fn returns or throws; finally sends the script.
Leave(c) ==
    /\ at[c] = "critical"
    /\ at' = [at EXCEPT ![c] = "release"]
    /\ UNCHANGED <<key, ttl, wait, age>>

\* Mutant: DEL without the comparison of the token.
DeleteAny(c) ==
    /\ at[c] = "release"
    /\ key' = Free
    /\ ttl' = 0
    /\ at'  = [at EXCEPT ![c] = "idle"]
    /\ UNCHANGED <<wait, age>>

\* The script compares the token and deletes the key, in one step.
Release(c) ==
    /\ at[c] = "release"
    /\ key' = IF key = c THEN Free ELSE key
    /\ ttl' = IF key = c THEN 0 ELSE ttl
    /\ at'  = [at EXCEPT ![c] = "idle"]
    /\ UNCHANGED <<wait, age>>

\* The process dies, or a command fails for good: the call is over.
AbortCall(c) ==
    /\ at[c] # "idle"
    /\ EndCall(c)
    /\ UNCHANGED <<ttl, wait, age>>

\* Mutant: SET without PX, the key has no lifetime.
TickForever ==
    /\ wait' = [c \in Clients |-> IF wait[c] > 0 THEN wait[c] - 1 ELSE 0]
    /\ age'  = [c \in Clients |-> IF age[c] < TTL THEN age[c] + 1 ELSE TTL]
    /\ UNCHANGED <<key, ttl, at>>

\* A tick passes, and Redis drops the key at the end of its lifetime.
LockTick ==
    /\ wait' = [c \in Clients |-> IF wait[c] > 0 THEN wait[c] - 1 ELSE 0]
    /\ age'  = [c \in Clients |-> IF age[c] < TTL THEN age[c] + 1 ELSE TTL]
    /\ ttl'  = IF ttl > 0 THEN ttl - 1 ELSE 0
    /\ key'  = IF ttl = 1 THEN Free ELSE key
    /\ UNCHANGED at

LockNext ==
    \/ \E c \in Clients :
         \/ WithLock(c) \/ SetNX(c) \/ SetNXTwice(c) \/ Poll(c)
         \/ Enter(c) \/ Leave(c) \/ Release(c) \/ AbortCall(c)
    \/ LockTick

LockSpec == LockInit /\ [][LockNext]_lockVars

\* Time passes, Redis answers and timers fire.  Nothing obliges a client to
\* call, fn to return or a failure to happen.
LockFairness ==
    /\ WF_lockVars(LockTick)
    /\ \A c \in Clients : WF_lockVars(SetNX(c) \/ SetNXTwice(c) \/ Poll(c) \/ Enter(c) \/ Release(c))

LockFairSpec == LockSpec /\ LockFairness

-----------------------------------------------------------------------------
(* Properties. *)

LockTypeOK ==
    /\ key \in Clients \cup {Free, Orphan}
    /\ ttl \in 0..TTL
    /\ at \in [Clients -> Places]
    /\ wait \in [Clients -> 0..Timeout]
    /\ age \in [Clients -> 0..TTL]

\* A client that runs fn before TTL ticks have passed since its SET.
InLease(c) == at[c] = "critical" /\ age[c] < TTL

\* The lock does its work as long as fn is faster than the lifetime of the
\* key: two clients are never both inside their lease, whatever slow client
\* releases late, crashes or has its SET sent twice.
ExclusiveWithinLease ==
    \A c, d \in Clients : InLease(c) /\ InLease(d) => c = d

\* The loop of acquire ends: with the lock or with the exception.
AcquireEnds ==
    \A c \in Clients : at[c] \in {"try", "nap"} ~> at[c] \notin {"try", "nap"}

\* No crash, lost reply or endless fn holds the lock for ever.
LockIsNotLeaked ==
    \A h \in Clients \cup {Orphan} : key = h ~> key # h

\* lock.service.ts:14: "critical section - guaranteed single execution".
MutualExclusion ==
    \A c, d \in Clients : at[c] = "critical" /\ at[d] = "critical" => c = d
=============================================================================
