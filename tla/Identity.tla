------------------------------ MODULE Identity ------------------------------
(***************************************************************************)
(* AuthService and UsersService of apps/identity-api, with                 *)
(* RefreshTokenService of packages/auth.                                   *)
(*                                                                         *)
(* Users are rows in PostgreSQL, sessions are keys in Redis, one for each  *)
(* refresh token.  A worker is one request in flight; others overtake it   *)
(* at each of its awaits.  A request that is refused changes nothing and   *)
(* is no step.  The JWT and the password are left out: every caller knows  *)
(* its password and is who it says.                                        *)
(***************************************************************************)
EXTENDS Integers, FiniteSets

CONSTANTS
    Workers,
    Users,       \* user ids
    Names,       \* emails, and usernames
    MaxTokens    \* token ids that are drawn: a bound on the requests that begin

ASSUME IdentityAssumption == MaxTokens \in Nat /\ IsFiniteSet(Workers)

VARIABLES
    users,      \* rows of users by id
    sessions,   \* keys session:<user>:<token> in Redis
    held,       \* the refresh tokens that clients were given
    drawn,      \* how many token ids were drawn; each is new
    mark,       \* what was so when a user was last deactivated; a ghost
    job         \* what each worker is doing

vars == <<users, sessions, held, drawn, mark, job>>

Unique == {"email", "username"}

User == [email : Names, username : Names, isActive : BOOLEAN]

Token == [user : Users, id : Nat \ {0}]

RegisterDto == [email : Names, username : Names]

\* What a PATCH may hold: some of the columns.
UpdateUserDto ==
    {dto \in UNION {[S -> Names \cup BOOLEAN] : S \in SUBSET (Unique \cup {"isActive"})} :
        \A c \in DOMAIN dto : dto[c] \in (IF c = "isActive" THEN BOOLEAN ELSE Names)}

Idle == [at |-> "Idle"]

\* The last id drawn before u was deactivated, and how many sessions the
\* requests in flight could create then that had looked at isActive before.
Mark     == [drawn : Nat, due : Nat]
Unmarked == [drawn |-> 0, due |-> 0]

-----------------------------------------------------------------------------

Init ==
    /\ users    = [u \in {} |-> 0]
    /\ sessions = {}
    /\ held     = {}
    /\ drawn    = 0
    /\ mark     = [u \in Users |-> Unmarked]
    /\ job      = [p \in Workers |-> Idle]

Become(p, j) == job' = [job EXCEPT ![p] = j]

\* A row other than u's has one of the given values in a unique column.
Taken(u, row) ==
    \E v \in DOMAIN users \ {u}, c \in Unique \cap DOMAIN row : users[v][c] = row[c]

Put(rows, id, row) == [i \in DOMAIN rows \cup {id} |-> IF i = id THEN row ELSE rows[i]]

\* The requests in flight that have a token id to draw; a refresh has two.
Drawing == {p \in Workers : job[p].at \in
              {"InsertUser", "CreateSession", "FindUser", "DelOld", "CreateNew"}}

\* A request may begin that draws n ids, and can then draw them all.
Room(n) ==
    drawn + n + Cardinality(Drawing)
      + Cardinality({p \in Drawing : job[p].at \in {"FindUser", "DelOld", "CreateNew"}})
        <= MaxTokens

(* register *)

\* users.create finds neither the email nor the username, and hashes.
Register(p) ==
    /\ job[p] = Idle /\ Room(1)
    /\ \E u \in Users \ DOMAIN users, dto \in RegisterDto :
         /\ ~Taken(u, dto)
         /\ Become(p, [at |-> "InsertUser", user |-> u,
                       row |-> [email |-> dto.email, username |-> dto.username, isActive |-> TRUE]])
    /\ UNCHANGED <<users, sessions, held, drawn, mark>>

\* A request that has passed the look at isActive of u has yet to create one
\* session of u, or two.
Creates(j, u)    == \/ j.at = "CreateSession" /\ j.user = u
                    \/ j.at \in {"DelOld", "CreateNew"} /\ j.token.user = u
CreatesTwo(j, u) == Creates(j, u) /\ j.at # "CreateSession"

Due(u) == Cardinality({p \in Workers : Creates(job[p], u)})
            + Cardinality({p \in Workers : CreatesTwo(job[p], u)})

\* Mutant: the columns have no unique index.
InsertUserUnindexed(p) ==
    /\ job[p].at = "InsertUser"
    /\ job[p].user \notin DOMAIN users
    /\ users' = Put(users, job[p].user, job[p].row)
    /\ Become(p, [at |-> "CreateSession", user |-> job[p].user])
    /\ UNCHANGED <<sessions, held, drawn, mark>>

\* The INSERT, which the unique indexes refuse when another was faster.
InsertUser(p) ==
    /\ job[p].at = "InsertUser"
    /\ LET u == job[p].user IN
         IF u \in DOMAIN users \/ Taken(u, job[p].row)
         THEN Become(p, Idle) /\ UNCHANGED users
         ELSE /\ users' = Put(users, u, job[p].row)
              /\ Become(p, [at |-> "CreateSession", user |-> u])
    /\ UNCHANGED <<sessions, held, drawn, mark>>

(* login *)

\* The row is read and isActive looked at; bcrypt compares the password.
Login(p) ==
    /\ job[p] = Idle /\ Room(1)
    /\ \E u \in DOMAIN users :
         /\ users[u].isActive
         /\ Become(p, [at |-> "CreateSession", user |-> u])
    /\ UNCHANGED <<users, sessions, held, drawn, mark>>

\* Mutant: the id is one that was drawn before.
CreateSessionAgain(p) ==
    /\ job[p].at = "CreateSession"
    /\ LET t == [user |-> job[p].user, id |-> drawn + 1] IN
         /\ sessions' = sessions \cup {t}
         /\ held' = held \cup {t}
    /\ Become(p, Idle)
    /\ UNCHANGED <<users, drawn, mark>>

\* issueTokens, and the reply that hands the token out.
CreateSession(p) ==
    /\ job[p].at = "CreateSession"
    /\ drawn' = drawn + 1
    /\ LET t == [user |-> job[p].user, id |-> drawn + 1] IN
         /\ sessions' = sessions \cup {t}
         /\ held' = held \cup {t}
    /\ Become(p, Idle)
    /\ UNCHANGED <<users, mark>>

(* refresh *)

\* validate: EXISTS.
Refresh(p) ==
    /\ job[p] = Idle /\ Room(2)
    /\ \E t \in held \cap sessions : Become(p, [at |-> "FindUser", token |-> t])
    /\ UNCHANGED <<users, sessions, held, drawn, mark>>

Exists(u)   == u \in DOMAIN users    \* mutant: a refresh does not look at isActive
MayEnter(u) == users[u].isActive

FindUser(p) ==
    /\ job[p].at = "FindUser"
    /\ LET t == job[p].token IN
         Become(p, IF MayEnter(t.user) THEN [at |-> "DelOld", token |-> t] ELSE Idle)
    /\ UNCHANGED <<users, sessions, held, drawn, mark>>

\* rotate, first half: DEL, whether there is still something to delete or not.
DelOld(p) ==
    /\ job[p].at = "DelOld"
    /\ sessions' = sessions \ {job[p].token}
    /\ Become(p, [at |-> "CreateNew", token |-> job[p].token])
    /\ UNCHANGED <<users, held, drawn, mark>>

\* rotate, second half: the id of this key is told to nobody; issueTokens
\* draws another one.
CreateNew(p) ==
    /\ job[p].at = "CreateNew"
    /\ drawn' = drawn + 1
    /\ LET u == job[p].token.user IN
         /\ sessions' = sessions \cup {[user |-> u, id |-> drawn + 1]}
         /\ Become(p, [at |-> "CreateSession", user |-> u])
    /\ UNCHANGED <<users, held, mark>>

(* logout *)

Logout(p) ==
    /\ job[p] = Idle
    /\ \E t \in held : sessions' = sessions \ {t}
    /\ UNCHANGED <<users, held, drawn, mark, job>>

SessionsOf(u) == {t \in sessions : t.user = u}

\* logout without a token: revokeAllForUser starts its SCAN.  start is what
\* the user's sessions are at that moment.
LogoutAll(p) ==
    /\ job[p] = Idle
    /\ \E u \in DOMAIN users :
         Become(p, [at |-> "Scan", user |-> u, start |-> SessionsOf(u), keys |-> {}])
    /\ UNCHANGED <<users, sessions, held, drawn, mark>>

\* Mutant: one batch is taken for all.
ScanOnce(p) ==
    /\ job[p].at = "Scan"
    /\ \E batch \in SUBSET SessionsOf(job[p].user) :
         Become(p, [job[p] EXCEPT !.at = "DelKeys", !.keys = batch])
    /\ UNCHANGED <<users, sessions, held, drawn, mark>>

\* A batch of keys and the next cursor.  Redis ends the iteration when it has
\* returned each key that existed all the time; others it may or may not.
Scan(p) ==
    /\ job[p].at = "Scan"
    /\ \E batch \in SUBSET SessionsOf(job[p].user) :
         LET keys == job[p].keys \cup batch IN
           \/ Become(p, [job[p] EXCEPT !.keys = keys])
           \/ /\ job[p].start \cap sessions \subseteq keys
              /\ Become(p, [job[p] EXCEPT !.at = "DelKeys", !.keys = keys])
    /\ UNCHANGED <<users, sessions, held, drawn, mark>>

DelKeys(p) ==
    /\ job[p].at = "DelKeys"
    /\ sessions' = sessions \ job[p].keys
    /\ Become(p, Idle)
    /\ UNCHANGED <<users, held, drawn, mark>>

(* update; deactivate has no caller of its own and is an update of isActive *)

\* The row is read, the new email and username are looked up (three queries, in
\* one step here), and the columns of the request are laid over the row.
Update(p) ==
    /\ job[p] = Idle
    /\ \E u \in DOMAIN users, dto \in UpdateUserDto :
         /\ ~Taken(u, dto)
         /\ Become(p, [at |-> "Load", user |-> u,
                       row |-> [c \in DOMAIN users[u] |->
                                  IF c \in DOMAIN dto THEN dto[c] ELSE users[u][c]]])
    /\ UNCHANGED <<users, sessions, held, drawn, mark>>

\* save reads the stored row again, to find the columns that differ.
Load(p) ==
    /\ job[p].at = "Load"
    /\ LET u == job[p].user
           changed == {c \in DOMAIN users[u] : users[u][c] # job[p].row[c]}
       IN  Become(p, IF changed = {} THEN Idle
                     ELSE [at |-> "SaveUser", user |-> u,
                           row |-> [c \in changed |-> job[p].row[c]]])
    /\ UNCHANGED <<users, sessions, held, drawn, mark>>

SaveUser(p) ==
    /\ job[p].at = "SaveUser"
    /\ LET u == job[p].user
           row == job[p].row
       IN  /\ users' = IF Taken(u, row) THEN users
                    ELSE [users EXCEPT ![u] = [c \in DOMAIN @ |->
                            IF c \in DOMAIN row THEN row[c] ELSE @[c]]]
           /\ mark' = [mark EXCEPT ![u] =
                 IF users'[u].isActive THEN Unmarked
                 ELSE IF users[u].isActive THEN [drawn |-> drawn, due |-> Due(u)] ELSE @]
    /\ Become(p, Idle)
    /\ UNCHANGED <<sessions, held, drawn>>

(* Not requests. *)

\* Seven days pass for one session.
Expire ==
    /\ \E t \in sessions : sessions' = sessions \ {t}
    /\ UNCHANGED <<users, held, drawn, mark, job>>

\* A query fails or the process dies.
Abort(p) ==
    /\ job[p] # Idle
    /\ Become(p, Idle)
    /\ UNCHANGED <<users, sessions, held, drawn, mark>>

Next ==
    \/ \E p \in Workers :
         \/ Register(p) \/ InsertUser(p) \/ Login(p) \/ CreateSession(p)
         \/ Refresh(p) \/ FindUser(p) \/ DelOld(p) \/ CreateNew(p)
         \/ Logout(p) \/ LogoutAll(p) \/ Scan(p) \/ DelKeys(p)
         \/ Update(p) \/ Load(p) \/ SaveUser(p) \/ Abort(p)
    \/ Expire

Spec == Init /\ [][Next]_vars

-----------------------------------------------------------------------------
(* Properties. *)

TypeOK ==
    /\ DOMAIN users \subseteq Users /\ \A u \in DOMAIN users : users[u] \in User
    /\ drawn \in Nat
    /\ sessions \cup held \subseteq {t \in Token : t.id <= drawn}
    /\ mark \in [Users -> Mark]
    /\ \A p \in Workers : job[p] = Idle \/ job[p].at \in
         {"InsertUser", "CreateSession", "FindUser", "DelOld", "CreateNew",
          "Scan", "DelKeys", "Load", "SaveUser"}

\* No two users have the same email or username, although create and update
\* look them up in one query and write in a later one.
NamesAreUnique ==
    \A u, v \in DOMAIN users, c \in Unique : users[u][c] = users[v][c] => u = v

NewTokens(u) == {t \in sessions \cup held : t.user = u /\ t.id > mark[u].drawn}

\* Deactivating a user ends what it has: as long as it is inactive, new sessions
\* come only from requests that had looked at isActive before, one from a login
\* and two from a refresh, and none of these sessions can be exchanged for more.
DeactivationHolds ==
    \A u \in DOMAIN users : ~users[u].isActive =>
        Cardinality(NewTokens(u)) <= mark[u].due

\* When a logout from everywhere ends, each session that was there when it
\* began is gone, although sessions come and go while it scans.
LogoutAllRevokes ==
    [][\A p \in Workers :
          job[p].at = "DelKeys" /\ job'[p] = Idle /\ sessions' # sessions
              => job[p].start \cap sessions' = {}]_vars

(* What the documents claim. *)

\* docs/architecture.md, section 8: "refresh token rotation".  Of the requests
\* that exchange one token only one gets past deleting it.
TokensRotate ==
    \A p, q \in Workers : p # q /\ job[p].at = "CreateNew" /\ job[q].at = "CreateNew"
        => job[p].token # job[q].token
=============================================================================
