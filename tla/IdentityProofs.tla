--------------------------- MODULE IdentityProofs ---------------------------
(* Theorems about Identity, for any requests, users, names and tokens.     *)
EXTENDS Identity, FiniteSetTheorems, TLAPS

-----------------------------------------------------------------------------
(* The inductive invariant.                                                *)

Columns == {"email", "username", "isActive"}

\* The tokens with the first d ids.
Tokens(d) == [user : Users, id : 1..d]

\* The columns that a save changes, with values of their types.
Changes(row) ==
    /\ DOMAIN row \subseteq Columns
    /\ \A c \in DOMAIN row \cap Unique : row[c] \in Names
    /\ "isActive" \in DOMAIN row => row["isActive"] \in BOOLEAN

\* What a request can be doing when d ids are drawn and U are the users.
JobOK(j, U, d) ==
    \/ j = Idle
    \/ j.at = "InsertUser" /\ j.user \in Users /\ j.row \in User
    \/ j.at = "CreateSession" /\ j.user \in Users
    \/ j.at \in {"FindUser", "DelOld", "CreateNew"} /\ j.token \in Tokens(d)
    \/ j.at \in {"Scan", "DelKeys"}
    \/ j.at = "Load" /\ j.user \in U /\ j.row \in User
    \/ j.at = "SaveUser" /\ j.user \in U /\ Changes(j.row)

UsersOK == DOMAIN users \subseteq Users /\ users \in [DOMAIN users -> User]

TokensOK ==
    /\ drawn \in Nat
    /\ sessions \subseteq Tokens(drawn)
    /\ held \subseteq Tokens(drawn)

JobsOK ==
    /\ DOMAIN job = Workers
    /\ \A p \in Workers : JobOK(job[p], DOMAIN users, drawn)

\* What makes it inductive: a request works with tokens whose ids are drawn,
\* and the next id is not.
IInv == UsersOK /\ TokensOK /\ JobsOK /\ NamesAreUnique

-----------------------------------------------------------------------------
(* Rows. *)

\* A row of users is a function of the columns.
LEMMA RowIsFunction ==
    ASSUME NEW r \in User
    PROVE  /\ DOMAIN r = Columns /\ r = [c \in Columns |-> r[c]]
           /\ r["email"] \in Names /\ r["username"] \in Names /\ r["isActive"] \in BOOLEAN
BY DEF User, Columns

LEMMA FunctionIsRow ==
    ASSUME NEW f, f = [c \in Columns |-> f[c]],
           f["email"] \in Names, f["username"] \in Names, f["isActive"] \in BOOLEAN
    PROVE  f \in User
BY DEF User, Columns

\* Some columns of a row laid over another row.
LEMMA Overlay ==
    ASSUME NEW r \in User, NEW changes, Changes(changes)
    PROVE  [c \in DOMAIN r |-> IF c \in DOMAIN changes THEN changes[c] ELSE r[c]] \in User
<1> DEFINE f == [c \in Columns |-> IF c \in DOMAIN changes THEN changes[c] ELSE r[c]]
<1>1. f = [c \in Columns |-> f[c]]
  OBVIOUS
<1>2. f["email"] \in Names
  BY RowIsFunction DEF Columns, Changes, Unique
<1>3. f["username"] \in Names
  BY RowIsFunction DEF Columns, Changes, Unique
<1>4. f["isActive"] \in BOOLEAN
  BY RowIsFunction DEF Columns, Changes, Unique
<1>5. f \in User
  <2> HIDE DEF f
  <2> QED
    BY <1>1, <1>2, <1>3, <1>4, FunctionIsRow
<1>6. QED
  BY <1>5, RowIsFunction

\* What a PATCH holds are columns with values of their types.
LEMMA DtoChanges ==
    ASSUME NEW dto \in UpdateUserDto
    PROVE  Changes(dto)
BY DEF UpdateUserDto, Changes, Columns, Unique

-----------------------------------------------------------------------------
(* Requests. *)

\* What a request is doing stays possible when users and ids are added.
LEMMA JobStays ==
    ASSUME NEW j, NEW U, NEW V, U \subseteq V, NEW d \in Nat, NEW e \in Nat, d <= e,
           JobOK(j, U, d)
    PROVE  JobOK(j, V, e)
<1>1. Tokens(d) \subseteq Tokens(e)
  BY DEF Tokens
<1>2. QED
  BY <1>1 DEF JobOK

\* A step of one request leaves all of them doing something possible.
LEMMA OthersStay ==
    ASSUME JobsOK, TokensOK, NEW p \in Workers, NEW j, Become(p, j),
           DOMAIN users \subseteq DOMAIN users', drawn' \in Nat, drawn <= drawn',
           JobOK(j, DOMAIN users', drawn')
    PROVE  JobsOK'
<1>1. DOMAIN job' = Workers /\ job'[p] = j
  BY DEF JobsOK, Become
<1>2. ASSUME NEW q \in Workers
      PROVE  JobOK(job'[q], DOMAIN users', drawn')
  <2>1. CASE q = p
    BY <2>1, <1>1
  <2>2. CASE q # p
    <3>1. job'[q] = job[q]
      BY <2>2 DEF JobsOK, Become
    <3>2. JobOK(job[q], DOMAIN users, drawn)
      BY DEF JobsOK
    <3>3. drawn \in Nat
      BY IdentityAssumption DEF TokensOK
    <3>4. QED
      BY <3>1, <3>2, <3>3, JobStays
  <2>3. QED
    BY <2>1, <2>2
<1>3. QED
  BY <1>1, <1>2 DEF JobsOK

\* A step that only moves one request on.
LEMMA OnlyJob ==
    ASSUME IInv, NEW p \in Workers, NEW j, Become(p, j), JobOK(j, DOMAIN users, drawn),
           UNCHANGED <<users, sessions, held, drawn>>
    PROVE  IInv'
<1>1. JobsOK'
  <2>1. drawn \in Nat
    BY IdentityAssumption DEF IInv, TokensOK
  <2>2. QED
    BY <2>1, OthersStay DEF IInv
<1>2. UsersOK' /\ TokensOK' /\ NamesAreUnique'
  BY DEF IInv, UsersOK, TokensOK, NamesAreUnique
<1>3. QED
  BY <1>1, <1>2 DEF IInv

\* A step that only takes sessions away, and moves one request on or none.
LEMMA OnlyLess ==
    ASSUME IInv, sessions' \subseteq sessions, UNCHANGED <<users, held, drawn>>, JobsOK'
    PROVE  IInv'
<1>1. TokensOK'
  BY DEF IInv, TokensOK
<1>2. UsersOK' /\ NamesAreUnique'
  BY DEF IInv, UsersOK, NamesAreUnique
<1>3. QED
  BY <1>1, <1>2 DEF IInv

\* A session with the next id.
LEMMA NewToken ==
    ASSUME IInv, drawn' = drawn + 1, NEW u \in Users,
           sessions' = sessions \cup {[user |-> u, id |-> drawn + 1]},
           held' \subseteq held \cup {[user |-> u, id |-> drawn + 1]}
    PROVE  TokensOK'
<1> DEFINE t == [user |-> u, id |-> drawn + 1]
<1>1. drawn \in Nat /\ drawn' \in Nat
  BY IdentityAssumption DEF IInv, TokensOK
<1>2. Tokens(drawn) \subseteq Tokens(drawn')
  BY <1>1 DEF Tokens
<1>3. t \in Tokens(drawn')
  BY <1>1 DEF Tokens
<1> HIDE DEF t
<1>4. sessions' = sessions \cup {t} /\ held' \subseteq held \cup {t}
  BY DEF t
<1>5. QED
  BY <1>1, <1>2, <1>3, <1>4 DEF IInv, TokensOK

-----------------------------------------------------------------------------
(* The steps. *)

LEMMA InitOK == Init => IInv
<1> SUFFICES ASSUME Init PROVE IInv
  OBVIOUS
<1>1. UsersOK /\ NamesAreUnique
  BY DEF Init, UsersOK, NamesAreUnique
<1>2. TokensOK
  BY IdentityAssumption DEF Init, TokensOK
<1>3. JobsOK
  BY DEF Init, JobsOK, JobOK
<1>4. QED
  BY <1>1, <1>2, <1>3 DEF IInv

\* A new row, or columns of a row, that take no name of another user.
LEMMA StillUnique ==
    ASSUME IInv, NEW u, NEW row, Changes(row), ~Taken(u, row),
           DOMAIN users' = DOMAIN users \cup {u},
           \A v \in DOMAIN users \ {u} : users'[v] = users[v],
           \A c \in Unique :
               \/ c \in DOMAIN row /\ users'[u][c] = row[c]
               \/ u \in DOMAIN users /\ users'[u][c] = users[u][c]
    PROVE  NamesAreUnique'
<1> SUFFICES ASSUME NEW v \in DOMAIN users', NEW w \in DOMAIN users', NEW c \in Unique,
                    users'[v][c] = users'[w][c], v # w
             PROVE  FALSE
  BY DEF NamesAreUnique
<1>1. ASSUME NEW x \in DOMAIN users', x # u
      PROVE  users'[u][c] # users'[x][c]
  <2>1. x \in DOMAIN users \ {u} /\ users'[x] = users[x]
    BY <1>1
  <2>2. CASE c \in DOMAIN row /\ users'[u][c] = row[c]
    BY <2>1, <2>2 DEF Taken
  <2>3. CASE u \in DOMAIN users /\ users'[u][c] = users[u][c]
    BY <2>1, <2>3 DEF IInv, NamesAreUnique
  <2>4. QED
    BY <2>2, <2>3
<1>2. CASE v = u
  BY <1>1, <1>2
<1>3. CASE w = u
  BY <1>1, <1>3
<1>4. CASE v # u /\ w # u
  BY <1>4 DEF IInv, NamesAreUnique
<1>5. QED
  BY <1>2, <1>3, <1>4

LEMMA InsertUserOK == ASSUME IInv, NEW p \in Workers, InsertUser(p) PROVE IInv'
<1> DEFINE u == job[p].user
           row == job[p].row
<1>1. u \in Users /\ row \in User
  BY DEF IInv, JobsOK, JobOK, InsertUser, Idle
<1>2. CASE u \in DOMAIN users \/ Taken(u, row)
  <2>1. Become(p, Idle) /\ UNCHANGED <<users, sessions, held, drawn>>
    BY <1>2 DEF InsertUser
  <2>2. JobOK(Idle, DOMAIN users, drawn)
    BY DEF JobOK
  <2>3. QED
    BY <2>1, <2>2, OnlyJob
<1>3. CASE ~(u \in DOMAIN users \/ Taken(u, row))
  <2>1. /\ users' = Put(users, u, row)
        /\ Become(p, [at |-> "CreateSession", user |-> u])
        /\ UNCHANGED <<sessions, held, drawn>>
    BY <1>3 DEF InsertUser
  <2> HIDE DEF u, row
  <2>2. DOMAIN users' = DOMAIN users \cup {u} /\ users'[u] = row
        /\ \A v \in DOMAIN users \ {u} : users'[v] = users[v]
    BY <2>1 DEF Put
  <2>3. UsersOK'
    BY <1>1, <2>1, <2>2 DEF IInv, UsersOK, Put
  <2>4. NamesAreUnique'
    <3>1. Changes(row) /\ Unique \subseteq DOMAIN row
      BY <1>1, RowIsFunction DEF Changes, Columns, Unique
    <3>2. \A c \in Unique : c \in DOMAIN row /\ users'[u][c] = row[c]
      BY <2>2, <3>1
    <3>3. ~Taken(u, row)
      BY <1>3
    <3>4. QED
      BY <2>2, <3>1, <3>2, <3>3, StillUnique
  <2>5. JobsOK'
    <3>1. JobOK([at |-> "CreateSession", user |-> u], DOMAIN users', drawn')
      BY <1>1 DEF JobOK
    <3>2. drawn' \in Nat /\ drawn <= drawn'
      BY <2>1, IdentityAssumption DEF IInv, TokensOK
    <3>3. QED
      BY <2>1, <2>2, <3>1, <3>2, OthersStay DEF IInv
  <2>6. TokensOK'
    BY <2>1 DEF IInv, TokensOK
  <2>7. QED
    BY <2>3, <2>4, <2>5, <2>6 DEF IInv
<1>4. QED
  BY <1>2, <1>3

LEMMA CreateSessionOK == ASSUME IInv, NEW p \in Workers, CreateSession(p) PROVE IInv'
<1>1. job[p].user \in Users
  BY DEF IInv, JobsOK, JobOK, CreateSession, Idle
<1>2. TokensOK'
  BY <1>1, NewToken DEF CreateSession
<1>3. JobsOK'
  <2>1. JobOK(Idle, DOMAIN users', drawn')
    BY DEF JobOK
  <2>2. drawn' \in Nat /\ drawn <= drawn' /\ users' = users /\ Become(p, Idle)
    BY IdentityAssumption DEF IInv, TokensOK, CreateSession
  <2>3. QED
    BY <2>1, <2>2, OthersStay DEF IInv
<1>4. UsersOK' /\ NamesAreUnique'
  BY DEF IInv, UsersOK, NamesAreUnique, CreateSession
<1>5. QED
  BY <1>2, <1>3, <1>4 DEF IInv

LEMMA CreateNewOK == ASSUME IInv, NEW p \in Workers, CreateNew(p) PROVE IInv'
<1>1. job[p].token.user \in Users
  BY DEF IInv, JobsOK, JobOK, CreateNew, Idle, Tokens
<1>2. TokensOK'
  BY <1>1, NewToken DEF CreateNew
<1>3. JobsOK'
  <2> DEFINE j == [at |-> "CreateSession", user |-> job[p].token.user]
  <2>1. JobOK(j, DOMAIN users', drawn')
    BY <1>1 DEF JobOK
  <2>2. drawn' \in Nat /\ drawn <= drawn' /\ users' = users /\ Become(p, j)
    BY IdentityAssumption DEF IInv, TokensOK, CreateNew
  <2> HIDE DEF j
  <2>3. QED
    BY <2>1, <2>2, OthersStay DEF IInv
<1>4. UsersOK' /\ NamesAreUnique'
  BY DEF IInv, UsersOK, NamesAreUnique, CreateNew
<1>5. QED
  BY <1>2, <1>3, <1>4 DEF IInv

LEMMA DelOldOK == ASSUME IInv, NEW p \in Workers, DelOld(p) PROVE IInv'
<1> DEFINE t == job[p].token
           j == [at |-> "CreateNew", token |-> t]
<1>1. t \in Tokens(drawn)
  BY DEF IInv, JobsOK, JobOK, DelOld, Idle
<1>2. /\ sessions' = sessions \ {t}
      /\ Become(p, j) /\ UNCHANGED <<users, held, drawn>>
  BY DEF DelOld
<1>3. JobOK(j, DOMAIN users', drawn')
  BY <1>1, <1>2 DEF JobOK
<1> HIDE DEF t, j
<1>4. TokensOK'
  BY <1>1, <1>2 DEF IInv, TokensOK
<1>5. JobsOK'
  <2>1. drawn' \in Nat /\ drawn <= drawn'
    BY <1>2, IdentityAssumption DEF IInv, TokensOK
  <2>2. QED
    BY <1>2, <1>3, <2>1, OthersStay DEF IInv
<1>6. UsersOK' /\ NamesAreUnique'
  BY <1>2 DEF IInv, UsersOK, NamesAreUnique
<1>7. QED
  BY <1>4, <1>5, <1>6 DEF IInv

LEMMA UpdateOK == ASSUME IInv, NEW p \in Workers, Update(p) PROVE IInv'
<1>1. PICK u \in DOMAIN users, dto \in UpdateUserDto :
        Become(p, [at |-> "Load", user |-> u,
                   row |-> [c \in DOMAIN users[u] |->
                              IF c \in DOMAIN dto THEN dto[c] ELSE users[u][c]]])
  BY DEF Update
<1> DEFINE row == [c \in DOMAIN users[u] |-> IF c \in DOMAIN dto THEN dto[c] ELSE users[u][c]]
           j == [at |-> "Load", user |-> u, row |-> row]
<1>2. row \in User
  <2>1. users[u] \in User
    BY DEF IInv, UsersOK
  <2>2. QED
    BY <2>1, DtoChanges, Overlay
<1> HIDE DEF row
<1>3. JobOK(j, DOMAIN users, drawn)
  BY <1>2 DEF JobOK
<1>4. Become(p, j) /\ UNCHANGED <<users, sessions, held, drawn>>
  BY <1>1 DEF Update, row
<1> HIDE DEF j
<1>5. QED
  BY <1>3, <1>4, OnlyJob

LEMMA LoadOK == ASSUME IInv, NEW p \in Workers, Load(p) PROVE IInv'
<1> DEFINE u == job[p].user
           changed == {c \in DOMAIN users[u] : users[u][c] # job[p].row[c]}
           j == IF changed = {} THEN Idle
                ELSE [at |-> "SaveUser", user |-> u, row |-> [c \in changed |-> job[p].row[c]]]
<1>1. u \in DOMAIN users /\ job[p].row \in User
  BY DEF IInv, JobsOK, JobOK, Load, Idle
<1>2. Become(p, j) /\ UNCHANGED <<users, sessions, held, drawn>>
  BY DEF Load
<1>3. changed \subseteq Columns
  BY <1>1, RowIsFunction DEF IInv, UsersOK
<1>4. Changes([c \in changed |-> job[p].row[c]])
  <2>1. /\ job[p].row["email"] \in Names /\ job[p].row["username"] \in Names
        /\ job[p].row["isActive"] \in BOOLEAN
    BY <1>1, RowIsFunction
  <2> HIDE DEF changed
  <2>2. QED
    BY <1>3, <2>1 DEF Changes, Unique
<1>5. JobOK(j, DOMAIN users, drawn)
  <2> HIDE DEF changed, u
  <2>1. QED
    BY <1>1, <1>4 DEF JobOK
<1> HIDE DEF j
<1>6. QED
  BY <1>2, <1>5, OnlyJob

LEMMA SaveUserOK == ASSUME IInv, NEW p \in Workers, SaveUser(p) PROVE IInv'
<1> DEFINE u == job[p].user
           row == job[p].row
<1>1. u \in DOMAIN users /\ Changes(row)
  BY DEF IInv, JobsOK, JobOK, SaveUser, Idle
<1>2. JobOK(Idle, DOMAIN users, drawn) /\ Become(p, Idle)
      /\ UNCHANGED <<sessions, held, drawn>>
  BY DEF JobOK, SaveUser
<1>3. CASE Taken(u, row)
  <2>1. users' = users
    BY <1>3 DEF SaveUser
  <2>2. QED
    BY <1>2, <2>1, OnlyJob
<1>4. CASE ~Taken(u, row)
  <2> DEFINE new == [c \in DOMAIN users[u] |-> IF c \in DOMAIN row THEN row[c] ELSE users[u][c]]
  <2>1. users' = [users EXCEPT ![u] = new]
    BY <1>4 DEF SaveUser
  <2>2. users[u] \in User /\ new \in User
    BY <1>1, Overlay DEF IInv, UsersOK
  <2>3. \A c \in Unique :
            \/ c \in DOMAIN row /\ new[c] = row[c]
            \/ new[c] = users[u][c]
    BY <2>2, RowIsFunction DEF Unique, Columns
  <2> HIDE DEF new, u, row
  <2>4. /\ DOMAIN users' = DOMAIN users /\ users'[u] = new
        /\ \A v \in DOMAIN users \ {u} : users'[v] = users[v]
    BY <1>1, <2>1
  <2>5. UsersOK'
    BY <1>1, <2>1, <2>2, <2>4 DEF IInv, UsersOK
  <2>6. NamesAreUnique'
    <3>1. \A c \in Unique :
              \/ c \in DOMAIN row /\ users'[u][c] = row[c]
              \/ u \in DOMAIN users /\ users'[u][c] = users[u][c]
      BY <1>1, <2>3, <2>4
    <3>2. DOMAIN users' = DOMAIN users \cup {u}
      BY <1>1, <2>4
    <3>3. QED
      BY <1>1, <1>4, <2>4, <3>1, <3>2, StillUnique
  <2>7. JobsOK'
    <3>1. drawn' \in Nat /\ drawn <= drawn'
      BY <1>2, IdentityAssumption DEF IInv, TokensOK
    <3>2. QED
      BY <1>2, <2>4, <3>1, OthersStay DEF IInv
  <2>8. TokensOK'
    BY <1>2 DEF IInv, TokensOK
  <2>9. QED
    BY <2>5, <2>6, <2>7, <2>8 DEF IInv
<1>5. QED
  BY <1>3, <1>4

\* The steps that read, start or give up.
LEMMA ReadOK ==
    ASSUME IInv, NEW p \in Workers,
           \/ Register(p) \/ Login(p) \/ Refresh(p) \/ FindUser(p) \/ LogoutAll(p)
           \/ Scan(p) \/ Abort(p)
    PROVE  IInv'
<1>1. CASE Register(p)
  <2>1. PICK u \in Users \ DOMAIN users, dto \in RegisterDto :
          Become(p, [at |-> "InsertUser", user |-> u,
                     row |-> [email |-> dto.email, username |-> dto.username, isActive |-> TRUE]])
    BY <1>1 DEF Register
  <2>2. [email |-> dto.email, username |-> dto.username, isActive |-> TRUE] \in User
    BY DEF User, RegisterDto
  <2>3. JobOK([at |-> "InsertUser", user |-> u,
               row |-> [email |-> dto.email, username |-> dto.username, isActive |-> TRUE]], DOMAIN users, drawn)
    BY <2>2 DEF JobOK
  <2>4. QED
    BY <1>1, <2>1, <2>3, OnlyJob DEF Register
<1>2. CASE Login(p)
  <2>1. PICK u \in DOMAIN users : Become(p, [at |-> "CreateSession", user |-> u])
    BY <1>2 DEF Login
  <2>2. JobOK([at |-> "CreateSession", user |-> u], DOMAIN users, drawn)
    BY DEF JobOK, IInv, UsersOK
  <2>3. QED
    BY <1>2, <2>1, <2>2, OnlyJob DEF Login
<1>3. CASE Refresh(p)
  <2>1. PICK t \in held \cap sessions : Become(p, [at |-> "FindUser", token |-> t])
    BY <1>3 DEF Refresh
  <2>2. JobOK([at |-> "FindUser", token |-> t], DOMAIN users, drawn)
    BY DEF JobOK, IInv, TokensOK
  <2>3. QED
    BY <1>3, <2>1, <2>2, OnlyJob DEF Refresh
<1>4. CASE FindUser(p)
  <2> DEFINE t == job[p].token
             j == IF users[t.user].isActive THEN [at |-> "DelOld", token |-> t] ELSE Idle
  <2>1. t \in Tokens(drawn)
    BY <1>4 DEF IInv, JobsOK, JobOK, FindUser, Idle
  <2>2. Become(p, j) /\ UNCHANGED <<users, sessions, held, drawn>>
    BY <1>4 DEF FindUser, MayEnter
  <2> HIDE DEF t
  <2>3. JobOK(j, DOMAIN users, drawn)
    BY <2>1 DEF JobOK
  <2> HIDE DEF j
  <2>4. QED
    BY <2>2, <2>3, OnlyJob
<1>5. CASE LogoutAll(p)
  <2>1. PICK u \in DOMAIN users :
          Become(p, [at |-> "Scan", user |-> u, start |-> SessionsOf(u), keys |-> {}])
    BY <1>5 DEF LogoutAll
  <2>2. JobOK([at |-> "Scan", user |-> u, start |-> SessionsOf(u), keys |-> {}],
              DOMAIN users, drawn)
    BY DEF JobOK
  <2>3. QED
    BY <1>5, <2>1, <2>2, OnlyJob DEF LogoutAll
<1>6. CASE Scan(p)
  <2>1. job[p].at = "Scan"
    BY <1>6 DEF Scan
  <2>2. PICK batch \in SUBSET SessionsOf(job[p].user) :
          \/ Become(p, [job[p] EXCEPT !.keys = job[p].keys \cup batch])
          \/ Become(p, [job[p] EXCEPT !.at = "DelKeys", !.keys = job[p].keys \cup batch])
    BY <1>6 DEF Scan
  <2> DEFINE j == [job[p] EXCEPT !.keys = job[p].keys \cup batch]
             k == [job[p] EXCEPT !.at = "DelKeys", !.keys = job[p].keys \cup batch]
  <2>3. JobOK(j, DOMAIN users, drawn) /\ JobOK(k, DOMAIN users, drawn)
    BY <2>1 DEF JobOK
  <2>4. (Become(p, j) \/ Become(p, k)) /\ UNCHANGED <<users, sessions, held, drawn>>
    BY <1>6, <2>2 DEF Scan
  <2> HIDE DEF j, k
  <2>5. QED
    BY <2>3, <2>4, OnlyJob
<1>7. CASE Abort(p)
  <2>1. JobOK(Idle, DOMAIN users, drawn)
    BY DEF JobOK
  <2>2. QED
    BY <1>7, <2>1, OnlyJob DEF Abort
<1>8. QED
  BY <1>1, <1>2, <1>3, <1>4, <1>5, <1>6, <1>7

\* The steps that only take sessions away.
LEMMA LessOK ==
    ASSUME IInv, Expire \/ \E p \in Workers : Logout(p) \/ DelKeys(p)
    PROVE  IInv'
<1>1. CASE Expire
  <2>1. sessions' \subseteq sessions /\ UNCHANGED <<users, held, drawn>>
    BY <1>1 DEF Expire
  <2>2. JobsOK'
    BY <1>1 DEF Expire, IInv, JobsOK
  <2>3. QED
    BY <2>1, <2>2, OnlyLess
<1>2. ASSUME NEW p \in Workers, Logout(p) PROVE IInv'
  <2>1. sessions' \subseteq sessions /\ UNCHANGED <<users, held, drawn>>
    BY <1>2 DEF Logout
  <2>2. JobsOK'
    BY <1>2 DEF Logout, IInv, JobsOK
  <2>3. QED
    BY <2>1, <2>2, OnlyLess
<1>3. ASSUME NEW p \in Workers, DelKeys(p) PROVE IInv'
  <2>1. /\ sessions' \subseteq sessions /\ UNCHANGED <<users, held, drawn>>
        /\ Become(p, Idle)
    BY <1>3 DEF DelKeys
  <2>2. JobsOK'
    <3>1. drawn' \in Nat /\ drawn <= drawn' /\ JobOK(Idle, DOMAIN users', drawn')
      BY <2>1, IdentityAssumption DEF IInv, TokensOK, JobOK
    <3>2. QED
      BY <2>1, <3>1, OthersStay DEF IInv
  <2>3. QED
    BY <2>1, <2>2, OnlyLess
<1>4. QED
  BY <1>1, <1>2, <1>3

LEMMA NextOK == IInv /\ [Next]_vars => IInv'
<1> SUFFICES ASSUME IInv, [Next]_vars PROVE IInv'
  OBVIOUS
<1>1. CASE UNCHANGED vars
  BY <1>1 DEF vars, IInv, UsersOK, TokensOK, JobsOK, NamesAreUnique
<1>2. CASE Next
  BY <1>2, InsertUserOK, CreateSessionOK, CreateNewOK, DelOldOK, UpdateOK, LoadOK, SaveUserOK,
     ReadOK, LessOK DEF Next
<1>3. QED
  BY <1>1, <1>2

LEMMA Invariance == Spec => []IInv
BY InitOK, NextOK, PTL DEF Spec

-----------------------------------------------------------------------------
(* Theorems. *)

\* No two users ever have one email or username: create and update look the
\* names up and write them in separate queries, and the indexes decide.
THEOREM UniqueNames == Spec => []NamesAreUnique
<1>1. IInv => NamesAreUnique
  BY DEF IInv
<1>2. QED
  BY <1>1, Invariance, PTL

-----------------------------------------------------------------------------
(***************************************************************************)
(* Deactivation.  What is new since a user was deactivated and what        *)
(* requests have yet to create add up to no more than was due then: a step *)
(* that creates a session takes one off what is due, and nothing adds to   *)
(* it, because only an active user gets past the look at isActive.         *)
(***************************************************************************)

MarkOK ==
    /\ mark \in [Users -> Mark]
    /\ \A u \in Users : mark[u].drawn <= drawn

RegistersActive == \A p \in Workers : job[p].at = "InsertUser" => job[p].row.isActive = TRUE

Bounded(u) == ~users[u].isActive => Cardinality(NewTokens(u)) + Due(u) <= mark[u].due

DueInv == IInv /\ MarkOK /\ RegistersActive /\ \A u \in DOMAIN users : Bounded(u)

LEMMA DueIsNat == \A u : Due(u) \in Nat
<1> SUFFICES ASSUME NEW u PROVE Due(u) \in Nat
  OBVIOUS
<1>1. IsFiniteSet({p \in Workers : Creates(job[p], u)})
  BY IdentityAssumption, FS_Subset
<1>2. IsFiniteSet({p \in Workers : CreatesTwo(job[p], u)})
  BY IdentityAssumption, FS_Subset
<1> QED
  BY <1>1, <1>2, FS_CardinalityType DEF Due

\* When p does not come to create more, what is due does not grow, and when it
\* comes to create less, it shrinks.
LEMMA DueShrinks ==
    ASSUME DOMAIN job = Workers, NEW p \in Workers, NEW j, Become(p, j), NEW u,
           Creates(j, u) => Creates(job[p], u),
           CreatesTwo(j, u) => CreatesTwo(job[p], u)
    PROVE  /\ Due(u)' \in Nat
           /\ Due(u)' <= Due(u)
           /\ \/ Creates(job[p], u) /\ ~Creates(j, u)
              \/ CreatesTwo(job[p], u) /\ ~CreatesTwo(j, u)
              => Due(u)' + 1 <= Due(u)
<1> DEFINE A == {q \in Workers : Creates(job[q], u)}
           B == {q \in Workers : CreatesTwo(job[q], u)}
           C == {q \in Workers : Creates(job'[q], u)}
           D == {q \in Workers : CreatesTwo(job'[q], u)}
<1>1. job'[p] = j /\ \A q \in Workers \ {p} : job'[q] = job[q]
  BY DEF Become
<1>2. C \in SUBSET A /\ D \in SUBSET B
  BY <1>1
<1>3. /\ Creates(job[p], u) /\ ~Creates(j, u) => C # A
      /\ CreatesTwo(job[p], u) /\ ~CreatesTwo(j, u) => D # B
  BY <1>1
<1>4. IsFiniteSet(A) /\ IsFiniteSet(B)
  BY IdentityAssumption, FS_Subset
<1>5. Due(u) = Cardinality(A) + Cardinality(B) /\ Due(u)' = Cardinality(C) + Cardinality(D)
  BY DEF Due, Creates, CreatesTwo
<1> HIDE DEF A, B, C, D
<1>6. /\ IsFiniteSet(C) /\ Cardinality(C) <= Cardinality(A)
      /\ Cardinality(A) = Cardinality(C) => A = C
  BY <1>2, <1>4, FS_Subset
<1>7. /\ IsFiniteSet(D) /\ Cardinality(D) <= Cardinality(B)
      /\ Cardinality(B) = Cardinality(D) => B = D
  BY <1>2, <1>4, FS_Subset
<1>8. /\ Cardinality(A) \in Nat /\ Cardinality(B) \in Nat
      /\ Cardinality(C) \in Nat /\ Cardinality(D) \in Nat
  BY <1>4, <1>6, <1>7, FS_CardinalityType
<1> QED
  BY <1>3, <1>5, <1>6, <1>7, <1>8

LEMMA NewTokensFinite ==
    ASSUME IInv, NEW u
    PROVE  IsFiniteSet(NewTokens(u))
<1> DEFINE f(i) == [user |-> u, id |-> i]
           T == {f(i) : i \in 1..drawn}
<1>1. drawn \in Nat
  BY IdentityAssumption DEF IInv, TokensOK
<1>2. IsFiniteSet(1..drawn)
  BY <1>1, FS_Interval
<1>3. IsFiniteSet(T)
  <2>1. [i \in 1..drawn |-> f(i)] \in Surjection(1..drawn, T)
    BY DEF Surjection
  <2> QED
    BY <1>2, <2>1, FS_Surjection
<1>4. NewTokens(u) \subseteq T
  BY DEF NewTokens, IInv, TokensOK, Tokens
<1> QED
  BY <1>3, <1>4, FS_Subset

\* No session is new, or one is and one less is due.
LEMMA StaysBounded ==
    ASSUME DueInv, IInv', NEW p \in Workers, NEW j, Become(p, j),
           NEW u \in DOMAIN users, ~users[u].isActive, mark'[u] = mark[u],
           Creates(j, u) => Creates(job[p], u),
           CreatesTwo(j, u) => CreatesTwo(job[p], u),
           NEW t,
           \/ sessions' \cup held' \subseteq sessions \cup held
           \/ /\ sessions' \cup held' \subseteq sessions \cup held \cup {t}
              /\ \/ t.user # u
                 \/ Creates(job[p], u) /\ ~Creates(j, u)
                 \/ CreatesTwo(job[p], u) /\ ~CreatesTwo(j, u)
    PROVE  Bounded(u)'
<1> DEFINE old == NewTokens(u)
           new == NewTokens(u)'
<1>1. Cardinality(old) + Due(u) <= mark[u].due
  BY DEF DueInv, Bounded
<1>2. Due(u) \in Nat /\ Due(u)' \in Nat /\ Due(u)' <= Due(u)
  BY DueIsNat, DueShrinks DEF DueInv, IInv, JobsOK
<1>3. IsFiniteSet(old) /\ IsFiniteSet(old \cup {t})
  BY NewTokensFinite, FS_AddElement DEF DueInv
<1>4. Cardinality(old) \in Nat /\ Cardinality(old \cup {t}) <= Cardinality(old) + 1
  BY <1>3, FS_AddElement, FS_CardinalityType
<1>5. mark[u].due \in Nat
  BY DEF DueInv, MarkOK, Mark, IInv, UsersOK
<1>6. CASE new \subseteq old
  <2> HIDE DEF new, old
  <2>1. Cardinality(new) \in Nat /\ Cardinality(new) <= Cardinality(old)
    BY <1>3, <1>6, FS_Subset, FS_CardinalityType
  <2> QED
    BY <1>1, <1>2, <1>4, <1>5, <2>1 DEF Bounded, new, old
<1>7. CASE /\ new \subseteq old \cup {t}
           /\ \/ Creates(job[p], u) /\ ~Creates(j, u)
              \/ CreatesTwo(job[p], u) /\ ~CreatesTwo(j, u)
  <2>1. Due(u)' + 1 <= Due(u)
    BY <1>7, DueShrinks DEF DueInv, IInv, JobsOK
  <2> HIDE DEF new, old
  <2>2. Cardinality(new) \in Nat /\ Cardinality(new) <= Cardinality(old \cup {t})
        /\ Cardinality(old \cup {t}) \in Nat
    BY <1>3, <1>7, FS_Subset, FS_CardinalityType
  <2> QED
    BY <1>1, <1>2, <1>4, <1>5, <2>1, <2>2 DEF Bounded, new, old
<1> QED
  BY <1>6, <1>7 DEF NewTokens

\* The steps that change no row.
LEMMA SameUsersBounded ==
    ASSUME DueInv, IInv', NEW p \in Workers, NEW j, Become(p, j), UNCHANGED <<users, mark>>,
           j.at = "InsertUser" => j.row.isActive = TRUE,
           \A u \in DOMAIN users : ~users[u].isActive =>
               /\ Creates(j, u) => Creates(job[p], u)
               /\ CreatesTwo(j, u) => CreatesTwo(job[p], u),
           NEW t,
           \/ sessions' \cup held' \subseteq sessions \cup held
           \/ /\ sessions' \cup held' \subseteq sessions \cup held \cup {t}
              /\ \A u \in DOMAIN users :
                   \/ t.user # u
                   \/ Creates(job[p], u) /\ ~Creates(j, u)
                   \/ CreatesTwo(job[p], u) /\ ~CreatesTwo(j, u),
           drawn <= drawn'
    PROVE  DueInv'
<1>1. ASSUME NEW u \in DOMAIN users' PROVE Bounded(u)'
  <2>1. CASE users[u].isActive
    BY <2>1 DEF Bounded
  <2>2. CASE ~users[u].isActive
    BY <2>2, StaysBounded
  <2> QED
    BY <2>1, <2>2
<1>2. MarkOK'
  <2>1. drawn \in Nat /\ drawn' \in Nat
    BY IdentityAssumption DEF DueInv, IInv, TokensOK
  <2> QED
    BY <2>1 DEF DueInv, MarkOK, Mark
<1>3. RegistersActive'
  BY DEF DueInv, RegistersActive, Become
<1> QED
  BY <1>1, <1>2, <1>3 DEF DueInv

LEMMA DrawnGrows ==
    ASSUME IInv
    PROVE  drawn \in Nat /\ drawn <= drawn /\ drawn <= drawn + 1
BY IdentityAssumption DEF IInv, TokensOK

\* A row is inserted: it is active.
LEMMA InsertUserBounded ==
    ASSUME DueInv, IInv', NEW p \in Workers, InsertUser(p)
    PROVE  DueInv'
<1> DEFINE u == job[p].user
           row == job[p].row
           j == [at |-> "CreateSession", user |-> u]
<1>1. CASE Become(p, Idle) /\ UNCHANGED users
  <2>1. \A v : ~Creates(Idle, v) /\ ~CreatesTwo(Idle, v)
    BY DEF Creates, CreatesTwo, Idle
  <2>2. Idle.at # "InsertUser"
    BY DEF Idle
  <2> QED
    BY <1>1, <2>1, <2>2, SameUsersBounded, DrawnGrows DEF InsertUser, DueInv
<1>2. CASE users' = Put(users, u, row) /\ Become(p, j)
  <2>1. row.isActive = TRUE
    BY DEF DueInv, RegistersActive, InsertUser
  <2>2. UNCHANGED <<sessions, held, drawn, mark>>
    BY DEF InsertUser
  <2> HIDE DEF u, row
  <2>3. users'[u] = row /\ DOMAIN users' = DOMAIN users \cup {u}
        /\ \A v \in DOMAIN users \ {u} : users'[v] = users[v]
    BY <1>2 DEF Put
  <2>4. ASSUME NEW v \in DOMAIN users' PROVE Bounded(v)'
    <3>1. CASE v = u
      BY <2>1, <2>3, <3>1 DEF Bounded
    <3>2. CASE v # u /\ ~users[v].isActive
      <4>1. ~Creates(j, v) /\ ~CreatesTwo(j, v)
        BY <3>2 DEF Creates, CreatesTwo
      <4> HIDE DEF j
      <4> QED
        BY <1>2, <2>2, <2>3, <3>2, <4>1, StaysBounded
    <3>3. CASE v # u /\ users[v].isActive
      BY <2>3, <3>3 DEF Bounded
    <3> QED
      BY <3>1, <3>2, <3>3
  <2>5. MarkOK'
    BY <2>2 DEF DueInv, MarkOK
  <2>6. RegistersActive'
    <3>1. j.at # "InsertUser"
      OBVIOUS
    <3> HIDE DEF j
    <3> QED
      BY <1>2, <3>1 DEF DueInv, RegistersActive, Become
  <2> QED
    BY <2>4, <2>5, <2>6 DEF DueInv
<1> QED
  BY <1>1, <1>2 DEF InsertUser

\* A session is created that was due.
LEMMA CreationBounded ==
    ASSUME DueInv, IInv', NEW p \in Workers, CreateSession(p) \/ CreateNew(p)
    PROVE  DueInv'
<1>1. CASE CreateSession(p)
  <2> DEFINE t == [user |-> job[p].user, id |-> drawn + 1]
  <2>1. \A v : ~Creates(Idle, v) /\ ~CreatesTwo(Idle, v)
    BY DEF Creates, CreatesTwo, Idle
  <2>2. Idle.at # "InsertUser"
    BY DEF Idle
  <2>3. \A v : t.user = v => Creates(job[p], v)
    BY <1>1 DEF CreateSession, Creates
  <2>4. /\ sessions' \cup held' \subseteq sessions \cup held \cup {t}
        /\ Become(p, Idle) /\ UNCHANGED <<users, mark>> /\ drawn' = drawn + 1
    BY <1>1 DEF CreateSession
  <2> HIDE DEF t
  <2> QED
    BY <2>1, <2>2, <2>3, <2>4, SameUsersBounded, DrawnGrows DEF DueInv
<1>2. CASE CreateNew(p)
  <2> DEFINE t == [user |-> job[p].token.user, id |-> drawn + 1]
             j == [at |-> "CreateSession", user |-> job[p].token.user]
  <2>1. \A v : Creates(j, v) => Creates(job[p], v)
    BY <1>2 DEF CreateNew, Creates
  <2>2. j.at # "InsertUser" /\ \A v : ~CreatesTwo(j, v)
    BY DEF CreatesTwo
  <2>3. \A v : t.user = v => CreatesTwo(job[p], v)
    BY <1>2 DEF CreateNew, Creates, CreatesTwo
  <2>4. /\ sessions' \cup held' \subseteq sessions \cup held \cup {t}
        /\ Become(p, j) /\ UNCHANGED <<users, mark>> /\ drawn' = drawn + 1
    BY <1>2 DEF CreateNew
  <2> HIDE DEF t, j
  <2> QED
    BY <2>1, <2>2, <2>3, <2>4, SameUsersBounded, DrawnGrows DEF DueInv
<1> QED
  BY <1>1, <1>2

\* The columns of a row are saved, and the user may be deactivated.
LEMMA SaveUserBounded ==
    ASSUME DueInv, IInv', NEW p \in Workers, SaveUser(p)
    PROVE  DueInv'
<1> DEFINE u == job[p].user
<1>1. u \in DOMAIN users
  BY DEF DueInv, IInv, JobsOK, JobOK, SaveUser, Idle
<1>2. \A v : ~Creates(Idle, v) /\ ~CreatesTwo(Idle, v)
  BY DEF Creates, CreatesTwo, Idle
<1>3. /\ DOMAIN users' = DOMAIN users
      /\ \A v \in DOMAIN users \ {u} : users'[v] = users[v]
  BY <1>1 DEF SaveUser
<1>4. /\ mark' = [mark EXCEPT ![u] =
                    IF users'[u].isActive THEN Unmarked
                    ELSE IF users[u].isActive THEN [drawn |-> drawn, due |-> Due(u)] ELSE mark[u]]
      /\ Become(p, Idle) /\ UNCHANGED <<sessions, held, drawn>>
  BY DEF SaveUser
<1> HIDE DEF u
<1>5. u \in Users /\ drawn \in Nat /\ mark \in [Users -> Mark]
  BY <1>1 DEF DueInv, IInv, UsersOK, TokensOK, MarkOK
<1>6. MarkOK'
  <2>1. Unmarked \in Mark /\ [drawn |-> drawn, due |-> Due(u)] \in Mark
    BY <1>5, DueIsNat, IdentityAssumption DEF Mark, Unmarked
  <2>2. mark' \in [Users -> Mark]
    BY <1>4, <1>5, <2>1
  <2>3. Unmarked.drawn <= drawn
    BY <1>5, IdentityAssumption DEF Unmarked
  <2>4. \A v \in Users : mark'[v].drawn <= drawn
    <3> SUFFICES ASSUME NEW v \in Users PROVE mark'[v].drawn <= drawn
      OBVIOUS
    <3>1. mark[v].drawn <= drawn /\ drawn <= drawn
      BY <1>5 DEF DueInv, MarkOK
    <3>2. mark'[v] \in {mark[v], Unmarked, [drawn |-> drawn, due |-> Due(u)]}
      BY <1>4, <1>5
    <3> QED
      BY <2>3, <3>1, <3>2
  <2> QED
    BY <1>4, <2>2, <2>4 DEF MarkOK
<1>7. RegistersActive'
  BY <1>4 DEF DueInv, RegistersActive, Become, Idle
<1>8. ASSUME NEW v \in DOMAIN users', ~users'[v].isActive PROVE Bounded(v)'
  <2>1. v \in DOMAIN users /\ v \in Users
    BY <1>3 DEF DueInv, IInv, UsersOK
  <2>2. CASE ~users[v].isActive
    <3>1. mark'[v] = mark[v]
      BY <1>4, <1>5, <1>8, <2>1, <2>2
    <3> QED
      BY <1>2, <1>4, <2>1, <2>2, <3>1, StaysBounded
  <2>3. CASE users[v].isActive
    <3>1. v = u
      BY <1>3, <1>8, <2>1, <2>3
    <3>2. mark'[v] = [drawn |-> drawn, due |-> Due(v)]
      BY <1>4, <1>5, <1>8, <2>3, <3>1
    <3>3. NewTokens(v)' = {}
      <4> SUFFICES ASSUME NEW t \in sessions \cup held PROVE ~(t.id > drawn)
        BY <1>4, <3>2 DEF NewTokens
      <4> QED
        BY <1>5, IdentityAssumption DEF DueInv, IInv, TokensOK, Tokens
    <3>4. Due(v)' <= Due(v) /\ Due(v)' \in Nat
      BY <1>2, <1>4, DueShrinks DEF DueInv, IInv, JobsOK
    <3>5. Cardinality(NewTokens(v)') = 0
      BY <3>3, FS_EmptySet
    <3> QED
      BY <3>2, <3>4, <3>5 DEF Bounded
  <2> QED
    BY <2>2, <2>3
<1>9. \A v \in DOMAIN users' : Bounded(v)'
  BY <1>8 DEF Bounded
<1> QED
  BY <1>6, <1>7, <1>9 DEF DueInv

\* The other steps create nothing, and get past the look at isActive only for
\* an active user.
LEMMA OthersBounded ==
    ASSUME DueInv, IInv', NEW p \in Workers,
           \/ Register(p) \/ Login(p) \/ Refresh(p) \/ FindUser(p) \/ DelOld(p)
           \/ LogoutAll(p) \/ Scan(p) \/ DelKeys(p) \/ Update(p) \/ Load(p) \/ Abort(p)
    PROVE  DueInv'
<1>1. UNCHANGED <<users, mark, drawn>> /\ sessions' \cup held' \subseteq sessions \cup held
  BY DEF Register, Login, Refresh, FindUser, DelOld, LogoutAll, Scan, DelKeys, Update, Load, Abort
<1>2. ASSUME NEW j, Become(p, j), j.at # "InsertUser",
             j.at \notin {"CreateSession", "CreateNew", "DelOld"}
      PROVE  DueInv'
  <2>1. \A v : ~Creates(j, v) /\ ~CreatesTwo(j, v)
    BY <1>2 DEF Creates, CreatesTwo
  <2> QED
    BY <1>1, <1>2, <2>1, SameUsersBounded, DrawnGrows DEF DueInv
<1>3. CASE Register(p)
  <2>1. PICK u \in Users, dto \in RegisterDto :
          Become(p, [at |-> "InsertUser", user |-> u,
                     row |-> [email |-> dto.email, username |-> dto.username, isActive |-> TRUE]])
    BY <1>3 DEF Register
  <2> DEFINE j == [at |-> "InsertUser", user |-> u,
                   row |-> [email |-> dto.email, username |-> dto.username, isActive |-> TRUE]]
  <2>2. j.row.isActive = TRUE /\ \A v : ~Creates(j, v) /\ ~CreatesTwo(j, v)
    BY DEF Creates, CreatesTwo
  <2>3. Become(p, j)
    BY <2>1
  <2> HIDE DEF j
  <2> QED
    BY <1>1, <2>2, <2>3, SameUsersBounded, DrawnGrows DEF DueInv
<1>4. CASE Login(p)
  <2>1. PICK u \in DOMAIN users :
          users[u].isActive /\ Become(p, [at |-> "CreateSession", user |-> u])
    BY <1>4 DEF Login
  <2> DEFINE j == [at |-> "CreateSession", user |-> u]
  <2>2. /\ Become(p, j) /\ j.at # "InsertUser"
        /\ \A v : v # u => ~Creates(j, v) /\ ~CreatesTwo(j, v)
    BY <2>1 DEF Creates, CreatesTwo
  <2> HIDE DEF j
  <2> QED
    BY <1>1, <2>1, <2>2, SameUsersBounded, DrawnGrows DEF DueInv
<1>5. CASE FindUser(p)
  <2> DEFINE t == job[p].token
             j == [at |-> "DelOld", token |-> t]
  <2>1. CASE ~users[t.user].isActive
    BY <1>2, <1>5, <2>1 DEF FindUser, MayEnter, Idle
  <2>2. CASE users[t.user].isActive
    <3>1. /\ Become(p, j) /\ j.at # "InsertUser"
          /\ \A v : v # t.user => ~Creates(j, v) /\ ~CreatesTwo(j, v)
      BY <1>5, <2>2 DEF FindUser, MayEnter, Creates, CreatesTwo
    <3> HIDE DEF j, t
    <3> QED
      BY <1>1, <2>2, <3>1, SameUsersBounded, DrawnGrows DEF DueInv
  <2> QED
    BY <2>1, <2>2
<1>6. CASE DelOld(p)
  <2> DEFINE j == [at |-> "CreateNew", token |-> job[p].token]
  <2>1. /\ Become(p, j) /\ j.at # "InsertUser"
        /\ \A v : /\ Creates(j, v) => Creates(job[p], v)
                  /\ CreatesTwo(j, v) => CreatesTwo(job[p], v)
    BY <1>6 DEF DelOld, Creates, CreatesTwo
  <2> HIDE DEF j
  <2> QED
    BY <1>1, <2>1, SameUsersBounded, DrawnGrows DEF DueInv
<1>7. CASE Refresh(p)
  BY <1>2, <1>7 DEF Refresh
<1>8. CASE LogoutAll(p)
  BY <1>2, <1>8 DEF LogoutAll
<1>9. CASE Scan(p)
  <2>1. job[p].at = "Scan"
    BY <1>9 DEF Scan
  <2>2. PICK batch \in SUBSET SessionsOf(job[p].user) :
          \/ Become(p, [job[p] EXCEPT !.keys = job[p].keys \cup batch])
          \/ Become(p, [job[p] EXCEPT !.at = "DelKeys", !.keys = job[p].keys \cup batch])
    BY <1>9 DEF Scan
  <2>3. [job[p] EXCEPT !.keys = job[p].keys \cup batch].at \in {"Scan", "DelKeys"}
    BY <2>1
  <2>4. [job[p] EXCEPT !.at = "DelKeys", !.keys = job[p].keys \cup batch].at \in {"Scan", "DelKeys"}
    BY <2>1
  <2> QED
    BY <1>2, <2>2, <2>3, <2>4
<1>10. CASE Update(p)
  BY <1>2, <1>10 DEF Update
<1>11. CASE Load(p)
  BY <1>2, <1>11 DEF Load, Idle
<1>12. CASE DelKeys(p) \/ Abort(p)
  BY <1>2, <1>12 DEF DelKeys, Abort, Idle
<1> QED
  BY <1>3, <1>4, <1>5, <1>6, <1>7, <1>8, <1>9, <1>10, <1>11, <1>12

LEMMA JobStandsBounded ==
    ASSUME DueInv, IInv', UNCHANGED <<users, held, drawn, mark, job>>, sessions' \subseteq sessions
    PROVE  DueInv'
<1>1. ASSUME NEW u \in DOMAIN users' PROVE Bounded(u)'
  <2>1. NewTokens(u)' \in SUBSET NewTokens(u)
    BY DEF NewTokens
  <2>2. IsFiniteSet(NewTokens(u))
    BY NewTokensFinite DEF DueInv
  <2> DEFINE new == NewTokens(u)'
  <2>3. /\ Cardinality(new) \in Nat /\ Cardinality(NewTokens(u)) \in Nat
        /\ Cardinality(new) <= Cardinality(NewTokens(u))
    <3> HIDE DEF new
    <3>1. new \in SUBSET NewTokens(u)
      BY <2>1 DEF new
    <3> QED
      BY <2>2, <3>1, FS_Subset, FS_CardinalityType
  <2>4. Due(u)' = Due(u) /\ Due(u) \in Nat /\ mark[u].due \in Nat
    BY DueIsNat DEF Due, DueInv, MarkOK, Mark, IInv, UsersOK
  <2>5. ~users[u].isActive => Cardinality(NewTokens(u)) + Due(u) <= mark[u].due
    BY DEF DueInv, Bounded
  <2> QED
    BY <2>3, <2>4, <2>5 DEF Bounded
<1> QED
  BY <1>1 DEF DueInv, MarkOK, RegistersActive

LEMMA DueInvariance == Spec => []DueInv
<1>1. Init => DueInv
  <2> SUFFICES ASSUME Init PROVE DueInv
    OBVIOUS
  <2>1. MarkOK
    BY IdentityAssumption DEF Init, MarkOK, Mark, Unmarked
  <2>2. RegistersActive /\ DOMAIN users = {}
    BY DEF Init, RegistersActive, Idle
  <2> QED
    BY <2>1, <2>2, InitOK DEF DueInv
<1>2. DueInv /\ IInv' /\ [Next]_vars => DueInv'
  <2> SUFFICES ASSUME DueInv, IInv', [Next]_vars PROVE DueInv'
    OBVIOUS
  <2>1. CASE UNCHANGED vars
    BY <2>1, JobStandsBounded DEF vars
  <2>2. CASE Expire \/ \E p \in Workers : Logout(p)
    BY <2>2, JobStandsBounded DEF Expire, Logout
  <2> QED
    BY <2>1, <2>2, InsertUserBounded, CreationBounded, SaveUserBounded, OthersBounded DEF Next
<1> QED
  BY <1>1, <1>2, Invariance, PTL DEF Spec

\* What a deactivated user still gets is what was due when it was deactivated:
\* requests that had looked at isActive before, and none after, for any number
\* of requests, users and tokens.
THEOREM DeactivationIsFinal == Spec => []DeactivationHolds
<1>1. DueInv => DeactivationHolds
  <2> SUFFICES ASSUME DueInv, NEW u \in DOMAIN users, ~users[u].isActive
               PROVE  Cardinality(NewTokens(u)) <= mark[u].due
    BY DEF DeactivationHolds
  <2>1. Cardinality(NewTokens(u)) \in Nat
    BY NewTokensFinite, FS_CardinalityType DEF DueInv
  <2>2. Due(u) \in Nat /\ mark[u].due \in Nat
    BY DueIsNat DEF DueInv, MarkOK, Mark, IInv, UsersOK
  <2>3. Cardinality(NewTokens(u)) + Due(u) <= mark[u].due
    BY DEF DueInv, Bounded
  <2> QED
    BY <2>1, <2>2, <2>3
<1> QED
  BY <1>1, DueInvariance, PTL

\* Rows, tokens and requests have their types.
THEOREM TypeCorrect == Spec => []TypeOK
<1>1. DueInv => TypeOK
  <2> SUFFICES ASSUME DueInv PROVE TypeOK
    OBVIOUS
  <2>1. DOMAIN users \subseteq Users /\ \A u \in DOMAIN users : users[u] \in User
    BY DEF DueInv, IInv, UsersOK
  <2>2. drawn \in Nat
    BY DEF DueInv, IInv, TokensOK
  <2>3. Tokens(drawn) \subseteq {t \in Token : t.id <= drawn}
    BY <2>2, IdentityAssumption DEF Tokens, Token
  <2>4. sessions \cup held \subseteq {t \in Token : t.id <= drawn}
    BY <2>3 DEF DueInv, IInv, TokensOK
  <2>5. \A p \in Workers : job[p] = Idle \/ job[p].at \in
          {"InsertUser", "CreateSession", "FindUser", "DelOld", "CreateNew",
           "Scan", "DelKeys", "Load", "SaveUser"}
    BY DEF DueInv, IInv, JobsOK, JobOK
  <2>6. mark \in [Users -> Mark]
    BY DEF DueInv, MarkOK
  <2>7. QED
    BY <2>1, <2>2, <2>4, <2>5, <2>6 DEF TypeOK
<1>2. QED
  BY <1>1, DueInvariance, PTL

-----------------------------------------------------------------------------
(* A logout from everywhere.  Its SCAN ends when it has returned what was   *)
(* there all the time, and an id is never drawn again.                      *)

ScanJob(j) == j = [at |-> j.at, user |-> j.user, start |-> j.start, keys |-> j.keys]

ScanOK(j, d, S) ==
    /\ j.at \in {"Scan", "DelKeys"} => ScanJob(j) /\ j.start \subseteq Tokens(d)
    /\ j.at = "DelKeys" => j.start \cap S \subseteq j.keys

ScanInv == \A p \in Workers : ScanOK(job[p], drawn, sessions)

\* Sessions go, or a new id is drawn for one.
Creation ==
    /\ drawn' = drawn \/ drawn' = drawn + 1
    /\ \A t \in sessions' \ sessions : t.id = drawn + 1

LEMMA SessionsChange == ASSUME [Next]_vars PROVE Creation
<1>1. ASSUME NEW p \in Workers, CreateSession(p) \/ CreateNew(p) PROVE Creation
  <2>1. drawn' = drawn + 1 /\ \E u : sessions' = sessions \cup {[user |-> u, id |-> drawn + 1]}
    BY <1>1 DEF CreateSession, CreateNew
  <2> QED
    BY <2>1 DEF Creation
<1>2. ASSUME drawn' = drawn, sessions' \subseteq sessions PROVE Creation
  BY <1>2 DEF Creation
<1>3. CASE UNCHANGED vars \/ Expire
  BY <1>2, <1>3 DEF vars, Expire
<1>4. ASSUME NEW p \in Workers,
             \/ Register(p) \/ InsertUser(p) \/ Login(p) \/ Refresh(p) \/ FindUser(p)
             \/ LogoutAll(p) \/ Scan(p) \/ Update(p) \/ Load(p) \/ SaveUser(p) \/ Abort(p)
      PROVE  drawn' = drawn /\ sessions' \subseteq sessions
  BY <1>4, Zenon DEF Register, InsertUser, Login, Refresh, FindUser, LogoutAll, Scan, Update,
     Load, SaveUser, Abort
<1>5. ASSUME NEW p \in Workers, DelOld(p) \/ Logout(p) \/ DelKeys(p)
      PROVE  drawn' = drawn /\ sessions' \subseteq sessions
  BY <1>5 DEF DelOld, Logout, DelKeys
<1> QED
  BY <1>1, <1>2, <1>3, <1>4, <1>5 DEF Next

\* What a scan knows stays true whatever is created or goes.
LEMMA ScanStays ==
    ASSUME IInv, Creation, NEW j, ScanOK(j, drawn, sessions)
    PROVE  ScanOK(j, drawn', sessions')
<1>1. drawn \in Nat /\ drawn' \in Nat /\ drawn <= drawn'
  BY IdentityAssumption DEF IInv, TokensOK, Creation
<1>2. Tokens(drawn) \subseteq Tokens(drawn')
  BY <1>1 DEF Tokens
<1>3. \A t \in Tokens(drawn) : t.id <= drawn
  BY <1>1 DEF Tokens
<1>4. \A t \in sessions' : t \in Tokens(drawn) => t \in sessions
  BY <1>1, <1>3 DEF Creation
<1> QED
  BY <1>2, <1>4 DEF ScanOK

\* Only LogoutAll and Scan lead to a scan that was not there.
LEMMA JobMoves ==
    ASSUME IInv, [Next]_vars, NEW q \in Workers
    PROVE  \/ job'[q] = job[q]
           \/ job'[q].at \notin {"Scan", "DelKeys"}
           \/ LogoutAll(q) \/ Scan(q)
<1>1. CASE UNCHANGED vars \/ Expire
  BY <1>1 DEF vars, Expire
<1>3. ASSUME NEW p \in Workers, LogoutAll(p) \/ Scan(p)
      PROVE  job'[q] = job[q] \/ LogoutAll(q) \/ Scan(q)
  BY <1>3 DEF LogoutAll, Scan, Become, IInv, JobsOK
<1>5. ASSUME NEW p \in Workers,
             \/ Register(p) \/ InsertUser(p) \/ Login(p) \/ CreateSession(p)
             \/ Refresh(p) \/ FindUser(p)
      PROVE  job'[q] = job[q] \/ job'[q].at \notin {"Scan", "DelKeys"}
  BY <1>5 DEF Register, InsertUser, Login, CreateSession, Refresh, FindUser, Become, Idle, IInv, JobsOK
<1>6. ASSUME NEW p \in Workers,
             \/ DelOld(p) \/ CreateNew(p) \/ DelKeys(p)
             \/ Update(p) \/ Load(p) \/ SaveUser(p) \/ Abort(p)
      PROVE  job'[q] = job[q] \/ job'[q].at \notin {"Scan", "DelKeys"}
  BY <1>6 DEF DelOld, CreateNew, DelKeys, Update, Load, SaveUser, Abort, Become, Idle, IInv, JobsOK
<1>7. ASSUME NEW p \in Workers, Logout(p) PROVE job' = job
  BY <1>7 DEF Logout
<1> QED
  BY <1>1, <1>3, <1>5, <1>6, <1>7 DEF Next

\* The two ways of Scan to go on keep the user and the start of the logout.
LEMMA ScanGoesOn ==
    ASSUME NEW j, ScanJob(j), j.at = "Scan", NEW keys, NEW n, n = [j EXCEPT !.keys = keys]
    PROVE  ScanJob(n) /\ n.at = "Scan" /\ n.start = j.start
<1>1. PICK u, s, k : j = [at |-> "Scan", user |-> u, start |-> s, keys |-> k]
  BY DEF ScanJob
<1>2. n = [at |-> "Scan", user |-> u, start |-> s, keys |-> keys] /\ j.start = s
  BY <1>1
<1> QED
  BY <1>2 DEF ScanJob

Ended(j, keys) == [j EXCEPT !.at = "DelKeys", !.keys = keys]

LEMMA ScanEnds ==
    ASSUME NEW j, ScanJob(j), j.at = "Scan", NEW keys, NEW n, n = Ended(j, keys)
    PROVE  ScanJob(n) /\ n.at = "DelKeys" /\ n.start = j.start /\ n.keys = keys
<1>1. PICK u, s, k : j = [at |-> "Scan", user |-> u, start |-> s, keys |-> k]
  BY DEF ScanJob
<1>2. j.start = s /\ j.keys = k /\ DOMAIN j = {"at", "user", "start", "keys"}
  BY <1>1
<1>3. /\ n = [f \in DOMAIN n |-> n[f]] /\ DOMAIN n = DOMAIN j
      /\ n["at"] = "DelKeys" /\ n["start"] = s /\ n["user"] = u /\ n["keys"] = keys
  BY <1>1, <1>2 DEF Ended
<1>4. n = [at |-> "DelKeys", user |-> u, start |-> s, keys |-> keys]
  BY <1>2, <1>3
<1> QED
  BY <1>2, <1>4 DEF ScanJob

LEMMA ScanNext == ASSUME IInv, ScanInv, [Next]_vars PROVE ScanInv'
<1>1. Creation
  BY SessionsChange
<1>2. ASSUME NEW q \in Workers PROVE ScanOK(job'[q], drawn', sessions')
  <2>1. CASE job'[q] = job[q]
    BY <1>1, <2>1, ScanStays DEF ScanInv
  <2>2. CASE job'[q].at \notin {"Scan", "DelKeys"}
    BY <2>2 DEF ScanOK
  <2>3. CASE LogoutAll(q)
    <3>1. PICK u \in DOMAIN users :
            Become(q, [at |-> "Scan", user |-> u, start |-> SessionsOf(u), keys |-> {}])
      BY <2>3 DEF LogoutAll
    <3>2. job'[q] = [at |-> "Scan", user |-> u, start |-> SessionsOf(u), keys |-> {}]
      BY <3>1 DEF Become, IInv, JobsOK
    <3>3. SessionsOf(u) \subseteq Tokens(drawn) /\ drawn' = drawn
      BY <2>3 DEF LogoutAll, SessionsOf, IInv, TokensOK
    <3> QED
      BY <3>2, <3>3 DEF ScanOK, ScanJob
  <2>4. CASE Scan(q)
    <3> DEFINE j == job[q]
    <3>1. ScanJob(j) /\ j.start \subseteq Tokens(drawn) /\ j.at = "Scan"
      BY <2>4 DEF Scan, ScanInv, ScanOK
    <3>2. drawn' = drawn /\ sessions' = sessions
      BY <2>4 DEF Scan
    <3>3. DOMAIN job = Workers
      BY DEF IInv, JobsOK
    <3>4. ASSUME NEW keys, Become(q, [j EXCEPT !.keys = keys])
          PROVE  ScanOK(job'[q], drawn', sessions')
      <4>1. job'[q] = [j EXCEPT !.keys = keys]
        BY <3>3, <3>4 DEF Become
      <4> HIDE DEF j
      <4> QED
        <5>1. ScanJob(job'[q]) /\ job'[q].at = "Scan" /\ job'[q].start = j.start
          BY <3>1, <4>1, ScanGoesOn
        <5> QED
          BY <3>1, <3>2, <5>1 DEF ScanOK
    <3>5. ASSUME NEW keys, j.start \cap sessions \subseteq keys,
                 Become(q, [j EXCEPT !.at = "DelKeys", !.keys = keys])
          PROVE  ScanOK(job'[q], drawn', sessions')
      <4>1. job'[q] = Ended(j, keys)
        BY <3>3, <3>5 DEF Become, Ended
      <4> HIDE DEF j
      <4> QED
        <5>1. /\ ScanJob(job'[q]) /\ job'[q].at = "DelKeys"
              /\ job'[q].start = j.start /\ job'[q].keys = keys
          BY <3>1, <4>1, ScanEnds
        <5> QED
          BY <3>1, <3>2, <3>5, <5>1 DEF ScanOK
    <3> QED
      BY <2>4, <3>4, <3>5 DEF Scan
  <2> QED
    BY <2>1, <2>2, <2>3, <2>4, JobMoves
<1> QED
  BY <1>2 DEF ScanInv

\* A logout from everywhere takes every session that was there when it began,
\* for any number of requests, sessions and batches of its SCAN.
THEOREM LogoutTakesAll == Spec => LogoutAllRevokes
<1> DEFINE Revokes ==
      \A p \in Workers :
          job[p].at = "DelKeys" /\ job'[p] = Idle /\ sessions' # sessions
              => job[p].start \cap sessions' = {}
<1>1. ASSUME IInv, ScanInv, [Next]_vars PROVE [Revokes]_vars
  <2> SUFFICES ASSUME NEW p \in Workers, Next,
                      job[p].at = "DelKeys", job'[p] = Idle, sessions' # sessions
               PROVE  job[p].start \cap sessions' = {}
    BY <1>1
  <2>1. job'[p] # job[p] /\ job[p] # Idle
    BY DEF Idle
  <2>2. ASSUME NEW q \in Workers, NEW j, Become(q, j) PROVE q = p
    BY <1>1, <2>1, <2>2 DEF Become, IInv, JobsOK
  <2>3. ASSUME NEW q \in Workers, CreateSession(q) \/ DelOld(q) \/ CreateNew(q) PROVE FALSE
    <3>1. q = p
      BY <2>2, <2>3 DEF CreateSession, DelOld, CreateNew
    <3> QED
      BY <2>3, <3>1 DEF CreateSession, DelOld, CreateNew
  <2>4. PICK q \in Workers : DelKeys(q)
    BY <2>1, <2>3 DEF Next, Register, InsertUser, Login, Refresh, FindUser, Logout, LogoutAll, Scan,
       Update, Load, SaveUser, Abort, Expire
  <2>5. q = p
    BY <2>2, <2>4 DEF DelKeys
  <2>6. job[p].start \cap sessions \subseteq job[p].keys
    BY <1>1 DEF ScanInv, ScanOK
  <2> QED
    BY <2>4, <2>5, <2>6 DEF DelKeys
<1>2. Init => ScanInv
  BY DEF Init, ScanInv, ScanOK, Idle
<1>3. IInv /\ ScanInv /\ [Next]_vars => ScanInv'
  BY ScanNext
<1>4. LogoutAllRevokes <=> [][Revokes]_vars
  BY DEF LogoutAllRevokes
<1> HIDE DEF Revokes
<1> QED
  BY <1>1, <1>2, <1>3, <1>4, Invariance, PTL DEF Spec
=============================================================================
