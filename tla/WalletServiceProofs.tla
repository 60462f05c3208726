------------------------ MODULE WalletServiceProofs ------------------------
(***************************************************************************)
(* One wallet for each owner, and one answer to all who ask for it, for    *)
(* any number of requests, wallets and owners.                             *)
(***************************************************************************)
EXTENDS WalletService, TLAPS

IInv == TypeOK /\ OneWalletPerOwner /\ AnswersAgree

LEMMA InitHolds == Init => IInv
BY DEF Init, IInv, TypeOK, OneWalletPerOwner, AnswersAgree, Idle

LEMMA RowsType == TypeOK => DOMAIN wallets \subseteq Wallets /\ wallets \in [DOMAIN wallets -> Owners]
BY DEF TypeOK

\* What a client is told about a stored row agrees with what was told before.
LEMMA TellKeeps ==
  ASSUME IInv, NEW o \in Owners, NEW w \in DOMAIN wallets, wallets[w] = o,
         Tell(o, w), wallets' = wallets, job' = job
  PROVE  IInv'
<1>1. told' \in [Owners -> SUBSET Wallets]
  BY RowsType DEF IInv, TypeOK, Tell
<1>2. AnswersAgree'
  BY DEF IInv, TypeOK, OneWalletPerOwner, AnswersAgree, Tell
<1> QED BY <1>1, <1>2 DEF IInv, TypeOK, OneWalletPerOwner

LEMMA CreateKeeps == ASSUME IInv, NEW p \in Workers, Create(p) PROVE IInv'
<1>1. PICK o \in Owners :
         \/ /\ \E w \in DOMAIN wallets : wallets[w] = o /\ Tell(o, w)
            /\ UNCHANGED job
         \/ /\ ~Owned(o)
            /\ Become(p, [at |-> "Insert", owner |-> o])
            /\ UNCHANGED told
  BY DEF Create
<1>2. wallets' = wallets
  BY DEF Create
<1>3. CASE Become(p, [at |-> "Insert", owner |-> o]) /\ UNCHANGED told
  BY <1>2, <1>3 DEF IInv, TypeOK, OneWalletPerOwner, AnswersAgree, Become
<1> QED BY <1>1, <1>2, <1>3, TellKeeps

\* The index refuses a second row, so a row that is stored is its owner's first.
LEMMA InsertKeeps == ASSUME IInv, NEW p \in Workers, Insert(p) PROVE IInv'
<1>1. job' \in [Workers -> {Idle} \cup [at : {"Insert"}, owner : Owners]]
  BY DEF IInv, TypeOK, Insert, Become
<1>2. CASE UNCHANGED <<wallets, told>>
  BY <1>1, <1>2 DEF IInv, TypeOK, OneWalletPerOwner, AnswersAgree
<1>3. CASE ~UNCHANGED <<wallets, told>>
  <2> DEFINE o == job[p].owner
  <2>1. ~Owned(o) /\ o \in Owners
    BY <1>3 DEF IInv, TypeOK, Insert, Idle
  <2>2. PICK w \in Wallets \ DOMAIN wallets : NewRow(w, o) /\ (Tell(o, w) \/ UNCHANGED told)
    BY <1>3 DEF Insert
  <2>3. /\ DOMAIN wallets' = DOMAIN wallets \cup {w} /\ wallets'[w] = o
        /\ \A v \in DOMAIN wallets : wallets'[v] = wallets[v]
        /\ wallets' \in [DOMAIN wallets \cup {w} -> Owners]
    BY <2>1, <2>2, RowsType DEF NewRow, IInv
  <2>4. TypeOK'
    <3>1. told' \in [Owners -> SUBSET Wallets]
      BY <2>2 DEF IInv, TypeOK, Tell
    <3>2. DOMAIN wallets \cup {w} \in SUBSET Wallets
      BY <2>2, RowsType DEF IInv
    <3> QED BY <1>1, <2>3, <3>1, <3>2 DEF TypeOK
  <2>5. OneWalletPerOwner'
    BY <2>1, <2>3 DEF IInv, OneWalletPerOwner, Owned
  <2>6. told[o] = {}
    BY <2>1 DEF IInv, TypeOK, AnswersAgree, Owned
  <2>7. \A q \in Owners : told'[q] = told[q] \/ (q = o /\ told'[q] = {w})
    BY <2>1, <2>2, <2>6 DEF IInv, TypeOK, Tell
  <2>8. AnswersAgree'
    BY <2>3, <2>7 DEF IInv, AnswersAgree
  <2> QED BY <2>4, <2>5, <2>8 DEF IInv
<1> QED BY <1>2, <1>3

LEMMA StepHolds == IInv /\ [Next]_vars => IInv'
<1> SUFFICES ASSUME IInv, [Next]_vars PROVE IInv'
  OBVIOUS
<1>1. CASE UNCHANGED vars
  BY <1>1 DEF vars, IInv, TypeOK, OneWalletPerOwner, AnswersAgree
<1>2. ASSUME NEW p \in Workers, Abort(p) PROVE IInv'
  BY <1>2 DEF Abort, Become, IInv, TypeOK, OneWalletPerOwner, AnswersAgree
<1> QED BY <1>1, <1>2, CreateKeeps, InsertKeeps DEF Next

\* Rows, answers and requests have their types.
THEOREM TypeCorrect == Spec => []TypeOK
<1>1. IInv => TypeOK
  BY DEF IInv
<1> QED BY InitHolds, StepHolds, <1>1, PTL DEF Spec

\* create never gives a user a second wallet of a currency, however its lookups
\* and inserts interleave.
THEOREM OneWallet == Spec => []OneWalletPerOwner
<1>1. IInv => OneWalletPerOwner
  BY DEF IInv
<1> QED BY InitHolds, StepHolds, <1>1, PTL DEF Spec

\* All who ask for a wallet and are answered learn of the same one, whatever is
\* lost, repeated or refused meanwhile.
THEOREM AnswersStayTrue == Spec => []AnswersAgree
<1>1. IInv => AnswersAgree
  BY DEF IInv
<1> QED BY InitHolds, StepHolds, <1>1, PTL DEF Spec
=============================================================================
