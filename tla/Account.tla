------------------------------ MODULE Account ------------------------------
(***************************************************************************)
(* What the wallet service promises about its wallets, with no rows and no *)
(* requests: money moves when a credit is applied or a closed hold is paid, *)
(* each at most once for its reference, and by nothing else.               *)
(***************************************************************************)
EXTENDS Integers

CONSTANTS
    Wallets,
    HoldRefs,    \* references of holds
    CreditRefs   \* references of direct credits

VARIABLES
    balance,   \* of each wallet
    owner,     \* the wallet of each hold that was opened
    closed,    \* the holds that are no longer active
    paid,      \* the holds that were paid
    credited   \* the credits that were applied

Init ==
    /\ balance = [w \in Wallets |-> 0]
    /\ owner   = [r \in {} |-> 0]
    /\ closed = {} /\ paid = {} /\ credited = {}

\* A hold is opened for a wallet; its reference is new.
Open(r, w) ==
    /\ r \notin DOMAIN owner
    /\ owner' = [q \in DOMAIN owner \cup {r} |-> IF q = r THEN w ELSE owner[q]]
    /\ UNCHANGED <<balance, closed, paid, credited>>

\* Holds are closed, one by a settlement or several by a sweep, and stay closed.
Close ==
    /\ closed \subseteq closed' /\ closed' \subseteq DOMAIN owner
    /\ UNCHANGED <<balance, owner, paid, credited>>

\* Only this wallet's balance moves.
Moves(w) == balance' = [balance EXCEPT ![w] = balance'[w]]

\* A closed hold is paid, to the wallet that opened it.
Pay(r) ==
    /\ r \in closed \ paid
    /\ Moves(owner[r]) /\ balance'[owner[r]] > balance[owner[r]]
    /\ paid' = paid \cup {r}
    /\ UNCHANGED <<owner, closed, credited>>

\* A credit is applied to a wallet, by whatever amount the caller names.
Credit(c, w) ==
    /\ c \notin credited
    /\ Moves(w)
    /\ credited' = credited \cup {c}
    /\ UNCHANGED <<owner, closed, paid>>

Next ==
    \/ Close
    \/ \E r \in HoldRefs : Pay(r) \/ \E w \in Wallets : Open(r, w)
    \/ \E c \in CreditRefs, w \in Wallets : Credit(c, w)

Spec == Init /\ [][Next]_<<balance, owner, closed, paid, credited>>
=============================================================================
