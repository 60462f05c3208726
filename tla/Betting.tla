------------------------------ MODULE Betting -------------------------------
(***************************************************************************)
(* Placing a bet: apps/gaming-api/src/betting with packages/betting.       *)
(*                                                                         *)
(* A worker is one placeBet in flight.  It reads the selections, saves the *)
(* slip and saves its lines, in three transactions; other requests and     *)
(* whoever maintains the selections come in between.                       *)
(***************************************************************************)
EXTENDS Payout

CONSTANTS
    Workers, Selections, Markets, Slips,
    Odds,       \* that selections are offered at
    Stakes,     \* that are asked for: no type or limit is checked before validateSlip
    Failures    \* whether requests can fail half way

ASSUME BettingAssumption ==
    /\ Odds \subseteq Nat \ {0} /\ Stakes \subseteq Int \cup {NaN}
    /\ IsFiniteSet(Selections)
    /\ Failures \in BOOLEAN

VARIABLES
    selections,   \* rows of selections by id
    slips,        \* rows of bet_slips by id
    lines,        \* rows of bet_lines
    job           \* what each worker is doing

vars == <<selections, slips, lines, job>>

SelectionStatus == {"OPEN", "SUSPENDED", "CLOSED", "WIN", "LOSS", "VOID"}

Selection == [market : Markets, odds : Odds, status : SelectionStatus]

\* A slip without a number for a stake has none for a payout.
BetSlip ==
    [type : {"SINGLE", "ACCUMULATOR"}, stake : MinStake..MaxStake, payout : 0..MaxPayout,
     status : {"PENDING"}]
    \cup [type : {"SINGLE", "ACCUMULATOR"}, stake : {NaN}, payout : {NaN}, status : {"PENDING"}]

BetLine == [slip : Slips, selection : Selections, odds : Odds]

Idle == [at |-> "Idle"]

-----------------------------------------------------------------------------

Init ==
    /\ selections \in [Selections -> [market : Markets, odds : Odds, status : {"OPEN"}]]
    /\ slips = [b \in {} |-> 0]
    /\ lines = {}
    /\ job   = [p \in Workers |-> Idle]

Put(rows, id, row) == [i \in DOMAIN rows \cup {id} |-> IF i = id THEN row ELSE rows[i]]

Become(p, j) == job' = [job EXCEPT ![p] = j]

\* placeBet, up to its first save.  The status of the market is not looked at.
\* Slips is a bound: no bet is placed that there is no id left for.
PlaceBet(p) ==
    /\ job[p] = Idle
    /\ Cardinality({q \in Workers : job[q].at = "SaveSlip"}) < Cardinality(Slips \ DOMAIN slips)
    /\ \E chosen \in SUBSET Selections, stake \in Stakes :
         LET odds == [s \in chosen |-> selections[s].odds] IN
         /\ \A s \in chosen : selections[s].status = "OPEN"
         /\ validateSlip(odds, stake)
         /\ Become(p, [at |-> "SaveSlip", odds |-> odds, stake |-> stake])
    /\ UNCHANGED <<selections, slips, lines>>

SaveSlip(p) ==
    /\ job[p].at = "SaveSlip"
    /\ \E b \in Slips \ DOMAIN slips :
         /\ slips' = Put(slips, b,
              [type   |-> IF Cardinality(DOMAIN job[p].odds) = 1 THEN "SINGLE" ELSE "ACCUMULATOR",
               stake  |-> job[p].stake, status |-> "PENDING",
               payout |-> calculatePayout(job[p].stake, job[p].odds)])
         /\ Become(p, [at |-> "SaveLines", slip |-> b, odds |-> job[p].odds])
    /\ UNCHANGED <<selections, lines>>

\* What is not a number goes into a decimal column only as the text "NaN";
\* PostgreSQL refuses anything else.
RefuseSlip(p) ==
    /\ job[p].at = "SaveSlip" /\ job[p].stake = NaN
    /\ Become(p, Idle)
    /\ UNCHANGED <<selections, slips, lines>>

\* Mutant: the odds are read again.
SaveLinesAtNewOdds(p) ==
    /\ job[p].at = "SaveLines"
    /\ lines' = lines \cup {[slip |-> job[p].slip, selection |-> s, odds |-> selections[s].odds] :
                              s \in DOMAIN job[p].odds}
    /\ Become(p, Idle)
    /\ UNCHANGED <<selections, slips>>

\* All lines in one transaction, at the odds that were read with the selections.
SaveLines(p) ==
    /\ job[p].at = "SaveLines"
    /\ lines' = lines \cup {[slip |-> job[p].slip, selection |-> s, odds |-> job[p].odds[s]] :
                              s \in DOMAIN job[p].odds}
    /\ Become(p, Idle)
    /\ UNCHANGED <<selections, slips>>

\* A query fails or the process dies.
Abort(p) ==
    /\ Failures /\ job[p] # Idle
    /\ Become(p, Idle)
    /\ UNCHANGED <<selections, slips, lines>>

\* Outside this program, the row of a selection gets other odds or another
\* status; all that matters of a status is whether it is OPEN.
Maintain(s) ==
    /\ \E odds \in Odds, status \in {"OPEN", "SUSPENDED"} :
         selections' = [selections EXCEPT ![s].odds = odds, ![s].status = status]
    /\ UNCHANGED <<slips, lines, job>>

Step(p) == SaveSlip(p) \/ RefuseSlip(p) \/ SaveLines(p)

Next == \/ \E p \in Workers : PlaceBet(p) \/ Step(p) \/ Abort(p)
        \/ \E s \in Selections : Maintain(s)

Spec == Init /\ [][Next]_vars

\* Requests that have begun are carried on with.
FairSpec == Spec /\ \A p \in Workers : WF_vars(Step(p))

-----------------------------------------------------------------------------
(* Properties. *)

TypeOK ==
    /\ selections \in [Selections -> Selection]
    /\ DOMAIN slips \subseteq Slips /\ \A b \in DOMAIN slips : slips[b] \in BetSlip
    /\ lines \subseteq BetLine
    /\ \A p \in Workers : job[p] = Idle \/ job[p].at \in {"SaveSlip", "SaveLines"}

LinesOf(b) == {l \in lines : l.slip = b}

\* The odds of the lines of b, by selection.
OddsOf(b) ==
    [s \in {l.selection : l \in LinesOf(b)} |-> (CHOOSE l \in LinesOf(b) : l.selection = s).odds]

\* What placeBet saves in its second transaction fits what it saved in the
\* first, although the selections may have changed meanwhile: no selection has
\* two lines on a slip, and a slip that has lines has the type and the payout
\* that they give it.
LinesMatchSlip ==
    /\ \A k, l \in lines : k.slip = l.slip /\ k.selection = l.selection => k = l
    /\ \A l \in lines :
         /\ l.slip \in DOMAIN slips
         /\ slips[l.slip].payout = calculatePayout(slips[l.slip].stake, OddsOf(l.slip))
         /\ slips[l.slip].type = IF Cardinality(LinesOf(l.slip)) = 1 THEN "SINGLE" ELSE "ACCUMULATOR"

(* What the documents claim. *)

Quiescent == \A p \in Workers : job[p] = Idle

\* docs/architecture.md, section 10: a BetSlip has "1..n selections".
SlipHasLines == Quiescent => \A b \in DOMAIN slips : LinesOf(b) # {}

\* packages/betting/README.md: the validator rejects "duplicate markets".
OneLinePerMarket ==
    \A k, l \in lines : k.slip = l.slip /\ k # l =>
        selections[k.selection].market # selections[l.selection].market

\* packages/betting/README.md: the validator checks the "min/max stake".
StakeIsLimited == \A b \in DOMAIN slips : slips[b].stake \in MinStake..MaxStake

\* docs/architecture.md, section 10: "PENDING -> ACCEPTED -> SETTLED".
SlipIsAccepted ==
    \A b \in Slips : b \in DOMAIN slips ~> (b \in DOMAIN slips /\ slips[b].status # "PENDING")
=============================================================================
