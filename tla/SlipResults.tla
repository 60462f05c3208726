---------------------------- MODULE SlipResults -----------------------------
(***************************************************************************)
(* What calculateActualPayout makes of the slips that placeBet has stored, *)
(* whatever the results of their legs are.  No service calls the function  *)
(* yet, so that nothing settles a slip: each result is looked at instead.  *)
(***************************************************************************)
EXTENDS Betting, Sequences

CONSTANT Maxima   \* values of maxPayout (undefined behaves like 0)

ASSUME SlipResultsAssumption == Maxima \subseteq Nat

\* The slips that have their lines, and the results their legs can have.
Complete == {b \in DOMAIN slips : LinesOf(b) # {}}

Results(b) == [{l.selection : l \in LinesOf(b)} -> {"WIN", "LOSS", "VOID"}]

Actual(b, status, maximum) ==
    calculateActualPayout(slips[b].stake, OddsOf(b), status, maximum)

\* The maxima that the stake of b can be paid back under.
SensibleMaxima(b) == {m \in Maxima : m = 0 \/ ~Less(m, slips[b].stake)}

\* Mutant: a void leg ends the loop as a lost one does.
StopsAtVoid(before, odds, status) ==
    IF before.lost \/ before.hasVoid THEN before
    ELSE CASE status = "LOSS" -> [before EXCEPT !.lost = TRUE]
           [] status = "VOID" -> [before EXCEPT !.hasVoid = TRUE]
           [] OTHER -> [before EXCEPT !.combinedOdds = @ * odds]

\* The body of the loop in calculateActualPayout; a lost leg returns from it.
AfterLeg(before, odds, status) ==
    IF before.lost THEN before
    ELSE CASE status = "LOSS" -> [before EXCEPT !.lost = TRUE]
           [] status = "VOID" -> [before EXCEPT !.hasVoid = TRUE]
           [] OTHER -> [before EXCEPT !.combinedOdds = @ * odds]

\* calculateActualPayout over the legs in the order in which they are given.
LegByLeg(stake, order, odds, status, maximum) ==
    LET after[i \in 0..Len(order)] ==
          IF i = 0 THEN [combinedOdds |-> 1, hasVoid |-> FALSE, lost |-> FALSE]
          ELSE AfterLeg(after[i - 1], odds[order[i]], status[order[i]])
        loop == after[Len(order)]
    IN  IF loop.lost THEN [payout |-> 0, result |-> "LOSS"]
        ELSE IF loop.hasVoid /\ loop.combinedOdds = 1 THEN [payout |-> stake, result |-> "VOID"]
        ELSE [payout |-> Capped(Times(stake, loop.combinedOdds), maximum), result |-> "WIN"]

\* The orders in which a query can return the lines of b.
Orders(b) ==
    LET legs == {l.selection : l \in LinesOf(b)} IN
    {order \in [1..Cardinality(legs) -> legs] : IsInjective(order)}

-----------------------------------------------------------------------------
(* Properties. *)

\* The lines of a slip are read in no particular order, and the loop may end
\* before it has seen them all: in every order it comes to the same answer.
LegOrderDoesNotMatter ==
    \A b \in Complete : \A status \in Results(b), maximum \in Maxima, order \in Orders(b) :
        LegByLeg(slips[b].stake, order, OddsOf(b), status, maximum) = Actual(b, status, maximum)

\* Nothing pays more than the slip promised when it was placed: the payout that
\* placeBet stored with it, and the one capped by the maximum.
NoMoreThanPromised ==
    \A b \in Complete : \A status \in Results(b), maximum \in SensibleMaxima(b) :
        LET payout == Actual(b, status, maximum).payout IN
        /\ ~Less(slips[b].payout, payout)
        /\ ~Less(calculatePotentialPayout(slips[b].stake, OddsOf(b), maximum), payout)

\* A void leg counts as if it had not been on the slip; with all legs void the
\* stake is paid back.
VoidLegsDropOut ==
    \A b \in Complete : \A status \in Results(b), maximum \in Maxima :
        LET played == {leg \in DOMAIN status : status[leg] # "VOID"} IN
        Actual(b, status, maximum) =
            IF played = {} THEN [payout |-> slips[b].stake, result |-> "VOID"]
            ELSE calculateActualPayout(slips[b].stake, Restrict(OddsOf(b), played),
                                       Restrict(status, played), maximum)

\* A leg corrected for the worse, from WIN to VOID or from anything to LOSS,
\* never raises the payout.
WorseNeverPaysMore ==
    \A b \in Complete : \A status \in Results(b), maximum \in SensibleMaxima(b) :
        \A leg \in DOMAIN status :
            LET Corrected(result) ==
                  Actual(b, [status EXCEPT ![leg] = result], maximum).payout
            IN  /\ ~Less(Corrected("VOID"), Corrected("LOSS"))
                /\ ~Less(Corrected("WIN"), Corrected("VOID"))

(* What the documents claim. *)

\* packages/betting/README.md: "Maximum payout is capped by operator
\* configuration."
WinIsCapped ==
    \A b \in Complete : \A status \in Results(b), maximum \in Maxima :
        Actual(b, status, maximum).result = "WIN"
            => ~Less(maximum, Actual(b, status, maximum).payout)
=============================================================================
