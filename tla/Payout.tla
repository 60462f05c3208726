------------------------------- MODULE Payout -------------------------------
(***************************************************************************)
(* The arithmetic of a bet slip: packages/betting validation/slip-validator*)
(* and settlement/payout-calculator, as operators.                         *)
(*                                                                         *)
(* A bet is a function from the selections it is on to their odds.  Stakes *)
(* and odds are whole numbers of some unit, and 1 stands for the odds 1.00;*)
(* the rounding of decimal columns and of doubles is left out.  Nothing    *)
(* checks what a request gives for its stake: NaN stands for whatever is   *)
(* not a number in arithmetic and in comparisons.                          *)
(***************************************************************************)
EXTENDS Integers, FiniteSets, Functions

CONSTANTS
    MaxSelections,   \* DEFAULT_MAX_SELECTIONS
    MinStake,        \* DEFAULT_MIN_STAKE
    MaxStake,        \* DEFAULT_MAX_STAKE
    MaxPayout,       \* DEFAULT_MAX_PAYOUT
    NaN

ASSUME PayoutAssumption ==
    /\ MaxSelections \in Nat \ {0} /\ MaxPayout \in Nat
    /\ MinStake \in Nat \ {0} /\ MaxStake \in Nat
    /\ NaN \notin Int

\* a < b and a * b in JavaScript, where odds and limits are always numbers.
Less(a, b) == a # NaN /\ b # NaN /\ a < b

Times(stake, odds) == IF stake = NaN THEN NaN ELSE stake * odds

Product(odds) == FoldFunction(LAMBDA o, product : o * product, 1, odds)

-----------------------------------------------------------------------------
(* slip-validator *)

calculatePayout(stake, odds) == Times(stake, Product(odds))

\* Mutant: the greatest payout is not checked.
ValidateUncapped(odds, stake) ==
    /\ DOMAIN odds # {} /\ Cardinality(DOMAIN odds) <= MaxSelections
    /\ ~Less(stake, MinStake) /\ ~Less(MaxStake, stake)
    /\ \A s \in DOMAIN odds : odds[s] > 1

\* What is compared is what the code throws on, so that NaN passes.
validateSlip(odds, stake) ==
    /\ DOMAIN odds # {} /\ Cardinality(DOMAIN odds) <= MaxSelections
    /\ ~Less(stake, MinStake) /\ ~Less(MaxStake, stake)
    /\ \A s \in DOMAIN odds : odds[s] > 1
    /\ ~Less(MaxPayout, calculatePayout(stake, odds))

-----------------------------------------------------------------------------
(* payout-calculator *)

\* A maximum of 0 is falsy: it is no maximum.
Capped(payout, maximum) ==
    IF maximum # 0 /\ Less(maximum, payout) THEN maximum ELSE payout

calculatePotentialPayout(stake, odds, maximum) == Capped(Times(stake, Product(odds)), maximum)

\* Mutant: the maximum is forgotten.
ActualUncapped(stake, odds, status, maximum) ==
    IF \E s \in DOMAIN odds : status[s] = "LOSS"
    THEN [payout |-> 0, result |-> "LOSS"]
    ELSE [payout |-> Times(stake, Product(Restrict(odds, {s \in DOMAIN odds : status[s] = "WIN"}))),
          result |-> "WIN"]

\* Mutant: a void leg makes the slip void, before a lost one makes it lost.
VoidFirst(stake, odds, status, maximum) ==
    IF \E s \in DOMAIN odds : status[s] = "VOID"
    THEN [payout |-> stake, result |-> "VOID"]
    ELSE IF \E s \in DOMAIN odds : status[s] = "LOSS"
    THEN [payout |-> 0, result |-> "LOSS"]
    ELSE [payout |-> Capped(Times(stake, Product(odds)), maximum), result |-> "WIN"]

\* What the loop over the legs comes to: a lost one ends it, a void one adds no
\* odds.  LegByLeg in SlipResults is the loop itself.
calculateActualPayout(stake, odds, status, maximum) ==
    LET won == Restrict(odds, {s \in DOMAIN odds : status[s] = "WIN"})
        combinedOdds == Product(won)
        hasVoid == \E s \in DOMAIN odds : status[s] = "VOID"
    IN  IF \E s \in DOMAIN odds : status[s] = "LOSS"
        THEN [payout |-> 0, result |-> "LOSS"]
        ELSE IF hasVoid /\ combinedOdds = 1
        THEN [payout |-> stake, result |-> "VOID"]
        ELSE [payout |-> Capped(Times(stake, combinedOdds), maximum), result |-> "WIN"]
=============================================================================
