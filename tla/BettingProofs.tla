------------------------------- MODULE BettingProofs -------------------------------
EXTENDS SlipResults, FunctionTheorems, FiniteSetTheorems, TLAPS

-----------------------------------------------------------------------------
(* Induction over the subsets of a finite set, with a set for the property. *)

LEMMA SubsetInduction ==
    ASSUME NEW S, IsFiniteSet(S), NEW Good,
           \A T \in SUBSET S : (\A U \in SUBSET T : U # T => U \in Good) => T \in Good
    PROVE  S \in Good
<1> DEFINE Bad == (SUBSET S) \ Good
<1>1. IsWellFoundedOn(StrictSubsetOrdering(S), SUBSET S)
  BY FS_StrictSubsetOrderingWellFounded, FS_FiniteSubsetsOfFinite
<1>2. ASSUME Bad # {} PROVE FALSE
  <2>1. PICK T \in Bad : \A U \in Bad : <<U, T>> \notin StrictSubsetOrdering(S)
    <3> HIDE DEF Bad
    <3>1. Bad \subseteq SUBSET S
      BY DEF Bad
    <3> QED
      BY <1>1, <1>2, <3>1, WFMin
  <2>2. \A U \in SUBSET T : U # T => U \in Good
    BY <2>1 DEF StrictSubsetOrdering
  <2> QED
    BY <2>2
<1> QED
  BY <1>2

-----------------------------------------------------------------------------
(* The fold that multiplies odds up. *)

\* The leg that the fold takes next, and the function that it defines.
Choice(s) == CHOOSE x \in s : TRUE

Multiplies(g, odds, D) ==
    g = [s \in SUBSET D |-> IF s = {} THEN 1
                     ELSE odds[Choice(s)] * g[s \ {Choice(s)}]]

LEMMA ChoiceIn == \A s : s # {} => Choice(s) \in s
BY DEF Choice

LEMMA ProductIs ==
    ASSUME NEW odds
    PROVE  Product(odds)
             = (CHOOSE g : Multiplies(g, odds, DOMAIN odds))[DOMAIN odds]
BY DEF Product, FoldFunction, FoldFunctionOnSet, MapThenFoldSet, Multiplies, Choice

\* The function is determined by the odds of the legs that it is applied to.
LEMMA MultipliesOnce ==
    ASSUME NEW D, NEW odds, NEW g, Multiplies(g, odds, D),
           NEW E, NEW odds2, NEW h, Multiplies(h, odds2, E),
           NEW T, IsFiniteSet(T), T \subseteq D, T \subseteq E,
           \A x \in T : odds[x] = odds2[x]
    PROVE  g[T] = h[T]
<1> DEFINE Good == {U \in SUBSET T : g[U] = h[U]}
<1>1. ASSUME NEW U \in SUBSET T, \A V \in SUBSET U : V # U => V \in Good
      PROVE  U \in Good
  <2>1. CASE U = {}
    BY <2>1 DEF Multiplies
  <2>2. CASE U # {}
    <3> DEFINE c == Choice(U)
    <3>1. c \in U
      BY <2>2, ChoiceIn
    <3>2. g[U \ {c}] = h[U \ {c}]
      BY <3>1, <1>1
    <3>3. U \in SUBSET D /\ U \in SUBSET E
      OBVIOUS
    <3> HIDE DEF c
    <3>4. g[U] = odds[c] * g[U \ {c}]
      BY <2>2, <3>3 DEF Multiplies, c
    <3>5. h[U] = odds2[c] * h[U \ {c}]
      BY <2>2, <3>3 DEF Multiplies, c
    <3> QED
      BY <3>1, <3>2, <3>4, <3>5
  <2> QED
    BY <2>1, <2>2
<1> HIDE DEF Good
<1>2. T \in Good
  BY <1>1, SubsetInduction
<1> QED
  BY <1>2 DEF Good

\* It exists: values for the proper subsets of a set give one for the set.
LEMMA MultipliesExists ==
    ASSUME NEW D, IsFiniteSet(D), NEW odds
    PROVE  \E g : Multiplies(g, odds, D)
<1> DEFINE F(U) == CHOOSE g : Multiplies(g, odds, U)
           Good == {T \in SUBSET D : \E g : Multiplies(g, odds, T)}
<1>1. ASSUME NEW T \in SUBSET D, \A U \in SUBSET T : U # T => U \in Good
      PROVE  T \in Good
  <2> DEFINE G == [s \in SUBSET T |-> IF s = {} THEN 1
                     ELSE odds[Choice(s)] * F(s \ {Choice(s)})[s \ {Choice(s)}]]
  <2>1. ASSUME NEW U \in SUBSET T, U # T PROVE Multiplies(F(U), odds, U)
    BY <1>1, <2>1
  <2> HIDE DEF F
  <2>2. ASSUME NEW s \in SUBSET T, s # {} PROVE G[s \ {Choice(s)}] = F(s \ {Choice(s)})[s \ {Choice(s)}]
    <3> DEFINE U == s \ {Choice(s)}
    <3>1. U \in SUBSET T /\ U # T /\ Choice(s) \in s
      BY <2>2, ChoiceIn
    <3>2. Multiplies(F(U), odds, U)
      BY <3>1, <2>1
    <3>3. CASE U = {}
      <4>1. F(U)[U] = 1
        BY <3>2, <3>3 DEF Multiplies
      <4> QED
        BY <3>1, <3>3, <4>1
    <3>4. CASE U # {}
      <4> DEFINE V == U \ {Choice(U)}
      <4> HIDE DEF U
      <4>1. V \in SUBSET U /\ V \in SUBSET T /\ V # T /\ Choice(U) \in U
        BY <3>1, <3>4, ChoiceIn
      <4>2. Multiplies(F(V), odds, V)
        BY <4>1, <2>1
      <4>3. F(U)[U] = odds[Choice(U)] * F(U)[V]
        BY <3>2, <3>4 DEF Multiplies
      <4>4. IsFiniteSet(V)
        BY <4>1, FS_Subset
      <4>5. F(U)[V] = F(V)[V]
        <5> HIDE DEF V
        <5>1. V \subseteq U /\ V \subseteq V /\ \A x \in V : odds[x] = odds[x]
          BY <4>1
        <5> QED
          BY <3>2, <4>2, <4>4, <5>1, MultipliesOnce, SMT
      <4>6. G[U] = odds[Choice(U)] * F(V)[V]
        BY <3>1, <3>4
      <4>7. G[U] = F(U)[U]
        BY <4>3, <4>5, <4>6
      <4> QED
        BY <4>7 DEF U
    <3> QED
      BY <3>3, <3>4
  <2>3. G = [s \in SUBSET T |-> IF s = {} THEN 1
                     ELSE odds[Choice(s)] * G[s \ {Choice(s)}]]
    BY <2>2
  <2>4. Multiplies(G, odds, T)
    <3> HIDE DEF G
    <3> QED BY <2>3 DEF Multiplies
  <2> QED
    BY <2>4
<1> HIDE DEF Good
<1>2. D \in Good
  BY <1>1, SubsetInduction
<1> QED
  BY <1>2 DEF Good

\* The recursion in terms of products only.
LEMMA ProductEmpty == ASSUME NEW odds, DOMAIN odds = {} PROVE Product(odds) = 1
<1> DEFINE g == CHOOSE f : Multiplies(f, odds, DOMAIN odds)
<1>1. Multiplies(g, odds, DOMAIN odds)
  BY FS_EmptySet, MultipliesExists
<1>2. Product(odds) = g[DOMAIN odds]
  BY ProductIs
<1> HIDE DEF g
<1> QED
  BY <1>1, <1>2 DEF Multiplies

LEMMA ProductChoice ==
    ASSUME NEW odds, IsFiniteSet(DOMAIN odds), NEW T \in SUBSET DOMAIN odds, T # {}
    PROVE  Product(Restrict(odds, T))
             = odds[Choice(T)] * Product(Restrict(odds, T \ {Choice(T)}))
<1> DEFINE c == Choice(T)
           U == T \ {c}
           g == CHOOSE f : Multiplies(f, Restrict(odds, T), T)
           h == CHOOSE f : Multiplies(f, Restrict(odds, U), U)
<1>1. c \in T /\ U \in SUBSET T
  BY ChoiceIn
<1>2. IsFiniteSet(T) /\ IsFiniteSet(U)
  BY <1>1, FS_Subset
<1>3. DOMAIN Restrict(odds, T) = T /\ DOMAIN Restrict(odds, U) = U
  BY DEF Restrict
<1>4. Multiplies(g, Restrict(odds, T), T)
  BY <1>2, MultipliesExists
<1>5. Multiplies(h, Restrict(odds, U), U)
  BY <1>2, MultipliesExists
<1>6. Product(Restrict(odds, T)) = g[T]
  BY <1>3, ProductIs
<1>7. Product(Restrict(odds, U)) = h[U]
  BY <1>3, ProductIs
<1> HIDE DEF g, h
<1>8. \A x \in U : Restrict(odds, T)[x] = Restrict(odds, U)[x]
  BY DEF Restrict
<1> HIDE DEF U
<1>9. g[U] = h[U]
  <2>1. U \subseteq T /\ U \subseteq U
    BY <1>1
  <2> QED
    BY <1>2, <1>4, <1>5, <1>8, <2>1, MultipliesOnce, SMT
<1>10. g[T] = Restrict(odds, T)[c] * g[U]
  BY <1>1, <1>4 DEF Multiplies, U
<1>11. Restrict(odds, T)[c] = odds[c]
  BY <1>1 DEF Restrict
<1> QED
  BY <1>6, <1>7, <1>9, <1>10, <1>11 DEF U

\* A bet is a function on a finite set of legs, at odds above 1.
Bet(odds) == /\ IsFiniteSet(DOMAIN odds)
             /\ odds \in [DOMAIN odds -> Nat \ {0}]

LEMMA ProductNat ==
    ASSUME NEW odds, Bet(odds), NEW T \in SUBSET DOMAIN odds
    PROVE  Product(Restrict(odds, T)) \in Nat \ {0}
<1> DEFINE Good == {U \in SUBSET T : Product(Restrict(odds, U)) \in Nat \ {0}}
<1>1. ASSUME NEW U \in SUBSET T, \A V \in SUBSET U : V # U => V \in Good
      PROVE  U \in Good
  <2>1. CASE U = {}
    <3>1. DOMAIN Restrict(odds, U) = {}
      BY <2>1 DEF Restrict
    <3> QED
      BY <3>1, ProductEmpty
  <2>2. CASE U # {}
    <3> DEFINE c == Choice(U)
    <3>1. c \in U
      BY <2>2, ChoiceIn
    <3> HIDE DEF c
    <3>2. Product(Restrict(odds, U \ {c})) \in Nat \ {0}
      BY <3>1, <1>1
    <3>3. Product(Restrict(odds, U)) = odds[c] * Product(Restrict(odds, U \ {c}))
      BY <2>2, ProductChoice DEF Bet, c
    <3>4. odds[c] \in Nat \ {0}
      BY <3>1 DEF Bet
    <3>5. \A m, n \in Nat \ {0} : m * n \in Nat \ {0}
      OBVIOUS
    <3> QED
      BY <3>2, <3>3, <3>4, <3>5
  <2> QED
    BY <2>1, <2>2
<1> HIDE DEF Good
<1>2. IsFiniteSet(T)
  BY FS_Subset DEF Bet
<1>3. T \in Good
  BY <1>1, <1>2, SubsetInduction
<1> QED
  BY <1>3 DEF Good

\* The order in which the legs are taken does not matter.
LEMMA ProductStep ==
    ASSUME NEW odds, Bet(odds), NEW T \in SUBSET DOMAIN odds, NEW x \in T
    PROVE  Product(Restrict(odds, T)) = odds[x] * Product(Restrict(odds, T \ {x}))
<1> DEFINE P(U) == Product(Restrict(odds, U))
           Good == {U \in SUBSET T : \A y \in U : P(U) = odds[y] * P(U \ {y})}
<1>1. ASSUME NEW U \in SUBSET T, \A V \in SUBSET U : V # U => V \in Good
      PROVE  U \in Good
  <2> SUFFICES ASSUME NEW y \in U PROVE P(U) = odds[y] * P(U \ {y})
    OBVIOUS
  <2> DEFINE c == Choice(U)
             V == U \ {c}
             W == U \ {y}
             X == V \ {y}
  <2>1. c \in U
    BY ChoiceIn
  <2>2. P(U) = odds[c] * P(V)
    BY ProductChoice DEF Bet
  <2>3. CASE y = c
    BY <2>2, <2>3
  <2>4. CASE y # c
    <3>1. V \in SUBSET U /\ V # U /\ y \in V /\ W \in SUBSET U /\ W # U /\ c \in W
      BY <2>1, <2>4
    <3>2. X = W \ {c}
      OBVIOUS
    <3> HIDE DEF c, V, W, X, P
    <3>3. P(V) = odds[y] * P(X)
      BY <3>1, <1>1 DEF X
    <3>4. P(W) = odds[c] * P(X)
      BY <3>1, <3>2, <1>1
    <3>5. odds[c] \in Nat /\ odds[y] \in Nat /\ P(X) \in Nat
      BY <2>1, ProductNat DEF Bet, P, X, V
    <3>6. \A k, m, n \in Nat : k * (m * n) = m * (k * n)
      OBVIOUS
    <3>7. P(U) = odds[c] * (odds[y] * P(X))
      BY <2>2, <3>3
    <3>8. P(U) = odds[y] * P(W)
      BY <3>4, <3>5, <3>6, <3>7
    <3> QED
      BY <3>8 DEF P, W
  <2> QED
    BY <2>3, <2>4
<1> HIDE DEF Good
<1>2. IsFiniteSet(T)
  BY FS_Subset DEF Bet
<1>3. T \in Good
  BY <1>1, <1>2, SubsetInduction
<1> QED
  BY <1>3 DEF Good

\* A leg more never makes less.
LEMMA ProductGrows ==
    ASSUME NEW odds, Bet(odds), NEW T \in SUBSET DOMAIN odds, NEW R \in SUBSET T
    PROVE  Product(Restrict(odds, R)) <= Product(Restrict(odds, T))
<1> DEFINE P(U) == Product(Restrict(odds, U))
           Good == {U \in SUBSET T : R \subseteq U => P(R) <= P(U)}
<1>1. ASSUME NEW U \in SUBSET T, \A V \in SUBSET U : V # U => V \in Good
      PROVE  U \in Good
  <2> SUFFICES ASSUME R \subseteq U PROVE P(R) <= P(U)
    OBVIOUS
  <2>1. P(R) \in Nat \ {0}
    BY ProductNat
  <2>2. CASE R = U
    BY <2>1, <2>2
  <2>3. CASE R # U
    <3>1. PICK x \in U : x \notin R
      BY <2>3
    <3>2. P(U) = odds[x] * P(U \ {x})
      BY ProductStep
    <3>3. P(R) <= P(U \ {x})
      BY <3>1, <1>1
    <3>4. odds[x] \in Nat \ {0} /\ P(U \ {x}) \in Nat \ {0}
      BY ProductNat DEF Bet
    <3>5. \A k, m, n \in Nat \ {0} : k <= n => k <= m * n
      OBVIOUS
    <3> HIDE DEF P
    <3> QED
      BY <2>1, <3>2, <3>3, <3>4, <3>5
  <2> QED
    BY <2>2, <2>3
<1> HIDE DEF Good
<1>2. IsFiniteSet(T)
  BY FS_Subset DEF Bet
<1>3. T \in Good
  BY <1>1, <1>2, SubsetInduction
<1> QED
  BY <1>3 DEF Good

\* Odds above 1 only make 1 when there are none.
LEMMA ProductOne ==
    ASSUME NEW odds, Bet(odds), \A x \in DOMAIN odds : odds[x] > 1,
           NEW T \in SUBSET DOMAIN odds
    PROVE  Product(Restrict(odds, T)) = 1 <=> T = {}
<1>1. CASE T = {}
  <2>1. DOMAIN Restrict(odds, T) = {}
    BY <1>1 DEF Restrict
  <2> QED
    BY <1>1, <2>1, ProductEmpty
<1>2. CASE T # {}
  <2>1. PICK x \in T : TRUE
    BY <1>2
  <2>2. Product(Restrict(odds, T)) = odds[x] * Product(Restrict(odds, T \ {x}))
    BY ProductStep
  <2>3. Product(Restrict(odds, T \ {x})) \in Nat \ {0}
    BY ProductNat
  <2>4. odds[x] \in Nat \ {0} /\ odds[x] > 1
    BY DEF Bet
  <2>5. \A m, n \in Nat \ {0} : m > 1 => m * n # 1
    OBVIOUS
  <2> QED
    BY <1>2, <2>2, <2>3, <2>4, <2>5
<1> QED
  BY <1>1, <1>2

\* The odds of a whole bet.
LEMMA ProductOfBet ==
    ASSUME NEW odds, Bet(odds)
    PROVE  /\ Restrict(odds, DOMAIN odds) = odds
           /\ Product(odds) \in Nat \ {0}
<1>1. Restrict(odds, DOMAIN odds) = odds
  BY DEF Bet, Restrict
<1>2. Product(Restrict(odds, DOMAIN odds)) \in Nat \ {0}
  BY ProductNat
<1> QED
  BY <1>1, <1>2

-----------------------------------------------------------------------------
(* The inductive invariant of Betting.                                     *)

Legs == UNION {[C -> Odds] : C \in SUBSET Selections}

LinesIn(L, b) == {l \in L : l.slip = b}

LineSet(b, odds) == {[slip |-> b, selection |-> s, odds |-> odds[s]] : s \in DOMAIN odds}

\* Of the slips S, b is the one that placeBet makes of the selections at odds.
Fits(S, b, odds) ==
    /\ b \in DOMAIN S
    /\ odds \in Legs
    /\ S[b].stake \in Int \cup {NaN}
    /\ validateSlip(odds, S[b].stake)
    /\ S[b].payout = calculatePayout(S[b].stake, odds)
    /\ S[b].type = IF Cardinality(DOMAIN odds) = 1 THEN "SINGLE" ELSE "ACCUMULATOR"

\* What a request knows, with the slips S and the lines L stored.
JobOK(j, S, L) ==
    /\ j.at \in {"Idle", "SaveSlip", "SaveLines"}
    /\ j.at = "Idle" => j = Idle
    /\ j.at = "SaveSlip" => j.odds \in Legs /\ j.stake \in Int \cup {NaN} /\ validateSlip(j.odds, j.stake)
    /\ j.at = "SaveLines" => Fits(S, j.slip, j.odds) /\ LinesIn(L, j.slip) = {}

OwnSlip(J) ==
    \A p, q \in Workers : /\ J[p].at = "SaveLines" /\ J[q].at = "SaveLines"
                          /\ J[p].slip = J[q].slip
                          => p = q

\* The lines of a slip are stored all at once, and fit it.
LinesFit(S, L) ==
    \A l \in L : \E odds \in Legs :
        Fits(S, l.slip, odds) /\ LinesIn(L, l.slip) = LineSet(l.slip, odds)

Rows(S) == DOMAIN S \subseteq Slips /\ \A b \in DOMAIN S : S[b] \in BetSlip

IInv ==
    /\ selections \in [Selections -> Selection]
    /\ Rows(slips)
    /\ lines \subseteq BetLine
    /\ job = [p \in Workers |-> job[p]]
    /\ \A p \in Workers : JobOK(job[p], slips, lines)
    /\ OwnSlip(job)
    /\ LinesFit(slips, lines)

-----------------------------------------------------------------------------
(* The steps.                                                              *)

LEMMA LegsBet == ASSUME NEW odds \in Legs
                 PROVE  Bet(odds) /\ DOMAIN odds \subseteq Selections
<1>1. PICK C \in SUBSET Selections : odds \in [C -> Odds]
  BY DEF Legs
<1>2. IsFiniteSet(C)
  BY FS_Subset, BettingAssumption
<1> QED
  BY <1>1, <1>2, BettingAssumption DEF Bet

LEMMA JobAfter ==
    ASSUME IInv, NEW p \in Workers, NEW j, Become(p, j)
    PROVE  /\ job' = [q \in Workers |-> job'[q]]
           /\ \A q \in Workers : job'[q] = IF q = p THEN j ELSE job[q]
BY DEF IInv, Become

LEMMA NotIdle ==
    ASSUME IInv, NEW p \in Workers, job[p].at = "Idle" PROVE job[p] = Idle
BY DEF IInv, JobOK

\* A request that moves on and stores nothing.
LEMMA MoveStep ==
    ASSUME IInv, NEW p \in Workers, NEW j, Become(p, j), JobOK(j, slips, lines),
           j.at # "SaveLines", selections' \in [Selections -> Selection],
           UNCHANGED <<slips, lines>>
    PROVE  IInv'
<1>1. \A q \in Workers : job'[q] = IF q = p THEN j ELSE job[q]
  BY JobAfter
<1>2. \A q \in Workers : JobOK(job'[q], slips, lines)
  BY <1>1 DEF IInv
<1>3. OwnSlip(job')
  BY <1>1 DEF IInv, OwnSlip
<1> QED
  BY <1>2, <1>3, JobAfter, Zenon DEF IInv

LEMMA PlaceBetStep == ASSUME IInv, NEW p \in Workers, PlaceBet(p) PROVE IInv'
<1>1. PICK chosen \in SUBSET Selections, stake \in Stakes :
        LET odds == [s \in chosen |-> selections[s].odds] IN
        validateSlip(odds, stake) /\ Become(p, [at |-> "SaveSlip", odds |-> odds, stake |-> stake])
  BY DEF PlaceBet
<1> DEFINE odds == [s \in chosen |-> selections[s].odds]
           j == [at |-> "SaveSlip", odds |-> odds, stake |-> stake]
<1>2. odds \in [chosen -> Odds]
  BY DEF IInv, Selection
<1>3. odds \in Legs /\ stake \in Int \cup {NaN}
  BY <1>2, BettingAssumption DEF Legs
<1>4. Become(p, j) /\ validateSlip(odds, stake)
  BY <1>1
<1> HIDE DEF odds
<1>5. JobOK(j, slips, lines)
  BY <1>3, <1>4 DEF JobOK
<1> QED
  BY <1>4, <1>5, MoveStep DEF PlaceBet, IInv

LEMMA AbortStep == ASSUME IInv, NEW p \in Workers, Abort(p) \/ RefuseSlip(p) PROVE IInv'
<1>1. JobOK(Idle, slips, lines) /\ Idle.at # "SaveLines"
  BY DEF JobOK, Idle
<1> QED
  BY <1>1, MoveStep DEF Abort, RefuseSlip, IInv

LEMMA MaintainStep == ASSUME IInv, NEW s \in Selections, Maintain(s) PROVE IInv'
<1>1. selections' \in [Selections -> Selection]
  BY DEF Maintain, IInv, Selection, SelectionStatus
<1> QED
  BY <1>1 DEF Maintain, IInv

\* Rows that are there keep what fits them.
LEMMA PutFits ==
    ASSUME NEW S, NEW b, b \notin DOMAIN S, NEW row, NEW c, NEW odds, Fits(S, c, odds)
    PROVE  Fits(Put(S, b, row), c, odds)
BY DEF Fits, Put

LEMMA SaveSlipStep == ASSUME IInv, NEW p \in Workers, SaveSlip(p) PROVE IInv'
<1> DEFINE j == job[p]
           type == IF Cardinality(DOMAIN j.odds) = 1 THEN "SINGLE" ELSE "ACCUMULATOR"
           row == [type |-> type, stake |-> j.stake, status |-> "PENDING",
                   payout |-> calculatePayout(j.stake, j.odds)]
<1>1. PICK b \in Slips \ DOMAIN slips :
        /\ slips' = Put(slips, b, row)
        /\ Become(p, [at |-> "SaveLines", slip |-> b, odds |-> j.odds])
  BY DEF SaveSlip
<1> DEFINE k == [at |-> "SaveLines", slip |-> b, odds |-> j.odds]
<1>2. /\ j.odds \in Legs /\ j.stake \in Int \cup {NaN} /\ validateSlip(j.odds, j.stake)
  BY DEF SaveSlip, IInv, JobOK
<1>3. UNCHANGED <<selections, lines>>
  BY DEF SaveSlip
<1>4. row \in BetSlip
  <2>1. Product(j.odds) \in Nat \ {0}
    BY <1>2, LegsBet, ProductOfBet
  <2>2. CASE j.stake = NaN
    <3>1. calculatePayout(j.stake, j.odds) = NaN
      BY <2>2 DEF calculatePayout, Times
    <3> QED
      BY <2>2, <3>1 DEF BetSlip
  <2>3. CASE j.stake # NaN
    <3>1. j.stake \in MinStake..MaxStake
      BY <1>2, <2>3, PayoutAssumption DEF validateSlip, Less
    <3>2. calculatePayout(j.stake, j.odds) \in Nat
      BY <2>1, <2>3, <3>1, PayoutAssumption DEF calculatePayout, Times
    <3>3. calculatePayout(j.stake, j.odds) # NaN
      BY <3>2, PayoutAssumption
    <3>4. calculatePayout(j.stake, j.odds) \in 0..MaxPayout
      BY <1>2, <3>2, <3>3, PayoutAssumption DEF validateSlip, Less
    <3> QED
      BY <3>1, <3>4 DEF BetSlip
  <2> QED
    BY <2>2, <2>3
<1> HIDE DEF type
<1>5. Fits(slips', b, j.odds)
  <2>1. b \in DOMAIN slips' /\ slips'[b] = row
    BY <1>1 DEF Put
  <2> QED
    BY <1>2, <2>1 DEF Fits, type
<1> HIDE DEF row, j
<1>6. Rows(slips')
  <2>1. DOMAIN slips' = DOMAIN slips \cup {b}
    BY <1>1 DEF Put
  <2>2. \A c \in DOMAIN slips' : slips'[c] = IF c = b THEN row ELSE slips[c]
    BY <1>1 DEF Put
  <2> QED
    BY <1>4, <2>1, <2>2 DEF IInv, Rows
<1>7. \A q \in Workers : job'[q] = IF q = p THEN k ELSE job[q]
  BY <1>1, JobAfter
<1>8. \A c, odds : Fits(slips, c, odds) => Fits(slips', c, odds)
  BY <1>1, PutFits
<1>9. LinesIn(lines, b) = {}
  BY DEF IInv, LinesFit, Fits, LinesIn
<1>10. \A q \in Workers : JobOK(job'[q], slips', lines)
  <2> SUFFICES ASSUME NEW q \in Workers PROVE JobOK(job'[q], slips', lines)
    OBVIOUS
  <2>1. CASE q = p
    BY <1>5, <1>7, <1>9, <2>1 DEF JobOK
  <2>2. CASE q # p
    BY <1>7, <1>8, <2>2 DEF IInv, JobOK
  <2> QED
    BY <2>1, <2>2
<1>11. OwnSlip(job')
  <2>1. \A q \in Workers : q # p /\ job'[q].at = "SaveLines" => job'[q].slip \in DOMAIN slips
    BY <1>7 DEF IInv, JobOK, Fits
  <2> QED
    BY <1>7, <2>1 DEF IInv, OwnSlip
<1>12. LinesFit(slips', lines)
  BY <1>8 DEF IInv, LinesFit
<1> QED
  BY <1>1, <1>3, <1>6, <1>10, <1>11, <1>12, JobAfter DEF IInv

LEMMA SaveLinesStep == ASSUME IInv, NEW p \in Workers, SaveLines(p) PROVE IInv'
<1> DEFINE b == job[p].slip
           odds == job[p].odds
<1>1. /\ Fits(slips, b, odds) /\ LinesIn(lines, b) = {}
      /\ lines' = lines \cup LineSet(b, odds)
      /\ Become(p, Idle)
      /\ UNCHANGED <<selections, slips>>
  BY DEF SaveLines, IInv, JobOK, LineSet
<1>2. job[p].at = "SaveLines"
  BY DEF SaveLines
<1> HIDE DEF b, odds
<1>3. \A c : LinesIn(lines', c) = IF c = b THEN LineSet(b, odds) ELSE LinesIn(lines, c)
  BY <1>1 DEF LinesIn, LineSet
<1>4. lines' \subseteq BetLine
  <2>1. b \in Slips
    BY <1>1 DEF IInv, Fits, Rows
  <2>2. \A s \in DOMAIN odds : s \in Selections /\ odds[s] \in Odds
    BY <1>1 DEF Fits, Legs
  <2> QED
    BY <1>1, <2>1, <2>2 DEF IInv, LineSet, BetLine
<1>5. \A q \in Workers : job'[q] = IF q = p THEN Idle ELSE job[q]
  BY <1>1, JobAfter
<1>6. \A q \in Workers : JobOK(job'[q], slips, lines')
  <2> SUFFICES ASSUME NEW q \in Workers PROVE JobOK(job'[q], slips, lines')
    OBVIOUS
  <2>1. CASE q = p
    BY <1>5, <2>1 DEF JobOK, Idle
  <2>2. CASE q # p
    <3>1. job[q].at = "SaveLines" => job[q].slip # b
      BY <1>2, <2>2 DEF IInv, OwnSlip, b
    <3> QED
      BY <1>3, <1>5, <2>2, <3>1 DEF IInv, JobOK
  <2> QED
    BY <2>1, <2>2
<1>7. OwnSlip(job')
  BY <1>5 DEF IInv, OwnSlip, Idle
<1>8. LinesFit(slips, lines')
  <2> SUFFICES ASSUME NEW l \in lines'
               PROVE  \E o \in Legs : Fits(slips, l.slip, o)
                                       /\ LinesIn(lines', l.slip) = LineSet(l.slip, o)
    BY DEF LinesFit
  <2>1. CASE l.slip = b
    BY <1>1, <1>3, <2>1 DEF Fits
  <2>2. CASE l.slip # b
    <3>1. l \in lines
      BY <1>1, <2>2 DEF LineSet
    <3> QED
      BY <1>3, <2>2, <3>1 DEF IInv, LinesFit
  <2> QED
    BY <2>1, <2>2
<1> QED
  BY <1>1, <1>4, <1>6, <1>7, <1>8, JobAfter DEF IInv

LEMMA InitIInv == Init => IInv
<1> SUFFICES ASSUME Init PROVE IInv
  OBVIOUS
<1>1. \A p \in Workers : job[p] = Idle
  BY DEF Init
<1>2. \A p \in Workers : JobOK(job[p], slips, lines)
  BY <1>1 DEF JobOK, Idle
<1>3. OwnSlip(job)
  BY <1>1 DEF OwnSlip, Idle
<1>4. selections \in [Selections -> Selection]
  BY DEF Init, Selection, SelectionStatus
<1> QED
  BY <1>2, <1>3, <1>4 DEF Init, IInv, Rows, LinesFit

LEMMA NextIInv == IInv /\ [Next]_vars => IInv'
<1> SUFFICES ASSUME IInv, [Next]_vars PROVE IInv'
  OBVIOUS
<1>1. CASE UNCHANGED vars
  BY <1>1, Zenon DEF vars, IInv, Rows, LinesFit, OwnSlip
<1>2. ASSUME NEW p \in Workers, PlaceBet(p) \/ Step(p) \/ Abort(p) PROVE IInv'
  BY <1>2, PlaceBetStep, SaveSlipStep, SaveLinesStep, AbortStep DEF Step
<1> QED
  BY <1>1, <1>2, MaintainStep DEF Next

LEMMA AlwaysIInv == Spec => []IInv
BY InitIInv, NextIInv, PTL DEF Spec

-----------------------------------------------------------------------------
(* The theorems about Betting.                                             *)

\* Slips, lines, selections and requests have their types; stakes and payouts
\* that are numbers are within the limits that placeBet is given, and a slip has
\* a number for the one exactly when it has one for the other.
THEOREM TypeCorrect == Spec => []TypeOK
<1>1. IInv => TypeOK
  BY DEF IInv, Rows, JobOK, TypeOK
<1> QED
  BY <1>1, AlwaysIInv, PTL

\* The odds of the lines of a slip that has some are those it was placed at.
LEMMA OddsOfLines ==
    ASSUME IInv, NEW l \in lines
    PROVE  /\ OddsOf(l.slip) \in Legs
           /\ Fits(slips, l.slip, OddsOf(l.slip))
           /\ LinesOf(l.slip) = LineSet(l.slip, OddsOf(l.slip))
           /\ DOMAIN OddsOf(l.slip) = {k.selection : k \in LinesOf(l.slip)}
<1> DEFINE b == l.slip
<1>1. PICK odds \in Legs : Fits(slips, b, odds) /\ LinesIn(lines, b) = LineSet(b, odds)
  BY DEF IInv, LinesFit
<1> HIDE DEF b
<1>2. LinesOf(b) = LineSet(b, odds)
  BY <1>1 DEF LinesOf, LinesIn
<1>3. \A k \in LinesOf(b) : k.selection \in DOMAIN odds /\ k.odds = odds[k.selection]
  BY <1>2 DEF LineSet
<1>4. ASSUME NEW s \in DOMAIN odds PROVE \E k \in LinesOf(b) : k.selection = s
  <2>1. [slip |-> b, selection |-> s, odds |-> odds[s]] \in LinesOf(b)
    BY <1>2 DEF LineSet
  <2> QED
    BY <2>1
<1>5. {k.selection : k \in LinesOf(b)} = DOMAIN odds
  BY <1>3, <1>4
<1>6. \A s \in DOMAIN odds : (CHOOSE k \in LinesOf(b) : k.selection = s).odds = odds[s]
  <2> SUFFICES ASSUME NEW s \in DOMAIN odds
               PROVE  (CHOOSE k \in LinesOf(b) : k.selection = s).odds = odds[s]
    OBVIOUS
  <2>1. \E k \in LinesOf(b) : k.selection = s
    BY <1>4
  <2>2. \A k \in LinesOf(b) : k.selection = s => k.odds = odds[s]
    BY <1>3
  <2> QED
    BY <2>1, <2>2
<1>7. OddsOf(b) = [s \in DOMAIN odds |-> odds[s]]
  BY <1>5, <1>6 DEF OddsOf
<1>8. OddsOf(b) = odds
  BY <1>7 DEF Legs
<1> QED
  BY <1>1, <1>2, <1>5, <1>8 DEF b

LEMMA LinesCounted ==
    ASSUME NEW b, NEW odds \in Legs
    PROVE  Cardinality(LineSet(b, odds)) = Cardinality(DOMAIN odds)
<1> DEFINE f == [s \in DOMAIN odds |-> [slip |-> b, selection |-> s, odds |-> odds[s]]]
<1>1. f \in Bijection(DOMAIN odds, LineSet(b, odds))
  <2>1. f \in [DOMAIN odds -> LineSet(b, odds)]
    BY DEF LineSet
  <2>2. \A s, t \in DOMAIN odds : f[s] = f[t] => s = t
    <3>1. \A s \in DOMAIN odds : f[s].selection = s
      OBVIOUS
    <3> HIDE DEF f
    <3> QED
      BY <3>1
  <2>3. \A l \in LineSet(b, odds) : \E s \in DOMAIN odds : f[s] = l
    BY DEF LineSet
  <2> HIDE DEF f
  <2> QED
    BY <2>1, <2>2, <2>3, Fun_IsBij
<1>2. ExistsBijection(DOMAIN odds, LineSet(b, odds))
  BY <1>1 DEF ExistsBijection
<1>3. IsFiniteSet(DOMAIN odds)
  BY LegsBet DEF Bet
<1> QED
  BY <1>2, <1>3, FS_Bijection

\* The lines that placeBet saves in its second transaction fit the slip of the
\* first, however the selections change meanwhile and whichever request fails.
THEOREM LinesFitSlip == Spec => []LinesMatchSlip
<1>1. IInv => LinesMatchSlip
  <2> SUFFICES ASSUME IInv PROVE LinesMatchSlip
    OBVIOUS
  <2>1. ASSUME NEW k \in lines, NEW l \in lines, k.slip = l.slip, k.selection = l.selection
        PROVE  k = l
    <3>1. k \in LineSet(l.slip, OddsOf(l.slip)) /\ l \in LineSet(l.slip, OddsOf(l.slip))
      BY <2>1, OddsOfLines DEF LinesOf
    <3> QED
      BY <2>1, <3>1 DEF LineSet
  <2>2. ASSUME NEW l \in lines
        PROVE  /\ l.slip \in DOMAIN slips
               /\ slips[l.slip].payout = calculatePayout(slips[l.slip].stake, OddsOf(l.slip))
               /\ slips[l.slip].type
                    = IF Cardinality(LinesOf(l.slip)) = 1 THEN "SINGLE" ELSE "ACCUMULATOR"
    <3>1. Cardinality(LinesOf(l.slip)) = Cardinality(DOMAIN OddsOf(l.slip))
      BY OddsOfLines, LinesCounted
    <3> QED
      BY <3>1, OddsOfLines DEF Fits
  <2> QED
    BY <2>1, <2>2 DEF LinesMatchSlip
<1> QED
  BY <1>1, AlwaysIInv, PTL

-----------------------------------------------------------------------------
(* What calculateActualPayout answers.                                     *)

\* A bet that validateSlip lets pass.
ValidBet(odds) == Bet(odds) /\ DOMAIN odds # {} /\ \A s \in DOMAIN odds : odds[s] > 1

Status(odds) == [DOMAIN odds -> {"WIN", "LOSS", "VOID"}]

With(status, result) == {s \in DOMAIN status : status[s] = result}

LEMMA Caps ==
    ASSUME NEW a \in Nat, NEW b \in Nat, NEW m \in Nat
    PROVE  /\ Capped(a, m) \in Nat
           /\ Capped(a, m) <= a
           /\ a <= b => Capped(a, m) <= Capped(b, m)
           /\ a <= b /\ (m = 0 \/ m >= a) => a <= Capped(b, m)
BY PayoutAssumption DEF Capped, Less

\* Nothing is more or less than NaN, and no maximum makes a number of it.
LEMMA NotANumber ==
    /\ \A a : ~Less(a, NaN) /\ ~Less(NaN, a)
    /\ \A m : Capped(NaN, m) = NaN
    /\ \A n : Times(NaN, n) = NaN
BY DEF Less, Capped, Times

LEMMA Numbers ==
    ASSUME NEW a \in Int, NEW b \in Int
    PROVE  /\ Less(a, b) <=> a < b
           /\ Times(a, b) = a * b
BY PayoutAssumption DEF Less, Times

LEMMA StakeTimes ==
    \A stake, m, n \in Nat : /\ stake * m \in Nat
                             /\ m <= n => stake * m <= stake * n
                             /\ m # 0 => stake <= stake * m
<1> SUFFICES ASSUME NEW stake \in Nat, NEW m \in Nat, NEW n \in Nat
             PROVE  /\ stake * m \in Nat
                    /\ m <= n => stake * m <= stake * n
                    /\ m # 0 => stake <= stake * m
  OBVIOUS
<1> QED
  OBVIOUS

\* The three answers.
LEMMA ActualIs ==
    ASSUME NEW odds, ValidBet(odds), NEW status \in Status(odds), NEW stake,
           NEW maximum \in Nat
    PROVE  calculateActualPayout(stake, odds, status, maximum) =
             IF With(status, "LOSS") # {} THEN [payout |-> 0, result |-> "LOSS"]
             ELSE IF With(status, "WIN") = {} THEN [payout |-> stake, result |-> "VOID"]
             ELSE [payout |-> Capped(Times(stake, Product(Restrict(odds, With(status, "WIN")))), maximum),
                   result |-> "WIN"]
<1> DEFINE won == With(status, "WIN")
<1>1. DOMAIN status = DOMAIN odds /\ won = {s \in DOMAIN odds : status[s] = "WIN"}
  BY DEF Status, With
<1>2. won \in SUBSET DOMAIN odds
  BY <1>1
<1>3. Product(Restrict(odds, won)) = 1 <=> won = {}
  BY <1>2, ProductOne DEF ValidBet
<1>4. (\E s \in DOMAIN odds : status[s] = "LOSS") <=> With(status, "LOSS") # {}
  BY <1>1 DEF With
<1>5. With(status, "LOSS") = {} /\ won = {} => \E s \in DOMAIN odds : status[s] = "VOID"
  BY <1>1 DEF With, Status, ValidBet
<1> HIDE DEF won
<1> QED
  BY <1>1, <1>3, <1>4, <1>5 DEF calculateActualPayout, won

\* The slips that the properties are about.
LEMMA CompleteBet ==
    ASSUME IInv, NEW b \in Complete
    PROVE  /\ ValidBet(OddsOf(b))
           /\ Results(b) = Status(OddsOf(b))
           /\ slips[b].stake \in Nat \cup {NaN}
           /\ slips[b].payout = Times(slips[b].stake, Product(OddsOf(b)))
<1>1. PICK l \in lines : l.slip = b
  BY DEF Complete, LinesOf
<1>2. OddsOf(b) \in Legs /\ Fits(slips, b, OddsOf(b))
  BY <1>1, OddsOfLines
<1>3. DOMAIN OddsOf(b) = {k.selection : k \in LinesOf(b)}
  BY <1>1, OddsOfLines
<1>4. ValidBet(OddsOf(b))
  BY <1>2, LegsBet DEF Fits, validateSlip, ValidBet
<1>5. slips[b].stake \in Nat \cup {NaN}
  BY <1>2, PayoutAssumption DEF Fits, validateSlip, Less
<1> QED
  BY <1>2, <1>3, <1>4, <1>5 DEF Fits, calculatePayout, Results, Status

\* A slip without a number for a stake pays nothing, or no number either.
LEMMA NoNumberPaid ==
    ASSUME IInv, NEW b \in Complete, slips[b].stake = NaN,
           NEW status \in Results(b), NEW maximum \in Maxima
    PROVE  Actual(b, status, maximum).payout \in {0, NaN}
<1>1. ValidBet(OddsOf(b)) /\ status \in Status(OddsOf(b)) /\ maximum \in Nat
  BY CompleteBet, SlipResultsAssumption
<1> QED
  BY <1>1, ActualIs, NotANumber DEF Actual

\* Whatever the results of its legs, a slip pays at most the payout that was
\* stored with it, and at most the capped one.
THEOREM PromiseIsKept == Spec => []NoMoreThanPromised
<1>1. IInv => NoMoreThanPromised
  <2> SUFFICES ASSUME IInv, NEW b \in Complete, NEW status \in Results(b),
                      NEW maximum \in SensibleMaxima(b)
               PROVE  /\ ~Less(slips[b].payout, Actual(b, status, maximum).payout)
                      /\ ~Less(calculatePotentialPayout(slips[b].stake, OddsOf(b), maximum),
                               Actual(b, status, maximum).payout)
    BY DEF NoMoreThanPromised
  <2> SUFFICES ASSUME slips[b].stake # NaN
               PROVE  /\ ~Less(slips[b].payout, Actual(b, status, maximum).payout)
                      /\ ~Less(calculatePotentialPayout(slips[b].stake, OddsOf(b), maximum),
                               Actual(b, status, maximum).payout)
    BY CompleteBet, NotANumber DEF calculatePotentialPayout
  <2> DEFINE stake == slips[b].stake
             odds  == OddsOf(b)
             won   == With(status, "WIN")
             all   == Product(odds)
             some  == Product(Restrict(odds, won))
  <2>1. /\ ValidBet(odds) /\ status \in Status(odds) /\ stake \in Nat
        /\ slips[b].payout = Times(stake, all)
    BY CompleteBet
  <2>2. maximum \in Nat /\ (maximum = 0 \/ maximum >= stake)
    <3>1. maximum \in Nat /\ (maximum = 0 \/ ~Less(maximum, stake))
      BY SlipResultsAssumption DEF SensibleMaxima
    <3>2. maximum # NaN /\ stake # NaN
      BY <2>1, <3>1, PayoutAssumption
    <3> QED
      BY <2>1, <3>1, <3>2 DEF Less
  <2>3. all \in Nat \ {0}
    BY <2>1, ProductOfBet DEF ValidBet
  <2>4. won \in SUBSET DOMAIN odds
    BY <2>1 DEF With, Status
  <2>5. some \in Nat \ {0} /\ some <= all
    <3>1. Restrict(odds, DOMAIN odds) = odds
      BY <2>1, ProductOfBet DEF ValidBet
    <3> QED
      BY <2>1, <2>4, <3>1, ProductNat, ProductGrows DEF ValidBet
  <2> HIDE DEF stake, odds, won, all, some
  <2>6. /\ stake * all \in Nat /\ stake * some \in Nat
        /\ stake * some <= stake * all /\ stake <= stake * all
    BY <2>1, <2>3, <2>5, StakeTimes
  <2>7. /\ Capped(stake * some, maximum) <= stake * some
        /\ Capped(stake * some, maximum) <= Capped(stake * all, maximum)
        /\ stake <= Capped(stake * all, maximum)
        /\ Capped(stake * all, maximum) \in Nat /\ Capped(stake * some, maximum) \in Nat
    BY <2>1, <2>2, <2>6, Caps
  <2>8. Actual(b, status, maximum) =
          IF With(status, "LOSS") # {} THEN [payout |-> 0, result |-> "LOSS"]
          ELSE IF won = {} THEN [payout |-> stake, result |-> "VOID"]
          ELSE [payout |-> Capped(stake * some, maximum), result |-> "WIN"]
    <3>1. Times(stake, some) = stake * some
      BY <2>1, <2>5, Numbers
    <3> QED
      BY <2>1, <2>2, <3>1, ActualIs DEF Actual, won, some, stake, odds
  <2>9. /\ calculatePotentialPayout(stake, odds, maximum) = Capped(stake * all, maximum)
        /\ slips[b].payout = stake * all
    <3>1. Times(stake, all) = stake * all
      BY <2>1, <2>3, Numbers
    <3> QED
      BY <2>1, <3>1 DEF calculatePotentialPayout, all
  <2>10. /\ Actual(b, status, maximum).payout <= stake * all
         /\ Actual(b, status, maximum).payout <= Capped(stake * all, maximum)
         /\ Actual(b, status, maximum).payout \in Nat
    BY <2>1, <2>6, <2>7, <2>8
  <2> QED
    <3>1. \A m, n \in Nat : m <= n => ~Less(n, m)
      BY DEF Less
    <3> QED
      BY <2>6, <2>7, <2>9, <2>10, <3>1 DEF stake, odds
<1> QED
  BY <1>1, AlwaysIInv, PTL

\* Void legs drop out of every slip.
THEOREM VoidsDropOut == Spec => []VoidLegsDropOut
<1>1. IInv => VoidLegsDropOut
  <2> SUFFICES ASSUME IInv, NEW b \in Complete, NEW status \in Results(b),
                      NEW maximum \in Maxima
               PROVE  LET played == {leg \in DOMAIN status : status[leg] # "VOID"} IN
                      Actual(b, status, maximum) =
                        IF played = {} THEN [payout |-> slips[b].stake, result |-> "VOID"]
                        ELSE calculateActualPayout(slips[b].stake, Restrict(OddsOf(b), played),
                                                   Restrict(status, played), maximum)
    BY DEF VoidLegsDropOut
  <2> DEFINE stake  == slips[b].stake
             odds   == OddsOf(b)
             played == {leg \in DOMAIN status : status[leg] # "VOID"}
             odds2  == Restrict(odds, played)
             status2 == Restrict(status, played)
             won    == With(status, "WIN")
             lost   == With(status, "LOSS")
  <2>1. ValidBet(odds) /\ status \in Status(odds)
    BY CompleteBet
  <2>2. maximum \in Nat
    BY SlipResultsAssumption
  <2>3. /\ DOMAIN status = DOMAIN odds /\ played \in SUBSET DOMAIN odds
        /\ won \subseteq played /\ lost \subseteq played /\ played = won \cup lost
    BY <2>1 DEF With, Status
  <2>4. With(status2, "WIN") = won /\ With(status2, "LOSS") = lost
    BY DEF With, Restrict
  <2> HIDE DEF stake, odds, played
  <2>5. Actual(b, status, maximum) =
          IF lost # {} THEN [payout |-> 0, result |-> "LOSS"]
          ELSE IF won = {} THEN [payout |-> stake, result |-> "VOID"]
          ELSE [payout |-> Capped(Times(stake, Product(Restrict(odds, won))), maximum), result |-> "WIN"]
    BY <2>1, <2>2, ActualIs DEF Actual, stake, odds
  <2>6. CASE played = {}
    BY <2>3, <2>5, <2>6 DEF stake, played
  <2>7. CASE played # {}
    <3>1. DOMAIN odds2 = played
      BY DEF Restrict
    <3>2. IsFiniteSet(played)
      BY <2>1, <2>3, FS_Subset DEF ValidBet, Bet
    <3>3. ValidBet(odds2)
      <4>1. \A s \in played : odds2[s] = odds[s] /\ odds[s] \in Nat \ {0} /\ odds[s] > 1
        BY <2>1, <2>3 DEF Restrict, ValidBet, Bet
      <4>2. odds2 \in [played -> Nat \ {0}]
        BY <4>1 DEF Restrict
      <4> HIDE DEF odds2
      <4> QED
        BY <2>7, <3>1, <3>2, <4>1, <4>2 DEF ValidBet, Bet
    <3>4. status2 \in Status(odds2)
      BY <2>1, <2>3, <3>1 DEF Status, Restrict
    <3>5. Restrict(odds2, won) = Restrict(odds, won)
      BY <2>3 DEF Restrict
    <3> HIDE DEF odds2, status2, won, lost
    <3>6. calculateActualPayout(stake, odds2, status2, maximum) =
            IF lost # {} THEN [payout |-> 0, result |-> "LOSS"]
            ELSE IF won = {} THEN [payout |-> stake, result |-> "VOID"]
            ELSE [payout |-> Capped(Times(stake, Product(Restrict(odds2, won))), maximum),
                  result |-> "WIN"]
      BY <2>1, <2>2, <2>4, <3>3, <3>4, ActualIs
    <3>7. Actual(b, status, maximum) = calculateActualPayout(stake, odds2, status2, maximum)
      BY <2>5, <3>5, <3>6
    <3> QED
      BY <2>7, <3>7 DEF stake, odds, played, odds2, status2
  <2> QED
    BY <2>6, <2>7
<1> QED
  BY <1>1, AlwaysIInv, PTL

\* A correction of a leg for the worse never raises what a slip pays.
THEOREM WorsePaysLess == Spec => []WorseNeverPaysMore
<1>1. IInv => WorseNeverPaysMore
  <2> SUFFICES ASSUME IInv, NEW b \in Complete, NEW status \in Results(b),
                      NEW maximum \in SensibleMaxima(b), NEW leg \in DOMAIN status
               PROVE  LET Corrected(result) ==
                            Actual(b, [status EXCEPT ![leg] = result], maximum).payout
                      IN  /\ ~Less(Corrected("VOID"), Corrected("LOSS"))
                          /\ ~Less(Corrected("WIN"), Corrected("VOID"))
    BY DEF WorseNeverPaysMore
  <2> DEFINE stake == slips[b].stake
             odds  == OddsOf(b)
             To(result) == [status EXCEPT ![leg] = result]
             lost  == With(status, "LOSS") \ {leg}
             won   == With(status, "WIN") \ {leg}
             fewer == Product(Restrict(odds, won))
             more  == Product(Restrict(odds, won \cup {leg}))
  <2>1. ValidBet(odds) /\ status \in Status(odds) /\ stake \in Nat \cup {NaN}
    BY CompleteBet
  <2>2. maximum \in Nat /\ maximum \in Maxima
    BY SlipResultsAssumption DEF SensibleMaxima
  <2>3. \A result \in {"WIN", "LOSS", "VOID"} : To(result) \in Status(odds)
    BY <2>1 DEF Status
  <2>4. /\ With(To("LOSS"), "LOSS") = lost \cup {leg}
        /\ With(To("VOID"), "LOSS") = lost /\ With(To("VOID"), "WIN") = won
        /\ With(To("WIN"), "LOSS") = lost /\ With(To("WIN"), "WIN") = won \cup {leg}
    BY <2>1 DEF With, Status
  <2>5. won \cup {leg} \in SUBSET DOMAIN odds
    BY <2>1 DEF With, Status
  <2>6. fewer \in Nat \ {0} /\ more \in Nat \ {0} /\ fewer <= more
    BY <2>1, <2>5, ProductNat, ProductGrows DEF ValidBet
  <2> HIDE DEF stake, odds, lost, won, fewer, more, To
  <2>7. Actual(b, To("LOSS"), maximum).payout = 0
    <3>1. Actual(b, To("LOSS"), maximum) = [payout |-> 0, result |-> "LOSS"]
      BY <2>1, <2>2, <2>3, <2>4, ActualIs DEF Actual, stake, odds
    <3> QED
      BY <3>1
  <2>8. Actual(b, To("VOID"), maximum) =
          IF lost # {} THEN [payout |-> 0, result |-> "LOSS"]
          ELSE IF won = {} THEN [payout |-> stake, result |-> "VOID"]
          ELSE [payout |-> Capped(Times(stake, fewer), maximum), result |-> "WIN"]
    <3>1. Actual(b, To("VOID"), maximum)
            = calculateActualPayout(stake, odds, To("VOID"), maximum)
      BY DEF Actual, stake, odds
    <3> QED
      BY <2>1, <2>2, <2>3, <2>4, <3>1, ActualIs DEF fewer
  <2>9. won \cup {leg} # {}
    OBVIOUS
  <2>10. Actual(b, To("WIN"), maximum) =
          IF lost # {} THEN [payout |-> 0, result |-> "LOSS"]
          ELSE [payout |-> Capped(Times(stake, more), maximum), result |-> "WIN"]
    <3>1. Actual(b, To("WIN"), maximum)
            = calculateActualPayout(stake, odds, To("WIN"), maximum)
      BY DEF Actual, stake, odds
    <3> DEFINE status1 == To("WIN")
    <3>2. status1 \in Status(odds)
      BY <2>3
    <3>3. With(status1, "LOSS") = lost /\ With(status1, "WIN") = won \cup {leg}
      BY <2>4
    <3> HIDE DEF status1
    <3>4. calculateActualPayout(stake, odds, status1, maximum) =
            IF With(status1, "LOSS") # {} THEN [payout |-> 0, result |-> "LOSS"]
            ELSE IF With(status1, "WIN") = {} THEN [payout |-> stake, result |-> "VOID"]
            ELSE [payout |-> Capped(Times(stake, Product(Restrict(odds, With(status1, "WIN")))), maximum),
                  result |-> "WIN"]
      BY <2>1, <2>2, <3>2, ActualIs
    <3>5. calculateActualPayout(stake, odds, status1, maximum) =
            IF lost # {} THEN [payout |-> 0, result |-> "LOSS"]
            ELSE [payout |-> Capped(Times(stake, more), maximum), result |-> "WIN"]
      BY <2>9, <3>3, <3>4 DEF more
    <3> QED
      BY <3>1, <3>5 DEF status1
  <2>11. CASE stake = NaN
    <3>1. \A result \in {"WIN", "LOSS", "VOID"} :
            Actual(b, To(result), maximum).payout \in {0, NaN}
      BY <2>1, <2>2, <2>3, <2>11, CompleteBet, NoNumberPaid DEF stake, odds
    <3>2. \A k, l \in {0, NaN} : ~Less(k, l)
      BY DEF Less
    <3> QED
      BY <3>1, <3>2 DEF To
  <2>12. CASE stake \in Nat
    <3>1. /\ stake * fewer \in Nat /\ stake * more \in Nat
          /\ stake * fewer <= stake * more /\ stake <= stake * more
      BY <2>6, <2>12, StakeTimes
    <3>2. maximum = 0 \/ maximum >= stake
      <4>1. maximum = 0 \/ ~Less(maximum, stake)
        BY DEF SensibleMaxima, stake
      <4>2. maximum # NaN /\ stake # NaN
        BY <2>2, <2>12, PayoutAssumption
      <4> QED
        BY <2>2, <2>12, <4>1, <4>2 DEF Less
    <3>3. /\ Capped(stake * fewer, maximum) \in Nat /\ Capped(stake * more, maximum) \in Nat
          /\ Capped(stake * fewer, maximum) <= Capped(stake * more, maximum)
          /\ stake <= Capped(stake * more, maximum)
      BY <2>2, <2>12, <3>1, <3>2, Caps
    <3>4. Times(stake, fewer) = stake * fewer /\ Times(stake, more) = stake * more
      BY <2>6, <2>12, Numbers
    <3>5. /\ Actual(b, To("VOID"), maximum).payout \in Nat
          /\ Actual(b, To("WIN"), maximum).payout \in Nat
          /\ Actual(b, To("VOID"), maximum).payout <= Actual(b, To("WIN"), maximum).payout
      BY <2>8, <2>10, <2>12, <3>3, <3>4
    <3> QED
      BY <2>7, <3>5, Numbers DEF To
  <2> QED
    BY <2>1, <2>11, <2>12
<1> QED
  BY <1>1, AlwaysIInv, PTL
=============================================================================
