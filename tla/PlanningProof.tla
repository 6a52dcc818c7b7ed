--------------------------- MODULE PlanningProof ---------------------------
(***************************************************************************)
(* What the helpers of the planners return, for every market and budget:   *)
(* sums over plans and tickets, the budget of a race, and the knapsack of  *)
(* allocate.py, which finds the best tickets the allowance pays.           *)
(***************************************************************************)
EXTENDS PlanContract, Allocation, ArithmeticProof

-----------------------------------------------------------------------------
(* Sums over a sequence. *)

\* What a plan costs.
LEMMA PayloadIsSum ==
    ASSUME NEW p, NEW S, p.bets \in Seq(S), \A i \in DOMAIN p.bets : p.bets[i].money \in Int
    PROVE  PayloadStake(p) = SumOn([i \in DOMAIN p.bets |-> p.bets[i].money], 1..Len(p.bets))
<1> DEFINE q == p.bets
           n == Len(q)
           f == [i \in DOMAIN q |-> q[i].money]
           folds(g) == g = [s \in SUBSET DOMAIN q |->
                               IF s = {} THEN 0 ELSE g[s \ {Max(s)}] + q[Max(s)].money]
<1>1. PayloadStake(p) = (CHOOSE g : folds(g))[DOMAIN q]
  BY DEF PayloadStake, FoldLeft, MapThenFoldSet
<1>2. n \in Nat /\ DOMAIN q = 1..n
  BY SeqParts
<1>3. \A i \in 1..n : f[i] \in Int /\ f[i] = q[i].money
  BY <1>2
<1>4. \A s \in SUBSET (1..n) : s # {} => Max(s) \in 1..n
  BY <1>2, LastIndex
<1> DEFINE adds(g) == g = [s \in SUBSET (1..n) |->
                              IF s = {} THEN 0 ELSE g[s \ {Max(s)}] + f[Max(s)]]
<1> HIDE DEF q, n, f
<1>5. PICK h : adds(h)
  BY <1>2, <1>3, SumsFold
<1>6. folds(h)
  <2>1. \A s \in SUBSET (1..n) :
            (IF s = {} THEN 0 ELSE h[s \ {Max(s)}] + f[Max(s)])
              = IF s = {} THEN 0 ELSE h[s \ {Max(s)}] + q[Max(s)].money
    BY <1>3, <1>4
  <2>2. QED
    BY <1>2, <1>5, <2>1
<1> DEFINE sums == CHOOSE g : folds(g)
<1>7. folds(sums)
  BY <1>6
<1> HIDE DEF sums
<1>8. \A s \in SUBSET (1..n) :
          sums[s] = IF s = {} THEN 0 ELSE sums[s \ {Max(s)}] + f[Max(s)]
  BY <1>2, <1>3, <1>4, <1>7
<1>9. sums[1..n] = SumOn(f, 1..n)
  BY <1>2, <1>3, <1>8, FoldsToSum
<1>10. QED
  BY <1>1, <1>2, <1>9 DEF sums, f, n, q

\* What the plans cost together.
LEMMA TotalIsSum ==
    ASSUME NEW p, NEW S, p \in Seq(S), \A i \in DOMAIN p : PayloadStake(p[i]) \in Int
    PROVE  TotalStake(p) = SumOn([i \in DOMAIN p |-> PayloadStake(p[i])], 1..Len(p))
<1> DEFINE q == p
           n == Len(q)
           f == [i \in DOMAIN q |-> PayloadStake(q[i])]
           folds(g) == g = [s \in SUBSET DOMAIN q |->
                               IF s = {} THEN 0 ELSE g[s \ {Max(s)}] + PayloadStake(q[Max(s)])]
<1>1. TotalStake(p) = (CHOOSE g : folds(g))[DOMAIN q]
  BY DEF TotalStake, FoldLeft, MapThenFoldSet
<1>2. n \in Nat /\ DOMAIN q = 1..n
  BY SeqParts
<1>3. \A i \in 1..n : f[i] \in Int /\ f[i] = PayloadStake(q[i])
  BY <1>2
<1>4. \A s \in SUBSET (1..n) : s # {} => Max(s) \in 1..n
  BY <1>2, LastIndex
<1> DEFINE adds(g) == g = [s \in SUBSET (1..n) |->
                              IF s = {} THEN 0 ELSE g[s \ {Max(s)}] + f[Max(s)]]
<1> HIDE DEF q, n, f
<1>5. PICK h : adds(h)
  BY <1>2, <1>3, SumsFold
<1>6. folds(h)
  <2>1. \A s \in SUBSET (1..n) :
            (IF s = {} THEN 0 ELSE h[s \ {Max(s)}] + f[Max(s)])
              = IF s = {} THEN 0 ELSE h[s \ {Max(s)}] + PayloadStake(q[Max(s)])
    BY <1>3, <1>4
  <2>2. QED
    BY <1>2, <1>5, <2>1
<1> DEFINE sums == CHOOSE g : folds(g)
<1>7. folds(sums)
  BY <1>6
<1> HIDE DEF sums
<1>8. \A s \in SUBSET (1..n) :
          sums[s] = IF s = {} THEN 0 ELSE sums[s \ {Max(s)}] + f[Max(s)]
  BY <1>2, <1>3, <1>4, <1>7
<1>9. sums[1..n] = SumOn(f, 1..n)
  BY <1>2, <1>3, <1>8, FoldsToSum
<1>10. QED
  BY <1>1, <1>2, <1>9 DEF sums, f, n, q

\* What the tickets cost together.
LEMMA PaidIsSum ==
    ASSUME NEW t, NEW S, t \in Seq(S), \A i \in DOMAIN t : t[i].stake \in Int
    PROVE  Paid(t) = SumOn([i \in DOMAIN t |-> t[i].stake], 1..Len(t))
<1> DEFINE q == t
           n == Len(q)
           f == [i \in DOMAIN q |-> q[i].stake]
           folds(g) == g = [s \in SUBSET DOMAIN q |->
                               IF s = {} THEN 0 ELSE g[s \ {Max(s)}] + q[Max(s)].stake]
<1>1. Paid(t) = (CHOOSE g : folds(g))[DOMAIN q]
  BY DEF Paid, FoldLeft, MapThenFoldSet
<1>2. n \in Nat /\ DOMAIN q = 1..n
  BY SeqParts
<1>3. \A i \in 1..n : f[i] \in Int /\ f[i] = q[i].stake
  BY <1>2
<1>4. \A s \in SUBSET (1..n) : s # {} => Max(s) \in 1..n
  BY <1>2, LastIndex
<1> DEFINE adds(g) == g = [s \in SUBSET (1..n) |->
                              IF s = {} THEN 0 ELSE g[s \ {Max(s)}] + f[Max(s)]]
<1> HIDE DEF q, n, f
<1>5. PICK h : adds(h)
  BY <1>2, <1>3, SumsFold
<1>6. folds(h)
  <2>1. \A s \in SUBSET (1..n) :
            (IF s = {} THEN 0 ELSE h[s \ {Max(s)}] + f[Max(s)])
              = IF s = {} THEN 0 ELSE h[s \ {Max(s)}] + q[Max(s)].stake
    BY <1>3, <1>4
  <2>2. QED
    BY <1>2, <1>5, <2>1
<1> DEFINE sums == CHOOSE g : folds(g)
<1>7. folds(sums)
  BY <1>6
<1> HIDE DEF sums
<1>8. \A s \in SUBSET (1..n) :
          sums[s] = IF s = {} THEN 0 ELSE sums[s \ {Max(s)}] + f[Max(s)]
  BY <1>2, <1>3, <1>4, <1>7
<1>9. sums[1..n] = SumOn(f, 1..n)
  BY <1>2, <1>3, <1>8, FoldsToSum
<1>10. QED
  BY <1>1, <1>2, <1>9 DEF sums, f, n, q

\* One more plan adds its cost.
LEMMA TotalGrows ==
    ASSUME NEW S, NEW ps \in Seq(S), \A q \in S : PayloadStake(q) \in Int, NEW p \in S
    PROVE  TotalStake(Append(ps, p)) = TotalStake(ps) + PayloadStake(p)
<1> DEFINE more == Append(ps, p)
           n == Len(ps)
           f == [i \in DOMAIN ps |-> PayloadStake(ps[i])]
           g == [i \in DOMAIN more |-> PayloadStake(more[i])]
<1>1. n \in Nat /\ DOMAIN ps = 1..n /\ \A i \in 1..n : ps[i] \in S
  BY SeqParts
<1>2. /\ more \in Seq(S) /\ Len(more) = n + 1 /\ DOMAIN more = 1..(n + 1)
      /\ more[n + 1] = p /\ \A i \in 1..n : more[i] = ps[i]
  BY <1>1
<1>3. \A i \in DOMAIN ps : PayloadStake(ps[i]) \in Int
  BY <1>1
<1>4. \A i \in DOMAIN more : PayloadStake(more[i]) \in Int
  BY <1>2, SeqParts
<1> HIDE DEF more, n
<1>5. TotalStake(ps) = SumOn(f, 1..n)
  BY <1>3, TotalIsSum DEF n
<1>6. TotalStake(more) = SumOn(g, 1..(n + 1))
  BY <1>2, <1>4, TotalIsSum
<1>7. \A i \in 1..(n + 1) : g[i] \in Int
  BY <1>2, <1>4
<1>8. \A i \in 1..n : f[i] = g[i]
  BY <1>1, <1>2
<1>9. g[n + 1] = PayloadStake(p)
  <2>1. n + 1 \in DOMAIN more
    BY <1>1, <1>2
  <2>2. QED
    BY <1>2, <2>1
<1> HIDE DEF f, g
<1>10. SumOn(g, 1..(n + 1)) = SumOn(f, 1..n) + g[n + 1]
  BY <1>1, <1>7, <1>8, SumExtends
<1>11. QED
  BY <1>5, <1>6, <1>9, <1>10 DEF more

-----------------------------------------------------------------------------
(* The budget of a race. *)

\* race_allowance (allocate.py): a race never gets more than the budget, and the
\* last one gets all of it but less than a unit.
THEOREM AllowanceFitsBudget ==
    ASSUME NEW funds \in Nat, NEW total \in Nat \ {0}, NEW remaining \in 1..total
    PROVE  /\ RaceAllowance(funds, remaining, total) \in 0..funds
           /\ remaining = 1 => funds - RaceAllowance(funds, 1, total) < BetUnit
<1> DEFINE weight == SlotWeight(remaining, total)
           weights == WeightsLeft(remaining, total)
           share == (funds * weight) \div weights
<1>1. weight \in 1..total /\ weight = total - remaining + 1
  BY DEF SlotWeight
<1>2. weights \in Nat \ {0} /\ weight <= weights
  <2>1. remaining * (weight + total) \in Nat /\ remaining * (weight + total) >= 2 * weight
    <3>1. weight + total \in Nat /\ weight + total >= 2 * weight
      BY <1>1
    <3>2. remaining * (weight + total) >= weight + total
      BY <3>1
    <3>3. QED
      BY <3>1, <3>2, <1>1
  <2>2. weights = (remaining * (weight + total)) \div 2
    BY DEF WeightsLeft
  <2>3. QED
    BY <1>1, <2>1, <2>2
<1>3. share \in 0..funds
  BY <1>1, <1>2, ShareFits, SMTT(30)
<1>4. RaceAllowance(funds, remaining, total) = (share \div BetUnit) * BetUnit
  BY DEF RaceAllowance
<1>5. /\ RaceAllowance(funds, remaining, total) \in 0..share
      /\ share - RaceAllowance(funds, remaining, total) < BetUnit
  BY <1>3, <1>4, UnitsFit, AllocationAssumption, SMTT(30)
<1>6. ASSUME remaining = 1 PROVE share = funds
  <2>1. weight = total
    BY <1>1, <1>6
  <2>2. weights = total
    <3>1. weights = (1 * (total + total)) \div 2
      BY <1>6, <2>1 DEF WeightsLeft
    <3>2. QED
      BY <3>1
  <2>3. share = (funds * total) \div total
    BY <2>1, <2>2
  <2>4. /\ share \in Int /\ share * total <= funds * total
        /\ funds * total < share * total + total
    BY <2>3, Quotient
  <2>5. share >= funds
    <3>1. SUFFICES ASSUME share <= funds - 1 PROVE FALSE
      BY <2>4
    <3>2. share * total <= (funds - 1) * total
      BY <2>4, <3>1
    <3>3. QED
      BY <2>4, <3>2
  <2>6. QED
    BY <1>3, <2>5
<1>7. QED
  BY <1>3, <1>5, <1>6

-----------------------------------------------------------------------------
(* The target strategy. *)

\* "size every ticket to close the gap to goal in one hit" (backtest.py): as long as
\* the tickets of a race cost no more than its allowance, a hit of any one of them at
\* its discounted odds brings the bank to the target.
THEOREM SizedTicketClosesGap ==
    ASSUME NEW odds \in Nat \ {0}, NEW held \in Nat, NEW allowance \in Nat, NEW target \in Nat,
           NEW paid \in Nat, paid <= allowance,
           NEW stake \in Int, stake >= StakeFor(odds, RequiredReturn(held, allowance, target))
    PROVE  (held - paid) * FactorDen + stake * odds * FactorNum >= target * FactorDen
<1> DEFINE required == RequiredReturn(held, allowance, target)
           worth == odds * FactorNum
           units == RoundUp(required * FactorDen, odds * FactorNum * BetUnit)
<1>1. required \in Int /\ required = target - held + allowance
  BY DEF RequiredReturn
<1>2. odds \in Int /\ FactorNum \in Nat \ {0} /\ BetUnit \in Nat \ {0} /\ FactorDen \in Nat \ {0}
  BY AllocationAssumption
<1>3. worth \in Nat \ {0}
  BY <1>2
<1>4. odds * FactorNum * BetUnit = worth * BetUnit
  OBVIOUS
<1>5. odds * FactorNum * BetUnit \in Nat \ {0}
  BY <1>2, <1>3, <1>4
<1>6. required * FactorDen \in Int
  BY <1>1, <1>2
<1>7. units \in Int /\ required * FactorDen <= units * (odds * FactorNum * BetUnit)
  BY <1>5, <1>6, CeilingCovers DEF RoundUp
<1>8. units * (odds * FactorNum * BetUnit) = (units * BetUnit) * worth
  BY <1>2, <1>3, <1>4, <1>7, Regroup
<1>9. stake >= units * BetUnit
  BY DEF StakeFor
<1>10. units * BetUnit \in Int
  BY <1>2, <1>7
<1>11. (units * BetUnit) * worth <= stake * worth
  BY <1>3, <1>9, <1>10, Scale
<1>12. stake * odds * FactorNum = stake * worth
  BY <1>2, Regroup
<1>13. stake * worth \in Int /\ (units * BetUnit) * worth \in Int
  BY <1>3, <1>10
<1>14. required * FactorDen <= stake * odds * FactorNum
  BY <1>6, <1>7, <1>8, <1>11, <1>12, <1>13
<1>15. target - (held - paid) <= required
  BY <1>1
<1>16. (target - (held - paid)) * FactorDen <= required * FactorDen
  BY <1>1, <1>2, <1>15, Scale
<1>17. (target - (held - paid)) * FactorDen = target * FactorDen - (held - paid) * FactorDen
  BY <1>2
<1>18. /\ target * FactorDen \in Int /\ (held - paid) * FactorDen \in Int
       /\ stake * odds * FactorNum \in Int
  BY <1>2
<1>19. QED
  BY <1>6, <1>14, <1>16, <1>17, <1>18

-----------------------------------------------------------------------------
(* What may be bought in a race. *)

\* The quotes of a race: one per combination.
Market(quotes) ==
    /\ IsFiniteSet(quotes)
    /\ \A q \in quotes :
          q.combination \in Nat \ {0} /\ q.odds \in Nat \ {0} /\ q.draws \in Nat
    /\ \A q, o \in quotes : q.combination = o.combination => q = o

\* Rows offered by their position are a market.
LEMMA OffersAreMarket ==
    ASSUME NEW rows, NEW n \in Nat, NEW S \in SUBSET (1..n),
           \A i \in S : rows[i].odds \in Nat \ {0} /\ rows[i].draws \in Nat
    PROVE  /\ Market({Offer(rows, i) : i \in S})
           /\ \A q \in {Offer(rows, i) : i \in S} : q.combination \in S
<1> DEFINE Q == {Offer(rows, i) : i \in S}
<1>1. IsFiniteSet(Q)
  <2>1. IsFiniteSet(S)
    <3>1. IsFiniteSet(1..n)
      BY FS_Interval
    <3>2. QED
      BY <3>1, FS_Subset
  <2>2. [i \in S |-> Offer(rows, i)] \in Surjection(S, Q)
    BY DEF Surjection
  <2>3. QED
    BY <2>1, <2>2, FS_Surjection
<1>2. \A i \in S : /\ Offer(rows, i).combination = i
                   /\ Offer(rows, i).odds = rows[i].odds /\ Offer(rows, i).draws = rows[i].draws
  BY DEF Offer
<1>3. \A q \in Q : /\ q.combination \in S /\ q = Offer(rows, q.combination)
                   /\ q.odds = rows[q.combination].odds /\ q.draws = rows[q.combination].draws
  BY <1>2
<1> HIDE DEF Q
<1>4. QED
  BY <1>1, <1>3 DEF Market, Q

\* Options: one per combination, each at a stake in whole units that the allowance
\* pays.
Tradable(options, allowance) ==
    /\ IsFiniteSet(options)
    /\ \A o \in options :
          /\ o.combination \in Nat \ {0} /\ o.odds \in Nat \ {0} /\ o.draws \in Nat
          /\ o.stake \in 1..allowance
          /\ o.stake \div BetUnit \in Nat \ {0} /\ (o.stake \div BetUnit) * BetUnit = o.stake
    /\ \A o, p \in options : o.combination = p.combination => o = p

\* The fields of a ticket.
IsTicket(o) ==
    o = [combination |-> o.combination, odds |-> o.odds, draws |-> o.draws, stake |-> o.stake]

\* A stake is a number of betting units.
LEMMA StakeIsUnits ==
    ASSUME NEW odds \in Nat \ {0}, NEW required \in Int
    PROVE  \E k \in Int : StakeFor(odds, required) = k * BetUnit
<1>1. {BetUnit, FactorNum, FactorDen} \subseteq Nat \ {0}
  BY AllocationAssumption
<1>2. required * FactorDen \in Int /\ odds * FactorNum * BetUnit \in Nat \ {0}
  BY <1>1
<1>3. RoundUp(required * FactorDen, odds * FactorNum * BetUnit) \in Int
  BY <1>2, CeilingCovers DEF RoundUp
<1>4. QED
  BY <1>3 DEF StakeFor

\* What can be traded is affordable, and each stake is what its quote asks.
LEMMA OptionParts ==
    ASSUME NEW quotes, Market(quotes), NEW held \in Nat, NEW allowance \in Nat, NEW target \in Nat
    PROVE  /\ Tradable(Options(quotes, held, allowance, target), allowance)
           /\ \A o \in Options(quotes, held, allowance, target) :
                 /\ IsTicket(o)
                 /\ o.stake = StakeFor(o.odds, RequiredReturn(held, allowance, target))
                 /\ \E q \in quotes : q.combination = o.combination
<1> DEFINE required == RequiredReturn(held, allowance, target)
           stake(q) == StakeFor(q.odds, required)
           option(q) == [combination |-> q.combination, odds |-> q.odds, draws |-> q.draws,
                         stake |-> stake(q)]
           bought == {q \in quotes : 0 < stake(q) /\ stake(q) <= allowance}
           options == {option(q) : q \in bought}
<1>1. Options(quotes, held, allowance, target) = options
  BY DEF Options
<1>2. required \in Int /\ BetUnit \in Nat \ {0}
  BY AllocationAssumption DEF RequiredReturn
<1> HIDE DEF required
<1>3. IsFiniteSet(options)
  <2> DEFINE f == [q \in bought |-> option(q)]
  <2>1. f \in Surjection(bought, options)
    BY DEF Surjection
  <2>2. IsFiniteSet(bought)
    BY FS_Subset DEF Market
  <2>3. QED
    BY <2>1, <2>2, FS_Surjection
<1>4. ASSUME NEW q \in bought
      PROVE  /\ option(q).stake \in 1..allowance
             /\ option(q).stake \div BetUnit \in Nat \ {0}
             /\ (option(q).stake \div BetUnit) * BetUnit = option(q).stake
  <2>1. q.odds \in Nat \ {0}
    BY DEF Market
  <2>2. PICK k \in Int : stake(q) = k * BetUnit
    BY <1>2, <2>1, StakeIsUnits
  <2>3. stake(q) \div BetUnit = k /\ 0 < k * BetUnit /\ stake(q) <= allowance
    BY <1>2, <2>2, Multiples
  <2>4. k > 0
    <3>1. SUFFICES ASSUME k <= 0 PROVE FALSE
      OBVIOUS
    <3>2. k * BetUnit <= 0 * BetUnit
      BY <1>2, <3>1, Scale
    <3>3. QED
      BY <1>2, <2>3, <3>2
  <2>5. option(q).stake = k * BetUnit /\ k * BetUnit \in Int
    BY <1>2, <2>2
  <2> HIDE DEF stake, option
  <2>6. QED
    BY <2>2, <2>3, <2>4, <2>5
<1>5. Tradable(options, allowance)
  <2>1. \A q \in bought : /\ option(q).combination = q.combination
                          /\ option(q).odds = q.odds /\ option(q).draws = q.draws
    OBVIOUS
  <2>2. \A q \in bought : /\ q.combination \in Nat \ {0} /\ q.odds \in Nat \ {0}
                          /\ q.draws \in Nat
    BY DEF Market
  <2>3. \A q, o \in bought : q.combination = o.combination => q = o
    BY DEF Market
  <2> HIDE DEF option, bought
  <2>4. QED
    BY <1>3, <1>4, <2>1, <2>2, <2>3 DEF Tradable
<1>6. \A o \in options : IsTicket(o) /\ o.stake = StakeFor(o.odds, required)
  BY DEF IsTicket
<1>7. \A o \in options : \E q \in quotes : q.combination = o.combination
  OBVIOUS
<1>8. QED
  BY <1>1, <1>5, <1>6, <1>7 DEF required

-----------------------------------------------------------------------------
(* The shortlist. *)

\* Shares of points, compared crosswise: a/b >= c/d >= e/f.
LEMMA SharesCompare ==
    ASSUME NEW a \in Nat, NEW b \in Nat \ {0}, NEW c \in Nat, NEW d \in Nat \ {0},
           NEW e \in Nat, NEW f \in Nat \ {0}, a * d >= c * b, c * f >= e * d
    PROVE  /\ a * f >= e * b
           /\ a * d > c * b => a * f > e * b
           /\ c * f > e * d => a * f > e * b
<1>1. (a * d) * f >= (c * b) * f /\ (c * f) * b >= (e * d) * b
  <2>1. a * d \in Int /\ c * b \in Int /\ c * f \in Int /\ e * d \in Int
    OBVIOUS
  <2>2. QED
    BY <2>1, Scale
<1>2. /\ (a * d) * f = (a * f) * d /\ (c * b) * f = (c * f) * b /\ (e * d) * b = (e * b) * d
  OBVIOUS
<1>3. a * f \in Int /\ e * b \in Int /\ (a * f) * d \in Int /\ (e * b) * d \in Int
      /\ (c * f) * b \in Int
  OBVIOUS
<1>4. (a * f) * d >= (e * b) * d
  BY <1>1, <1>2, <1>3
<1>5. a * f >= e * b
  <2>1. SUFFICES ASSUME a * f <= e * b - 1 PROVE FALSE
    BY <1>3
  <2>2. (a * f) * d <= (e * b - 1) * d
    BY <1>3, <2>1, Scale
  <2>3. (e * b - 1) * d = (e * b) * d - d
    BY <1>3
  <2>4. QED
    BY <1>3, <1>4, <2>2, <2>3
<1>6. ASSUME a * f = e * b PROVE a * d <= c * b /\ c * f <= e * d
  <2>1. (a * d) * f = (c * b) * f /\ (c * f) * b = (e * d) * b
    BY <1>1, <1>2, <1>3, <1>6
  <2>2. QED
    BY <2>1
<1>7. QED
  BY <1>3, <1>5, <1>6

\* The order of the tickets that are bought: by draws, then by name.
Likelier(a, b) == a.draws > b.draws \/ (a.draws = b.draws /\ a.combination < b.combination)

\* The order of the shortlist.
Better(a, b) ==
    \/ a.draws * b.stake > b.draws * a.stake
    \/ a.draws * b.stake = b.draws * a.stake /\ Likelier(a, b)

\* It is an order of the options.
LEMMA BetterOrders ==
    ASSUME NEW options, NEW allowance, Tradable(options, allowance)
    PROVE  Orders({x \in options \X options : Better(x[1], x[2])}, options)
<1> DEFINE before == {x \in options \X options : Better(x[1], x[2])}
<1>1. \A a \in options : a.draws \in Nat /\ a.stake \in Nat \ {0} /\ a.combination \in Nat
  BY DEF Tradable
<1>2. \A a, b \in options : a.combination = b.combination => a = b
  BY DEF Tradable
<1>3. \A a, b \in options : <<a, b>> \in before <=> Better(a, b)
  OBVIOUS
<1>4. \A a, b \in options : a.draws * b.stake \in Nat
  BY <1>1
<1>5. \A a \in options : ~Better(a, a)
  BY <1>1, <1>4 DEF Better, Likelier
<1>6. ASSUME NEW a \in options, NEW b \in options, a # b PROVE Better(a, b) \/ Better(b, a)
  <2>1. PICK x \in Nat, y \in Nat : x = a.draws * b.stake /\ y = b.draws * a.stake
    BY <1>4
  <2>2. a.combination # b.combination
    BY <1>2, <1>6
  <2>3. x > y \/ y > x \/ (x = y /\ (Likelier(a, b) \/ Likelier(b, a)))
    BY <1>1, <2>2 DEF Likelier
  <2>4. QED
    BY <2>1, <2>3 DEF Better
<1>7. ASSUME NEW a \in options, NEW b \in options, NEW c \in options,
             Better(a, b), Better(b, c)
      PROVE  Better(a, c)
  <2>1. /\ a.draws \in Nat /\ b.draws \in Nat /\ c.draws \in Nat
        /\ a.stake \in Nat \ {0} /\ b.stake \in Nat \ {0} /\ c.stake \in Nat \ {0}
        /\ a.combination \in Nat /\ b.combination \in Nat /\ c.combination \in Nat
    BY <1>1
  <2>2. /\ a.draws * b.stake \in Nat /\ b.draws * a.stake \in Nat /\ b.draws * c.stake \in Nat
        /\ c.draws * b.stake \in Nat /\ a.draws * c.stake \in Nat /\ c.draws * a.stake \in Nat
    BY <1>4
  <2>3. a.draws * b.stake >= b.draws * a.stake /\ b.draws * c.stake >= c.draws * b.stake
    BY <1>7, <2>2 DEF Better
  <2>4. /\ a.draws * c.stake >= c.draws * a.stake
        /\ a.draws * b.stake > b.draws * a.stake => a.draws * c.stake > c.draws * a.stake
        /\ b.draws * c.stake > c.draws * b.stake => a.draws * c.stake > c.draws * a.stake
    BY <2>1, <2>3, SharesCompare
  <2>5. CASE a.draws * c.stake > c.draws * a.stake
    BY <2>5 DEF Better
  <2>6. CASE a.draws * c.stake = c.draws * a.stake
    <3>1. Likelier(a, b) /\ Likelier(b, c)
      BY <1>7, <2>2, <2>4, <2>6 DEF Better
    <3>2. Likelier(a, c)
      BY <2>1, <3>1 DEF Likelier
    <3>3. QED
      BY <2>6, <3>2 DEF Better
  <2>7. QED
    BY <2>2, <2>4, <2>5, <2>6
<1> HIDE DEF before
<1>8. /\ \A x \in options : <<x, x>> \notin before
      /\ \A x, y \in options : x # y => <<x, y>> \in before \/ <<y, x>> \in before
  BY <1>3, <1>5, <1>6
<1>9. \A x, y, z \in options :
          <<x, y>> \in before /\ <<y, z>> \in before => <<x, z>> \in before
  BY <1>3, <1>7
<1>10. Orders(before, options)
  BY <1>8, <1>9 DEF Orders
<1>11. QED
  BY <1>10 DEF before

\* The shortlist holds options, no more than it may and none twice.
LEMMA ShortlistParts ==
    ASSUME NEW options, NEW allowance, Tradable(options, allowance)
    PROVE  /\ Shortlist(options) \in Seq(options) /\ Len(Shortlist(options)) <= MaxShortlist
           /\ \A i, j \in 1..Len(Shortlist(options)) :
                 Shortlist(options)[i] = Shortlist(options)[j] => i = j
<1> DEFINE before == {x \in options \X options : Better(x[1], x[2])}
           sorted == InOrder(before, options)
           n == Lesser(Len(sorted), MaxShortlist)
<1>1. Shortlist(options) = SubSeq(sorted, 1, n)
  <2> DEFINE worth(a, b) == a.draws * b.stake - b.draws * a.stake
             first(a, b) == \/ worth(a, b) > 0
                            \/ worth(a, b) = 0 /\ a.draws > b.draws
                            \/ worth(a, b) = 0 /\ a.draws = b.draws
                                 /\ a.combination < b.combination
             ordered == [k \in 1..Cardinality(options) |->
                 CHOOSE x \in options : Cardinality({y \in options : first(y, x)}) = k - 1]
  <2>1. Shortlist(options)
          = SubSeq(ordered, 1, Lesser(Len(ordered), MaxShortlist))
    BY DEF Shortlist, Ordered
  <2>2. \A a, b \in options : a.draws * b.stake \in Int
    BY DEF Tradable
  <2>3. \A x, y \in options : first(y, x) <=> <<y, x>> \in before
    <3>1. SUFFICES ASSUME NEW x \in options, NEW y \in options
                   PROVE  first(y, x) <=> Better(y, x)
      OBVIOUS
    <3>2. y.draws * x.stake \in Int /\ x.draws * y.stake \in Int
      BY <2>2
    <3>3. QED
      BY <3>2 DEF Better, Likelier
  <2> HIDE DEF first, before
  <2>4. \A x \in options : Rank(before, options, x) = Cardinality({y \in options : first(y, x)})
    <3>1. \A x \in options :
              {y \in options : <<y, x>> \in before} = {y \in options : first(y, x)}
      BY <2>3
    <3>2. QED
      BY <3>1 DEF Rank
  <2>5. ordered = sorted
    <3>1. sorted = [k \in 1..Cardinality(options) |->
                       CHOOSE x \in options : Rank(before, options, x) = k - 1]
      BY DEF InOrder
    <3>2. ASSUME NEW k \in 1..Cardinality(options)
          PROVE  (CHOOSE x \in options : Cardinality({y \in options : first(y, x)}) = k - 1)
                    = CHOOSE x \in options : Rank(before, options, x) = k - 1
      BY <2>4
    <3>3. ordered = [k \in 1..Cardinality(options) |->
                        CHOOSE x \in options : Cardinality({y \in options : first(y, x)}) = k - 1]
      OBVIOUS
    <3> DEFINE a(k) == CHOOSE x \in options : Cardinality({y \in options : first(y, x)}) = k - 1
               b(k) == CHOOSE x \in options : Rank(before, options, x) = k - 1
    <3>4. /\ \A k \in 1..Cardinality(options) : a(k) = b(k)
          /\ ordered = [k \in 1..Cardinality(options) |-> a(k)]
          /\ sorted = [k \in 1..Cardinality(options) |-> b(k)]
      BY <3>1, <3>2, <3>3
    <3> HIDE DEF a, b, sorted, ordered
    <3>5. QED
      BY <3>4
  <2> HIDE DEF ordered, sorted
  <2>6. QED
    BY <2>1, <2>5
<1>2. IsFiniteSet(options) /\ Orders(before, options) /\ Cardinality(options) \in Nat
  BY BetterOrders, FS_CardinalityType DEF Tradable
<1>3. \A x \in options : <<x, x>> \notin before
  BY <1>2 DEF Orders
<1> HIDE DEF before
<1>4. /\ sorted \in Seq(options) /\ Len(sorted) = Cardinality(options)
      /\ \A i, j \in 1..Cardinality(options) : i < j => <<sorted[i], sorted[j]>> \in before
  BY <1>2, OrderSorts
<1>5. MaxShortlist \in Nat
  BY AllocationAssumption
<1>6. n \in Nat /\ n <= Len(sorted) /\ n <= MaxShortlist
  BY <1>4, <1>5 DEF Lesser
<1> HIDE DEF sorted, n
<1>7. /\ SubSeq(sorted, 1, n) \in Seq(options) /\ Len(SubSeq(sorted, 1, n)) = n
      /\ \A i \in 1..n : SubSeq(sorted, 1, n)[i] = sorted[i] /\ sorted[i] \in options
  <2>1. /\ SubSeq(sorted, 1, n) = [i \in 1..n |-> sorted[i]]
        /\ \A i \in 1..n : sorted[i] \in options
    BY <1>4, <1>6
  <2>2. QED
    BY <1>6, <2>1
<1>8. \A i, j \in 1..n : sorted[i] = sorted[j] => i = j
  <2>1. SUFFICES ASSUME NEW i \in 1..n, NEW j \in 1..n, sorted[i] = sorted[j], i < j PROVE FALSE
    BY <1>6
  <2>2. <<sorted[i], sorted[j]>> \in before
    BY <1>2, <1>4, <1>6, <2>1
  <2>3. QED
    BY <1>3, <1>7, <2>1, <2>2
<1>9. QED
  BY <1>1, <1>6, <1>7, <1>8

-----------------------------------------------------------------------------
(* The knapsack's values, a row per ticket considered. *)

\* What a ticket costs in betting units.
Units(option) == option.stake \div BetUnit

\* What an allowance buys.
Capacity(allowance) == allowance \div BetUnit

\* value[c + 1] is the best that c units buy.
Ladders(capacity) == [1..(capacity + 1) -> Nat]

\* Before any ticket is considered nothing is won.
Nothing(capacity) == [i \in 1..(capacity + 1) |-> 0]

\* Where buying the ticket beats going without it.
Improved(value, option, capacity) ==
    {c \in Units(option)..capacity :
        value[c + 1 - Units(option)] + option.draws > value[c + 1]}

\* The values once the ticket has been considered.
Raised(value, option, capacity) ==
    [i \in 1..(capacity + 1) |->
        IF i - 1 \in Improved(value, option, capacity)
        THEN value[i - Units(option)] + option.draws ELSE value[i]]

\* Where the fold of the knapsack starts.
Start(capacity) == [value |-> Nothing(capacity), chosen |-> <<>>]

\* What holds of a ticket of a shortlist.
LEMMA TicketParts ==
    ASSUME NEW allowance \in Nat, NEW options, Tradable(options, allowance),
           NEW o \in options
    PROVE  /\ o.draws \in Nat /\ o.stake \in Nat \ {0} /\ o.odds \in Nat \ {0}
           /\ o.combination \in Nat \ {0}
           /\ Units(o) \in 1..Capacity(allowance) /\ Capacity(allowance) \in Nat
           /\ Units(o) * BetUnit = o.stake
<1>1. /\ o.draws \in Nat /\ o.odds \in Nat \ {0} /\ o.combination \in Nat \ {0}
      /\ o.stake \in 1..allowance /\ Units(o) \in Nat \ {0} /\ Units(o) * BetUnit = o.stake
  BY DEF Tradable, Units
<1>2. BetUnit \in Nat \ {0}
  BY AllocationAssumption
<1>3. /\ Capacity(allowance) \in Nat /\ Capacity(allowance) \in Int
      /\ allowance < Capacity(allowance) * BetUnit + BetUnit
  BY <1>2, Quotient, QuotientIsNat DEF Capacity
<1>4. Units(o) <= Capacity(allowance)
  <2>1. SUFFICES ASSUME Units(o) >= Capacity(allowance) + 1 PROVE FALSE
    BY <1>1, <1>3
  <2>2. (Capacity(allowance) + 1) * BetUnit <= Units(o) * BetUnit
    BY <1>1, <1>2, <1>3, <2>1, Scale
  <2>3. (Capacity(allowance) + 1) * BetUnit = Capacity(allowance) * BetUnit + BetUnit
    BY <1>2, <1>3
  <2>4. Capacity(allowance) * BetUnit \in Int
    BY <1>2, <1>3
  <2>5. QED
    BY <1>1, <1>2, <1>3, <2>2, <2>3, <2>4
<1>5. QED
  BY <1>1, <1>3, <1>4

\* One ticket considered.
LEMMA ConsiderStep ==
    ASSUME NEW capacity \in Nat, NEW v \in Ladders(capacity),
           NEW rows \in Seq(SUBSET (0..capacity)),
           NEW o, o.draws \in Nat, Units(o) \in 1..capacity
    PROVE  /\ Consider([value |-> v, chosen |-> rows], o)
                = [value |-> Raised(v, o, capacity),
                   chosen |-> Append(rows, Improved(v, o, capacity))]
           /\ Raised(v, o, capacity) \in Ladders(capacity)
           /\ Improved(v, o, capacity) \in SUBSET (0..capacity)
<1> DEFINE knapsack == [value |-> v, chosen |-> rows]
           improved == {c \in Units(o)..(Len(v) - 1) : v[c + 1 - Units(o)] + o.draws > v[c + 1]}
           value == [i \in 1..((Len(v) - 1) + 1) |->
                        IF i - 1 \in improved THEN v[(i - 1) + 1 - Units(o)] + o.draws ELSE v[i]]
<1>1. Len(v) - 1 = capacity /\ (Len(v) - 1) + 1 = capacity + 1
  <2>1. v \in [1..(capacity + 1) -> Nat]
    BY DEF Ladders
  <2>2. Len(v) = capacity + 1
    BY <2>1
  <2>3. QED
    BY <2>2
<1>2. knapsack.value = v /\ knapsack.chosen = rows
  OBVIOUS
<1>3. Consider(knapsack, o) = [value |-> value, chosen |-> Append(rows, improved)]
  BY <1>2 DEF Consider, Units
<1>4. improved = Improved(v, o, capacity)
  BY <1>1 DEF Improved
<1>5. \A i \in 1..(capacity + 1) : (i - 1) + 1 - Units(o) = i - Units(o)
  OBVIOUS
<1>6. value = Raised(v, o, capacity)
  <2> HIDE DEF improved
  <2>1. QED
    BY <1>1, <1>4, <1>5 DEF Raised
<1>7. Improved(v, o, capacity) \in SUBSET (0..capacity)
  BY DEF Improved
<1>8. Raised(v, o, capacity) \in Ladders(capacity)
  <2>1. SUFFICES ASSUME NEW i \in 1..(capacity + 1)
                 PROVE  (IF i - 1 \in Improved(v, o, capacity) THEN v[i - Units(o)] + o.draws
                         ELSE v[i]) \in Nat
    BY DEF Raised, Ladders
  <2>2. v \in [1..(capacity + 1) -> Nat]
    BY DEF Ladders
  <2>3. CASE i - 1 \in Improved(v, o, capacity)
    <3>1. i - 1 \in Units(o)..capacity
      BY <2>3 DEF Improved
    <3>2. i - Units(o) \in 1..(capacity + 1)
      BY <3>1
    <3>3. v[i - Units(o)] \in Nat
      BY <2>2, <3>2
    <3>4. QED
      BY <2>3, <3>3
  <2>4. CASE i - 1 \notin Improved(v, o, capacity)
    BY <2>2, <2>4
  <2>5. QED
    BY <2>3, <2>4
<1> HIDE DEF improved, value
<1>9. QED
  BY <1>3, <1>4, <1>6, <1>7, <1>8

\* What the fold over a shortlist leaves: the rows of values, and for each ticket the
\* capacities at which it was chosen.
ValueRows(v, list, capacity) ==
    /\ v \in [0..Len(list) -> Ladders(capacity)] /\ v[0] = Nothing(capacity)
    /\ \A k \in 1..Len(list) : v[k] = Raised(v[k - 1], list[k], capacity)

\* The choices that the fold notes.
ChosenAt(v, list, capacity) ==
    [k \in 1..Len(list) |-> Improved(v[k - 1], list[k], capacity)]

\* The fold computes those rows and those choices.
LEMMA KnapsackRuns ==
    ASSUME NEW allowance \in Nat, NEW options, Tradable(options, allowance),
           NEW list \in Seq(options)
    PROVE  \E v : /\ ValueRows(v, list, Capacity(allowance))
                  /\ FoldLeft(Consider, Start(Capacity(allowance)), list).chosen
                       = ChosenAt(v, list, Capacity(allowance))
<1> DEFINE q == list
           n == Len(q)
           capacity == Capacity(allowance)
           A == [value : Ladders(capacity), chosen : Seq(SUBSET (0..capacity))]
           base == Start(capacity)
           folds(g) == g = [S \in SUBSET (DOMAIN q) |->
                               IF S = {} THEN base
                               ELSE Consider(g[S \ {Max(S)}], q[Max(S)])]
           step == [p \in A \X (1..n) |-> Consider(p[1], q[p[2]])]
<1>1. FoldLeft(Consider, base, q) = (CHOOSE g : folds(g))[DOMAIN q]
  BY DEF FoldLeft, MapThenFoldSet
<1>2. n \in Nat /\ DOMAIN q = 1..n /\ \A k \in 1..n : q[k] \in options
  BY SeqParts
<1>3. \A k \in 1..n : /\ q[k].draws \in Nat /\ Units(q[k]) \in 1..capacity
                      /\ capacity \in Nat
  BY <1>2, TicketParts
<1>4. capacity \in Nat
  BY AllocationAssumption, QuotientIsNat DEF Capacity
<1>5. base \in A
  <2>1. Nothing(capacity) \in Ladders(capacity)
    BY DEF Nothing, Ladders
  <2>2. <<>> \in Seq(SUBSET (0..capacity))
    OBVIOUS
  <2>3. QED
    BY <2>1, <2>2 DEF Start
<1> HIDE DEF q, n, capacity
<1>6. ASSUME NEW x \in A, NEW k \in 1..n
      PROVE  /\ x.value \in Ladders(capacity) /\ x.chosen \in Seq(SUBSET (0..capacity))
             /\ Consider(x, q[k])
                  = [value |-> Raised(x.value, q[k], capacity),
                     chosen |-> Append(x.chosen, Improved(x.value, q[k], capacity))]
             /\ Raised(x.value, q[k], capacity) \in Ladders(capacity)
             /\ Improved(x.value, q[k], capacity) \in SUBSET (0..capacity)
  <2>1. PICK v \in Ladders(capacity), rows \in Seq(SUBSET (0..capacity)) :
            x = [value |-> v, chosen |-> rows]
    OBVIOUS
  <2>2. q[k].draws \in Nat /\ Units(q[k]) \in 1..capacity
    BY <1>3
  <2>3. /\ Consider([value |-> v, chosen |-> rows], q[k])
             = [value |-> Raised(v, q[k], capacity),
                chosen |-> Append(rows, Improved(v, q[k], capacity))]
        /\ Raised(v, q[k], capacity) \in Ladders(capacity)
        /\ Improved(v, q[k], capacity) \in SUBSET (0..capacity)
    BY <1>4, <2>2, ConsiderStep
  <2>4. x.value = v /\ x.chosen = rows
    BY <2>1
  <2>5. QED
    BY <2>1, <2>3, <2>4
<1>7. ASSUME NEW x \in A, NEW k \in 1..n PROVE Consider(x, q[k]) \in A
  <2> DEFINE w == Raised(x.value, q[k], capacity)
             c == Improved(x.value, q[k], capacity)
  <2>1. /\ x.chosen \in Seq(SUBSET (0..capacity)) /\ w \in Ladders(capacity)
        /\ c \in SUBSET (0..capacity)
        /\ Consider(x, q[k]) = [value |-> w, chosen |-> Append(x.chosen, c)]
    BY <1>6
  <2> HIDE DEF w, c
  <2>2. Append(x.chosen, c) \in Seq(SUBSET (0..capacity))
    BY <2>1
  <2>3. QED
    BY <2>1, <2>2
<1> HIDE DEF A, base
<1>8. step \in [A \X (1..n) -> A]
  BY <1>7
<1>9. \A S \in SUBSET (1..n) : S # {} => Max(S) \in S /\ Max(S) \in 1..n
  BY <1>2, LastIndex
<1>10. ASSUME NEW g, NEW S \in SUBSET (1..n), S # {}, g[S \ {Max(S)}] \in A
       PROVE  step[<<g[S \ {Max(S)}], Max(S)>>] = Consider(g[S \ {Max(S)}], q[Max(S)])
  BY <1>9, <1>10
<1>11. PICK g \in [SUBSET (1..n) -> A] : Folding(g, base, step, n)
  <2> HIDE DEF step
  <2>1. QED
    BY <1>2, <1>5, <1>8, FoldExists
<1>12. \A S \in SUBSET (1..n) :
           g[S] = IF S = {} THEN base ELSE Consider(g[S \ {Max(S)}], q[Max(S)])
  <2>1. SUFFICES ASSUME NEW S \in SUBSET (1..n), S # {}
                 PROVE  g[S] = Consider(g[S \ {Max(S)}], q[Max(S)])
    BY <1>11 DEF Folding
  <2>2. g[S \ {Max(S)}] \in A
    BY <1>11
  <2> HIDE DEF step
  <2>3. g[S] = step[<<g[S \ {Max(S)}], Max(S)>>]
    BY <1>11, <2>1 DEF Folding
  <2>4. QED
    BY <1>10, <2>1, <2>2, <2>3
<1>13. folds(g)
  BY <1>2, <1>11, <1>12
<1> DEFINE h == CHOOSE f : folds(f)
<1>14. folds(h)
  BY <1>13
<1> HIDE DEF h
<1>15. \A S \in SUBSET (1..n) : h[S] = g[S]
  <2> DEFINE T == {S \in SUBSET (1..n) : h[S] = g[S]}
  <2>1. {} \in T
    BY <1>2, <1>12, <1>14
  <2>2. ASSUME NEW S \in SUBSET (1..n), S # {}, S \ {Max(S)} \in T PROVE S \in T
    <3>1. h[S] = Consider(h[S \ {Max(S)}], q[Max(S)])
      BY <1>2, <1>14, <2>2
    <3>2. g[S] = Consider(g[S \ {Max(S)}], q[Max(S)])
      BY <1>12, <2>2
    <3>3. QED
      BY <2>2, <3>1, <3>2
  <2> HIDE DEF T
  <2>3. \A S \in SUBSET (1..n) : S \in T
    BY <1>2, <2>1, <2>2, OverSubsets
  <2>4. QED
    BY <2>3 DEF T
<1>16. PICK f \in [0..n -> A] : Runs(f, g, base, step, n)
  <2> HIDE DEF step
  <2>1. base \in A /\ step \in [A \X (1..n) -> A] /\ Folding(g, base, step, n) /\ n \in Nat
    BY <1>2, <1>5, <1>8, <1>11
  <2>2. QED
    BY <2>1, FoldRuns
<1>17. ASSUME NEW k \in 1..n
       PROVE  /\ f[k - 1] \in A /\ f[k] = Consider(f[k - 1], q[k])
              /\ f[k].value = Raised(f[k - 1].value, q[k], capacity)
              /\ f[k].chosen = Append(f[k - 1].chosen, Improved(f[k - 1].value, q[k], capacity))
  <2>1. k - 1 \in 0..n
    BY <1>2
  <2>2. PICK x \in A : x = f[k - 1]
    BY <1>16, <2>1
  <2>3. step[<<x, k>>] = Consider(x, q[k])
    OBVIOUS
  <2>4. f[k] = Consider(x, q[k])
    BY <1>16, <2>2, <2>3 DEF Runs
  <2>5. Consider(x, q[k])
          = [value |-> Raised(x.value, q[k], capacity),
             chosen |-> Append(x.chosen, Improved(x.value, q[k], capacity))]
    BY <1>6
  <2> HIDE DEF step
  <2>6. QED
    BY <2>2, <2>4, <2>5
<1> DEFINE v == [k \in 0..n |-> f[k].value]
<1>18. ValueRows(v, q, capacity)
  <2>1. \A k \in 0..n : v[k] \in Ladders(capacity)
    BY <1>16 DEF A
  <2>2. v[0] = Nothing(capacity)
    BY <1>2, <1>16 DEF base, Start, Runs
  <2>3. ASSUME NEW k \in 1..n PROVE v[k] = Raised(v[k - 1], q[k], capacity)
    <3>1. k \in 0..n /\ k - 1 \in 0..n
      BY <1>2
    <3>2. QED
      BY <1>17, <3>1
  <2> HIDE DEF v
  <2>4. v \in [0..n -> Ladders(capacity)]
    <3>1. v = [k \in 0..n |-> v[k]]
      BY DEF v
    <3>2. QED
      BY <2>1, <3>1
  <2>5. QED
    BY <2>2, <2>3, <2>4 DEF ValueRows, n
<1> DEFINE row(k) == Improved(v[k - 1], q[k], capacity)
           T == {k \in 0..n : f[k].chosen = [j \in 1..k |-> row(j)]}
<1>19. 0 \in T
  <2>1. f[0].chosen = <<>> /\ 1..0 = {}
    BY <1>16 DEF base, Start, Runs
  <2>2. QED
    BY <1>2, <2>1
<1>20. ASSUME NEW k \in 1..n, k - 1 \in T PROVE k \in T
  <2>1. f[k].chosen = Append(f[k - 1].chosen, row(k))
    <3>1. v[k - 1] = f[k - 1].value
      BY <1>2
    <3>2. QED
      BY <1>17, <3>1
  <2>2. f[k - 1].chosen = [j \in 1..(k - 1) |-> row(j)]
    BY <1>20
  <2> HIDE DEF row
  <2>3. Append([j \in 1..(k - 1) |-> row(j)], row(k)) = [j \in 1..k |-> row(j)]
    OBVIOUS
  <2>4. f[k].chosen = [j \in 1..k |-> row(j)] /\ k \in 0..n
    BY <1>2, <2>1, <2>2, <2>3
  <2>5. QED
    BY <2>4
<1>21. f[n].chosen = ChosenAt(v, q, capacity)
  <2> HIDE DEF T
  <2>1. n \in T
    <3>1. \A k \in 0..n : k \in T
      BY <1>2, <1>19, <1>20, UpTo
    <3>2. QED
      BY <1>2, <3>1
  <2>2. QED
    BY <2>1 DEF T, ChosenAt, n
<1>22. FoldLeft(Consider, base, q) = f[n]
  <2>1. 1..n \in SUBSET (1..n)
    OBVIOUS
  <2>2. QED
    BY <1>1, <1>2, <1>15, <1>16, <2>1 DEF h, Runs
<1> HIDE DEF v
<1>23. QED
  BY <1>18, <1>21, <1>22 DEF q, base, capacity

-----------------------------------------------------------------------------
(* The way back through the choices. *)

\* A state of the way back.
Ways(options, capacity) == [used : 0..capacity, picked : SUBSET options]

\* w[k] is what has been picked from the tickets behind the k-th, and from it.
WayBack(w, v, list, options, capacity) ==
    /\ w \in [1..(Len(list) + 1) -> Ways(options, capacity)]
    /\ w[Len(list) + 1] = [used |-> capacity, picked |-> {}]
    /\ \A k \in 1..Len(list) :
          w[k] = IF w[k + 1].used \in Improved(v[k - 1], list[k], capacity)
                 THEN [used |-> w[k + 1].used - Units(list[k]),
                       picked |-> w[k + 1].picked \union {list[k]}]
                 ELSE w[k + 1]

\* The second fold computes such a way back.
LEMMA PickRuns ==
    ASSUME NEW allowance \in Nat, NEW options, Tradable(options, allowance),
           NEW list \in Seq(options)
    PROVE  \E v, w : /\ ValueRows(v, list, Capacity(allowance))
                     /\ WayBack(w, v, list, options, Capacity(allowance))
                     /\ Pick(list, allowance) = w[1].picked
<1> DEFINE q == list
           n == Len(q)
           capacity == Capacity(allowance)
           A == Ways(options, capacity)
           base == [used |-> capacity, picked |-> {}]
           chosen == FoldLeft(Consider, Start(capacity), q).chosen
           back(i, way) ==
               IF way.used \in chosen[i]
               THEN [used |-> way.used - q[i].stake \div BetUnit,
                     picked |-> way.picked \union {q[i]}]
               ELSE way
           indices == [i \in DOMAIN q |-> i]
           folds(g) == g = [S \in SUBSET (DOMAIN indices) |->
                               IF S = {} THEN base
                               ELSE back(indices[Min(S)], g[S \ {Min(S)}])]
           step == [p \in A \X (1..n) |-> back(p[2], p[1])]
<1>1. Pick(q, allowance) = (CHOOSE g : folds(g))[DOMAIN indices].picked
  BY DEF Pick, FoldRight, MapThenFoldSet, Start, Nothing, Capacity
<1>2. n \in Nat /\ DOMAIN q = 1..n /\ \A k \in 1..n : q[k] \in options
  BY SeqParts
<1>3. DOMAIN indices = 1..n /\ \A k \in 1..n : indices[k] = k
  BY <1>2
<1>4. \A k \in 1..n : Units(q[k]) \in 1..capacity
  BY <1>2, TicketParts
<1>5. capacity \in Nat
  BY AllocationAssumption, QuotientIsNat DEF Capacity
<1>6. PICK v : ValueRows(v, q, capacity) /\ chosen = ChosenAt(v, q, capacity)
  BY KnapsackRuns
<1>7. \A k \in 1..n : chosen[k] = Improved(v[k - 1], q[k], capacity)
  BY <1>6 DEF ChosenAt
<1> DEFINE taken(k) == Improved(v[k - 1], q[k], capacity)
           onward(way, k) ==
               IF way.used \in taken(k)
               THEN [used |-> way.used - Units(q[k]), picked |-> way.picked \union {q[k]}]
               ELSE way
<1>8. \A way, k : k \in 1..n => back(k, way) = onward(way, k)
  BY <1>7 DEF Units
<1> HIDE DEF q, n, capacity, indices, back, chosen
<1>9. base \in A
  BY <1>5 DEF Ways
<1>10. ASSUME NEW way \in A, NEW k \in 1..n PROVE onward(way, k) \in A
  <2>1. PICK used \in 0..capacity, picked \in SUBSET options :
            way = [used |-> used, picked |-> picked]
    BY DEF Ways
  <2>2. way.used = used /\ way.picked = picked
    BY <2>1
  <2>3. CASE used \in taken(k)
    <3>1. used \in Units(q[k])..capacity /\ Units(q[k]) \in 1..capacity /\ q[k] \in options
      BY <1>2, <1>4, <2>3 DEF Improved
    <3>2. used - Units(q[k]) \in 0..capacity /\ picked \union {q[k]} \in SUBSET options
      BY <1>5, <3>1
    <3>3. onward(way, k) = [used |-> used - Units(q[k]), picked |-> picked \union {q[k]}]
      BY <2>2, <2>3
    <3> HIDE DEF onward
    <3>4. QED
      BY <3>2, <3>3 DEF Ways
  <2>4. CASE used \notin taken(k)
    BY <2>2, <2>4
  <2>5. QED
    BY <2>3, <2>4
<1> HIDE DEF A, base, onward
<1>11. step \in [A \X (1..n) -> A]
  BY <1>8, <1>10
<1>12. \A S \in SUBSET (1..n) : S # {} => Min(S) \in S /\ Min(S) \in 1..n
  BY <1>2, FirstIndex
<1>13. PICK g \in [SUBSET (1..n) -> A] : FoldingBack(g, base, step, n)
  <2> HIDE DEF step
  <2>1. QED
    BY <1>2, <1>9, <1>11, FoldBackExists
<1>14. \A S \in SUBSET (1..n) :
           g[S] = IF S = {} THEN base ELSE back(indices[Min(S)], g[S \ {Min(S)}])
  <2>1. SUFFICES ASSUME NEW S \in SUBSET (1..n), S # {}
                 PROVE  g[S] = back(indices[Min(S)], g[S \ {Min(S)}])
    BY <1>13 DEF FoldingBack
  <2>2. g[S \ {Min(S)}] \in A /\ Min(S) \in 1..n /\ indices[Min(S)] = Min(S)
    BY <1>3, <1>12, <1>13, <2>1
  <2>3. step[<<g[S \ {Min(S)}], Min(S)>>] = back(Min(S), g[S \ {Min(S)}])
    BY <2>2
  <2> HIDE DEF step
  <2>4. g[S] = step[<<g[S \ {Min(S)}], Min(S)>>]
    BY <1>13, <2>1 DEF FoldingBack
  <2>5. QED
    BY <2>2, <2>3, <2>4
<1>15. folds(g)
  BY <1>3, <1>13, <1>14
<1> DEFINE h == CHOOSE f : folds(f)
<1>16. folds(h)
  BY <1>15
<1> HIDE DEF h
<1>17. FoldingBack(h, base, step, n)
  <2> DEFINE T == {S \in SUBSET (1..n) : h[S] \in A}
  <2>1. \A S \in SUBSET (1..n) :
            h[S] = IF S = {} THEN base ELSE back(indices[Min(S)], h[S \ {Min(S)}])
    BY <1>3, <1>16
  <2>2. ASSUME NEW S \in SUBSET (1..n), S # {}, h[S \ {Min(S)}] \in A
        PROVE  h[S] = step[<<h[S \ {Min(S)}], Min(S)>>] /\ h[S] \in A
    <3>1. Min(S) \in 1..n /\ indices[Min(S)] = Min(S)
      BY <1>3, <1>12, <2>2
    <3>2. step[<<h[S \ {Min(S)}], Min(S)>>] = back(Min(S), h[S \ {Min(S)}])
      BY <2>2, <3>1
    <3>3. back(Min(S), h[S \ {Min(S)}]) \in A
      BY <1>8, <1>10, <2>2, <3>1
    <3>4. QED
      BY <2>1, <2>2, <3>1, <3>2, <3>3
  <2>3. \A S \in SUBSET (1..n) : h[S] = g[S]
    <3> DEFINE U == {S \in SUBSET (1..n) : h[S] # g[S]}
    <3>1. SUFFICES ASSUME U # {} PROVE FALSE
      OBVIOUS
    <3> DEFINE all == 1..n
    <3>2. IsFiniteSet(all) /\ U \in SUBSET (SUBSET all)
      BY <1>2, FS_Interval
    <3>3. PICK S \in U : \A R \in U : Cardinality(S) <= Cardinality(R)
      <4> HIDE DEF all, U
      <4>1. QED
        BY <3>1, <3>2, SmallestOf
    <3>4. S # {} /\ S \in SUBSET (1..n)
      BY <1>14, <2>1, <3>3
    <3>5. /\ Min(S) \in S /\ S \ {Min(S)} \in SUBSET (1..n)
          /\ Cardinality(S \ {Min(S)}) = Cardinality(S) - 1 /\ Cardinality(S) \in Nat
      <4>1. Min(S) \in S /\ IsFiniteSet(S)
        BY <1>12, <3>2, <3>4, FS_Subset
      <4>2. S \ {Min(S)} \in SUBSET (1..n)
        BY <3>4
      <4>3. Cardinality(S \ {Min(S)}) = Cardinality(S) - 1 /\ Cardinality(S) \in Nat
        BY <4>1, FS_RemoveElement, FS_CardinalityType
      <4>4. QED
        BY <4>1, <4>2, <4>3
    <3>6. S \ {Min(S)} \notin U
      <4> HIDE DEF U
      <4>1. QED
        BY <3>3, <3>5
    <3>7. h[S \ {Min(S)}] = g[S \ {Min(S)}]
      BY <3>5, <3>6
    <3>8. h[S] = g[S]
      BY <1>14, <2>1, <3>4, <3>7
    <3>9. QED
      BY <3>3, <3>8
  <2>4. \A S \in SUBSET (1..n) : S # {} => h[S \ {Min(S)}] \in A
    BY <1>13, <2>3
  <2> HIDE DEF step
  <2>5. QED
    BY <2>1, <2>2, <2>4 DEF FoldingBack
<1>18. PICK w \in [1..(n + 1) -> A] : RunsBack(w, h, base, step, n)
  <2> HIDE DEF step
  <2>1. QED
    BY <1>2, <1>9, <1>11, <1>17, FoldBackRuns
<1>19. \A k \in 1..n : w[k] = onward(w[k + 1], k)
  <2>1. SUFFICES ASSUME NEW k \in 1..n PROVE w[k] = onward(w[k + 1], k)
    OBVIOUS
  <2>2. k + 1 \in 1..(n + 1)
    BY <1>2
  <2>3. PICK way \in A : way = w[k + 1]
    BY <1>18, <2>2
  <2>4. step[<<way, k>>] = back(k, way)
    OBVIOUS
  <2>5. w[k] = step[<<w[k + 1], k>>]
    <3> HIDE DEF step
    <3>1. QED
      BY <1>18 DEF RunsBack
  <2> HIDE DEF step
  <2>6. QED
    BY <1>8, <2>3, <2>4, <2>5
<1>20. WayBack(w, v, q, options, capacity)
  <2>1. w[n + 1] = base
    BY <1>18 DEF RunsBack
  <2>2. QED
    BY <1>18, <1>19, <2>1 DEF WayBack, n, A, base, onward
<1>21. Pick(q, allowance) = w[1].picked
  <2>1. h[1..n] = w[1]
    BY <1>18 DEF RunsBack
  <2>2. QED
    BY <1>1, <1>3, <2>1 DEF h
<1>22. QED
  BY <1>6, <1>20, <1>21 DEF q, capacity

\* The cost of each ticket of a list.
Costs(list) == [i \in DOMAIN list |-> Units(list[i])]

\* The draws of each ticket of a list.
Gains(list) == [i \in DOMAIN list |-> list[i].draws]

\* The tickets from the k-th on that the way back picks.
Kept(w, v, list, capacity, k) ==
    {i \in k..Len(list) : w[i + 1].used \in Improved(v[i - 1], list[i], capacity)}

\* What they cost is what has been used, and they are worth what the values lose.
WayAt(w, v, list, capacity, k) ==
    LET kept == Kept(w, v, list, capacity, k)
    IN  /\ w[k].picked = {list[i] : i \in kept}
        /\ w[k].used + SumOn(Costs(list), kept) = capacity
        /\ v[Len(list)][capacity + 1] = v[k - 1][w[k].used + 1] + SumOn(Gains(list), kept)

\* The way back is consistent with the values from the last ticket to the first.
LEMMA WayIsConsistent ==
    ASSUME NEW allowance \in Nat, NEW options, Tradable(options, allowance),
           NEW list \in Seq(options), NEW v, NEW w,
           ValueRows(v, list, Capacity(allowance)),
           WayBack(w, v, list, options, Capacity(allowance))
    PROVE  \A k \in 1..(Len(list) + 1) : WayAt(w, v, list, Capacity(allowance), k)
<1> DEFINE q == list
           n == Len(q)
           capacity == Capacity(allowance)
           cost == Costs(q)
           gain == Gains(q)
           kept(k) == Kept(w, v, q, capacity, k)
           T == {j \in 0..n : WayAt(w, v, q, capacity, n + 1 - j)}
<1>1. n \in Nat /\ DOMAIN q = 1..n /\ \A k \in 1..n : q[k] \in options
  BY SeqParts
<1>2. \A k \in 1..n : Units(q[k]) \in 1..capacity /\ q[k].draws \in Nat
  BY <1>1, TicketParts
<1>3. capacity \in Nat
  BY AllocationAssumption, QuotientIsNat DEF Capacity
<1>4. /\ IsFiniteSet(1..n)
      /\ \A i \in 1..n : /\ cost[i] = Units(q[i]) /\ cost[i] \in Int
                         /\ gain[i] = q[i].draws /\ gain[i] \in Int
  <2>1. IsFiniteSet(1..n)
    BY <1>1, FS_Interval
  <2>2. \A i \in 1..n : cost[i] = Units(q[i]) /\ gain[i] = q[i].draws
    BY <1>1 DEF Costs, Gains
  <2>3. \A i \in 1..n : Units(q[i]) \in Int /\ q[i].draws \in Int
    BY <1>2
  <2> HIDE DEF cost, gain
  <2>4. QED
    BY <2>1, <2>2, <2>3
<1> HIDE DEF q, n, capacity, cost, gain
<1>5. /\ w \in [1..(n + 1) -> Ways(options, capacity)]
      /\ w[n + 1] = [used |-> capacity, picked |-> {}]
      /\ \A k \in 1..n :
            w[k] = IF w[k + 1].used \in Improved(v[k - 1], q[k], capacity)
                   THEN [used |-> w[k + 1].used - Units(q[k]),
                         picked |-> w[k + 1].picked \union {q[k]}]
                   ELSE w[k + 1]
  BY DEF WayBack, q, n, capacity
<1>6. /\ v \in [0..n -> Ladders(capacity)]
      /\ \A k \in 1..n : v[k] = Raised(v[k - 1], q[k], capacity)
  BY DEF ValueRows, q, n, capacity
<1>7. \A k \in 1..(n + 1) :
          /\ kept(k) \in SUBSET (1..n)
          /\ SumOn(cost, kept(k)) \in Int /\ SumOn(gain, kept(k)) \in Int
  <2>1. SUFFICES ASSUME NEW k \in 1..(n + 1)
                 PROVE  /\ kept(k) \in SUBSET (1..n)
                        /\ SumOn(cost, kept(k)) \in Int /\ SumOn(gain, kept(k)) \in Int
    OBVIOUS
  <2>2. kept(k) \in SUBSET (1..n)
    BY <1>1 DEF Kept, n
  <2> DEFINE K == kept(k)
  <2> HIDE DEF kept
  <2>3. IsFiniteSet(K) /\ \A i \in K : cost[i] \in Int /\ gain[i] \in Int
    BY <1>4, <2>2, FS_Subset
  <2> HIDE DEF K
  <2>4. SumOn(cost, K) \in Int /\ SumOn(gain, K) \in Int
    BY <2>3, SumType
  <2>5. QED
    BY <2>2, <2>4 DEF K
<1>8. WayAt(w, v, q, capacity, n + 1)
  <2> DEFINE K == kept(n + 1)
  <2>1. K = {}
    BY <1>1 DEF Kept, n
  <2>2. SumOn(cost, {}) = 0 /\ SumOn(gain, {}) = 0
    BY SumUnrolls, FS_EmptySet
  <2>3. w[n + 1].used = capacity /\ w[n + 1].picked = {} /\ (n + 1) - 1 = n
    BY <1>1, <1>5
  <2>4. v[n][capacity + 1] \in Nat
    BY <1>1, <1>3, <1>6 DEF Ladders
  <2> HIDE DEF K
  <2>5. {q[i] : i \in K} = {}
    BY <2>1
  <2>6. w[n + 1].picked = {q[i] : i \in K}
    BY <2>3, <2>5
  <2>7. w[n + 1].used + SumOn(cost, K) = capacity
    BY <1>3, <2>1, <2>2, <2>3
  <2>8. v[n][capacity + 1] = v[(n + 1) - 1][w[n + 1].used + 1] + SumOn(gain, K)
    BY <2>1, <2>2, <2>3, <2>4
  <2>9. QED
    BY <2>6, <2>7, <2>8 DEF WayAt, K, cost, gain, n
<1>9. ASSUME NEW k \in 1..n, WayAt(w, v, q, capacity, k + 1)
      PROVE  WayAt(w, v, q, capacity, k)
  <2> DEFINE more == kept(k + 1)
             K == kept(k)
             top == v[n][capacity + 1]
  <2>1. k + 1 \in 1..(n + 1) /\ k \in 1..(n + 1) /\ (k + 1) - 1 = k /\ k - 1 \in 0..n
    BY <1>1
  <2>2. /\ w[k + 1].picked = {q[i] : i \in more}
        /\ w[k + 1].used + SumOn(cost, more) = capacity
        /\ top = v[k][w[k + 1].used + 1] + SumOn(gain, more)
    BY <1>9, <2>1 DEF WayAt, cost, gain, n
  <2>3. /\ more \in SUBSET (1..n)
        /\ SumOn(cost, more) \in Int /\ SumOn(gain, more) \in Int
    BY <1>7, <2>1
  <2>4. k \notin more
    BY <1>1 DEF Kept, n
  <2>5. K = IF w[k + 1].used \in Improved(v[k - 1], q[k], capacity)
            THEN more \union {k} ELSE more
    BY <1>1, <2>1 DEF Kept, n
  <2> HIDE DEF more, K, top
  <2>6. /\ SumOn(cost, more \union {k}) = Units(q[k]) + SumOn(cost, more)
        /\ SumOn(gain, more \union {k}) = q[k].draws + SumOn(gain, more)
    <3> DEFINE I == 1..n
    <3>1. /\ IsFiniteSet(I) /\ more \in SUBSET I /\ k \in I
          /\ \A i \in I : cost[i] \in Int /\ gain[i] \in Int
      BY <1>4, <2>3
    <3>2. cost[k] = Units(q[k]) /\ gain[k] = q[k].draws
      BY <1>4
    <3> HIDE DEF I, cost, gain
    <3>3. /\ SumOn(cost, more \union {k}) = cost[k] + SumOn(cost, more)
          /\ SumOn(gain, more \union {k}) = gain[k] + SumOn(gain, more)
      BY <2>4, <3>1, SumInsert
    <3>4. QED
      BY <3>2, <3>3
  <2>7. PICK used \in 0..capacity, picked \in SUBSET options :
            w[k + 1] = [used |-> used, picked |-> picked]
    BY <1>5, <2>1 DEF Ways
  <2>8. w[k + 1].used = used /\ w[k + 1].picked = picked
    BY <2>7
  <2>9. v[k - 1] \in Ladders(capacity) /\ used + 1 \in 1..(capacity + 1) /\ (used + 1) - 1 = used
    BY <1>3, <1>6, <2>1
  <2>10. v[k][used + 1]
           = IF used \in Improved(v[k - 1], q[k], capacity)
             THEN v[k - 1][(used + 1) - Units(q[k])] + q[k].draws ELSE v[k - 1][used + 1]
    <3>1. \A i \in 1..(capacity + 1) :
              v[k][i] = IF i - 1 \in Improved(v[k - 1], q[k], capacity)
                        THEN v[k - 1][i - Units(q[k])] + q[k].draws ELSE v[k - 1][i]
      BY <1>6 DEF Raised
    <3>2. PICK i \in 1..(capacity + 1) : i = used + 1 /\ i - 1 = used
      BY <2>9
    <3> DEFINE better == i - 1 \in Improved(v[k - 1], q[k], capacity)
               raised == v[k - 1][i - Units(q[k])] + q[k].draws
    <3>3. v[k][i] = IF better THEN raised ELSE v[k - 1][i]
      BY <3>1
    <3>4. (better => v[k][i] = raised) /\ (~better => v[k][i] = v[k - 1][i])
      BY <3>3
    <3>5. better <=> used \in Improved(v[k - 1], q[k], capacity)
      BY <3>2
    <3>6. raised = v[k - 1][(used + 1) - Units(q[k])] + q[k].draws
      BY <3>2
    <3> HIDE DEF better, raised
    <3>7. QED
      BY <3>2, <3>4, <3>5, <3>6
  <2>11. CASE used \in Improved(v[k - 1], q[k], capacity)
    <3>1. /\ w[k].used = used - Units(q[k]) /\ w[k].picked = picked \union {q[k]}
          /\ K = more \union {k}
      <4>1. w[k] = [used |-> used - Units(q[k]), picked |-> picked \union {q[k]}]
        BY <1>5, <2>8, <2>11
      <4>2. QED
        BY <2>5, <2>8, <2>11, <4>1
    <3>2. used \in Units(q[k])..capacity /\ Units(q[k]) \in 1..capacity /\ q[k].draws \in Nat
      BY <1>2, <2>11 DEF Improved
    <3>3. used - Units(q[k]) + 1 = (used + 1) - Units(q[k])
          /\ used - Units(q[k]) + 1 \in 1..(capacity + 1)
      BY <1>3, <3>2
    <3>4. v[k - 1][used - Units(q[k]) + 1] \in Nat
      BY <2>9, <3>3 DEF Ladders
    <3>5. {q[i] : i \in more \union {k}} = {q[i] : i \in more} \union {q[k]}
      OBVIOUS
    <3>6. w[k].picked = {q[i] : i \in K}
      BY <2>2, <2>8, <3>1, <3>5
    <3>7. w[k].used + SumOn(cost, K) = capacity
      BY <1>3, <2>2, <2>3, <2>6, <2>8, <3>1, <3>2
    <3>8. top = v[k - 1][w[k].used + 1] + SumOn(gain, K)
      <4>1. top = (v[k - 1][(used + 1) - Units(q[k])] + q[k].draws) + SumOn(gain, more)
        BY <2>2, <2>8, <2>10, <2>11
      <4>2. w[k].used + 1 = (used + 1) - Units(q[k])
        BY <3>1, <3>3
      <4>3. SumOn(gain, K) = q[k].draws + SumOn(gain, more)
        BY <2>6, <3>1
      <4>4. PICK b \in Nat : b = v[k - 1][(used + 1) - Units(q[k])]
        BY <3>3, <3>4
      <4>5. top = (b + q[k].draws) + SumOn(gain, more)
        BY <4>1, <4>4
      <4>6. (b + q[k].draws) + SumOn(gain, more) = b + (q[k].draws + SumOn(gain, more))
        BY <2>3, <3>2
      <4>7. QED
        BY <4>2, <4>3, <4>4, <4>5, <4>6
    <3>9. QED
      BY <3>6, <3>7, <3>8 DEF WayAt, K, top, cost, gain, n
  <2>12. CASE used \notin Improved(v[k - 1], q[k], capacity)
    <3>1. w[k] = w[k + 1] /\ K = more /\ v[k][used + 1] = v[k - 1][used + 1]
      BY <1>5, <2>5, <2>8, <2>10, <2>12
    <3>2. /\ w[k].picked = {q[i] : i \in K} /\ w[k].used + SumOn(cost, K) = capacity
          /\ top = v[k - 1][w[k].used + 1] + SumOn(gain, K)
      BY <2>2, <2>8, <3>1
    <3>3. QED
      BY <3>2 DEF WayAt, K, top, cost, gain, n
  <2>13. QED
    BY <2>11, <2>12
<1>10. \A j \in 0..n : j \in T
  <2>1. 0 \in T
    BY <1>1, <1>8
  <2>2. ASSUME NEW j \in 1..n, j - 1 \in T PROVE j \in T
    <3>1. n + 1 - (j - 1) = (n + 1 - j) + 1 /\ n + 1 - j \in 1..n
      BY <1>1
    <3>2. WayAt(w, v, q, capacity, (n + 1 - j) + 1)
      BY <2>2, <3>1
    <3>3. WayAt(w, v, q, capacity, n + 1 - j)
      BY <1>9, <3>1, <3>2
    <3>4. QED
      BY <1>1, <3>3
  <2> HIDE DEF T
  <2>3. QED
    BY <1>1, <2>1, <2>2, UpTo
<1>11. ASSUME NEW k \in 1..(n + 1) PROVE WayAt(w, v, q, capacity, k)
  <2>1. n + 1 - k \in 0..n /\ n + 1 - (n + 1 - k) = k
    BY <1>1
  <2>2. n + 1 - k \in T
    BY <1>10, <2>1
  <2>3. QED
    BY <2>1, <2>2
<1>12. QED
  BY <1>11 DEF q, n, capacity

\* A row is never below the one before it, nor below what a ticket adds to it.
LEMMA RaisedBounds ==
    ASSUME NEW capacity \in Nat, NEW v \in Ladders(capacity), NEW o, o.draws \in Nat,
           Units(o) \in 1..capacity, NEW c \in 0..capacity
    PROVE  /\ Raised(v, o, capacity)[c + 1] \in Nat /\ v[c + 1] \in Nat
           /\ v[c + 1] <= Raised(v, o, capacity)[c + 1]
           /\ Units(o) <= c => /\ v[(c - Units(o)) + 1] \in Nat
                               /\ v[(c - Units(o)) + 1] + o.draws
                                    <= Raised(v, o, capacity)[c + 1]
<1> DEFINE u == Units(o)
           better == c \in Improved(v, o, capacity)
           added == v[(c - u) + 1] + o.draws
           r == Raised(v, o, capacity)
<1>1. v \in [1..(capacity + 1) -> Nat] /\ c + 1 \in 1..(capacity + 1) /\ (c + 1) - 1 = c
  BY DEF Ladders
<1>2. (c + 1) - u = (c - u) + 1 /\ c + 1 - u = (c - u) + 1
  OBVIOUS
<1>3. u <= c => (c - u) + 1 \in 1..(capacity + 1)
  OBVIOUS
<1>4. u <= c => v[(c - u) + 1] \in Nat /\ added \in Nat
  BY <1>1, <1>3
<1>5. better <=> u <= c /\ added > v[c + 1]
  BY <1>2 DEF Improved
<1>6. (better => r[c + 1] = added) /\ (~better => r[c + 1] = v[c + 1])
  <2>1. \A i \in 1..(capacity + 1) :
            r[i] = IF i - 1 \in Improved(v, o, capacity) THEN v[i - u] + o.draws ELSE v[i]
    BY DEF Raised
  <2>2. r[c + 1] = IF (c + 1) - 1 \in Improved(v, o, capacity)
                   THEN v[(c + 1) - u] + o.draws ELSE v[c + 1]
    BY <1>1, <2>1
  <2>3. ((c + 1) - 1 \in Improved(v, o, capacity)) <=> better
    BY <1>1
  <2>4. v[(c + 1) - u] + o.draws = added
    BY <1>2
  <2> HIDE DEF better, added, r, u
  <2>5. QED
    BY <2>2, <2>3, <2>4
<1>7. v[c + 1] \in Nat
  BY <1>1
<1> HIDE DEF better, r
<1>8. r[c + 1] \in Nat /\ v[c + 1] <= r[c + 1] /\ (u <= c => added <= r[c + 1])
  <2> HIDE DEF added, u
  <2>1. u \in Nat
    BY DEF u
  <2>2. QED
    BY <1>4, <1>5, <1>6, <1>7, <2>1
<1>9. QED
  BY <1>4, <1>7, <1>8 DEF r

\* No set of the first k tickets that c units pay is worth more than the k-th row says.
BoundedBy(v, list, capacity, k) ==
    \A S \in SUBSET (1..k) : \A c \in 0..capacity :
        SumOn(Costs(list), S) <= c => SumOn(Gains(list), S) <= v[k][c + 1]

\* No set of tickets beats the last row.
LEMMA ValuesBound ==
    ASSUME NEW allowance \in Nat, NEW options, Tradable(options, allowance),
           NEW list \in Seq(options), NEW v, ValueRows(v, list, Capacity(allowance))
    PROVE  BoundedBy(v, list, Capacity(allowance), Len(list))
<1> DEFINE q == list
           n == Len(q)
           capacity == Capacity(allowance)
           cost == Costs(q)
           gain == Gains(q)
           T == {k \in 0..n : BoundedBy(v, q, capacity, k)}
<1>1. n \in Nat /\ DOMAIN q = 1..n /\ \A k \in 1..n : q[k] \in options
  BY SeqParts
<1>2. \A k \in 1..n : Units(q[k]) \in 1..capacity /\ q[k].draws \in Nat
  BY <1>1, TicketParts
<1>3. capacity \in Nat
  BY AllocationAssumption, QuotientIsNat DEF Capacity
<1>4. \A i \in 1..n : /\ cost[i] = Units(q[i]) /\ cost[i] \in Nat
                      /\ gain[i] = q[i].draws /\ gain[i] \in Nat
  <2>1. \A i \in 1..n : cost[i] = Units(q[i]) /\ gain[i] = q[i].draws
    BY <1>1 DEF Costs, Gains
  <2>2. \A i \in 1..n : Units(q[i]) \in Nat /\ q[i].draws \in Nat
    BY <1>2
  <2> HIDE DEF cost, gain
  <2>3. QED
    BY <2>1, <2>2
<1> HIDE DEF q, n, capacity, cost, gain
<1>5. /\ v \in [0..n -> Ladders(capacity)] /\ v[0] = Nothing(capacity)
      /\ \A k \in 1..n : v[k] = Raised(v[k - 1], q[k], capacity)
  BY DEF ValueRows, q, n, capacity
<1>6. SumOn(cost, {}) = 0 /\ SumOn(gain, {}) = 0
  BY SumUnrolls, FS_EmptySet
<1>7. \A S \in SUBSET (1..n) : SumOn(cost, S) \in Nat /\ SumOn(gain, S) \in Nat
  <2>1. IsFiniteSet(1..n)
    BY <1>1, FS_Interval
  <2>2. QED
    BY <1>4, <2>1, SumGrows
<1>8. 0 \in T
  <2>1. SUFFICES ASSUME NEW S \in SUBSET (1..0), NEW c \in 0..capacity
                 PROVE  SumOn(gain, S) <= v[0][c + 1]
    BY <1>1 DEF BoundedBy, cost, gain
  <2>2. S = {}
    OBVIOUS
  <2>3. v[0][c + 1] = 0
    BY <1>3, <1>5 DEF Nothing
  <2>4. QED
    BY <1>6, <2>2, <2>3
<1>9. ASSUME NEW k \in 1..n, k - 1 \in T PROVE k \in T
  <2>1. SUFFICES ASSUME NEW S \in SUBSET (1..k), NEW c \in 0..capacity, SumOn(cost, S) <= c
                 PROVE  SumOn(gain, S) <= v[k][c + 1]
    BY <1>1 DEF BoundedBy, cost, gain
  <2>2. \A R \in SUBSET (1..(k - 1)) : \A b \in 0..capacity :
            SumOn(cost, R) <= b => SumOn(gain, R) <= v[k - 1][b + 1]
    BY <1>9 DEF BoundedBy, cost, gain
  <2> DEFINE u == Units(q[k])
             w == v[k - 1]
  <2>3. /\ w \in Ladders(capacity) /\ v[k] = Raised(w, q[k], capacity)
        /\ u \in 1..capacity /\ q[k].draws \in Nat
    <3>1. k - 1 \in 0..n
      BY <1>1
    <3>2. QED
      BY <1>2, <1>5, <3>1
  <2> HIDE DEF w
  <2>4. /\ v[k][c + 1] \in Nat /\ w[c + 1] \in Nat /\ w[c + 1] <= v[k][c + 1]
        /\ u <= c => /\ w[(c - u) + 1] \in Nat
                     /\ w[(c - u) + 1] + q[k].draws <= v[k][c + 1]
    BY <1>3, <2>3, RaisedBounds
  <2>5. CASE k \notin S
    <3>1. S \in SUBSET (1..(k - 1)) /\ S \in SUBSET (1..n)
      BY <1>1, <2>5
    <3>2. SumOn(gain, S) <= w[c + 1]
      BY <2>1, <2>2, <3>1 DEF w
    <3>3. SumOn(gain, S) \in Nat
      BY <1>7, <3>1
    <3>4. QED
      BY <2>4, <3>2, <3>3
  <2>6. CASE k \in S
    <3> DEFINE R == S \ {k}
    <3>1. R \in SUBSET (1..(k - 1)) /\ R \in SUBSET (1..n) /\ k \notin R /\ S = R \union {k}
      BY <1>1, <2>6
    <3> HIDE DEF R
    <3>2. /\ SumOn(cost, S) = u + SumOn(cost, R)
          /\ SumOn(gain, S) = q[k].draws + SumOn(gain, R)
      <4>1. IsFiniteSet(1..n)
        BY <1>1, FS_Interval
      <4>2. \A i \in 1..n : cost[i] \in Int /\ gain[i] \in Int
        BY <1>4
      <4>3. /\ SumOn(cost, R \union {k}) = cost[k] + SumOn(cost, R)
            /\ SumOn(gain, R \union {k}) = gain[k] + SumOn(gain, R)
        BY <3>1, <4>1, <4>2, SumInsert
      <4>4. QED
        BY <1>4, <3>1, <4>3
    <3>3. PICK a \in Nat, b \in Nat : a = SumOn(cost, R) /\ b = SumOn(gain, R)
      BY <1>7, <3>1
    <3>4. u <= c /\ c - u \in 0..capacity /\ a <= c - u
      BY <1>3, <2>1, <2>3, <3>2, <3>3
    <3>5. b <= w[(c - u) + 1]
      BY <2>2, <3>1, <3>3, <3>4 DEF w
    <3>6. PICK m \in Nat, t \in Nat, d \in Nat :
              m = w[(c - u) + 1] /\ t = v[k][c + 1] /\ d = q[k].draws
      BY <2>3, <2>4, <3>4
    <3>7. m + d <= t
      BY <2>4, <3>4, <3>6
    <3>8. b <= m
      BY <3>5, <3>6
    <3>9. SumOn(gain, S) = d + b
      BY <3>2, <3>3, <3>6
    <3>10. d + b <= t
      BY <3>7, <3>8
    <3>11. QED
      BY <3>6, <3>9, <3>10
  <2>7. QED
    BY <2>5, <2>6
<1>10. n \in T
  <2> HIDE DEF T
  <2>1. \A k \in 0..n : k \in T
    BY <1>1, <1>8, <1>9, UpTo
  <2>2. QED
    BY <1>1, <2>1
<1>11. QED
  BY <1>10 DEF q, n, capacity

\* The numbers of the tickets that the knapsack picks from a shortlist: the allowance
\* pays for them, and no others that it pays for are worth more.
PickedBy(P, list, allowance) ==
    /\ P \in SUBSET (1..Len(list)) /\ Pick(list, allowance) = {list[i] : i \in P}
    /\ SumOn(Costs(list), P) <= Capacity(allowance)
    /\ \A S \in SUBSET (1..Len(list)) :
          SumOn(Costs(list), S) <= Capacity(allowance) =>
              SumOn(Gains(list), S) <= SumOn(Gains(list), P)

\* So what is picked is affordable, and nothing affordable beats it.
LEMMA PickParts ==
    ASSUME NEW allowance \in Nat, NEW options, Tradable(options, allowance),
           NEW list \in Seq(options)
    PROVE  \E P : PickedBy(P, list, allowance)
<1> DEFINE q == list
           n == Len(q)
           capacity == Capacity(allowance)
<1>1. n \in Nat /\ DOMAIN q = 1..n /\ \A k \in 1..n : q[k] \in options
  BY SeqParts
<1>2. capacity \in Nat
  BY AllocationAssumption, QuotientIsNat DEF Capacity
<1>3. PICK v, w : /\ ValueRows(v, list, Capacity(allowance))
                  /\ WayBack(w, v, list, options, Capacity(allowance))
                  /\ Pick(list, allowance) = w[1].picked
  BY PickRuns
<1> DEFINE P == Kept(w, v, q, capacity, 1)
<1>4. WayAt(w, v, q, capacity, 1)
  <2>1. 1 \in 1..(n + 1)
    BY <1>1
  <2>2. QED
    BY <1>3, <2>1, WayIsConsistent
<1>5. BoundedBy(v, q, capacity, n)
  BY <1>3, ValuesBound
<1>6. P \in SUBSET (1..n)
  BY DEF Kept
<1>7. SumOn(Costs(q), P) \in Int /\ SumOn(Gains(q), P) \in Int
  <2>1. \A i \in 1..n : Costs(q)[i] = Units(q[i]) /\ Gains(q)[i] = q[i].draws
    BY <1>1 DEF Costs, Gains
  <2>2. \A i \in 1..n : Units(q[i]) \in Int /\ q[i].draws \in Int
    BY <1>1, TicketParts
  <2> DEFINE K == P
             cost == Costs(q)
             gain == Gains(q)
  <2>3. IsFiniteSet(1..n)
    BY <1>1, FS_Interval
  <2>4. IsFiniteSet(K)
    BY <1>6, <2>3, FS_Subset
  <2>5. \A i \in K : cost[i] \in Int /\ gain[i] \in Int
    BY <1>6, <2>1, <2>2
  <2> HIDE DEF K, cost, gain
  <2>6. SumOn(cost, K) \in Int /\ SumOn(gain, K) \in Int
    BY <2>4, <2>5, SumType
  <2>7. QED
    BY <2>6 DEF K, cost, gain
<1>8. /\ w[1].picked = {q[i] : i \in P} /\ w[1].used + SumOn(Costs(q), P) = capacity
      /\ v[n][capacity + 1] = v[0][w[1].used + 1] + SumOn(Gains(q), P)
  BY <1>4 DEF WayAt
<1>9. w[1].used \in 0..capacity
  BY <1>1, <1>3 DEF WayBack, Ways
<1>10. v[0][w[1].used + 1] = 0
  <2>1. v[0] = Nothing(capacity)
    BY <1>3 DEF ValueRows
  <2>2. w[1].used + 1 \in 1..(capacity + 1)
    BY <1>2, <1>9
  <2>3. QED
    BY <2>1, <2>2 DEF Nothing
<1> HIDE DEF P, q, n, capacity
<1>11. SumOn(Costs(q), P) <= capacity /\ v[n][capacity + 1] = SumOn(Gains(q), P)
  BY <1>2, <1>7, <1>8, <1>9, <1>10
<1>12. \A S \in SUBSET (1..n) :
           SumOn(Costs(q), S) <= capacity => SumOn(Gains(q), S) <= SumOn(Gains(q), P)
  <2>1. capacity \in 0..capacity
    BY <1>2
  <2>2. QED
    BY <1>5, <1>11, <2>1 DEF BoundedBy
<1>13. PickedBy(P, q, allowance)
  BY <1>3, <1>6, <1>8, <1>11, <1>12 DEF PickedBy, q, n, capacity
<1>14. QED
  BY <1>13 DEF q

-----------------------------------------------------------------------------
(* The tickets of a race. *)

\* The likeliest first.
LikeliestFirst(S) == Ordered(S, Likelier)

\* The tickets that are bought are put in an order.
LEMMA LikelierOrders ==
    ASSUME NEW options, NEW allowance, Tradable(options, allowance), NEW S \in SUBSET options
    PROVE  Orders({x \in S \X S : Likelier(x[1], x[2])}, S)
<1> DEFINE before == {x \in S \X S : Likelier(x[1], x[2])}
<1>1. \A a \in S : a.draws \in Nat /\ a.combination \in Nat
  BY DEF Tradable
<1>2. \A a, b \in S : a.combination = b.combination => a = b
  BY DEF Tradable
<1>3. \A a, b \in S : <<a, b>> \in before <=> Likelier(a, b)
  OBVIOUS
<1> HIDE DEF before
<1>4. \A a \in S : ~Likelier(a, a)
  BY <1>1 DEF Likelier
<1>5. \A a, b \in S : a # b => Likelier(a, b) \/ Likelier(b, a)
  BY <1>1, <1>2 DEF Likelier
<1>6. \A a, b, c \in S : Likelier(a, b) /\ Likelier(b, c) => Likelier(a, c)
  BY <1>1 DEF Likelier
<1>7. Orders(before, S)
  BY <1>3, <1>4, <1>5, <1>6 DEF Orders
<1>8. QED
  BY <1>7 DEF before

\* Sorting keeps the tickets.
LEMMA SortedParts ==
    ASSUME NEW options, NEW allowance, Tradable(options, allowance), NEW S \in SUBSET options
    PROVE  /\ LikeliestFirst(S) \in Seq(S) /\ Len(LikeliestFirst(S)) = Cardinality(S)
           /\ Cardinality(S) \in Nat
           /\ \A x \in S : \E i \in 1..Cardinality(S) : LikeliestFirst(S)[i] = x
           /\ \A i, j \in 1..Cardinality(S) : LikeliestFirst(S)[i] = LikeliestFirst(S)[j] => i = j
<1> DEFINE before == {x \in S \X S : Likelier(x[1], x[2])}
           sorted == InOrder(before, S)
           n == Cardinality(S)
<1>1. IsFiniteSet(S) /\ n \in Nat
  BY FS_Subset, FS_CardinalityType DEF Tradable
<1>2. Orders(before, S)
  BY LikelierOrders
<1>3. \A x \in S : <<x, x>> \notin before
  BY <1>2 DEF Orders
<1>4. \A x, y \in S : Likelier(y, x) <=> <<y, x>> \in before
  OBVIOUS
<1> HIDE DEF before
<1>5. \A x \in S : Rank(before, S, x) = Cardinality({y \in S : Likelier(y, x)})
  <2>1. \A x \in S : {y \in S : <<y, x>> \in before} = {y \in S : Likelier(y, x)}
    BY <1>4
  <2>2. QED
    BY <2>1 DEF Rank
<1>6. LikeliestFirst(S) = sorted
  <2> DEFINE a(k) == CHOOSE x \in S : Cardinality({y \in S : Likelier(y, x)}) = k - 1
             b(k) == CHOOSE x \in S : Rank(before, S, x) = k - 1
  <2>1. \A k \in 1..n : a(k) = b(k)
    BY <1>5
  <2>2. LikeliestFirst(S) = [k \in 1..n |-> a(k)] /\ sorted = [k \in 1..n |-> b(k)]
    BY DEF LikeliestFirst, Ordered, InOrder
  <2> HIDE DEF a, b, sorted
  <2>3. QED
    BY <2>1, <2>2
<1> HIDE DEF sorted
<1>7. /\ sorted \in Seq(S) /\ Len(sorted) = n
      /\ \A x \in S : \E i \in 1..n : sorted[i] = x
      /\ \A i, j \in 1..n : i < j => <<sorted[i], sorted[j]>> \in before
  BY <1>1, <1>2, OrderSorts DEF sorted
<1>8. \A i, j \in 1..n : sorted[i] = sorted[j] => i = j
  <2>1. SUFFICES ASSUME NEW i \in 1..n, NEW j \in 1..n, sorted[i] = sorted[j], i < j PROVE FALSE
    BY <1>1
  <2>2. <<sorted[i], sorted[j]>> \in before /\ sorted[j] \in S
    BY <1>7, <2>1
  <2>3. QED
    BY <1>3, <2>1, <2>2
<1>9. QED
  BY <1>1, <1>6, <1>7, <1>8

\* What the sorted tickets add up to does not depend on their order.
LEMMA SortedSum ==
    ASSUME NEW options, NEW allowance, Tradable(options, allowance), NEW S \in SUBSET options,
           NEW f, \A x \in S : f[x] \in Int,
           NEW h, \A i \in 1..Len(LikeliestFirst(S)) : h[i] = f[LikeliestFirst(S)[i]]
    PROVE  SumOn(h, 1..Len(LikeliestFirst(S))) = SumOn(f, S)
<1> DEFINE q == LikeliestFirst(S)
           n == Cardinality(S)
           I == 1..n
<1>1. /\ q \in Seq(S) /\ Len(q) = n /\ n \in Nat
      /\ \A x \in S : \E i \in I : q[i] = x
      /\ \A i, j \in I : q[i] = q[j] => i = j
  BY SortedParts
<1>2. IsFiniteSet(I)
  BY <1>1, FS_Interval
<1> HIDE DEF q
<1>3. \A i \in I : q[i] \in S
  BY <1>1, SeqParts
<1>4. \A i \in I : f[q[i]] \in Int /\ h[i] = f[q[i]]
  BY <1>1, <1>3 DEF q
<1> HIDE DEF I
<1>5. {q[i] : i \in I} = S
  BY <1>1, <1>3
<1>6. SumOn(h, I) = SumOn(f, {q[i] : i \in I})
  BY <1>1, <1>2, <1>4, SumReindexed, SMTT(30)
<1>7. QED
  BY <1>1, <1>5, <1>6 DEF q, I

\* The sum over some positions of a field of their tickets, as the module writes it.
StakesAt(list, S) == MapThenSumSet(LAMBDA i : list[i].stake, S)

\* The same for their draws.
DrawsAt(list, S) == MapThenSumSet(LAMBDA i : list[i].draws, S)

\* The draws of a list, as the module writes them.
DrawsOf(tickets) == FoldLeft(LAMBDA sum, t : sum + t.draws, 0, tickets)

\* The stake of each ticket of a list.
Stakes(list) == [i \in DOMAIN list |-> list[i].stake]

\* These are the sums that the library speaks of: the stakes at some positions,
LEMMA StakesAtIsSum ==
    ASSUME NEW list, NEW S \in SUBSET DOMAIN list, IsFiniteSet(S)
    PROVE  StakesAt(list, S) = SumOn(Stakes(list), S)
<1> DEFINE f == Stakes(list)
           folds(g) == g = [s \in SUBSET S |->
                               IF s = {} THEN 0
                               ELSE list[CHOOSE x \in s : TRUE].stake
                                      + g[s \ {CHOOSE x \in s : TRUE}]]
<1>1. StakesAt(list, S) = (CHOOSE g : folds(g))[S]
  BY DEF StakesAt, MapThenSumSet, MapThenFoldSet
<1>2. \A s \in SUBSET S : s # {} => f[Chosen(s)] = list[CHOOSE x \in s : TRUE].stake
  BY DEF Chosen, Stakes
<1> HIDE DEF f
<1>3. \A g : folds(g) <=> Adds(f, S, g)
  <2>1. ASSUME NEW g PROVE folds(g) <=> Adds(f, S, g)
    <3>1. \A s \in SUBSET S :
              (IF s = {} THEN 0 ELSE list[CHOOSE x \in s : TRUE].stake
                                       + g[s \ {CHOOSE x \in s : TRUE}])
                = AddUp(f, g, s)
      BY <1>2 DEF AddUp, Chosen
    <3>2. QED
      BY <3>1 DEF Adds
  <2>2. QED
    BY <2>1
<1> DEFINE h == CHOOSE g : folds(g)
           k == CHOOSE g : Adds(f, S, g)
<1> HIDE DEF folds
<1>4. \E g : Adds(f, S, g)
  BY AdderExists
<1>5. Adds(f, S, h) /\ Adds(f, S, k)
  BY <1>3, <1>4
<1> HIDE DEF h, k
<1>6. h[S] = k[S]
  BY <1>5, AdderUnique
<1>7. SumOn(f, S) = k[S]
  BY SumIsFold DEF k
<1>8. QED
  BY <1>1, <1>6, <1>7 DEF h, f

\* the draws at some positions,
LEMMA DrawsAtIsSum ==
    ASSUME NEW list, NEW S \in SUBSET DOMAIN list, IsFiniteSet(S)
    PROVE  DrawsAt(list, S) = SumOn(Gains(list), S)
<1> DEFINE f == Gains(list)
           folds(g) == g = [s \in SUBSET S |->
                               IF s = {} THEN 0
                               ELSE list[CHOOSE x \in s : TRUE].draws
                                      + g[s \ {CHOOSE x \in s : TRUE}]]
<1>1. DrawsAt(list, S) = (CHOOSE g : folds(g))[S]
  BY DEF DrawsAt, MapThenSumSet, MapThenFoldSet
<1>2. \A s \in SUBSET S : s # {} => f[Chosen(s)] = list[CHOOSE x \in s : TRUE].draws
  BY DEF Chosen, Gains
<1> HIDE DEF f
<1>3. \A g : folds(g) <=> Adds(f, S, g)
  <2>1. ASSUME NEW g PROVE folds(g) <=> Adds(f, S, g)
    <3>1. \A s \in SUBSET S :
              (IF s = {} THEN 0 ELSE list[CHOOSE x \in s : TRUE].draws
                                       + g[s \ {CHOOSE x \in s : TRUE}])
                = AddUp(f, g, s)
      BY <1>2 DEF AddUp, Chosen
    <3>2. QED
      BY <3>1 DEF Adds
  <2>2. QED
    BY <2>1
<1> DEFINE h == CHOOSE g : folds(g)
           k == CHOOSE g : Adds(f, S, g)
<1> HIDE DEF folds
<1>4. \E g : Adds(f, S, g)
  BY AdderExists
<1>5. Adds(f, S, h) /\ Adds(f, S, k)
  BY <1>3, <1>4
<1> HIDE DEF h, k
<1>6. h[S] = k[S]
  BY <1>5, AdderUnique
<1>7. SumOn(f, S) = k[S]
  BY SumIsFold DEF k
<1>8. QED
  BY <1>1, <1>6, <1>7 DEF h, f

\* and the draws of a whole list.
LEMMA DrawsIsSum ==
    ASSUME NEW t, NEW S, t \in Seq(S), \A i \in DOMAIN t : t[i].draws \in Int
    PROVE  DrawsOf(t) = SumOn(Gains(t), 1..Len(t))
<1> DEFINE q == t
           n == Len(q)
           f == [i \in DOMAIN q |-> q[i].draws]
           folds(g) == g = [s \in SUBSET DOMAIN q |->
                               IF s = {} THEN 0 ELSE g[s \ {Max(s)}] + q[Max(s)].draws]
<1>1. DrawsOf(t) = (CHOOSE g : folds(g))[DOMAIN q]
  BY DEF DrawsOf, FoldLeft, MapThenFoldSet
<1>2. n \in Nat /\ DOMAIN q = 1..n
  BY SeqParts
<1>3. \A i \in 1..n : f[i] \in Int /\ f[i] = q[i].draws
  BY <1>2
<1>4. \A s \in SUBSET (1..n) : s # {} => Max(s) \in 1..n
  BY <1>2, LastIndex
<1> DEFINE adds(g) == g = [s \in SUBSET (1..n) |->
                              IF s = {} THEN 0 ELSE g[s \ {Max(s)}] + f[Max(s)]]
<1> HIDE DEF q, n, f
<1>5. PICK h : adds(h)
  BY <1>2, <1>3, SumsFold
<1>6. folds(h)
  <2>1. \A s \in SUBSET (1..n) :
            (IF s = {} THEN 0 ELSE h[s \ {Max(s)}] + f[Max(s)])
              = IF s = {} THEN 0 ELSE h[s \ {Max(s)}] + q[Max(s)].draws
    BY <1>3, <1>4
  <2>2. QED
    BY <1>2, <1>5, <2>1
<1> DEFINE sums == CHOOSE g : folds(g)
<1>7. folds(sums)
  BY <1>6
<1> HIDE DEF sums
<1>8. \A s \in SUBSET (1..n) :
          sums[s] = IF s = {} THEN 0 ELSE sums[s \ {Max(s)}] + f[Max(s)]
  BY <1>2, <1>3, <1>4, <1>7
<1>9. sums[1..n] = SumOn(f, 1..n)
  BY <1>2, <1>3, <1>8, FoldsToSum
<1>10. QED
  BY <1>1, <1>2, <1>9 DEF sums, f, n, q, Gains

\* The stakes at some positions are the units there, in points.
LEMMA StakesAreUnits ==
    ASSUME NEW allowance \in Nat, NEW options, Tradable(options, allowance),
           NEW list \in Seq(options), NEW S \in SUBSET (1..Len(list))
    PROVE  /\ IsFiniteSet(S) /\ SumOn(Costs(list), S) \in Nat /\ SumOn(Gains(list), S) \in Nat
           /\ SumOn(Stakes(list), S) = SumOn(Costs(list), S) * BetUnit
<1> DEFINE n == Len(list)
           cost == Costs(list)
           gain == Gains(list)
           stakes == Stakes(list)
<1>1. n \in Nat /\ DOMAIN list = 1..n /\ \A k \in 1..n : list[k] \in options
  BY SeqParts
<1>2. IsFiniteSet(1..n)
  BY <1>1, FS_Interval
<1>3. IsFiniteSet(S)
  BY <1>2, FS_Subset
<1>4. BetUnit \in Int
  BY AllocationAssumption
<1>5. \A i \in 1..n : /\ cost[i] = Units(list[i]) /\ gain[i] = list[i].draws
                      /\ stakes[i] = list[i].stake
  BY <1>1 DEF Costs, Gains, Stakes
<1>6. \A i \in 1..n : /\ Units(list[i]) \in Nat /\ list[i].draws \in Nat
                      /\ Units(list[i]) * BetUnit = list[i].stake
  <2>1. \A i \in 1..n : /\ Units(list[i]) \in 1..Capacity(allowance) /\ list[i].draws \in Nat
                        /\ Units(list[i]) * BetUnit = list[i].stake
    BY <1>1, TicketParts
  <2>2. QED
    BY <2>1
<1> HIDE DEF cost, gain, stakes
<1>7. \A i \in 1..n : /\ cost[i] \in Nat /\ gain[i] \in Nat /\ cost[i] \in Int
                      /\ stakes[i] = cost[i] * BetUnit
  BY <1>5, <1>6
<1>8. SumOn(cost, S) \in Nat /\ SumOn(gain, S) \in Nat
  BY <1>2, <1>7, SumGrows
<1>9. SumOn(stakes, S) = SumOn(cost, S) * BetUnit
  BY <1>3, <1>4, <1>7, SumScaled
<1>10. QED
  BY <1>3, <1>8, <1>9 DEF cost, gain, stakes

\* What is bought from a shortlist, likeliest first.
LEMMA PickedTickets ==
    ASSUME NEW allowance \in Nat, NEW options, Tradable(options, allowance),
           NEW list \in Seq(options),
           \A i, j \in 1..Len(list) : list[i] = list[j] => i = j,
           NEW tickets, tickets = LikeliestFirst(Pick(list, allowance))
    PROVE  /\ tickets \in Seq(options)
           /\ \A i, j \in 1..Len(tickets) : tickets[i] = tickets[j] => i = j
           /\ Len(tickets) <= Len(list)
           /\ Paid(tickets) \in Nat /\ Paid(tickets) <= allowance
           /\ \E k \in Nat : Paid(tickets) = k * BetUnit
           /\ \A S \in SUBSET (DOMAIN list) :
                 StakesAt(list, S) <= allowance => DrawsAt(list, S) <= DrawsOf(tickets)
<1> DEFINE n == Len(list)
           capacity == Capacity(allowance)
           cost == Costs(list)
           gain == Gains(list)
           stake == [x \in options |-> x.stake]
           draw == [x \in options |-> x.draws]
<1>1. n \in Nat /\ DOMAIN list = 1..n /\ \A k \in 1..n : list[k] \in options
  BY SeqParts
<1>2. PICK P : PickedBy(P, list, allowance)
  BY PickParts
<1>3. P \in SUBSET (1..n) /\ Pick(list, allowance) = {list[i] : i \in P}
      /\ SumOn(cost, P) <= capacity
      /\ \A S \in SUBSET (1..n) :
            SumOn(cost, S) <= capacity => SumOn(gain, S) <= SumOn(gain, P)
  BY <1>2 DEF PickedBy
<1> DEFINE S0 == {list[i] : i \in P}
<1>4. S0 \in SUBSET options
  BY <1>1, <1>3
<1>5. tickets = LikeliestFirst(S0)
  BY <1>3
<1>6. \A S \in SUBSET (1..n) :
          /\ IsFiniteSet(S) /\ SumOn(cost, S) \in Nat /\ SumOn(gain, S) \in Nat
          /\ SumOn(Stakes(list), S) = SumOn(cost, S) * BetUnit
  BY StakesAreUnits
<1>7. \A x \in options : /\ stake[x] = x.stake /\ draw[x] = x.draws
                         /\ stake[x] \in Int /\ draw[x] \in Int
  BY DEF Tradable
<1>8. \A i \in P : Stakes(list)[i] = stake[list[i]] /\ gain[i] = draw[list[i]]
                   /\ stake[list[i]] \in Int /\ draw[list[i]] \in Int
  BY <1>1, <1>3, <1>7 DEF Stakes, Gains
<1>9. /\ tickets \in Seq(options) /\ Len(tickets) <= n
      /\ \A i, j \in 1..Len(tickets) : tickets[i] = tickets[j] => i = j
  <2>1. /\ LikeliestFirst(S0) \in Seq(S0)
        /\ \A i, j \in 1..Len(LikeliestFirst(S0)) :
              LikeliestFirst(S0)[i] = LikeliestFirst(S0)[j] => i = j
        /\ Len(LikeliestFirst(S0)) = Cardinality(S0)
    BY <1>4, SortedParts
  <2>3. Cardinality(S0) <= n
    <3>1. /\ IsFiniteSet(1..n) /\ Cardinality(1..n) <= n
      <4>1. 1 \in Int /\ n \in Int
        BY <1>1
      <4>2. IsFiniteSet(1..n) /\ Cardinality(1..n) = IF 1 > n THEN 0 ELSE n - 1 + 1
        BY <4>1, FS_Interval
      <4>3. QED
        BY <1>1, <4>2
    <3>2. IsFiniteSet(P) /\ Cardinality(P) <= Cardinality(1..n)
      BY <1>3, <3>1, FS_Subset
    <3>3. [i \in P |-> list[i]] \in Surjection(P, S0)
      BY DEF Surjection
    <3> HIDE DEF S0
    <3>4. Cardinality(S0) <= Cardinality(P) /\ IsFiniteSet(S0)
      BY <3>2, <3>3, FS_Surjection
    <3>5. /\ Cardinality(S0) \in Nat /\ Cardinality(P) \in Nat /\ Cardinality(1..n) \in Nat
      BY <3>1, <3>2, <3>4, FS_CardinalityType
    <3>6. QED
      BY <1>1, <3>1, <3>2, <3>4, <3>5
  <2> HIDE DEF S0
  <2>4. QED
    BY <1>4, <1>5, <2>1, <2>3
<1>10. /\ DOMAIN tickets = 1..Len(tickets) /\ Len(tickets) \in Nat
       /\ \A i \in 1..Len(tickets) : tickets[i] \in options
  BY <1>9, SeqParts
<1>11. \A i \in 1..Len(tickets) :
           /\ Stakes(tickets)[i] = stake[tickets[i]] /\ Gains(tickets)[i] = draw[tickets[i]]
           /\ tickets[i].stake \in Int /\ tickets[i].draws \in Int
  BY <1>7, <1>10 DEF Stakes, Gains
<1>12. /\ \A i, j \in P : list[i] = list[j] => i = j
       /\ IsFiniteSet(P)
  BY <1>3, <1>6
<1> HIDE DEF n, cost, gain, stake, draw
<1>13. /\ SumOn(Stakes(list), P) = SumOn(stake, S0) /\ SumOn(gain, P) = SumOn(draw, S0)
  <2> DEFINE f == Stakes(list)
  <2> HIDE DEF f
  <2>1. \A i \in P : f[i] = stake[list[i]]
    BY <1>8 DEF f
  <2>2. SumOn(f, P) = SumOn(stake, {list[i] : i \in P})
    BY <1>8, <1>12, <2>1, SumReindexed
  <2>3. SumOn(gain, P) = SumOn(draw, {list[i] : i \in P})
    BY <1>8, <1>12, SumReindexed
  <2>4. QED
    BY <2>2, <2>3 DEF f
<1> HIDE DEF S0
<1>14. \A x \in S0 : stake[x] \in Int /\ draw[x] \in Int
  BY <1>4, <1>7
<1>15. /\ SumOn(Stakes(tickets), 1..Len(tickets)) = SumOn(stake, S0)
       /\ SumOn(Gains(tickets), 1..Len(tickets)) = SumOn(draw, S0)
  <2> DEFINE f == Stakes(tickets)
             g == Gains(tickets)
  <2>1. \A i \in 1..Len(LikeliestFirst(S0)) :
            f[i] = stake[LikeliestFirst(S0)[i]] /\ g[i] = draw[LikeliestFirst(S0)[i]]
    BY <1>5, <1>11
  <2> HIDE DEF f, g
  <2>2. SumOn(f, 1..Len(LikeliestFirst(S0))) = SumOn(stake, S0)
    BY <1>4, <1>14, <2>1, SortedSum
  <2>3. SumOn(g, 1..Len(LikeliestFirst(S0))) = SumOn(draw, S0)
    BY <1>4, <1>14, <2>1, SortedSum
  <2>4. QED
    BY <1>5, <2>2, <2>3 DEF f, g
<1>16. Paid(tickets) = SumOn(cost, P) * BetUnit /\ DrawsOf(tickets) = SumOn(gain, P)
  <2>1. Paid(tickets) = SumOn(Stakes(tickets), 1..Len(tickets))
    <3>1. \A i \in DOMAIN tickets : tickets[i].stake \in Int
      BY <1>10, <1>11
    <3>2. QED
      BY <1>9, <3>1, PaidIsSum DEF Stakes
  <2>2. DrawsOf(tickets) = SumOn(Gains(tickets), 1..Len(tickets))
    <3>1. \A i \in DOMAIN tickets : tickets[i].draws \in Int
      BY <1>10, <1>11
    <3>2. QED
      BY <1>9, <3>1, DrawsIsSum
  <2>3. QED
    BY <1>3, <1>6, <1>13, <1>15, <2>1, <2>2
<1>17. /\ BetUnit \in Nat \ {0} /\ capacity \in Nat /\ capacity * BetUnit <= allowance
       /\ allowance < capacity * BetUnit + BetUnit
  <2>1. BetUnit \in Nat \ {0} /\ allowance \in Int
    BY AllocationAssumption
  <2>2. QED
    BY <2>1, Quotient, QuotientIsNat DEF Capacity
<1> HIDE DEF capacity
<1>18. /\ Paid(tickets) \in Nat /\ Paid(tickets) <= allowance
       /\ \E k \in Nat : Paid(tickets) = k * BetUnit
  <2>1. PICK m \in Nat : m = SumOn(cost, P)
    BY <1>3, <1>6
  <2>2. m * BetUnit <= capacity * BetUnit /\ m * BetUnit \in Nat /\ capacity * BetUnit \in Nat
    BY <1>3, <1>17, <2>1, Scale
  <2>3. QED
    BY <1>16, <1>17, <2>1, <2>2
<1>19. ASSUME NEW S \in SUBSET (DOMAIN list), StakesAt(list, S) <= allowance
       PROVE  DrawsAt(list, S) <= DrawsOf(tickets)
  <2>1. S \in SUBSET (1..n)
    BY <1>1
  <2>2. /\ IsFiniteSet(S) /\ SumOn(cost, S) \in Nat
        /\ SumOn(Stakes(list), S) = SumOn(cost, S) * BetUnit
    BY <1>6, <2>1
  <2>3. StakesAt(list, S) = SumOn(cost, S) * BetUnit /\ DrawsAt(list, S) = SumOn(gain, S)
    BY <2>2, StakesAtIsSum, DrawsAtIsSum DEF gain
  <2>4. PICK m \in Nat : m = SumOn(cost, S)
    BY <2>2
  <2>5. m * BetUnit <= allowance
    BY <1>19, <2>3, <2>4
  <2>6. m <= capacity
    <3>1. SUFFICES ASSUME capacity + 1 <= m PROVE FALSE
      BY <1>17
    <3>2. (capacity + 1) * BetUnit <= m * BetUnit /\ m * BetUnit \in Int
          /\ capacity * BetUnit \in Int
      BY <1>17, <3>1, Scale
    <3>3. (capacity + 1) * BetUnit = capacity * BetUnit + BetUnit
      BY <1>17
    <3>4. QED
      BY <1>17, <2>5, <3>2, <3>3
  <2>7. SumOn(gain, S) <= SumOn(gain, P)
    BY <1>3, <2>1, <2>4, <2>6
  <2>8. QED
    BY <1>16, <2>3, <2>7
<1>20. QED
  BY <1>9, <1>18, <1>19 DEF n

\* The last race's remainder goes to the first ticket, and to nothing else.
LEMMA TopUpParts ==
    ASSUME NEW options, NEW tickets \in Seq(options), tickets # <<>>,
           \A o \in options : IsTicket(o) /\ o.stake \in Nat /\ o.draws \in Nat,
           NEW allowance \in Nat, Paid(tickets) \in Nat, Paid(tickets) <= allowance,
           NEW remainder, NEW t, t = TopUp(tickets, allowance, remainder)
    PROVE  /\ Len(t) = Len(tickets) /\ DOMAIN t = 1..Len(tickets) /\ Len(tickets) \in Nat \ {0}
           /\ \A i \in 1..Len(tickets) :
                 /\ t[i].combination = tickets[i].combination /\ t[i].odds = tickets[i].odds
                 /\ t[i].stake \in Nat /\ t[i].stake >= tickets[i].stake
                 /\ t[i].stake \in {tickets[i].stake, tickets[i].stake + allowance - Paid(tickets)}
           /\ Paid(t) \in Nat /\ Paid(t) <= allowance /\ DrawsOf(t) = DrawsOf(tickets)
<1> DEFINE q == tickets
           n == Len(q)
           rest == allowance - Paid(q)
<1>1. /\ n \in Nat \ {0} /\ DOMAIN q = 1..n /\ q = [i \in 1..n |-> q[i]]
      /\ \A i \in 1..n : IsTicket(q[i]) /\ q[i].stake \in Nat /\ q[i].draws \in Nat
  <2>1. n \in Nat /\ DOMAIN q = 1..n /\ \A i \in 1..n : q[i] \in options
    BY SeqParts
  <2>2. n # 0
    <3>1. SUFFICES ASSUME n = 0 PROVE FALSE
      OBVIOUS
    <3>2. QED
      BY <3>1
  <2>3. QED
    BY <2>1, <2>2
<1>2. rest \in Nat
  OBVIOUS
<1>3. CASE ~remainder
  <2>1. t = q
    BY <1>3 DEF TopUp
  <2>2. QED
    BY <1>1, <2>1
<1>4. CASE remainder
  <2> DEFINE first == [combination |-> q[1].combination, odds |-> q[1].odds,
                       draws |-> q[1].draws, stake |-> q[1].stake + allowance - Paid(q)]
  <2>1. t = [i \in 1..n |-> IF i = 1 THEN first ELSE q[i]]
    <3>1. t = [q EXCEPT ![1].stake = @ + allowance - Paid(q)]
      BY <1>4 DEF TopUp
    <3>2. t = [q EXCEPT ![1] = [q[1] EXCEPT !.stake = q[1].stake + allowance - Paid(q)]]
      BY <3>1
    <3>3. [q[1] EXCEPT !.stake = q[1].stake + allowance - Paid(q)] = first
      <4>1. IsTicket(q[1])
        BY <1>1
      <4>2. q[1] = [combination |-> q[1].combination, odds |-> q[1].odds,
                    draws |-> q[1].draws, stake |-> q[1].stake]
        BY <4>1 DEF IsTicket
      <4>3. QED
        BY <4>2
    <3> HIDE DEF first
    <3>4. QED
      BY <1>1, <3>2, <3>3
  <2>2. DOMAIN t = 1..n /\ Len(t) = n
    BY <1>1, <2>1
  <2>3. \A i \in 1..n :
            /\ t[i].combination = q[i].combination /\ t[i].odds = q[i].odds
            /\ t[i].draws = q[i].draws
            /\ t[i].stake = IF i = 1 THEN q[1].stake + allowance - Paid(q) ELSE q[i].stake
    BY <2>1
  <2>4. \A i \in 1..n : /\ t[i].stake \in Nat /\ t[i].stake >= q[i].stake
                        /\ t[i].draws \in Nat
    BY <1>1, <1>2, <2>3
  <2> DEFINE all == {t[i] : i \in 1..n}
  <2>5. t \in Seq(all)
    <3>1. t \in [1..n -> all]
      BY <2>1
    <3> HIDE DEF all
    <3>2. QED
      BY <1>1, <3>1
  <2> HIDE DEF all
  <2> DEFINE old == Stakes(q)
             new == Stakes(t)
             R == (1..n) \ {1}
  <2>6. Paid(t) = SumOn(new, 1..n) /\ Paid(q) = SumOn(old, 1..n)
    <3>1. \A i \in DOMAIN t : t[i].stake \in Int
      BY <2>2, <2>4
    <3>2. \A i \in DOMAIN q : q[i].stake \in Int
      BY <1>1
    <3>3. QED
      BY <2>2, <2>5, <3>1, <3>2, PaidIsSum DEF Stakes
  <2>7. \A i \in 1..n : /\ old[i] = q[i].stake /\ old[i] \in Int
                        /\ new[i] = t[i].stake /\ new[i] \in Int
    BY <1>1, <2>2, <2>4 DEF Stakes
  <2>8. /\ IsFiniteSet(1..n) /\ R \in SUBSET (1..n) /\ 1 \notin R /\ 1 \in 1..n
        /\ 1..n = R \union {1}
    <3>1. n \in Int /\ 1 \in Int
      BY <1>1
    <3>2. IsFiniteSet(1..n)
      BY <3>1, FS_Interval
    <3>3. QED
      BY <1>1, <3>2
  <2>9. \A i \in R : old[i] = new[i]
    BY <2>3, <2>7
  <2>10. IsFiniteSet(R)
    BY <2>8, FS_Subset
  <2> HIDE DEF old, new, R
  <2>11. SumOn(old, R) = SumOn(new, R)
    BY <2>9, <2>10, SumSame
  <2>12. /\ SumOn(new, R \union {1}) = new[1] + SumOn(new, R)
         /\ SumOn(old, R \union {1}) = old[1] + SumOn(old, R)
    <3> DEFINE I == 1..n
               one == 1
    <3>1. /\ IsFiniteSet(I) /\ R \in SUBSET I /\ one \in I /\ one \notin R
          /\ \A i \in I : old[i] \in Int /\ new[i] \in Int
      BY <2>7, <2>8
    <3> HIDE DEF I, one
    <3>2. /\ SumOn(new, R \union {one}) = new[one] + SumOn(new, R)
          /\ SumOn(old, R \union {one}) = old[one] + SumOn(old, R)
      BY <3>1, SumInsert
    <3>3. QED
      BY <3>2 DEF one
  <2>13. SumOn(old, R) \in Int
    <3>1. \A i \in R : old[i] \in Int
      BY <2>7, <2>8
    <3>2. QED
      BY <2>10, <3>1, SumType
  <2>14. Paid(t) = allowance
    <3>1. Paid(t) = new[1] + SumOn(old, R) /\ Paid(q) = old[1] + SumOn(old, R)
      BY <2>6, <2>8, <2>11, <2>12
    <3>2. new[1] = q[1].stake + allowance - Paid(q) /\ old[1] = q[1].stake /\ q[1].stake \in Nat
      BY <1>1, <2>3, <2>7, <2>8
    <3>3. PICK a \in Nat, b \in Int, c \in Nat :
              a = q[1].stake /\ b = SumOn(old, R) /\ c = Paid(q)
      BY <2>13, <3>2
    <3>4. Paid(t) = (a + allowance - c) + b /\ c = a + b
      BY <3>1, <3>2, <3>3
    <3>5. QED
      BY <3>3, <3>4, SMTT(30)
  <2>15. DrawsOf(t) = DrawsOf(q)
    <3> DEFINE f == Gains(t)
               g == Gains(q)
    <3>1. \A i \in 1..n : f[i] = g[i]
      BY <1>1, <2>2, <2>3 DEF Gains
    <3> HIDE DEF f, g
    <3>2. SumOn(f, 1..n) = SumOn(g, 1..n)
      BY <2>8, <3>1, SumSame
    <3>3. DrawsOf(t) = SumOn(f, 1..n)
      <4>1. \A i \in DOMAIN t : t[i].draws \in Int
        BY <2>2, <2>4
      <4>2. QED
        BY <2>2, <2>5, <4>1, DrawsIsSum DEF f
    <3>4. DrawsOf(q) = SumOn(g, 1..n)
      <4>1. \A i \in DOMAIN q : q[i].draws \in Int
        BY <1>1
      <4>2. QED
        BY <4>1, DrawsIsSum DEF g
    <3>5. QED
      BY <3>2, <3>3, <3>4
  <2>16. QED
    BY <1>1, <2>2, <2>3, <2>4, <2>14, <2>15
<1>5. QED
  BY <1>3, <1>4

\* The call of the target strategy in a race.
ShortlistFor(quotes, held, allowance, target) ==
    Shortlist(Options(quotes, held, allowance, target))

\* None of the tickets on offer that the allowance pays is worth more than these.
AreBest(tickets, shortlist, allowance) ==
    /\ Paid(tickets) <= allowance
    /\ \A S \in SUBSET (DOMAIN shortlist) :
          StakesAt(shortlist, S) <= allowance => DrawsAt(shortlist, S) <= DrawsOf(tickets)

\* Every ticket is paid for, and its stake is what the target requires of its odds.
AreSized(tickets, required) ==
    /\ DOMAIN tickets = 1..Len(tickets) /\ Len(tickets) \in Nat /\ Paid(tickets) \in Nat
    /\ \A i \in DOMAIN tickets :
          /\ tickets[i].odds \in Nat \ {0} /\ tickets[i].stake \in Nat
          /\ tickets[i].stake >= StakeFor(tickets[i].odds, required)

\* Each ticket is of another combination, on offer, and costs some whole units.
AreWhole(tickets, quotes) ==
    /\ 0 < Len(tickets) /\ Len(tickets) <= MaxShortlist
    /\ \A i \in DOMAIN tickets :
          /\ tickets[i].stake > 0 /\ \E k \in Int : tickets[i].stake = k * BetUnit
          /\ \E q \in quotes : q.combination = tickets[i].combination
    /\ \A i, j \in DOMAIN tickets : tickets[i].combination = tickets[j].combination => i = j

\* What one call of the allocation returns.
CallFits(call, quotes, held, granted, target) ==
    /\ call.allowance = Usable(held, granted)
    /\ call.allowance \in Nat /\ call.allowance <= held
    /\ call.tickets # <<>> =>
         /\ held < target
         /\ AreSized(call.tickets, RequiredReturn(held, call.allowance, target))
         /\ AreBest(call.tickets, ShortlistFor(quotes, held, call.allowance, target),
                    call.allowance)
         /\ AreWhole(call.tickets, quotes)

\* The allocation returns that.
LEMMA AllocateParts ==
    ASSUME NEW quotes, Market(quotes), NEW held \in Nat, NEW granted \in Nat,
           NEW target \in Nat, NEW remainder
    PROVE  CallFits(Allocate(quotes, held, granted, target, remainder),
                    quotes, held, granted, target)
<1> DEFINE allowance == Usable(held, granted)
           options == Options(quotes, held, allowance, target)
           list == Shortlist(options)
           picked == LikeliestFirst(Pick(list, allowance))
           required == RequiredReturn(held, allowance, target)
           call == Allocate(quotes, held, granted, target, remainder)
<1>1. /\ call.allowance = allowance
      /\ call.tickets = IF held >= target \/ allowance < BetUnit THEN <<>>
                        ELSE TopUp(picked, allowance, remainder)
  BY DEF Allocate, LikeliestFirst, Likelier
<1> HIDE DEF call
<1>2. /\ allowance \in Nat /\ allowance <= held
      /\ \E k \in Int : allowance = k * BetUnit
  <2>1. Lesser(held, granted) \in Nat /\ Lesser(held, granted) <= held
    BY DEF Lesser
  <2>2. BetUnit \in Nat \ {0}
    BY AllocationAssumption
  <2>3. allowance \in 0..Lesser(held, granted)
    BY <2>1, <2>2, UnitsFit DEF Usable
  <2>4. /\ allowance = (Lesser(held, granted) \div BetUnit) * BetUnit
        /\ Lesser(held, granted) \div BetUnit \in Int
    BY <2>1, <2>2, Quotient DEF Usable
  <2> HIDE DEF allowance
  <2>5. QED
    BY <2>1, <2>3, <2>4
<1>3. SUFFICES ASSUME call.tickets # <<>>
               PROVE  /\ held < target /\ AreSized(call.tickets, required)
                      /\ AreBest(call.tickets, list, allowance)
                      /\ AreWhole(call.tickets, quotes)
  BY <1>1, <1>2 DEF CallFits, ShortlistFor, call
<1>4. held < target /\ call.tickets = TopUp(picked, allowance, remainder)
  BY <1>1, <1>3
<1> HIDE DEF allowance
<1>5. /\ Tradable(options, allowance)
      /\ \A o \in options : /\ IsTicket(o) /\ o.stake = StakeFor(o.odds, required)
                           /\ \E q \in quotes : q.combination = o.combination
  BY <1>2, OptionParts
<1> HIDE DEF options, required
<1>6. /\ list \in Seq(options) /\ Len(list) <= MaxShortlist
      /\ \A i, j \in 1..Len(list) : list[i] = list[j] => i = j
  BY <1>5, ShortlistParts
<1> HIDE DEF list
<1>7. /\ picked \in Seq(options) /\ Paid(picked) \in Nat /\ Paid(picked) <= allowance
      /\ \A i, j \in 1..Len(picked) : picked[i] = picked[j] => i = j
      /\ Len(picked) <= Len(list)
      /\ \E k \in Nat : Paid(picked) = k * BetUnit
      /\ \A S \in SUBSET (DOMAIN list) :
            StakesAt(list, S) <= allowance => DrawsAt(list, S) <= DrawsOf(picked)
  BY <1>2, <1>5, <1>6, PickedTickets
<1> HIDE DEF picked
<1>8. picked # <<>>
  BY <1>3, <1>4 DEF TopUp
<1>9. \A o \in options : /\ IsTicket(o) /\ o.stake \in Nat /\ o.draws \in Nat
                         /\ o.odds \in Nat \ {0}
  BY <1>5 DEF Tradable
<1> DEFINE t == call.tickets
           n == Len(picked)
<1>10. t = TopUp(picked, allowance, remainder)
  BY <1>4
<1> HIDE DEF t
<1>11. /\ Len(t) = n /\ DOMAIN t = 1..n /\ n \in Nat \ {0}
       /\ \A i \in 1..n :
             /\ t[i].odds = picked[i].odds /\ t[i].combination = picked[i].combination
             /\ t[i].stake \in Nat /\ t[i].stake >= picked[i].stake
             /\ t[i].stake \in {picked[i].stake, picked[i].stake + allowance - Paid(picked)}
       /\ Paid(t) \in Nat /\ Paid(t) <= allowance /\ DrawsOf(t) = DrawsOf(picked)
  BY <1>2, <1>7, <1>8, <1>9, <1>10, TopUpParts
<1>12. \A i \in 1..n : picked[i] \in options
  BY <1>7, SeqParts
<1>13. \A i \in 1..n : /\ t[i].odds \in Nat \ {0} /\ t[i].stake \in Nat
                       /\ t[i].stake >= StakeFor(t[i].odds, required)
  BY <1>5, <1>9, <1>11, <1>12
<1>14. AreSized(t, required) /\ AreBest(t, list, allowance)
  BY <1>7, <1>11, <1>13 DEF AreSized, AreBest
<1>15. AreWhole(t, quotes)
  <2>1. \A i \in 1..n : \E q \in quotes : q.combination = t[i].combination
    BY <1>5, <1>11, <1>12
  <2>2. \A i, j \in 1..n : t[i].combination = t[j].combination => i = j
    <3>1. SUFFICES ASSUME NEW i \in 1..n, NEW j \in 1..n, t[i].combination = t[j].combination
                   PROVE  i = j
      OBVIOUS
    <3>2. picked[i].combination = picked[j].combination
      BY <1>11, <3>1
    <3>3. picked[i] = picked[j]
      BY <1>5, <1>12, <3>2 DEF Tradable
    <3>4. QED
      BY <1>7, <3>3
  <2>3. ASSUME NEW i \in 1..n PROVE t[i].stake > 0 /\ \E k \in Int : t[i].stake = k * BetUnit
    <3>1. /\ picked[i].stake \in 1..allowance
          /\ picked[i].stake \div BetUnit \in Nat \ {0}
          /\ (picked[i].stake \div BetUnit) * BetUnit = picked[i].stake
      BY <1>5, <1>12 DEF Tradable
    <3>2. PICK c \in Int : picked[i].stake = c * BetUnit
      BY <3>1
    <3>3. PICK a \in Int : allowance = a * BetUnit
      BY <1>2
    <3>4. PICK b \in Int : Paid(picked) = b * BetUnit
      BY <1>7
    <3>5. BetUnit \in Nat \ {0}
      BY AllocationAssumption
    <3>6. c * BetUnit + a * BetUnit - b * BetUnit = (c + a - b) * BetUnit /\ c + a - b \in Int
      BY <3>5
    <3>7. t[i].stake \in {c * BetUnit, (c + a - b) * BetUnit}
      BY <1>11, <3>2, <3>3, <3>4, <3>6
    <3>8. t[i].stake > 0
      BY <1>11, <3>1
    <3>9. QED
      BY <3>6, <3>7, <3>8
  <2>4. Len(t) <= MaxShortlist
    <3>1. Len(list) \in Nat /\ MaxShortlist \in Nat
      BY <1>6, AllocationAssumption, SeqParts
    <3>2. QED
      BY <1>6, <1>7, <1>11, <3>1
  <2>5. QED
    BY <1>11, <2>1, <2>2, <2>3, <2>4 DEF AreWhole
<1>16. QED
  BY <1>4, <1>14, <1>15 DEF t

-----------------------------------------------------------------------------
(* The budget of the races that are left. *)

\* What a race may spend: whole betting units, within the funds, and in proportion
\* to the weight of its slot.
LEMMA AllowanceParts ==
    ASSUME NEW funds \in Nat, NEW total \in Nat \ {0}, NEW remaining \in 1..total
    PROVE  /\ SlotWeight(remaining, total) = total - remaining + 1
           /\ WeightsLeft(remaining, total) \in Nat \ {0}
           /\ 2 * WeightsLeft(remaining, total) = remaining * (2 * total - remaining + 1)
           /\ \E k \in Nat : RaceAllowance(funds, remaining, total) = k * BetUnit
           /\ RaceAllowance(funds, remaining, total) \in 0..funds
           /\ RaceAllowance(funds, remaining, total) * WeightsLeft(remaining, total)
                <= funds * SlotWeight(remaining, total)
<1> DEFINE weight == SlotWeight(remaining, total)
           weights == WeightsLeft(remaining, total)
           both == remaining * (2 * total - remaining + 1)
           share == (funds * weight) \div weights
           granted == RaceAllowance(funds, remaining, total)
<1>1. weight \in Nat \ {0} /\ weight = total - remaining + 1
  BY DEF SlotWeight
<1>2. weight + total = 2 * total - remaining + 1
  BY <1>1
<1>3. weights = both \div 2
  BY <1>2 DEF WeightsLeft
<1>4. both \in Nat /\ both >= 2 /\ 2 * (both \div 2) = both
  <2>1. PICK h \in Nat : remaining = 2 * h \/ remaining = 2 * h + 1
    <3>1. remaining \div 2 \in Nat /\ (remaining = 2 * (remaining \div 2)
                                        \/ remaining = 2 * (remaining \div 2) + 1)
      OBVIOUS
    <3>2. QED
      BY <3>1
  <2>2. 2 * total - remaining + 1 \in Nat /\ 2 * total - remaining + 1 >= 2
    <3>1. 2 * total - remaining + 1 >= total + 1
      OBVIOUS
    <3>2. QED
      BY <3>1
  <2>3. both \in Nat /\ both >= 2
    BY <2>2
  <2>4. CASE remaining = 2 * h
    <3>1. both = 2 * (h * (2 * total - remaining + 1)) /\ h * (2 * total - remaining + 1) \in Int
      BY <2>2, <2>4
    <3> HIDE DEF both
    <3>2. QED
      BY <2>3, <3>1
  <2>5. CASE remaining = 2 * h + 1
    <3>1. 2 * total - remaining + 1 = 2 * (total - h) /\ total - h \in Int
      BY <2>5
    <3>2. both = 2 * (remaining * (total - h)) /\ remaining * (total - h) \in Int
      BY <3>1
    <3> HIDE DEF both
    <3>3. QED
      BY <2>3, <3>2
  <2>6. QED
    BY <2>1, <2>3, <2>4, <2>5
<1> HIDE DEF both
<1>5. weights \in Nat \ {0} /\ 2 * weights = both
  BY <1>3, <1>4
<1> HIDE DEF weight, weights
<1>6. BetUnit \in Nat \ {0}
  BY AllocationAssumption
<1>7. share \in Nat /\ share * weights <= funds * weight
  BY <1>1, <1>5, Quotient, QuotientIsNat
<1> HIDE DEF share
<1>8. granted = (share \div BetUnit) * BetUnit
  BY DEF RaceAllowance, weight, weights, share
<1>9. share \div BetUnit \in Nat /\ granted \in 0..share
  BY <1>6, <1>7, <1>8, UnitsFit, QuotientIsNat
<1> HIDE DEF granted
<1>10. granted * weights <= funds * weight
  <2>1. granted * weights <= share * weights /\ granted * weights \in Int
        /\ share * weights \in Int
    BY <1>5, <1>7, <1>9, Scale
  <2>2. QED
    BY <1>1, <1>7, <2>1
<1>11. granted \in 0..funds
  BY AllowanceFitsBudget DEF granted
<1>12. QED
  BY <1>1, <1>5, <1>8, <1>9, <1>10, <1>11 DEF both, weight, weights, granted

\* Whatever of its budget a race spent, the next one gets at least as much.
LEMMA LaterGetsMore ==
    ASSUME NEW funds \in Nat, NEW total \in Nat \ {0}, NEW remaining \in 2..total,
           NEW left \in Nat, left >= funds - RaceAllowance(funds, remaining, total)
    PROVE  RaceAllowance(funds, remaining, total) <= RaceAllowance(left, remaining - 1, total)
<1> DEFINE a == RaceAllowance(funds, remaining, total)
           b == RaceAllowance(left, remaining - 1, total)
           w == SlotWeight(remaining, total)
           v == SlotWeight(remaining - 1, total)
           t == WeightsLeft(remaining, total)
           u == WeightsLeft(remaining - 1, total)
<1>1. /\ w = total - remaining + 1 /\ t \in Nat \ {0}
      /\ 2 * t = remaining * (2 * total - remaining + 1)
      /\ a \in 0..funds /\ a * t <= funds * w
  BY AllowanceParts
<1>2. PICK k \in Nat : a = k * BetUnit
  BY AllowanceParts
<1>3. remaining - 1 \in 1..total
  OBVIOUS
<1>4. /\ v = total - (remaining - 1) + 1 /\ u \in Nat \ {0}
      /\ 2 * u = (remaining - 1) * (2 * total - (remaining - 1) + 1)
  BY <1>3, AllowanceParts
<1>5. b = (((left * v) \div u) \div BetUnit) * BetUnit
  BY DEF RaceAllowance
<1>6. left >= funds - a
  OBVIOUS
<1>7. w \in Nat /\ v \in Nat /\ v = w + 1
  BY <1>1, <1>4
<1>8. u = t - w
  <2>1. (remaining - 1) * (2 * total - (remaining - 1) + 1)
          = remaining * (2 * total - remaining + 1) - 2 * (total - remaining + 1)
    OBVIOUS
  <2>2. 2 * u = 2 * t - 2 * w
    BY <1>1, <1>4, <2>1
  <2> HIDE DEF u, t, w
  <2>3. QED
    BY <1>1, <1>4, <1>7, <2>2
<1> HIDE DEF a, b, u, t, w, v
<1>9. a * u <= left * v
  <2>1. (funds - a) * v <= left * v
    BY <1>1, <1>6, <1>7, Scale
  <2>2. (funds - a) * v = funds * w + funds - a * w - a
    BY <1>1, <1>7
  <2>3. a * u = a * t - a * w
    BY <1>1, <1>7, <1>8
  <2>4. funds * w \in Int /\ a * w \in Int /\ a * t \in Int /\ left * v \in Int
    BY <1>1, <1>7
  <2>5. QED
    BY <1>1, <2>1, <2>2, <2>3, <2>4
<1>10. a <= (left * v) \div u /\ (left * v) \div u \in Int
  <2>1. left * v \in Int /\ a \in Int
    BY <1>1, <1>7
  <2>2. QED
    BY <1>4, <1>9, <2>1, QuotientCounts, Quotient
<1>11. BetUnit \in Nat \ {0}
  BY AllocationAssumption
<1>12. k <= ((left * v) \div u) \div BetUnit /\ ((left * v) \div u) \div BetUnit \in Int
  <2>1. PICK q \in Int : q = (left * v) \div u
    BY <1>10
  <2>2. k * BetUnit <= q
    BY <1>2, <1>10, <2>1
  <2>3. k <= q \div BetUnit /\ q \div BetUnit \in Int
    BY <1>11, <2>2, QuotientCounts, Quotient
  <2>4. QED
    BY <2>1, <2>3
<1>13. k * BetUnit <= b
  BY <1>5, <1>11, <1>12, Scale
<1>14. QED
  BY <1>2, <1>13 DEF a, b
=============================================================================
