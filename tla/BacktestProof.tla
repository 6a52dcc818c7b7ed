--------------------------- MODULE BacktestProof ---------------------------
(***************************************************************************)
(* The back test, for every panel, table, bank and sequence of results:    *)
(* the target strategy's knapsack buys the likeliest tickets it can pay    *)
(* for, one hit reaches the goal, later races get more, a profitable day   *)
(* is kept, and the rows of the table stay affordable.                     *)
(***************************************************************************)
EXTENDS PlanDayProof

-----------------------------------------------------------------------------
(* The replay's state, and what it buys in a race. *)

Outcomes == [stake : Nat, allowance : Nat, after : Nat, as_priced : BOOLEAN]

ReplayTypes ==
    /\ points \in Nat /\ frozen \in BOOLEAN
    /\ outcomes \in Seq(Outcomes) /\ Len(outcomes) <= Len(panel)
    /\ phase = "replaying" => strategy \in {"target", "table"}
    /\ phase # "replaying" =>
          strategy = "none" /\ points = budget /\ ~frozen /\ outcomes = <<>>

LEMMA RaceParts ==
    ASSUME SolvedInv, ReplayTypes, Replaying
    PROVE  /\ Len(outcomes) \in Nat /\ Len(panel) \in Nat \ {0} /\ SlotsLeft \in 1..Len(panel)
           /\ spec.goal \in Nat /\ points \in Nat /\ Len(Race.quotes) \in Nat
           /\ Market(Candidates(Race))
<1>1. outcomes \in Seq(Outcomes)
  BY DEF ReplayTypes
<1>2. Len(outcomes) \in Nat
  BY <1>1, SeqParts
<1>3. WellFormed(spec) /\ Len(panel) \in Nat
  BY PanelParts
<1>4. spec.goal \in Nat
  BY <1>3, SpecFields
<1>5. SlotsLeft \in 1..Len(panel) /\ Len(panel) \in Nat \ {0} /\ Len(outcomes) + 1 \in 1..Len(panel)
  BY <1>2, <1>3 DEF Replaying, SlotsLeft
<1>6. PICK R \in Panels : \A k \in 1..Len(panel) : panel[k] \in R
  BY PanelParts
<1>7. Race \in R
  BY <1>5, <1>6 DEF Race
<1>8. /\ Len(Race.quotes) \in Nat /\ DOMAIN Race.quotes = 1..Len(Race.quotes)
      /\ \A i \in DOMAIN Race.quotes :
            Race.quotes[i] \in [horses : [1..3 -> Nat], odds : Nat \ {0}, draws : Nat]
  BY <1>7, DayAssumption, RaceFileParts
<1> DEFINE S == {j \in DOMAIN Race.quotes : Longshot(Race.win, Race.quotes[j], 99)}
<1>9. S \in SUBSET (1..Len(Race.quotes))
  BY <1>8
<1>10. \A i \in S : Race.quotes[i].odds \in Nat \ {0} /\ Race.quotes[i].draws \in Nat
  BY <1>8
<1> HIDE DEF S
<1>11. Market(Candidates(Race))
  <2>1. Candidates(Race) = {Offer(Race.quotes, i) : i \in S}
    BY DEF Candidates, S
  <2> DEFINE rows == Race.quotes
             n == Len(rows)
  <2>2. n \in Nat /\ S \in SUBSET (1..n)
        /\ \A i \in S : rows[i].odds \in Nat \ {0} /\ rows[i].draws \in Nat
    BY <1>8, <1>9, <1>10
  <2> HIDE DEF rows, n
  <2>3. Market({Offer(rows, i) : i \in S})
    BY <2>2, OffersAreMarket
  <2>4. QED
    BY <2>1, <2>3 DEF rows
<1>12. QED
  BY <1>2, <1>4, <1>5, <1>8, <1>11 DEF ReplayTypes

\* The target strategy in a race.
LEMMA TargetCallParts ==
    ASSUME SolvedInv, ReplayTypes, Replaying
    PROVE  /\ TargetCall.allowance \in Nat
           /\ TargetCall.tickets # <<>> =>
                /\ ~frozen /\ points < spec.goal
                /\ TargetCall.allowance = RaceAllowance(points, SlotsLeft, Len(panel))
                /\ TargetCall.allowance <= points
                /\ AreSized(TargetCall.tickets,
                            RequiredReturn(points, TargetCall.allowance, spec.goal))
                /\ AreBest(TargetCall.tickets,
                           ShortlistFor(Candidates(Race), points, TargetCall.allowance, spec.goal),
                           TargetCall.allowance)
<1> DEFINE granted == RaceAllowance(points, SlotsLeft, Len(panel))
           call == TargetAllocation
<1>1. /\ SlotsLeft \in 1..Len(panel) /\ Len(panel) \in Nat \ {0}
      /\ spec.goal \in Nat /\ points \in Nat /\ Market(Candidates(Race))
  BY RaceParts
<1>2. PICK k \in Nat : granted = k * BetUnit
  BY <1>1, AllowanceParts
<1>3. granted \in 0..points
  BY <1>1, AllowanceParts
<1>4. BetUnit \in Nat \ {0}
  BY AllocationAssumption
<1> HIDE DEF granted
<1>5. Usable(points, granted) = granted
  <2>1. Lesser(points, granted) = k * BetUnit
    BY <1>1, <1>2, <1>3 DEF Lesser
  <2>2. (k * BetUnit) \div BetUnit = k
    BY <1>4, Multiples
  <2>3. QED
    BY <1>2, <2>1, <2>2 DEF Usable
<1>6. CallFits(call, Candidates(Race), points, granted, spec.goal)
  <2>1. granted \in Nat
    BY <1>3
  <2>2. QED
    BY <1>1, <2>1, AllocateParts DEF TargetAllocation, granted
<1> HIDE DEF call
<1>7. /\ call.allowance = granted /\ call.allowance \in Nat /\ call.allowance <= points
      /\ call.tickets # <<>> =>
           /\ points < spec.goal
           /\ AreSized(call.tickets, RequiredReturn(points, call.allowance, spec.goal))
           /\ AreBest(call.tickets,
                      ShortlistFor(Candidates(Race), points, call.allowance, spec.goal),
                      call.allowance)
  BY <1>5, <1>6 DEF CallFits
<1>8. CASE frozen \/ NoMarket
  <2>1. TargetCall = [allowance |-> 0, tickets |-> <<>>]
    BY <1>8 DEF TargetCall, Call
  <2>2. QED
    BY <2>1
<1>9. CASE ~(frozen \/ NoMarket)
  <2>1. TargetCall = [allowance |-> call.allowance, tickets |-> call.tickets]
    BY <1>9 DEF TargetCall, Call, call
  <2>2. TargetCall.allowance = call.allowance /\ TargetCall.tickets = call.tickets
    BY <2>1
  <2>3. QED
    BY <1>7, <1>9, <2>2 DEF granted
<1>10. QED
  BY <1>8, <1>9

\* What is bought from a row of the table.
LEMMA TableTicketsParts ==
    ASSUME SolvedInv, ReplayTypes, Replaying
    PROVE  /\ DOMAIN TableTickets = 1..Len(TableTickets) /\ Len(TableTickets) \in Nat
           /\ \A i \in DOMAIN TableTickets : TableTickets[i].stake \in Nat
           /\ Paid(TableTickets) \in Nat /\ Paid(TableTickets) <= points
<1>1. /\ points \in Nat /\ Len(Race.quotes) \in Nat /\ Len(outcomes) \in Nat
      /\ WellFormed(spec) /\ spec.races \in Nat \ {0}
  BY RaceParts, PanelParts
<1>2. table \in Seq(Stages(spec)) /\ Len(table) = spec.races
  BY DEF SolvedInv, Replaying
<1>3. Horizon \in 1..Len(table)
  BY <1>1, <1>2 DEF Horizon, Greater
<1>4. RowFits(spec, ReplayRow, points)
  BY <1>1, <1>2, <1>3, RowIsAffordable DEF ReplayRow
<1>5. /\ ReplayRow.tickets \in Nat /\ ReplayRow.stake_each \in Nat
      /\ ReplayRow.stake_each * ReplayRow.tickets <= points
  BY <1>4 DEF RowFits
<1>6. PICK n \in 0..ReplayRow.tickets : PickNearOdds(Race, ReplayRow.tickets) = [i \in 1..n |-> i]
  BY <1>1, <1>5, PicksAreRanks
<1> DEFINE t == TableTickets
           all == {t[i] : i \in 1..n}
           stake == ReplayRow.stake_each
<1>7. DOMAIN t = 1..n /\ \A i \in 1..n : t[i].stake = stake
  BY <1>6 DEF TableTickets
<1>8. n \in Nat /\ stake \in Nat
  BY <1>5
<1>9. t \in [1..n -> all] /\ t \in Seq(all) /\ Len(t) = n
  <2>1. t = [i \in 1..n |-> t[i]]
    BY <1>6 DEF TableTickets
  <2> HIDE DEF t
  <2>2. t \in [1..n -> all]
    BY <2>1
  <2> HIDE DEF all
  <2>3. t \in Seq(all) /\ Len(t) = n
    BY <1>8, <2>2
  <2>4. QED
    BY <2>2, <2>3
<1> HIDE DEF t, all, stake
<1> DEFINE f == [i \in DOMAIN t |-> t[i].stake]
<1>10. Paid(t) = SumOn(f, 1..n)
  <2>1. \A i \in DOMAIN t : t[i].stake \in Int
    BY <1>7, <1>8
  <2>2. QED
    BY <1>9, <2>1, PaidIsSum
<1>11. \A i \in 1..n : f[i] = stake
  BY <1>7
<1> HIDE DEF f
<1>12. SumOn(f, 1..n) = n * stake
  BY <1>8, <1>11, SumOfEqual
<1>13. n * stake <= ReplayRow.tickets * stake
  BY <1>5, <1>8, Scale
<1>14. /\ n * stake \in Nat /\ ReplayRow.tickets * stake \in Nat
       /\ ReplayRow.tickets * stake <= points
  BY <1>5, <1>8 DEF stake
<1>15. QED
  BY <1>1, <1>7, <1>8, <1>9, <1>10, <1>12, <1>13, <1>14 DEF t

\* What the strategy buys, the bank pays for.
LEMMA CallParts ==
    ASSUME SolvedInv, ReplayTypes, Replaying, StrategyCall.tickets # <<>>
    PROVE  /\ StrategyCall.allowance \in Nat
           /\ DOMAIN StrategyCall.tickets = 1..Len(StrategyCall.tickets)
           /\ Len(StrategyCall.tickets) \in Nat
           /\ \A i \in DOMAIN StrategyCall.tickets : StrategyCall.tickets[i].stake \in Nat
           /\ Paid(StrategyCall.tickets) \in Nat /\ Paid(StrategyCall.tickets) <= points
<1> DEFINE call == StrategyCall
<1>1. CASE strategy = "target"
  <2>1. call = TargetCall
    BY <1>1 DEF StrategyCall
  <2> HIDE DEF call
  <2>2. /\ call.allowance \in Nat /\ call.allowance <= points
        /\ AreSized(call.tickets, RequiredReturn(points, call.allowance, spec.goal))
        /\ Paid(call.tickets) <= call.allowance
    BY <2>1, TargetCallParts DEF AreBest, call
  <2>3. /\ DOMAIN call.tickets = 1..Len(call.tickets) /\ Len(call.tickets) \in Nat
        /\ \A i \in DOMAIN call.tickets : call.tickets[i].stake \in Nat
        /\ Paid(call.tickets) \in Nat
    BY <2>2 DEF AreSized
  <2>4. points \in Nat
    BY DEF ReplayTypes
  <2>5. Paid(call.tickets) <= points
    BY <2>2, <2>3, <2>4
  <2>6. QED
    BY <2>2, <2>3, <2>5 DEF call
<1>2. CASE strategy # "target"
  <2>1. call = TableCall
    BY <1>2 DEF StrategyCall
  <2>2. TableCall = [allowance |-> 0, tickets |-> TableTickets]
    <3>1. \/ TableCall = [allowance |-> 0, tickets |-> <<>>]
          \/ TableCall = [allowance |-> 0, tickets |-> TableTickets]
      BY DEF TableCall, Call
    <3>2. TableCall.tickets # <<>>
      BY <2>1
    <3>3. QED
      BY <3>1, <3>2
  <2>3. call.allowance = 0 /\ call.tickets = TableTickets
    BY <2>1, <2>2
  <2> HIDE DEF call
  <2>4. QED
    BY <2>3, TableTicketsParts DEF call
<1>3. QED
  BY <1>1, <1>2

\* A race settled: the winning tickets return what they return, and nobody else does.
LEMMA SettleParts ==
    ASSUME NEW result \in Results, NEW tickets, DOMAIN tickets = 1..Len(tickets),
           Len(tickets) \in Nat, \A i \in DOMAIN tickets : tickets[i].stake \in Nat
    PROVE  /\ Settle(result, tickets).payout \in Nat
           /\ ~Settle(result, tickets).hit => Settle(result, tickets).payout = 0
           /\ Known(result) => \A i \in Winning(result, tickets) :
                  /\ i \in DOMAIN tickets
                  /\ result.payouts[tickets[i].combination] \in Nat
                  /\ Return(result, tickets[i]) <= Settle(result, tickets).payout
<1> DEFINE won == IF Known(result) THEN Winning(result, tickets) ELSE {}
           f == [i \in won |-> Return(result, tickets[i])]
           settled == Settle(result, tickets)
<1>1. settled = [payout |-> SumFunction(f), hit |-> won # {}]
  BY DEF Settle
<1>2. SumFunction(f) = SumOn(f, won)
  <2>1. DOMAIN f = won
    OBVIOUS
  <2> HIDE DEF f
  <2>2. QED
    BY <2>1 DEF SumFunction, SumFunctionOnSet, SumOn
<1>3. settled.payout = SumOn(f, won) /\ (settled.hit <=> won # {})
  <2> HIDE DEF settled, f, won
  <2>1. settled.payout = SumFunction(f) /\ settled.hit = (won # {})
    BY <1>1
  <2>2. QED
    BY <1>2, <2>1
<1>4. won \in SUBSET DOMAIN tickets
  BY DEF Winning
<1>5. ASSUME Known(result)
      PROVE  \A i \in Winning(result, tickets) :
                /\ i \in DOMAIN tickets /\ tickets[i].combination \in DOMAIN result.payouts
                /\ result.payouts[tickets[i].combination] \in Nat
  <2>1. \A c \in DOMAIN result.payouts : result.payouts[c] \in Dividends
    <3>1. CASE result \in {[finish |-> FALSE, payouts |-> <<>>],
                           [finish |-> TRUE, payouts |-> <<>>]}
      BY <1>5, <3>1 DEF Known
    <3>2. CASE result \in {[finish |-> TRUE, payouts |-> p] :
                              p \in UNION {[{c} -> Dividends] :
                                 c \in {0} \union DOMAIN Race.quotes}}
      <4>1. PICK c, p : p \in [{c} -> Dividends] /\ result = [finish |-> TRUE, payouts |-> p]
        BY <3>2
      <4>2. result.payouts = p
        BY <4>1
      <4>3. QED
        BY <4>1, <4>2
    <3>3. QED
      BY <3>1, <3>2, Zenon DEF Results
  <2>2. Dividends \subseteq Nat
    BY BacktestAssumption
  <2>3. QED
    BY <2>1, <2>2 DEF Winning
<1>6. \A i \in won : f[i] \in Nat /\ f[i] = Return(result, tickets[i])
  <2>1. SUFFICES ASSUME NEW i \in won PROVE Return(result, tickets[i]) \in Nat
    OBVIOUS
  <2>2. Known(result) /\ i \in Winning(result, tickets)
    OBVIOUS
  <2>3. result.payouts[tickets[i].combination] \in Nat /\ tickets[i].stake \in Nat
    BY <1>5, <2>2
  <2>4. QED
    BY <2>3 DEF Return
<1>7. IsFiniteSet(won)
  <2>1. IsFiniteSet(1..Len(tickets))
    BY FS_Interval
  <2>2. QED
    BY <1>4, <2>1, FS_Subset
<1> HIDE DEF f
<1>8. SumOn(f, won) \in Nat /\ \A i \in won : f[i] <= SumOn(f, won)
  <2> DEFINE W == won
  <2>1. IsFiniteSet(W) /\ \A i \in W : f[i] \in Nat
    BY <1>6, <1>7
  <2> HIDE DEF W
  <2>2. SumOn(f, W) \in Nat
    BY <2>1, SumGrows
  <2>3. ASSUME NEW i \in W PROVE f[i] <= SumOn(f, W)
    <3>1. SumOn(f, {}) = 0
      BY SumUnrolls, FS_EmptySet
    <3>2. SumOn(f, {} \union {i}) = f[i] + SumOn(f, {})
      BY <2>1, SumInsert
    <3>3. {i} = {} \union {i} /\ {i} \in SUBSET W
      OBVIOUS
    <3>4. SumOn(f, {i}) <= SumOn(f, W)
      BY <2>1, <3>3, SumGrows
    <3>5. QED
      BY <2>1, <3>1, <3>2, <3>3, <3>4
  <2>4. QED
    BY <2>2, <2>3 DEF W
<1>9. ASSUME ~settled.hit PROVE settled.payout = 0
  <2>1. won = {}
    BY <1>3, <1>9
  <2> HIDE DEF won, settled
  <2>2. SumOn(f, {}) = 0
    BY SumUnrolls, FS_EmptySet
  <2>3. QED
    BY <1>3, <2>1, <2>2
<1>10. ASSUME Known(result), NEW i \in Winning(result, tickets)
       PROVE  Return(result, tickets[i]) <= settled.payout
  <2>1. i \in won
    BY <1>10
  <2> HIDE DEF won, settled
  <2>2. QED
    BY <1>3, <1>6, <1>8, <2>1
<1>11. settled.payout \in Nat
  BY <1>3, <1>8
<1> HIDE DEF settled
<1>12. QED
  BY <1>5, <1>9, <1>10, <1>11 DEF settled

-----------------------------------------------------------------------------
(* The replay's invariant. *)

\* Until a hit makes the day profitable, no bank of it is above the first one.
ProfitInv ==
    strategy = "target" /\ ~frozen =>
        points <= budget /\ \A i \in DOMAIN outcomes : outcomes[i].after <= budget

\* The race to come is given at least what the races before it were.
GrantedInv ==
    strategy = "target" /\ ~frozen /\ Len(outcomes) < Len(panel) =>
        \A i \in Bought :
            outcomes[i].allowance <= RaceAllowance(points, SlotsLeft, Len(panel))

ReplayInv ==
    /\ ReplayTypes /\ ProfitInv /\ GrantedInv
    /\ ProfitIsKept /\ OneHitReachesTarget /\ LaterRacesGetMore

LEMMA ReplayStarts == PipelineInit => ReplayInv
<1> SUFFICES ASSUME PipelineInit PROVE ReplayInv
  OBVIOUS
<1>1. /\ strategy = "none" /\ points = budget /\ frozen = FALSE /\ outcomes = <<>>
      /\ phase = "solving" /\ budget \in Nat
  BY DayAssumption DEF PipelineInit, ReplayInit, Init
<1>2. <<>> \in Seq(Outcomes) /\ Len(<<>>) = 0
  OBVIOUS
<1>3. Len(panel) \in Nat
  BY PlannerStarts, PanelParts DEF PipelineInit, PlannerInv
<1>4. ReplayTypes
  <2>1. points \in Nat /\ frozen \in BOOLEAN /\ ~frozen
    BY <1>1
  <2>2. outcomes \in Seq(Outcomes) /\ Len(outcomes) <= Len(panel)
    BY <1>1, <1>2, <1>3
  <2>3. QED
    BY <1>1, <2>1, <2>2 DEF ReplayTypes
<1>5. QED
  BY <1>1, <1>4
     DEF ReplayInv, ProfitInv, GrantedInv, ProfitIsKept, OneHitReachesTarget, LaterRacesGetMore

\* One more outcome.
LEMMA OutcomeAdded ==
    ASSUME outcomes \in Seq(Outcomes), NEW o \in Outcomes, outcomes' = Append(outcomes, o)
    PROVE  /\ Len(outcomes) \in Nat /\ outcomes' \in Seq(Outcomes)
           /\ Len(outcomes') = Len(outcomes) + 1
           /\ DOMAIN outcomes = 1..Len(outcomes)
           /\ DOMAIN outcomes' = 1..(Len(outcomes) + 1)
           /\ \A i \in 1..Len(outcomes) : outcomes'[i] = outcomes[i]
           /\ outcomes'[Len(outcomes) + 1] = o
           /\ \A i \in Bought' : i \in Bought \/ (i = Len(outcomes) + 1 /\ o.stake > 0)
<1> DEFINE n == Len(outcomes)
<1>1. /\ n \in Nat /\ outcomes' \in Seq(Outcomes) /\ Len(outcomes') = n + 1
      /\ DOMAIN outcomes = 1..n /\ DOMAIN outcomes' = 1..(n + 1)
      /\ \A i \in 1..n : outcomes'[i] = outcomes[i]
      /\ outcomes'[n + 1] = o
  OBVIOUS
<1>2. \A i \in Bought' : i \in Bought \/ (i = n + 1 /\ o.stake > 0)
  <2>1. SUFFICES ASSUME NEW i \in 1..(n + 1), outcomes'[i].stake > 0
                 PROVE  i \in Bought \/ (i = n + 1 /\ o.stake > 0)
    BY <1>1 DEF Bought
  <2>2. CASE i = n + 1
    BY <1>1, <2>1, <2>2
  <2>3. CASE i # n + 1
    <3>1. i \in 1..n
      BY <1>1, <2>3
    <3>2. QED
      BY <1>1, <2>1, <3>1 DEF Bought
  <2>4. QED
    BY <2>2, <2>3
<1>3. QED
  BY <1>1, <1>2

\* What a race of the target strategy may do to the replay.
TargetStep(o) ==
    LET granted == RaceAllowance(points, SlotsLeft, Len(panel))
    IN  /\ o.stake > 0 =>
              /\ ~frozen /\ o.allowance = granted
              /\ o.as_priced => o.after >= spec.goal
        /\ ~frozen => points' >= points - granted
        /\ frozen => points' = points /\ frozen'
        /\ ~frozen' => points' <= budget

LEMMA RaceReplayed ==
    ASSUME SolvedInv, ReplayInv, Replaying,
           UNCHANGED <<spec, panel, budget, phase, strategy>>,
           NEW o \in Outcomes, outcomes' = Append(outcomes, o),
           points' \in Nat, o.after = points', frozen' \in BOOLEAN,
           strategy = "target" => TargetStep(o)
    PROVE  ReplayInv'
<1> DEFINE n == Len(outcomes)
           granted == RaceAllowance(points, SlotsLeft, Len(panel))
<1>1. /\ n \in Nat /\ outcomes' \in Seq(Outcomes) /\ Len(outcomes') = n + 1
      /\ DOMAIN outcomes = 1..n /\ DOMAIN outcomes' = 1..(n + 1)
      /\ \A i \in 1..n : outcomes'[i] = outcomes[i]
      /\ outcomes'[n + 1] = o
      /\ \A i \in Bought' : i \in Bought \/ (i = n + 1 /\ o.stake > 0)
  BY OutcomeAdded DEF ReplayInv, ReplayTypes
<1>2. /\ Len(panel) \in Nat \ {0} /\ SlotsLeft \in 1..Len(panel) /\ SlotsLeft = Len(panel) - n
      /\ points \in Nat /\ n < Len(panel)
  BY RaceParts DEF ReplayInv, SlotsLeft, Replaying
<1>3. ReplayTypes'
  BY <1>1, <1>2 DEF ReplayInv, ReplayTypes, Replaying
<1>4. \A i \in Bought : i \in 1..n
  BY <1>1 DEF Bought
<1>5. CASE strategy # "target"
  BY <1>3, <1>5
     DEF ReplayInv, ProfitInv, GrantedInv, ProfitIsKept, OneHitReachesTarget, LaterRacesGetMore
<1>6. CASE strategy = "target"
  <2>1. /\ o.stake > 0 => /\ ~frozen /\ o.allowance = granted
                          /\ o.as_priced => o.after >= spec.goal
        /\ ~frozen => points' >= points - granted
        /\ frozen => points' = points /\ frozen'
        /\ ~frozen' => points' <= budget
    BY <1>6 DEF TargetStep
  <2>2. granted \in Nat
    <3>1. granted \in 0..points
      BY <1>2, AllowanceParts
    <3> HIDE DEF granted
    <3>2. QED
      BY <1>2, <3>1
  <2>3. /\ ~frozen => points <= budget /\ \A i \in 1..n : outcomes[i].after <= budget
        /\ ~frozen => \A i \in Bought : outcomes[i].allowance <= granted
        /\ \A i \in 1..n : outcomes[i].after > budget => points = outcomes[i].after
        /\ \A i \in Bought : outcomes[i].as_priced => outcomes[i].after >= spec.goal
        /\ \A i, j \in Bought : i < j => outcomes[i].allowance <= outcomes[j].allowance
    BY <1>1, <1>2, <1>6
       DEF ReplayInv, ProfitInv, GrantedInv, ProfitIsKept, OneHitReachesTarget, LaterRacesGetMore
  <2>4. /\ budget \in Nat /\ \A i \in 1..n : /\ outcomes[i].after \in Nat
                                             /\ outcomes[i].allowance \in Nat
    <3>1. \A i \in 1..n : outcomes[i] \in Outcomes
      BY <1>1 DEF ReplayInv, ReplayTypes
    <3>2. budget \in Nat
      BY DayAssumption DEF SolvedInv
    <3>3. QED
      BY <3>1, <3>2 DEF Outcomes
  <2> HIDE DEF granted
  <2>5. ProfitInv'
    <3>1. SUFFICES ASSUME ~frozen'
                   PROVE  points' <= budget /\ \A i \in 1..(n + 1) : outcomes'[i].after <= budget
      BY <1>1 DEF ProfitInv
    <3>2. ~frozen /\ points' <= budget
      BY <2>1, <3>1
    <3>3. \A i \in 1..n : outcomes'[i].after <= budget
      BY <1>1, <2>3, <3>2
    <3>4. \A i \in 1..(n + 1) : i \in 1..n \/ i = n + 1
      BY <1>1
    <3>5. QED
      BY <1>1, <3>2, <3>3, <3>4
  <2>6. ProfitIsKept'
    <3>1. SUFFICES ASSUME NEW i \in 1..(n + 1), outcomes'[i].after > budget
                   PROVE  points' = outcomes'[i].after
      BY <1>1 DEF ProfitIsKept
    <3>2. CASE i = n + 1
      BY <1>1, <3>2
    <3>3. CASE i # n + 1
      <4>1. i \in 1..n /\ outcomes'[i].after = outcomes[i].after
        BY <1>1, <3>3
      <4>2. frozen /\ points = outcomes[i].after
        BY <2>3, <2>4, <3>1, <4>1
      <4>3. QED
        BY <2>1, <4>1, <4>2
    <3>4. QED
      BY <3>2, <3>3
  <2>7. OneHitReachesTarget'
    <3>1. SUFFICES ASSUME NEW i \in Bought', outcomes'[i].as_priced
                   PROVE  outcomes'[i].after >= spec.goal
      BY DEF OneHitReachesTarget
    <3>2. CASE i \in Bought
      BY <1>1, <1>4, <2>3, <3>1, <3>2
    <3>3. CASE i = n + 1 /\ o.stake > 0
      BY <1>1, <2>1, <3>1, <3>3
    <3>4. QED
      BY <1>1, <3>2, <3>3
  <2>8. LaterRacesGetMore'
    <3>1. SUFFICES ASSUME NEW i \in Bought', NEW j \in Bought', i < j
                   PROVE  outcomes'[i].allowance <= outcomes'[j].allowance
      BY DEF LaterRacesGetMore
    <3>2. i \in 1..(n + 1) /\ j \in 1..(n + 1)
      BY <1>1, <1>4
    <3>3. i \in 1..n /\ i \in Bought
      BY <1>1, <3>1, <3>2
    <3>4. CASE j \in Bought
      BY <1>1, <1>4, <2>3, <3>1, <3>3, <3>4
    <3>5. CASE j = n + 1 /\ o.stake > 0
      BY <1>1, <2>1, <2>3, <3>3, <3>5
    <3>6. QED
      BY <1>1, <3>4, <3>5
  <2>9. GrantedInv'
    <3>1. SUFFICES ASSUME ~frozen', n + 1 < Len(panel), NEW i \in Bought'
                   PROVE  outcomes'[i].allowance
                            <= RaceAllowance(points', Len(panel) - (n + 1), Len(panel))
      BY <1>1 DEF GrantedInv, SlotsLeft
    <3> DEFINE next == RaceAllowance(points', SlotsLeft - 1, Len(panel))
    <3>2. SlotsLeft \in 2..Len(panel) /\ SlotsLeft - 1 = Len(panel) - (n + 1)
          /\ SlotsLeft - 1 \in 1..Len(panel)
      BY <1>1, <1>2, <3>1
    <3>3. ~frozen /\ points' >= points - granted
      BY <2>1, <3>1
    <3>4. granted <= next
      BY <1>2, <3>2, <3>3, LaterGetsMore DEF granted
    <3>5. next \in Nat
      <4>1. PICK left \in Nat : left = points'
        OBVIOUS
      <4>2. next \in 0..left
        BY <1>2, <3>2, <4>1, AllowanceParts
      <4> HIDE DEF next
      <4>3. QED
        BY <4>1, <4>2
    <3> HIDE DEF next
    <3>6. outcomes'[i].allowance <= granted /\ outcomes'[i].allowance \in Nat
      <4>1. CASE i \in Bought
        BY <1>1, <1>4, <2>3, <2>4, <3>3, <4>1
      <4>2. CASE i = n + 1 /\ o.stake > 0
        BY <1>1, <2>1, <2>2, <4>2
      <4>3. QED
        BY <1>1, <4>1, <4>2
    <3>7. outcomes'[i].allowance <= next
      <4> DEFINE a == outcomes'[i].allowance
      <4>1. a \in Nat /\ granted \in Nat /\ next \in Nat
        BY <2>2, <3>5, <3>6, Zenon
      <4>2. a <= granted /\ granted <= next
        BY <3>4, <3>6
      <4> HIDE DEF a
      <4>3. a <= next
        BY <4>1, <4>2
      <4>4. QED
        BY <4>3 DEF a
    <3>8. QED
      BY <3>2, <3>7 DEF next
  <2>10. QED
    BY <1>3, <2>5, <2>6, <2>7, <2>8, <2>9 DEF ReplayInv
<1>7. QED
  BY <1>5, <1>6

\* No ticket, no stake.
LEMMA NothingPaid == Paid(<<>>) = 0
<1> DEFINE q == <<>>
           f == [i \in DOMAIN q |-> q[i].stake]
<1>1. q \in Seq({}) /\ Len(q) = 0 /\ DOMAIN q = {} /\ 1..Len(q) = {}
  OBVIOUS
<1>2. \A i \in DOMAIN q : q[i].stake \in Int
  BY <1>1
<1> HIDE DEF q
<1>3. Paid(q) = SumOn(f, 1..Len(q))
  BY <1>1, <1>2, PaidIsSum
<1>4. SumOn(f, {}) = 0
  BY SumUnrolls, FS_EmptySet
<1>5. QED
  BY <1>1, <1>3, <1>4 DEF q

LEMMA SkipStep ==
    ASSUME SolvedInv, ReplayInv, ReplaySkip
    PROVE  ReplayInv'
<1> DEFINE call == StrategyCall
           o == [stake |-> 0, allowance |-> call.allowance, after |-> points, as_priced |-> FALSE]
<1>1. /\ Replaying /\ call.tickets = <<>>
      /\ UNCHANGED <<strategy, points, frozen, spec, table, panel, budget, phase>>
  BY DEF ReplaySkip, planner
<1>2. points \in Nat /\ ReplayTypes /\ frozen \in BOOLEAN
  BY DEF ReplayInv, ReplayTypes
<1>3. outcomes' = Append(outcomes, o)
  <2>1. Outcome(call, [payout |-> 0, hit |-> FALSE], FALSE)
          = [stake |-> Paid(call.tickets), allowance |-> call.allowance,
             after |-> points - Paid(call.tickets) + 0, as_priced |-> FALSE]
    BY DEF Outcome
  <2>2. Paid(call.tickets) = 0
    BY <1>1, NothingPaid
  <2>3. points - 0 + 0 = points
    BY <1>2
  <2>4. Outcome(call, [payout |-> 0, hit |-> FALSE], FALSE) = o
    BY <2>1, <2>2, <2>3
  <2>5. outcomes' = Append(outcomes, Outcome(call, [payout |-> 0, hit |-> FALSE], FALSE))
    BY DEF ReplaySkip
  <2>6. QED
    BY <2>4, <2>5
<1>4. call.allowance \in Nat
  <2>1. CASE strategy = "target"
    BY <1>1, <1>2, <2>1, TargetCallParts DEF StrategyCall
  <2>2. CASE strategy # "target"
    <3>1. call = TableCall
      BY <2>2 DEF StrategyCall
    <3>2. TableCall.allowance = 0
      BY DEF TableCall, Call
    <3>3. QED
      BY <3>1, <3>2
  <2>3. QED
    BY <2>1, <2>2
<1> HIDE DEF call
<1>5. o \in Outcomes /\ o.stake = 0 /\ o.after = points
  BY <1>2, <1>4 DEF Outcomes
<1> HIDE DEF o
<1>6. ASSUME strategy = "target" PROVE TargetStep(o)
  <2>1. RaceAllowance(points, SlotsLeft, Len(panel)) \in Nat
    <3>1. /\ SlotsLeft \in 1..Len(panel) /\ Len(panel) \in Nat \ {0}
      BY <1>1, <1>2, RaceParts
    <3>2. RaceAllowance(points, SlotsLeft, Len(panel)) \in 0..points
      BY <1>2, <3>1, AllowanceParts
    <3>3. QED
      BY <1>2, <3>2
  <2>2. ~frozen' => points' <= budget
    BY <1>1, <1>6 DEF ReplayInv, ProfitInv
  <2>3. QED
    BY <1>1, <1>2, <1>5, <2>1, <2>2 DEF TargetStep
<1>7. points' \in Nat /\ o.after = points' /\ frozen' \in BOOLEAN
  BY <1>1, <1>2, <1>5
<1>8. QED
  BY <1>1, <1>3, <1>5, <1>6, <1>7, RaceReplayed

\* A hit at the bet-time odds brings the bank to the goal.
LEMMA HitIsEnough ==
    ASSUME SolvedInv, ReplayTypes, Replaying, strategy = "target",
           StrategyCall.tickets # <<>>, NEW result \in Results,
           AsPriced(result, StrategyCall.tickets)
    PROVE  points - Paid(StrategyCall.tickets)
             + Settle(result, StrategyCall.tickets).payout >= spec.goal
<1> DEFINE call == StrategyCall
           tickets == call.tickets
           paid == Paid(tickets)
           payout == Settle(result, tickets).payout
<1>1. call = TargetCall
  BY DEF StrategyCall
<1>2. /\ call.allowance \in Nat
      /\ AreSized(tickets, RequiredReturn(points, call.allowance, spec.goal))
      /\ paid <= call.allowance
  BY <1>1, TargetCallParts DEF AreBest
<1>3. spec.goal \in Nat /\ points \in Nat
  BY RaceParts
<1>4. PICK i \in Winning(result, tickets) :
          result.payouts[tickets[i].combination] * FactorDen >= tickets[i].odds * FactorNum
  BY DEF AsPriced
<1>5. Known(result)
  BY DEF AsPriced
<1> HIDE DEF call
<1>6. DOMAIN tickets = 1..Len(tickets) /\ Len(tickets) \in Nat /\ paid \in Nat
      /\ \A j \in DOMAIN tickets : tickets[j].stake \in Nat
  BY <1>2 DEF AreSized
<1> HIDE DEF tickets, paid
<1>7. /\ payout \in Nat /\ i \in DOMAIN tickets
      /\ result.payouts[tickets[i].combination] \in Nat
      /\ Return(result, tickets[i]) <= payout
  BY <1>4, <1>5, <1>6, SettleParts
<1>8. /\ tickets[i].odds \in Nat \ {0} /\ tickets[i].stake \in Nat
      /\ tickets[i].stake
            >= StakeFor(tickets[i].odds, RequiredReturn(points, call.allowance, spec.goal))
  BY <1>2, <1>7 DEF AreSized
<1>9. PICK stake \in Nat, odds \in Nat \ {0}, paying \in Nat :
          /\ stake = tickets[i].stake /\ odds = tickets[i].odds
          /\ paying = result.payouts[tickets[i].combination]
  BY <1>7, <1>8
<1> HIDE DEF payout
<1>10. FactorNum \in Nat \ {0} /\ FactorDen \in Nat \ {0}
  BY AllocationAssumption
<1>11. (points - paid) * FactorDen + stake * odds * FactorNum >= spec.goal * FactorDen
  <2>1. PICK goal \in Nat, allowance \in Nat : goal = spec.goal /\ allowance = call.allowance
    BY <1>2, <1>3
  <2>2. paid <= allowance /\ stake >= StakeFor(odds, RequiredReturn(points, allowance, goal))
        /\ stake \in Int
    BY <1>2, <1>8, <1>9, <2>1
  <2>3. (points - paid) * FactorDen + stake * odds * FactorNum >= goal * FactorDen
    BY <1>3, <1>6, <2>2, SizedTicketClosesGap
  <2>4. QED
    BY <2>1, <2>3
<1>12. stake * paying <= payout
  BY <1>7, <1>9 DEF Return
<1>13. stake * odds * FactorNum <= payout * FactorDen
  <2>1. odds * FactorNum <= paying * FactorDen
    BY <1>4, <1>9
  <2>2. odds * FactorNum \in Nat /\ paying * FactorDen \in Nat /\ stake * paying \in Nat
    BY <1>10
  <2>3. (odds * FactorNum) * stake <= (paying * FactorDen) * stake
    BY <2>1, <2>2, Scale
  <2>4. (stake * paying) * FactorDen <= payout * FactorDen
    BY <1>7, <1>10, <1>12, <2>2, Scale
  <2>5. /\ stake * odds * FactorNum = (odds * FactorNum) * stake
        /\ (paying * FactorDen) * stake = (stake * paying) * FactorDen
        /\ (stake * paying) * FactorDen \in Int /\ payout * FactorDen \in Int
        /\ (odds * FactorNum) * stake \in Int
    BY <1>7, <1>10
  <2>6. QED
    BY <2>3, <2>4, <2>5
<1>14. (points - paid + payout) * FactorDen >= spec.goal * FactorDen
  <2>1. (points - paid + payout) * FactorDen = (points - paid) * FactorDen + payout * FactorDen
    BY <1>3, <1>6, <1>7, <1>10
  <2>2. /\ (points - paid) * FactorDen \in Int /\ payout * FactorDen \in Int
        /\ stake * odds * FactorNum \in Int /\ spec.goal * FactorDen \in Int
    BY <1>3, <1>6, <1>7, <1>10
  <2>3. QED
    BY <1>11, <1>13, <2>1, <2>2
<1>15. points - paid + payout >= spec.goal
  <2>1. PICK after \in Int, goal \in Int : after = points - paid + payout /\ goal = spec.goal
    BY <1>3, <1>6, <1>7
  <2>2. SUFFICES ASSUME after <= goal - 1 PROVE FALSE
    BY <2>1
  <2>3. after * FactorDen <= (goal - 1) * FactorDen
    BY <1>10, <2>1, <2>2, Scale
  <2>4. (goal - 1) * FactorDen = goal * FactorDen - FactorDen
    BY <1>10, <2>1
  <2>5. after * FactorDen >= goal * FactorDen /\ after * FactorDen \in Int
        /\ goal * FactorDen \in Int
    BY <1>10, <1>14, <2>1
  <2>6. QED
    BY <1>10, <2>3, <2>4, <2>5
<1>16. QED
  BY <1>15 DEF payout, paid, tickets, call

LEMMA BetStep ==
    ASSUME SolvedInv, ReplayInv, ReplayBet
    PROVE  ReplayInv'
<1> DEFINE tickets == StrategyCall.tickets
           paid == Paid(tickets)
<1>1. Replaying /\ tickets # <<>> /\ ReplayTypes
  BY DEF ReplayBet, ReplayInv
<1>2. PICK result \in Results :
          /\ points' = points - paid + Settle(result, tickets).payout
          /\ outcomes' = Append(outcomes, Outcome(StrategyCall, Settle(result, tickets),
                                                  AsPriced(result, tickets)))
          /\ frozen' = (frozen \/ (strategy = "target" /\ Settle(result, tickets).hit
                                     /\ points' > budget))
  BY DEF ReplayBet
<1>3. UNCHANGED <<spec, panel, budget, phase, strategy>>
  BY DEF ReplayBet, planner
<1> DEFINE settled == Settle(result, tickets)
           priced == AsPriced(result, tickets)
           o == [stake |-> paid, allowance |-> StrategyCall.allowance,
                 after |-> points - paid + settled.payout, as_priced |-> priced]
<1>4. /\ StrategyCall.allowance \in Nat /\ paid \in Nat /\ paid <= points
      /\ DOMAIN tickets = 1..Len(tickets) /\ Len(tickets) \in Nat
      /\ \A i \in DOMAIN tickets : tickets[i].stake \in Nat
  BY <1>1, CallParts
<1>5. settled.payout \in Nat /\ (~settled.hit => settled.payout = 0)
  <2> HIDE DEF tickets
  <2>1. QED
    BY <1>4, SettleParts
<1>6. points \in Nat /\ priced \in BOOLEAN /\ frozen \in BOOLEAN
  BY <1>1 DEF ReplayTypes, AsPriced, Known
<1>7. outcomes' = Append(outcomes, o)
  BY <1>2 DEF Outcome
<1> HIDE DEF settled, priced, paid
<1>8. points' \in Nat /\ points' = points - paid + settled.payout
  <2>1. points' = points - paid + settled.payout
    BY <1>2 DEF settled
  <2>2. QED
    BY <1>4, <1>5, <1>6, <2>1
<1>9. o \in Outcomes /\ o.stake = paid /\ o.after = points' /\ o.as_priced = priced
      /\ o.allowance = StrategyCall.allowance
  BY <1>4, <1>6, <1>8 DEF Outcomes
<1>10. frozen' = (frozen \/ (strategy = "target" /\ settled.hit /\ points' > budget))
  BY <1>2 DEF settled
<1>11. frozen' \in BOOLEAN
  BY <1>6, <1>10
<1> HIDE DEF o
<1>12. ASSUME strategy = "target" PROVE TargetStep(o)
  <2> DEFINE granted == RaceAllowance(points, SlotsLeft, Len(panel))
  <2>1. StrategyCall = TargetCall /\ TargetCall.tickets # <<>>
    BY <1>1, <1>12 DEF StrategyCall
  <2>2. /\ ~frozen /\ StrategyCall.allowance = granted /\ paid <= StrategyCall.allowance
    BY <1>1, <2>1, TargetCallParts DEF AreBest, paid
  <2>3. priced => points' >= spec.goal
    BY <1>1, <1>8, <1>12, HitIsEnough DEF priced, settled, paid
  <2>4. ~frozen' => points' <= budget
    <3>1. SUFFICES ASSUME ~frozen' PROVE points' <= budget
      OBVIOUS
    <3>2. budget \in Nat
      BY DayAssumption DEF SolvedInv
    <3>3. ~settled.hit \/ ~(points' > budget)
      BY <1>10, <1>12, <3>1
    <3>4. points <= budget
      BY <1>12, <2>2 DEF ReplayInv, ProfitInv
    <3>5. CASE ~settled.hit
      BY <1>4, <1>5, <1>6, <1>8, <3>2, <3>4, <3>5
    <3>6. CASE ~(points' > budget)
      BY <1>8, <3>2, <3>6
    <3>7. QED
      BY <3>3, <3>5, <3>6
  <2>5. points' >= points - granted
    <3>1. granted \in Nat
      BY <1>4, <2>2
    <3> HIDE DEF granted
    <3>2. paid <= granted
      BY <2>2
    <3>3. QED
      BY <1>4, <1>5, <1>6, <1>8, <3>1, <3>2
  <2>6. QED
    BY <1>9, <2>2, <2>3, <2>4, <2>5 DEF TargetStep
<1>13. QED
  BY <1>1, <1>3, <1>7, <1>8, <1>9, <1>11, <1>12, RaceReplayed

\* While no replay runs, there is nothing to replay; none starts but by its command.
LEMMA NoReplay ==
    ASSUME ReplayInv, ReplayTypes', strategy' # "target"
    PROVE  ReplayInv'
BY DEF ReplayInv, ProfitInv, GrantedInv, ProfitIsKept, OneHitReachesTarget, LaterRacesGetMore

LEMMA ReplaySteps ==
    PlannerInv /\ ReplayInv /\ [PipelineNext]_<<vars, replay>> => ReplayInv'
<1> SUFFICES ASSUME PlannerInv, ReplayInv, [PipelineNext]_<<vars, replay>> PROVE ReplayInv'
  OBVIOUS
<1>1. SolvedInv /\ ReplayTypes
  BY DEF PlannerInv, ReplayInv
<1>2. CASE Next /\ UNCHANGED replay
  <2>1. phase # "replaying" /\ phase' # "replaying" /\ UNCHANGED <<panel, budget>>
    BY <1>2 DEF Next, SolveStage, WriteTable, SkipRace, PlanRace, PlanFails, WriteBundle, Tick,
                Import, Submit, StartPaper, StopPaper, Planning, planner
  <2>2. UNCHANGED <<strategy, points, frozen, outcomes>>
    BY <1>2 DEF replay
  <2>3. ReplayTypes' /\ strategy' # "target"
    BY <1>1, <2>1, <2>2 DEF ReplayTypes
  <2>4. QED
    BY <2>3, NoReplay
<1>3. CASE StartReplay
  <2>1. /\ phase = "planning" /\ phase' = "replaying" /\ strategy' \in {"target", "table"}
        /\ UNCHANGED <<points, frozen, outcomes, spec, panel, budget>>
    BY <1>3 DEF StartReplay
  <2>2. points = budget /\ ~frozen /\ outcomes = <<>> /\ budget \in Nat
    BY <1>1, <2>1, DayAssumption DEF ReplayTypes, SolvedInv
  <2>3. ReplayTypes'
    BY <1>1, <2>1 DEF ReplayTypes
  <2>4. DOMAIN outcomes' = {} /\ Bought' = {}
    BY <2>1, <2>2 DEF Bought
  <2>5. points' <= budget'
    BY <2>1, <2>2
  <2>6. QED
    BY <2>3, <2>4, <2>5
       DEF ReplayInv, ProfitInv, GrantedInv, ProfitIsKept, OneHitReachesTarget,
           LaterRacesGetMore
<1>4. CASE ReplaySkip
  BY <1>1, <1>4, SkipStep
<1>5. CASE ReplayBet
  BY <1>1, <1>5, BetStep
<1>6. CASE UNCHANGED <<vars, replay>>
  BY <1>6 DEF vars, planner, replay, ReplayInv, ReplayTypes, ProfitInv, GrantedInv, SlotsLeft,
              ProfitIsKept, OneHitReachesTarget, LaterRacesGetMore, Bought
<1>7. QED
  BY <1>2, <1>3, <1>4, <1>5, <1>6 DEF PipelineNext

-----------------------------------------------------------------------------
(* What always holds of a replay. *)

\* The inductive invariant of the back test: the bank behind the outcomes, what the
\* next race is given, and a profitable day at rest.
THEOREM ReplayInvariant == PipelineSpec => [](SolvedInv /\ ReplayInv)
<1>1. PipelineInit => PlannerInv /\ ReplayInv
  BY PlannerStarts, ReplayStarts DEF PipelineInit
<1>2. PlannerInv /\ ReplayInv /\ [PipelineNext]_<<vars, replay>> => (PlannerInv /\ ReplayInv)'
  BY PlannerSteps, ReplaySteps
<1>3. PlannerInv => SolvedInv
  BY DEF PlannerInv
<1>4. QED
  BY <1>1, <1>2, <1>3, PTL DEF PipelineSpec

\* "0/1 knapsack over the shortlist" (allocate.py): no set of shortlisted tickets
\* within the allowance is likelier to hit than the one that is bought.
THEOREM KnapsackBuysBest == PipelineSpec => []KnapsackIsOptimal
<1>1. SolvedInv /\ ReplayInv => KnapsackIsOptimal
  <2> SUFFICES ASSUME SolvedInv, ReplayInv, Replaying, strategy = "target",
                      TargetCall.tickets # <<>>
               PROVE  AreBest(TargetCall.tickets,
                              ShortlistFor(Candidates(Race), points, TargetCall.allowance,
                                           spec.goal),
                              TargetCall.allowance)
    BY DEF KnapsackIsOptimal, AreBest, ShortlistFor, StakesAt, DrawsAt, DrawsOf
  <2>1. QED
    BY TargetCallParts DEF ReplayInv
<1>2. QED
  BY <1>1, ReplayInvariant, PTL

\* "size every ticket to close the gap to goal in one hit" (backtest.py): a winning
\* ticket that returns its discounted odds brings the bank to the goal.
THEOREM HitReachesTarget == PipelineSpec => []OneHitReachesTarget
<1>1. SolvedInv /\ ReplayInv => OneHitReachesTarget
  BY DEF ReplayInv
<1>2. QED
  BY <1>1, ReplayInvariant, PTL

\* "Later races get more. Unused budget rolls forward." (allocate.py): the allowance
\* never shrinks from one race to a later one, whatever was lost in between.
THEOREM AllowancesGrow == PipelineSpec => []LaterRacesGetMore
<1>1. SolvedInv /\ ReplayInv => LaterRacesGetMore
  BY DEF ReplayInv
<1>2. QED
  BY <1>1, ReplayInvariant, PTL

\* "stop once a hit has made the day profitable" (backtest.py): a bank above the
\* first one is never put at risk again.
THEOREM ProfitStays == PipelineSpec => []ProfitIsKept
<1>1. SolvedInv /\ ReplayInv => ProfitIsKept
  BY DEF ReplayInv
<1>2. QED
  BY <1>1, ReplayInvariant, PTL

\* command_backtest: a row of the table never asks for more than the replay's bank,
\* although rows are sized for grid points and may be taken over from poorer ones.
THEOREM TableFitsBank == PipelineSpec => []TableIsAffordable
<1>1. SolvedInv /\ ReplayInv => TableIsAffordable
  BY TableTicketsParts DEF TableIsAffordable, ReplayInv
<1>2. QED
  BY <1>1, ReplayInvariant, PTL
=============================================================================
