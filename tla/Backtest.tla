------------------------------ MODULE Backtest ------------------------------
(***************************************************************************)
(* pykeiba backtest: a panel replayed race by race with the target         *)
(* strategy (allocate.py) or with the solved table.  It starts where plan  *)
(* does, from the solved table, the panel and a bank, and keeps its own    *)
(* bank: tickets settle at the official dividend, whatever the bet-time    *)
(* price was, and a result may be missing.                                 *)
(***************************************************************************)
EXTENDS PlanDay, Allocation

CONSTANT Dividends      \* what a combination may return per point

ASSUME BacktestAssumption == Dividends \subseteq Nat \ {0} /\ BetUnit = StakeUnit

VARIABLES
    strategy,           \* "target", "table", or "none" while no replay runs
    points, frozen,     \* run_target_strategy: bank, frozen
    outcomes            \* the RaceOutcomes so far

replay == <<strategy, points, frozen, outcomes>>

ReplayInit == strategy = "none" /\ points = budget /\ frozen = FALSE /\ outcomes = <<>>

-----------------------------------------------------------------------------
(* What the strategy buys in the next race. *)

Replaying == phase = "replaying" /\ Len(outcomes) < Len(panel)

Race == panel[Len(outcomes) + 1]

SlotsLeft == Len(panel) - Len(outcomes)

NoMarket == Race.quotes = <<>>

Call(allowance, tickets) == [allowance |-> allowance, tickets |-> tickets]

TargetAllocation ==
    Allocate(Candidates(Race), points, RaceAllowance(points, SlotsLeft, Len(panel)),
             spec.goal, SlotsLeft = 1)

TargetCall ==
    IF frozen \/ NoMarket THEN Call(0, <<>>)
    ELSE Call(TargetAllocation.allowance, TargetAllocation.tickets)

\* The horizon of the table is the whole contest, as in the plan command.
Horizon == Greater(1, spec.races - Len(outcomes))

\* Mutant: the row of the bank the day began with.
BadReplayRow == RowFor(spec, table, Horizon, budget)

ReplayRow == RowFor(spec, table, Horizon, points)

TableTickets ==
    LET picks == PickNearOdds(Race, ReplayRow.tickets)
    IN  [i \in DOMAIN picks |->
            [combination |-> picks[i], odds |-> ReplayRow.odds, stake |-> ReplayRow.stake_each]]

TableCall ==
    IF \/ points >= spec.goal \/ ReplayRow.tickets = 0 \/ NoMarket
       \/ ReplayRow.stake_each < StakeUnit \/ Paid(TableTickets) > points
    THEN Call(0, <<>>) ELSE Call(0, TableTickets)

StrategyCall == IF strategy = "target" THEN TargetCall ELSE TableCall

-----------------------------------------------------------------------------
(* Settlement. *)

\* A race without a finish, one whose dividends were not captured, and one where
\* a combination paid: 0 stands for any that is not quoted.
Results ==
    {[finish |-> FALSE, payouts |-> <<>>], [finish |-> TRUE, payouts |-> <<>>]}
    \union {[finish |-> TRUE, payouts |-> p] :
              p \in UNION {[{c} -> Dividends] :
                              c \in {0} \union DOMAIN Race.quotes}}

Known(result) == result.finish /\ result.payouts # <<>>

Winning(result, tickets) ==
    {i \in DOMAIN tickets : tickets[i].combination \in DOMAIN result.payouts}

Return(result, ticket) == ticket.stake * result.payouts[ticket.combination]

\* Stakes are whole units and dividends whole points per unit: nothing to round.
Settle(result, tickets) ==
    LET won == IF Known(result) THEN Winning(result, tickets) ELSE {}
    IN  [payout |-> SumFunction([i \in won |-> Return(result, tickets[i])]), hit |-> won # {}]

\* As priced: some winning ticket returned at least its discounted bet-time odds.
AsPriced(result, tickets) ==
    Known(result) /\ \E i \in Winning(result, tickets) :
        result.payouts[tickets[i].combination] * FactorDen >= tickets[i].odds * FactorNum

Outcome(call, settlement, as_priced) ==
    [stake |-> Paid(call.tickets), allowance |-> call.allowance,
     after |-> points - Paid(call.tickets) + settlement.payout, as_priced |-> as_priced]

-----------------------------------------------------------------------------
(* Steps. *)

\* command_backtest: the panel and the strategy; the table is there for both.
StartReplay ==
    /\ phase = "planning" /\ index = 0 /\ clock = 0 /\ ~created_now
    /\ phase' = "replaying" /\ strategy' \in {"target", "table"}
    /\ UNCHANGED <<points, frozen, outcomes>>
    /\ UNCHANGED <<spec, table, panel, budget, created_now, index, bank, clock, plans,
                   bundle, paperVars>>

ReplaySkip ==
    /\ Replaying /\ StrategyCall.tickets = <<>>
    /\ outcomes' = Append(outcomes,
            Outcome(StrategyCall, [payout |-> 0, hit |-> FALSE], FALSE))
    /\ UNCHANGED <<strategy, points, frozen, planner, paperVars>>

\* Mutant: the replay goes on betting after a hit.
BadReplayBet ==
    /\ Replaying /\ StrategyCall.tickets # <<>>
    /\ \E result \in Results :
          LET tickets == StrategyCall.tickets settlement == Settle(result, tickets)
          IN  /\ points' = points - Paid(tickets) + settlement.payout
              /\ outcomes' = Append(outcomes, Outcome(StrategyCall, settlement,
                                                      AsPriced(result, tickets)))
              /\ UNCHANGED <<strategy, frozen, planner, paperVars>>

ReplayBet ==
    /\ Replaying /\ StrategyCall.tickets # <<>>
    /\ \E result \in Results :
          LET tickets == StrategyCall.tickets settlement == Settle(result, tickets)
          IN  /\ points' = points - Paid(tickets) + settlement.payout
              /\ outcomes' = Append(outcomes, Outcome(StrategyCall, settlement,
                                                      AsPriced(result, tickets)))
              /\ frozen' = (frozen \/ (strategy = "target" /\ settlement.hit /\ points' > budget))
    /\ UNCHANGED <<strategy, planner, paperVars>>

PipelineInit == Init /\ ReplayInit

PipelineNext ==
    \/ Next /\ UNCHANGED replay
    \/ StartReplay \/ ReplaySkip \/ ReplayBet

PipelineSpec == PipelineInit /\ [][PipelineNext]_<<vars, replay>>

-----------------------------------------------------------------------------
(* Properties *)

\* "0/1 knapsack over the shortlist" (allocate.py): no set of shortlisted tickets
\* within the allowance is likelier to hit than the one that is bought.
KnapsackIsOptimal ==
    Replaying /\ strategy = "target" /\ TargetCall.tickets # <<>> =>
        LET call == TargetCall
            shortlist == Shortlist(Options(Candidates(Race), points, call.allowance, spec.goal))
            stakes(S) == MapThenSumSet(LAMBDA i : shortlist[i].stake, S)
            draws(S) == MapThenSumSet(LAMBDA i : shortlist[i].draws, S)
            bought == FoldLeft(LAMBDA sum, t : sum + t.draws, 0, call.tickets)
        IN  /\ Paid(call.tickets) <= call.allowance
            /\ \A S \in SUBSET (DOMAIN shortlist) :
                  stakes(S) <= call.allowance => draws(S) <= bought

Bought == {i \in DOMAIN outcomes : outcomes[i].stake > 0}

\* "size every ticket to close the gap to goal in one hit" (backtest.py): whatever
\* the other tickets of the race cost, a winning ticket that returns its discounted
\* odds brings the bank to the goal.
OneHitReachesTarget ==
    strategy = "target" =>
        \A i \in Bought : outcomes[i].as_priced => outcomes[i].after >= spec.goal

\* "Later races get more. Unused budget rolls forward." (allocate.py): the allowance
\* never shrinks from one race to a later one, whatever was lost in between.
LaterRacesGetMore ==
    strategy = "target" =>
        \A i, j \in Bought : i < j => outcomes[i].allowance <= outcomes[j].allowance

\* "stop once a hit has made the day profitable" (backtest.py): a bank above the
\* first one is never put at risk again.
ProfitIsKept ==
    strategy = "target" =>
        \A i \in DOMAIN outcomes : outcomes[i].after > budget => points = outcomes[i].after

\* A row of the table never asks for more than the replay's bank, although rows are
\* sized for grid points and may be taken over from poorer ones.
TableIsAffordable ==
    Replaying /\ strategy = "table" /\ points < spec.goal => Paid(TableTickets) <= points
=============================================================================
