----------------------------- MODULE Allocation -----------------------------
(***************************************************************************)
(* pykeiba/allocate.py: which combinations of a race the target strategy   *)
(* buys, and for how much.                                                 *)
(*                                                                         *)
(* A race has its horses by win price, no two of the same one, and its     *)
(* quotes: the horses of a combination, the bet-time odds and the          *)
(* probability, a number of draws as in PolicyTable.  odds_factor is       *)
(* FactorNum / FactorDen; all comparisons are made on whole numbers.       *)
(***************************************************************************)
EXTENDS Integers, SequencesExt, Ordering

CONSTANTS
    BetUnit,                \* STAKE_UNIT, 100 points
    FactorNum, FactorDen,   \* odds_factor
    MaxShortlist,           \* MAX_SHORTLIST
    MinOdds, MaxOdds        \* CandidateFilter's price band

ASSUME AllocationAssumption ==
    /\ {BetUnit, FactorNum, FactorDen, MaxShortlist} \subseteq Nat \ {0}
    /\ FactorNum <= FactorDen
    /\ MinOdds \in Nat \ {0} /\ MaxOdds \in Nat

Lesser(m, n) == IF m <= n THEN m ELSE n
Greater(m, n) == IF m >= n THEN m ELSE n

RoundUp(m, n) == (m + n - 1) \div n

-----------------------------------------------------------------------------
(* Candidates. *)

OutsiderRank(runners) == Greater(4, Lesser(7, RoundUp(runners, 2) + 1))

\* A horse that the win market lists twice has its last rank.
RankOf(win, horse, unlisted) ==
    IF horse \in Range(win) THEN Max({i \in DOMAIN win : win[i] = horse}) ELSE unlisted

\* No favourite in the first place, and a horse from the back of the market.
Longshot(win, quote, unlisted) ==
    /\ MinOdds <= quote.odds /\ quote.odds <= MaxOdds
    /\ quote.horses[1] # win[1]
    /\ \E horse \in Range(quote.horses) :
          RankOf(win, horse, unlisted) >= OutsiderRank(Cardinality(Range(win)))

\* The quote at a position of a market, named by the position.
Offer(quotes, i) ==
    [combination |-> i, odds |-> quotes[i].odds, draws |-> quotes[i].draws]

Candidates(race) ==
    {Offer(race.quotes, i) :
        i \in {j \in DOMAIN race.quotes : Longshot(race.win, race.quotes[j], 99)}}

-----------------------------------------------------------------------------
(* The budget of a race. *)

\* Mutant: the first race has the largest weight.
BadSlotWeight(remaining, total) == remaining

SlotWeight(remaining, total) == total - remaining + 1

\* The sum of the weights of the slots that are left.
WeightsLeft(remaining, total) ==
    (remaining * (SlotWeight(remaining, total) + total)) \div 2

RaceAllowance(budget, remaining, total) ==
    (((budget * SlotWeight(remaining, total)) \div WeightsLeft(remaining, total))
        \div BetUnit) * BetUnit

-----------------------------------------------------------------------------
(* The stakes. *)

Usable(bank, allowance) == (Lesser(bank, allowance) \div BetUnit) * BetUnit

\* What one hit must bring when the whole allowance is spent.
RequiredReturn(bank, allowance, target) == target - bank + allowance

\* Mutant: sized for the bet-time odds, without the discount.
BadStakeFor(odds, required) == RoundUp(required, odds * BetUnit) * BetUnit

\* The smallest stake that brings the required return at the discounted odds.
StakeFor(odds, required) ==
    RoundUp(required * FactorDen, odds * FactorNum * BetUnit) * BetUnit

Options(quotes, bank, allowance, target) ==
    LET stake(q) == StakeFor(q.odds, RequiredReturn(bank, allowance, target))
    IN  {[combination |-> q.combination, odds |-> q.odds, draws |-> q.draws,
          stake |-> stake(q)] :
            q \in {c \in quotes : 0 < stake(c) /\ stake(c) <= allowance}}

\* Probability per point, then probability, then the combination.
Shortlist(options) ==
    LET worth(a, b) == a.draws * b.stake - b.draws * a.stake
        before(a, b) ==
            \/ worth(a, b) > 0
            \/ worth(a, b) = 0 /\ a.draws > b.draws
            \/ worth(a, b) = 0 /\ a.draws = b.draws /\ a.combination < b.combination
        sorted == Ordered(options, before)
    IN  SubSeq(sorted, 1, Lesser(Len(sorted), MaxShortlist))

-----------------------------------------------------------------------------
(* The 0/1 knapsack in units, and the way back through its choices. *)

Consider(knapsack, option) ==
    LET capacity == Len(knapsack.value) - 1
        cost == option.stake \div BetUnit
        proposed(c) == knapsack.value[c + 1 - cost] + option.draws
        improved == {c \in cost..capacity : proposed(c) > knapsack.value[c + 1]}
    IN  [value |-> [i \in 1..(capacity + 1) |-> IF i - 1 \in improved THEN proposed(i - 1)
                                                ELSE knapsack.value[i]],
         chosen |-> Append(knapsack.chosen, improved)]

\* Mutant: the way back does not free what a ticket cost.
BadPick(shortlist, allowance) ==
    LET capacity == allowance \div BetUnit
        full == FoldLeft(Consider, [value |-> [i \in 1..(capacity + 1) |-> 0], chosen |-> <<>>],
                         shortlist)
    IN  {shortlist[i] : i \in {j \in DOMAIN shortlist : capacity \in full.chosen[j]}}

Pick(shortlist, allowance) ==
    LET capacity == allowance \div BetUnit
        full == FoldLeft(Consider, [value |-> [i \in 1..(capacity + 1) |-> 0], chosen |-> <<>>],
                         shortlist)
        back(i, way) ==
            IF way.used \in full.chosen[i]
            THEN [used |-> way.used - shortlist[i].stake \div BetUnit,
                  picked |-> way.picked \union {shortlist[i]}]
            ELSE way
    IN  FoldRight(back, [i \in DOMAIN shortlist |-> i],
                  [used |-> capacity, picked |-> {}]).picked

Paid(tickets) == FoldLeft(LAMBDA sum, t : sum + t.stake, 0, tickets)

\* The last race spends what rounding left over on its best ticket.
TopUp(tickets, allowance, remainder) ==
    IF remainder /\ tickets # <<>>
    THEN [tickets EXCEPT ![1].stake = @ + allowance - Paid(tickets)]
    ELSE tickets

\* No ticket once the target is met, or when the race's budget buys none.
Allocate(quotes, bank, granted, target, remainder) ==
    LET allowance == Usable(bank, granted)
        options == Options(quotes, bank, allowance, target)
        likelier(a, b) == \/ a.draws > b.draws
                          \/ a.draws = b.draws /\ a.combination < b.combination
        picked == Ordered(Pick(Shortlist(options), allowance), likelier)
    IN  [allowance |-> allowance,
         tickets |-> IF bank >= target \/ allowance < BetUnit THEN <<>>
                     ELSE TopUp(picked, allowance, remainder)]
=============================================================================
