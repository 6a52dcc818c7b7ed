---------------------------- MODULE PlanContract ----------------------------
(***************************************************************************)
(* A day's plan document and its two implementations: pykeiba/plan.py,     *)
(* which writes it, and internal/voting/types.go, which admits it.         *)
(*                                                                         *)
(* Race ids and times are numbers.  A plan's bet ids are all of one pool,  *)
(* so the pool is noted once and a bet is the horses of its combination.   *)
(* Hashes, schema numbers and provenance are left out: the file is not     *)
(* changed on its way.                                                     *)
(***************************************************************************)
EXTENDS Integers, SequencesExt, Ordering

CONSTANTS
    StakeUnit,                  \* submission.stake_unit, 100 points
    TargetOffset, CutoffOffset, \* timing: instants before the post time
    Lead,                       \* created_at's default distance to the target
    DayLength, ConnectionDate,  \* dates are counted from 0
    MaxBetsPerRace, MaxRaces, MaxStakePerRace, MaxDailyTotalStake,
    AllowedPools                \* allowed_bet_id_patterns, one per pool

\* The official pools and how many numbers a combination of each has.
PoolNumbers ==
    [win |-> 1, place |-> 1, wakuren |-> 2, umaren |-> 2, wide |-> 2, umatan |-> 2,
     sanrenpuku |-> 3, sanrentan |-> 3]

Pools == DOMAIN PoolNumbers

ASSUME ContractAssumption ==
    /\ {StakeUnit, TargetOffset, CutoffOffset, Lead, DayLength} \subseteq Nat \ {0}
    /\ CutoffOffset < TargetOffset
    /\ ConnectionDate \in Nat
    /\ {MaxRaces, MaxStakePerRace, MaxDailyTotalStake} \subseteq Nat
    /\ MaxBetsPerRace \in 1..200 /\ AllowedPools \subseteq Pools
    /\ MaxBetsPerRace > 1 => AllowedPools = Pools

DateOf(time) == time \div DayLength

-----------------------------------------------------------------------------
(* The planner's side. *)

\* Mutant: the files in the order of their names.
BadLoadPanel(races) == Ordered(races, LAMBDA r, q : r.id < q.id)

\* load_panel: the day's race files by post time and then by id.
LoadPanel(races) ==
    Ordered(races, LAMBDA r, q : r.post < q.post \/ (r.post = q.post /\ r.id < q.id))

\* The marks of the eighteen best priced horses, four for all behind the third.
MarksFromWinOdds(win) ==
    LET marked == {rank \in DOMAIN win : rank <= 18}
        rankOf(horse) == CHOOSE rank \in marked : win[rank] = horse
    IN  [horse \in {win[rank] : rank \in marked} |->
            IF rankOf(horse) < 4 THEN rankOf(horse) ELSE 4]

\* pick_near_odds: the first of the race's quotes, as many as asked for.
PickNearOdds(race, count) ==
    [rank \in {r \in 1..count : r <= Len(race.quotes)} |-> rank]

Horses == 1..18

\* bet_id of a trifecta: load_race has seen to three different horses.
Nameable(race, picks) ==
    \A i \in DOMAIN picks : Range(race.quotes[picks[i]].horses) \subseteq Horses

Target(race) == race.post - TargetOffset

Deadline(race) == race.post - CutoffOffset

\* What build_plan checks before it writes anything.
Buildable(race, stake, created) ==
    stake > 0 /\ stake % StakeUnit = 0 /\ created < Deadline(race)

BuildPlan(race, picks, stake, created) ==
    [race_id |-> race.id, race_date |-> DateOf(race.post), created |-> created,
     post |-> race.post, target |-> Target(race), deadline |-> Deadline(race),
     mark |-> MarksFromWinOdds(race.win), pool |-> "sanrentan",
     bets |-> [i \in DOMAIN picks |->
                  [bet |-> race.quotes[picks[i]].horses, money |-> stake]]]

BuildBundle(plans, created) ==
    [race_date |-> plans[1].race_date, created |-> created, plans |-> plans]

-----------------------------------------------------------------------------
(* The daemon's side. *)

PayloadStake(plan) == FoldLeft(LAMBDA sum, b : sum + b.money, 0, plan.bets)

TotalStake(plans) == FoldLeft(LAMBDA sum, p : sum + PayloadStake(p), 0, plans)

Marked(plan, code) == {horse \in DOMAIN plan.mark : plan.mark[horse] = code}

AtMostOne(S) == \A x, y \in S : x = y

ValidMark(plan) ==
    /\ DOMAIN plan.mark # {} /\ DOMAIN plan.mark \subseteq Horses
    /\ \A horse \in DOMAIN plan.mark : plan.mark[horse] \in 1..4
    /\ Marked(plan, 1) # {}
    /\ \A code \in 1..3 : AtMostOne(Marked(plan, code))

\* ValidateBetID: only brackets may repeat, and an unordered pool has one order.
ValidBetID(pool, bet) ==
    LET bracket == pool = "wakuren"
    IN  /\ Len(bet) = PoolNumbers[pool]
        /\ \A i \in DOMAIN bet : bet[i] \in (IF bracket THEN 1..8 ELSE Horses)
        /\ \A i, j \in DOMAIN bet : i < j =>
              /\ bracket \/ bet[i] # bet[j]
              /\ pool \in {"wakuren", "umaren", "wide", "sanrenpuku"} => bet[i] <= bet[j]

ValidBets(plan) ==
    /\ plan.bets # <<>> /\ plan.pool \in AllowedPools
    /\ \A i \in DOMAIN plan.bets : ValidBetID(plan.pool, plan.bets[i].bet)
    /\ \A i, j \in DOMAIN plan.bets : plan.bets[i].bet = plan.bets[j].bet => i = j
    /\ \A i \in DOMAIN plan.bets :
          plan.bets[i].money > 0 /\ plan.bets[i].money % StakeUnit = 0

WithinRaceLimits(plan) ==
    Len(plan.bets) <= MaxBetsPerRace /\ PayloadStake(plan) <= MaxStakePerRace

ValidTimes(plan) ==
    /\ plan.target < plan.deadline /\ plan.deadline < plan.post
    /\ plan.created < plan.deadline
    /\ DateOf(plan.post) = plan.race_date
    /\ plan.target = plan.post - TargetOffset
    /\ plan.deadline = plan.post - CutoffOffset

ValidatePlan(plan) ==
    /\ plan.race_date = ConnectionDate
    /\ ValidTimes(plan) /\ ValidMark(plan) /\ ValidBets(plan)
    /\ WithinRaceLimits(plan)

Sorted(plans) ==
    \A i \in 2..Len(plans) :
        \/ plans[i - 1].target < plans[i].target
        \/ plans[i - 1].target = plans[i].target /\ plans[i - 1].race_id <= plans[i].race_id

WithinDayLimits(plans) ==
    Len(plans) <= MaxRaces /\ TotalStake(plans) <= MaxDailyTotalStake

ValidateBundle(bundle) ==
    /\ bundle.race_date = ConnectionDate
    /\ bundle.plans # <<>>
    /\ \A i \in DOMAIN bundle.plans :
          /\ ValidatePlan(bundle.plans[i])
          /\ bundle.plans[i].created = bundle.created
    /\ \A i, j \in DOMAIN bundle.plans :
          bundle.plans[i].race_id = bundle.plans[j].race_id => i = j
    /\ Sorted(bundle.plans)
    /\ WithinDayLimits(bundle.plans)
=============================================================================
