------------------------------ MODULE VotePlan ------------------------------
(***************************************************************************)
(* The contest's plan writers for its first weeks: build_vote_plan.py, by  *)
(* the policy table or by the one-hit strategy of the tail day, and        *)
(* sanrentan3_plan.py.                                                     *)
(*                                                                         *)
(* A snapshot holds the horses of the win market by price and, per pool,   *)
(* the rows of its odds surface as parse_comb reads them, in the order in  *)
(* which pick ranks them for the instruction at hand.  What pick ranks by  *)
(* is data; that it cuts a list that may be too short, or hold a           *)
(* combination twice or one that is none, is not.                          *)
(***************************************************************************)
EXTENDS PlanContract, Allocation

CONSTANTS
    Table,          \* policy_table_v17.json: <<races remaining, bank>> to a row
    TableRaces, BankGrid, PerRaceCap,
    FrontRaces, TailFloor,      \* floor_schedule
    MinTurnover,
    TailPolicy,     \* tail_policy.json
    FixedTickets, FixedStake    \* sanrentan3_plan.py

\* Stakes are multiples of the unit of 100 points.
WholeUnits(points) == points % StakeUnit = 0

\* The files as they were frozen: every row of the table is whole and within the cap,
\* and there is one for an empty bank; the tail strategy bets one ticket a race and
\* keeps one unit for each later one.
ASSUME TableAssumption ==
    /\ {TableRaces, BankGrid, PerRaceCap, FrontRaces, TailFloor, MinTurnover} \subseteq Nat \ {0}
    /\ BetUnit = StakeUnit /\ WholeUnits(PerRaceCap) /\ WholeUnits(TailFloor) /\ TailFloor <= PerRaceCap
    /\ IsFiniteSet(DOMAIN Table)
    /\ \A key \in DOMAIN Table :
          /\ key \in (1..TableRaces) \X Nat /\ key[2] % BankGrid = 0
          /\ Table[key] \in [pool : STRING, tickets : Nat, stake : Nat]
          /\ Table[key].tickets > 0 =>
                Table[key].stake \in StakeUnit..PerRaceCap /\ WholeUnits(Table[key].stake)
    /\ \A remaining \in 1..TableRaces : <<remaining, 0>> \in DOMAIN Table

ASSUME TailAssumption ==
    /\ {TailPolicy.turnover, TailPolicy.races, TailPolicy.stake, TailPolicy.base,
        TailPolicy.most, TailPolicy.buffer, TailPolicy.age} \subseteq Nat
    /\ TailPolicy.odds \in Nat /\ TailPolicy.odds >= 2
    /\ TailPolicy.tickets = 1 /\ TailPolicy.future = StakeUnit
    /\ WholeUnits(TailPolicy.turnover) /\ WholeUnits(TailPolicy.stake)

ASSUME FixedAssumption == {FixedTickets, FixedStake} \subseteq Nat \ {0} /\ WholeUnits(FixedStake)

NoPlan == [race_id |-> 0]

-----------------------------------------------------------------------------
(* The market snapshot. *)

\* parse_comb knows the horses 1 to 18, not how many a combination has or that they
\* differ; an unreadable one is <<>>.
Quoted == [horses : Seq(Horses), odds : Nat, draws : Nat]

Ascending(horses) == \A i, j \in DOMAIN horses : i < j => horses[i] <= horses[j]

\* The numbers are sorted in all pools but the ordered ones.
IsMarket(snapshot) ==
    /\ snapshot.win \in Seq(Horses)
    /\ DOMAIN snapshot.rows \subseteq Pools
    /\ \A pool \in DOMAIN snapshot.rows :
          /\ snapshot.rows[pool] \in Seq(Quoted)
          /\ pool \notin {"umatan", "sanrentan"} =>
                \A i \in DOMAIN snapshot.rows[pool] : Ascending(snapshot.rows[pool][i].horses)
    /\ {"place", "sanrentan", TailPolicy.pool} \subseteq DOMAIN snapshot.rows
    /\ \A key \in DOMAIN Table : Table[key].pool \in DOMAIN snapshot.rows

\* load_surface: rows without odds or without a readable combination go.
LoadSurface(rows) ==
    Subsequence(rows, {i \in DOMAIN rows : rows[i].odds > 0 /\ rows[i].horses # <<>>})

\* win market first: without it no candidate can be scored.
PickRows(snapshot, pool, count) ==
    IF snapshot.win = <<>> THEN <<>>
    ELSE LET rows == LoadSurface(snapshot.rows[pool])
         IN  SubSeq(rows, 1, Lesser(Len(rows), count))

\* marks_from_market: the four best priced horses.
MarksFromMarket(win) ==
    LET top == SubSeq(win, 1, Lesser(4, Len(win)))
    IN  [horse \in Range(top) |-> RankOf(top, horse, 4)]

\* The envelope every script writes.
Envelope(race, snapshot, now, pool, bets) ==
    [race_id |-> race.id, race_date |-> DateOf(race.post), created |-> now,
     post |-> race.post, target |-> Target(race), deadline |-> Deadline(race),
     mark |-> MarksFromMarket(snapshot.win), pool |-> pool, bets |-> bets]

Tickets(rows, stake) == [i \in DOMAIN rows |-> [bet |-> rows[i].horses, money |-> stake]]

-----------------------------------------------------------------------------
(* The instruction: pool, tickets, stake, floor. *)

\* Mutant: a fixed share of the turnover for each race.
BadCurrentFloor(ledger) ==
    IF ledger.turnover >= MinTurnover THEN TailFloor
    ELSE Lesser(PerRaceCap, RoundUp(MinTurnover, FrontRaces * StakeUnit) * StakeUnit)

CurrentFloor(ledger) ==
    LET left == Greater(1, FrontRaces - ledger.front_races_done)
        need == RoundUp(MinTurnover - ledger.turnover, left * StakeUnit) * StakeUnit
    IN  IF ledger.turnover >= MinTurnover THEN TailFloor
        ELSE Lesser(PerRaceCap, Greater(TailFloor, need))

\* The row of the bank's grid point or, if it has none, of the next poorer one.
Rows(ledger) ==
    LET remaining == Greater(1, Lesser(TableRaces, ledger.races_remaining))
    IN  {key \in DOMAIN Table : key[1] = remaining /\ key[2] <= Greater(0, ledger.bank)}

Lookup(ledger) ==
    Table[CHOOSE key \in Rows(ledger) : \A other \in Rows(ledger) : other[2] <= key[2]]

TableInstruction(ledger) ==
    LET row == Lookup(ledger) floor == CurrentFloor(ledger)
    IN  IF row.tickets = 0
        THEN [pool |-> "place", tickets |-> 1, stake |-> Greater(floor, StakeUnit),
              floor |-> floor]
        ELSE [pool |-> row.pool, tickets |-> row.tickets, stake |-> row.stake, floor |-> floor]

\* A fresh ranking file raises the goal; an old or unreadable one does not.
EffectiveGoal(ranking, date, now) ==
    LET proposed == Greater(ranking.goal, ranking.leader + TailPolicy.buffer)
        rounded == RoundUp(Greater(proposed, StakeUnit), StakeUnit) * StakeUnit
    IN  IF /\ ranking.readable /\ ranking.date = date
           /\ ranking.captured <= now /\ now - ranking.captured <= TailPolicy.age
        THEN Lesser(TailPolicy.most, Greater(TailPolicy.base, rounded))
        ELSE TailPolicy.base

CeilUnit(n, d) == RoundUp(Greater(n, d * StakeUnit), d * StakeUnit) * StakeUnit

TurnoverNeed(ledger) == Greater(0, TailPolicy.turnover - ledger.turnover)

CountNeed(ledger) == Greater(0, TailPolicy.races - ledger.races_bet)

\* Mutant: nothing is kept for the races that still have to be bet.
BadOneHit(ledger, goal) == CeilUnit(goal - ledger.bank, TailPolicy.odds)

\* The stake whose hit reaches the goal after what must still be spent.
OneHit(ledger, goal) ==
    LET need == TurnoverNeed(ledger)
        reserve == TailPolicy.future * Greater(0, CountNeed(ledger) - 1)
        first == CeilUnit(goal + need - ledger.bank, TailPolicy.odds)
    IN  IF need - first >= reserve THEN first
        ELSE Greater(CeilUnit(need - reserve, 1),
                     CeilUnit(goal + reserve - ledger.bank, TailPolicy.odds - 1))

QualificationFloor(ledger) ==
    IF CountNeed(ledger) > 0 /\ TurnoverNeed(ledger) > 0
    THEN CeilUnit(TurnoverNeed(ledger), CountNeed(ledger)) ELSE StakeUnit

WantedOneHit(ledger, goal) == Greater(OneHit(ledger, goal), QualificationFloor(ledger))

\* one_hit_reserve_instruction: a stake below the unit refuses the race.
TailInstruction(ledger, goal) ==
    LET capped == Lesser(Lesser(TailPolicy.stake, PerRaceCap), WantedOneHit(ledger, goal))
    IN  [pool |-> TailPolicy.pool, tickets |-> TailPolicy.tickets,
         stake |-> Lesser(capped, (ledger.bank \div StakeUnit) * StakeUnit),
         floor |-> QualificationFloor(ledger)]

-----------------------------------------------------------------------------
(* The scripts: a plan, or NoPlan where they refuse the race. *)

\* More tickets up to the floor, fewer down to the cap.
FitTickets(instruction) ==
    LET stake == instruction.stake
        raised == IF stake * instruction.tickets < instruction.floor
                  THEN Greater(instruction.tickets, RoundUp(instruction.floor, stake))
                  ELSE instruction.tickets
    IN  IF stake * raised > PerRaceCap THEN Greater(1, PerRaceCap \div stake) ELSE raised

\* Mutant: no look at the deadline.
BadBuildVotePlan(race, snapshot, now, bank, instruction) ==
    LET count == FitTickets(instruction)
        chosen == PickRows(snapshot, instruction.pool, count)
    IN  IF instruction.stake < StakeUnit \/ instruction.stake * count > bank \/ Len(chosen) < count
        THEN NoPlan
        ELSE Envelope(race, snapshot, now, instruction.pool, Tickets(chosen, instruction.stake))

BuildVotePlan(race, snapshot, now, bank, instruction) ==
    LET count == FitTickets(instruction)
        chosen == PickRows(snapshot, instruction.pool, count)
    IN  IF \/ instruction.stake < StakeUnit \/ instruction.stake * count > bank
           \/ Len(chosen) < count \/ now >= Deadline(race)
        THEN NoPlan
        ELSE Envelope(race, snapshot, now, instruction.pool, Tickets(chosen, instruction.stake))

Captured(snapshot) == snapshot.complete /\ "sanrentan" \in snapshot.offered

BuildSanrentan3(race, snapshot, now) ==
    LET chosen == PickRows(snapshot, "sanrentan", FixedTickets)
    IN  IF ~Captured(snapshot) \/ Len(chosen) # FixedTickets \/ now >= Deadline(race)
        THEN NoPlan
        ELSE Envelope(race, snapshot, now, "sanrentan", Tickets(chosen, FixedStake))
=============================================================================
