------------------------------ MODULE PlanDay ------------------------------
(***************************************************************************)
(* From the policy table to the recorded paper votes: pykeiba policy-table *)
(* (solve), pykeiba plan (command_plan), the daemon's check of the bundle  *)
(* at import, and the paper driver that takes the votes.  The planner      *)
(* reads the clock once per plan and once more for the bundle.             *)
(***************************************************************************)
EXTENDS PolicyTable, PlanContract, PaperDriver

CONSTANTS
    Specs,      \* the policy specifications that may be solved
    Panels,     \* the sets of race files a date's directory may hold
    Budgets,    \* values of --bank
    MaxClock    \* bound: the planner is done before this instant passes

\* What load_race lets through: three quoted runners at least, different horses in
\* each combination and each combination once.
IsRaceFile(race) ==
    /\ race.win \in Seq(Nat) /\ Len(race.win) >= 3 /\ IsInjective(race.win)
    /\ race.quotes \in Seq([horses : [1..3 -> Nat], odds : Nat \ {0}, draws : Nat])
    /\ \A i \in DOMAIN race.quotes : IsInjective(race.quotes[i].horses)
    /\ \A i, j \in DOMAIN race.quotes : race.quotes[i].horses = race.quotes[j].horses => i = j

ASSUME DayAssumption ==
    /\ \A s \in Specs : WellFormed(s) /\ s.goal > s.initial /\ s.unit = StakeUnit
    /\ \A R \in Panels :
          /\ R # {} /\ IsFiniteSet(R) /\ \A r, q \in R : r.id = q.id => r = q
          /\ \A r \in R : r.id \in Nat /\ r.post \in Nat /\ IsRaceFile(r)
    /\ Budgets \subseteq Nat /\ MaxClock \in Nat

VARIABLES
    spec, table,            \* policy-table: its arguments, the stages solved so far
    panel, budget, created_now,   \* plan: the loaded races, --bank, --created-now
    phase, index, bank,     \* the pipeline's position; races seen; points left
    clock,
    plans, bundle           \* plan: the plans built, the file written

planner == <<spec, table, panel, budget, created_now, phase, index, bank, clock, plans, bundle>>
vars == <<planner, paperVars>>

NoBundle == [race_date |-> 0, created |-> 0, plans |-> <<>>]

Init ==
    /\ spec \in Specs /\ table = <<>>
    /\ panel \in {LoadPanel(R) : R \in Panels}
    /\ budget \in Budgets /\ created_now \in BOOLEAN
    /\ phase = "solving" /\ index = 0 /\ bank = budget /\ clock = 0
    /\ plans = <<>> /\ bundle = NoBundle
    /\ PaperInit

-----------------------------------------------------------------------------
(* pykeiba policy-table *)

SolveStage ==
    /\ phase = "solving" /\ Len(table) < spec.races
    /\ table' = Append(table, Stage(spec, LastValues(spec, table)))
    /\ UNCHANGED <<spec, panel, budget, created_now, phase, index, bank, clock,
                   plans, bundle, paperVars>>

WriteTable ==
    /\ phase = "solving" /\ Len(table) = spec.races
    /\ phase' = IF spec.objective = "reach" /\ ExceedsBound(spec, table)
                THEN "no table" ELSE "planning"
    /\ UNCHANGED <<spec, table, panel, budget, created_now, index, bank, clock,
                   plans, bundle, paperVars>>

-----------------------------------------------------------------------------
(* pykeiba plan *)

\* The horizon of the table is the whole contest; a longer day repeats its end.
Remaining == IF index < spec.races THEN spec.races - index ELSE 1

\* Mutant: every race is planned with the whole budget.
BadRow == RowFor(spec, table, Remaining, budget)

Row == RowFor(spec, table, Remaining, bank)

\* The race the planner is at.
Card == panel[index + 1]

Picks == PickNearOdds(Card, Row.tickets)

CreatedAt == IF created_now THEN clock ELSE Target(Card) - Lead

\* Mutant: what the row says is charged, not what was bet.
BadCost == Row.stake_each * Row.tickets

Cost == Row.stake_each * Len(Picks)

Planning == phase = "planning" /\ index < Len(panel)

NextRace == index' = index + 1

\* build_features comes before the look at the stake.
NoBet == Row.tickets = 0 \/ (Card.quotes # <<>> /\ Row.stake_each < StakeUnit)

\* Neither build_features nor bet_id nor build_plan raises.
Writable ==
    Card.quotes # <<>> /\ Nameable(Card, Picks) /\ Buildable(Card, Row.stake_each, CreatedAt)

SkipRace ==
    /\ Planning /\ NoBet
    /\ NextRace
    /\ UNCHANGED <<spec, table, panel, budget, created_now, phase, bank, clock,
                   plans, bundle, paperVars>>

PlanRace ==
    /\ Planning /\ ~NoBet /\ Writable
    /\ plans' = Append(plans, BuildPlan(Card, Picks, Row.stake_each, CreatedAt))
    /\ bank' = bank - Cost
    /\ NextRace
    /\ UNCHANGED <<spec, table, panel, budget, created_now, phase, clock, bundle, paperVars>>

\* The command ends without a file.
PlanFails ==
    /\ Planning /\ ~NoBet /\ ~Writable
    /\ phase' = "failed"
    /\ UNCHANGED <<spec, table, panel, budget, created_now, index, bank, clock,
                   plans, bundle, paperVars>>

WriteBundle ==
    /\ phase = "planning" /\ index = Len(panel)
    /\ IF plans = <<>> THEN phase' = "no bet" /\ bundle' = bundle
                       ELSE phase' = "written" /\ bundle' = BuildBundle(plans, clock)
    /\ UNCHANGED <<spec, table, panel, budget, created_now, index, bank, clock,
                   plans, paperVars>>

Tick ==
    /\ phase = "planning" /\ clock < MaxClock
    /\ clock' = clock + 1
    /\ UNCHANGED <<spec, table, panel, budget, created_now, phase, index, bank,
                   plans, bundle, paperVars>>

-----------------------------------------------------------------------------
(* votingd *)

Import ==
    /\ phase = "written"
    /\ phase' = IF ValidateBundle(bundle) THEN "admitted" ELSE "refused"
    /\ UNCHANGED <<spec, table, panel, budget, created_now, index, bank, clock,
                   plans, bundle, paperVars>>

Submit ==
    /\ phase = "admitted"
    /\ \E i \in DOMAIN bundle.plans :
          LET plan == bundle.plans[i]
          IN  \/ SubmitRefused(plan.race_id, PayloadStake(plan))
              \/ SubmitAccepted(plan.race_id, plan, PayloadStake(plan))
              \/ SubmitUnsaved(plan.race_id, plan, PayloadStake(plan))
    /\ UNCHANGED planner

StartPaper == phase = "admitted" /\ Open /\ UNCHANGED planner

StopPaper == phase = "admitted" /\ Close /\ UNCHANGED planner

Next ==
    \/ SolveStage \/ WriteTable
    \/ SkipRace \/ PlanRace \/ PlanFails \/ WriteBundle \/ Tick
    \/ Import \/ Submit \/ StartPaper \/ StopPaper

Spec == Init /\ [][Next]_vars

-----------------------------------------------------------------------------
(* Properties *)

Phases == {"solving", "no table", "planning", "failed", "no bet", "written",
           "refused", "admitted", "replaying"}

\* The state is well formed, and the table never has more stages than races.
TypeOK ==
    /\ spec \in Specs /\ budget \in Budgets /\ created_now \in BOOLEAN
    /\ Len(table) <= spec.races /\ index \in 0..Len(panel) /\ bank \in Nat
    /\ phase \in Phases /\ clock \in 0..MaxClock
    /\ Len(plans) <= index
    /\ votes \in [DOMAIN votes -> {plans[i] : i \in DOMAIN plans}]
    /\ balance \in Nat /\ open \in BOOLEAN /\ paperFaults \in 0..MaxPaperFaults

WholePoints ==
    \A r \in DOMAIN table : \A i \in GridPoints(spec) :
        LET row == table[r][i].row IN row.total_spend = row.stake_each * row.tickets

\* "The reported value is a lower bound" (dp.py, _grid_index; cli.py, verify): at
\* every bank, following the rows delivers at least the value the table reports,
\* as long as no stake lost a fraction of a point on its way into the table.
SolvedIsDelivered ==
    phase = "solving" /\ Len(table) = spec.races /\ WholePoints =>
        \A points \in 0..(spec.goal - 1) :
            table[spec.races][GridIndex(spec, points, 1)].value
                <= Delivered(spec, table)[spec.races][points]

\* docs/01-quickstart.md of upper_bound_on_reach: no way of betting reaches the
\* goal with more than this probability, and the solved value is below it.
ReachIsBounded ==
    Len(table) = spec.races /\ spec.objective = "reach" => ~ExceedsBound(spec, table)

\* The plans of the day never cost more than --bank, whatever the grid, the rows
\* sized for poorer states and the number of combinations a race has.
PlannedFitsBank == bank >= 0 /\ TotalStake(plans) = budget - bank

CapDivides ==
    \A i \in DOMAIN spec.counts : spec.cap % (spec.counts[i] * StakeUnit) = 0

\* With the default creation times, and a table whose cap splits into whole units for
\* every number of tickets, the command ends without a bundle only at a race whose
\* trifecta market was not captured or whose picked combination has a horse above 18.
PlannerCompletes ==
    phase = "failed" =>
        created_now \/ ~CapDivides \/ Card.quotes = <<>> \/ ~Nameable(Card, Picks)

LimitsExceeded ==
    \/ ~WithinDayLimits(plans)
    \/ \E i \in DOMAIN plans : ~WithinRaceLimits(plans[i])

\* The daemon refuses a bundle of the planner only because the clock gave a plan
\* and the bundle different creation times, a race is on another date, the policy's
\* limits are exceeded or its patterns have no trifecta, or a horse numbered above 18
\* is among the eighteen that get a mark: the order, the times, the other marks and
\* the bets are the same contract on both sides.
RefusedIsExplained ==
    phase = "refused" =>
        \/ \E i \in DOMAIN plans : plans[i].created # bundle.created
        \/ \E i \in DOMAIN plans : plans[i].race_date # ConnectionDate
        \/ LimitsExceeded \/ "sanrentan" \notin AllowedPools
        \/ \E i \in DOMAIN plans : ~(DOMAIN plans[i].mark \subseteq Horses)

Voted(record) ==
    FoldFunction(+, 0, [race \in DOMAIN record |-> PayloadStake(record[race])])

\* The paper ledger conserves points, in memory and on disk, across failed writes
\* and restarts, and a living driver holds what its file says.
PaperConserves ==
    open => /\ balance + Voted(votes) = OpeningBalance
            /\ file = [balance |-> balance, votes |-> votes]

\* A day planned with no more than the opening balance is never refused for funds.
AdmittedIsAffordable ==
    budget <= OpeningBalance => reply # "insufficient balance"

\* A vote in the driver's file is never lost or replaced.
VoteIsFinal ==
    [][\A race \in DOMAIN file.votes :
          race \in DOMAIN file'.votes /\ file'.votes[race] = file.votes[race]]_vars
=============================================================================
