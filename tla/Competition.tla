---------------------------- MODULE Competition -----------------------------
(***************************************************************************)
(* The contest as it was played with the scripts in src/submission: race   *)
(* after race a script turns the market and the caller's ledger into a     *)
(* plan, the day's daemon votes it, the contest pays, and the caller notes *)
(* the result; on the all-in day a race may be left to the recovery; and   *)
(* build_ledger.py puts everything together at any later time.             *)
(*                                                                         *)
(* The caller, its ledgers and the contest are not in the repository.  The *)
(* caller charges a confirmed vote at once and notes a payout when the     *)
(* race is settled, perhaps after the next plan was built; it may miss a   *)
(* row, and note nothing of what was paid.                                 *)
(***************************************************************************)
EXTENDS Recovery, VoteLedger

CONSTANTS
    Calendars,      \* the sequences of races: id, post and script
    TailDate,       \* active_date of the tail policy
    Snapshots, Complete,    \* the markets, the flawless ones among them
    Rankings,       \* the ranking files of the tail day
    InitialBank,
    MaxFaults       \* bound: bad markets, late scripts, lost votes, refunds, bad rows

\* Calendars are excerpts of the contest: the all-in weekend has no race of the table's
\* and the tail's days.  The captures and the ranking files are well formed.
ASSUME CalendarAssumption ==
    /\ MaxFaults \in Nat /\ InitialBank \in Nat /\ NoPlan.race_id # RecoveryRace
    /\ \A days \in Calendars :
          /\ days \in Seq([id : Nat \ {0}, post : Nat, script : STRING])
          /\ \A i, j \in DOMAIN days : days[i].id = days[j].id => i = j
          /\ (\E i \in DOMAIN days : days[i].script = "allin")
                => \A i \in DOMAIN days : days[i].script # "v17"

ASSUME CaptureAssumption ==
    /\ Complete \subseteq Snapshots /\ \A market \in Snapshots : IsMarket(market)
    /\ \A ranking \in Rankings : {ranking.leader, ranking.goal} \subseteq Nat

\* The policy of each day admits as many bets, and as many points, as its script may
\* want: the table's rows before the floor raises them, the fixed tickets, the
\* shortlist of the dynamic day; and with more than one bet, every pool.
ASSUME LimitsAssumption ==
    /\ MaxBetsPerRace > 1
    /\ \A key \in DOMAIN Table : Table[key].tickets <= MaxBetsPerRace
    /\ {1, FixedTickets, MaxShortlist, ClassSpecs["A"].tickets} \subseteq 0..MaxBetsPerRace
    /\ {PerRaceCap, FixedTickets * FixedStake} \union {ExpectedStake(class) : class \in Classes}
          \subseteq 0..MaxStakePerRace

VARIABLES
    calendar, faults,
    ledger,         \* the caller's state file
    runner, plan, snapshot,     \* the day's script: its plan for the next race
    fits,           \* the plan holds the stake the instruction asked for
    front,          \* what each front race was asked for and what it spent
    goal, secured,  \* goal of the tail plan; the goal a hit has reached
    votes, history  \* the contest's votes; the caller's rows

dayVars == <<calendar, faults, ledger, runner, plan, snapshot, fits, front, goal, secured,
             votes, history>>

vars == <<dayVars, recoveryVars>>

NoSnapshot == [win |-> <<>>]

Init ==
    /\ calendar \in Calendars /\ faults = 0
    /\ ledger = [bank |-> InitialBank, turnover |-> 0, front_races_done |-> 0, races_bet |-> 0,
                 races_remaining |-> TableRaces]
    /\ runner = "ready" /\ plan = NoPlan /\ snapshot = NoSnapshot /\ fits = FALSE
    /\ front = <<>> /\ goal = 0 /\ secured = 0
    /\ votes = <<>> /\ history = <<>>
    /\ RecoveryInit

Done == ledger.front_races_done

Race == calendar[Done + 1]

Spend(count) == faults + count <= MaxFaults /\ faults' = faults + count

Fault(flaw) == IF flaw THEN 1 ELSE 0

-----------------------------------------------------------------------------
(* The day's script. *)

Instant(late) == IF late THEN Deadline(Race) ELSE Target(Race) - Lead

Scripted(script) == runner = "ready" /\ Done < Len(calendar) /\ Race.script = script

NewPlan(late, market, new, new_goal, fit) ==
    /\ Spend(Fault(late) + Fault(market \notin Complete))
    /\ snapshot' = market /\ plan' = new /\ goal' = new_goal /\ fits' = fit
    /\ secured' = IF new_goal \in 1..secured THEN secured ELSE 0
    /\ runner' = "built"
    /\ UNCHANGED <<calendar, ledger, front, votes, history, recoveryVars>>

OnTailDay == DateOf(Race.post) = TailDate

TableRace ==
    \E late \in BOOLEAN, market \in Snapshots :
        /\ Scripted("v17") /\ ~OnTailDay
        /\ NewPlan(late, market,
                   BuildVotePlan(Race, market, Instant(late), ledger.bank,
                                 TableInstruction(ledger)),
                   0, CurrentFloor(ledger) < PerRaceCap)

TailRace ==
    \E late \in BOOLEAN, market \in Snapshots, ranking \in Rankings :
        /\ Scripted("v17") /\ OnTailDay
        /\ LET target == EffectiveGoal(ranking, TailDate, Instant(late))
               instruction == TailInstruction(ledger, target)
           IN  NewPlan(late, market,
                       BuildVotePlan(Race, market, Instant(late), ledger.bank, instruction),
                       target, instruction.stake = WantedOneHit(ledger, target))

Sanrentan3Race ==
    \E late \in BOOLEAN, market \in Snapshots :
        /\ Scripted("sanrentan3")
        /\ NewPlan(late, market, BuildSanrentan3(Race, market, Instant(late)), 0, FALSE)

AllinRace ==
    \E late \in BOOLEAN, market \in Snapshots :
        /\ Scripted("allin")
        /\ NewPlan(late, market, BuildAllin(Race, market, Instant(late)), 0, FALSE)

DynamicRace ==
    \E late \in BOOLEAN, market \in Snapshots :
        /\ Scripted("dynamic")
        /\ NewPlan(late, market,
                   BuildDynamic(Race, market, Instant(late), ledger.bank,
                                Greater(1, Len(calendar) - Done)),
                   0, FALSE)

-----------------------------------------------------------------------------
(* The daemons and the contest. *)

Floor == IF Race.script = "v17" /\ ~OnTailDay THEN CurrentFloor(ledger) ELSE 0

\* Mutant: only a race that was bet counts as done.
BadRaceOver(stake) ==
    /\ runner' = "ready" /\ plan' = NoPlan /\ snapshot' = NoSnapshot
    /\ ledger' = [ledger EXCEPT !.bank = @ - stake, !.turnover = @ + stake,
                                !.front_races_done = IF stake > 0 THEN @ + 1 ELSE @,
                                !.races_bet = IF stake > 0 THEN @ + 1 ELSE @]
    /\ front' = Append(front, [floor |-> Floor, spend |-> stake, fits |-> fits])

\* The race is over for the caller, with a confirmed vote of this stake or without.
RaceOver(stake) ==
    /\ runner' = "ready" /\ plan' = NoPlan /\ snapshot' = NoSnapshot
    /\ ledger' = [ledger EXCEPT !.bank = @ - stake, !.turnover = @ + stake,
                                !.front_races_done = @ + 1, !.races_remaining = @ - 1,
                                !.races_bet = IF stake > 0 THEN @ + 1 ELSE @]
    /\ front' = Append(front, [floor |-> Floor, spend |-> stake, fits |-> fits])

Import ==
    /\ runner = "built" /\ plan # NoPlan
    /\ ImportPlan("original", plan)
    /\ runner' = "imported"
    /\ UNCHANGED <<killed, prepared, planFile, tick>>
    /\ UNCHANGED <<calendar, faults, ledger, plan, snapshot, fits, front, goal, secured,
                   votes, history>>

\* No plan, one the daemon refuses, or a daemon that was killed before the vote.
PassRace ==
    /\ \/ runner = "built" /\ (plan # NoPlan => ~Admitted(plan))
       \/ runner = "imported" /\ killed
    /\ RaceOver(0)
    /\ UNCHANGED <<calendar, faults, fits, goal, secured, votes, history,
                   recoveryVars>>

Accepted(cast) ==
    votes' = [race \in DOMAIN votes \union {cast.race_id} |->
                 IF race = cast.race_id THEN [plan |-> cast, paid |-> 0, settled |-> FALSE]
                 ELSE votes[race]]

Cast(daemon, race, cast, state) ==
    /\ journals' = Moved(daemon, race, state)
    /\ \/ state \in {"CONFIRMED", "AMBIGUOUS"} /\ Accepted(cast)
       \/ state \in {"AMBIGUOUS", "REJECTED"} /\ UNCHANGED votes
    /\ Spend(Fault(state # "CONFIRMED"))

Outcomes == {"CONFIRMED", "AMBIGUOUS", "REJECTED"}

Vote ==
    /\ runner = "imported" /\ ~killed /\ Race.id \notin DOMAIN votes
    /\ \E state \in Outcomes :
          /\ Cast("original", Race.id, plan, state)
          /\ RaceOver(IF state = "CONFIRMED" THEN PayloadStake(plan) ELSE 0)
    /\ UNCHANGED <<calendar, fits, goal, secured, history,
                   killed, prepared, planFile, tick>>

\* The recovery daemon posts its one armed plan; its rows reach the caller too.
RecoveryVote ==
    /\ InState("recovery", RecoveryRace, "ARMED") /\ RecoveryRace \notin DOMAIN votes
    /\ \E state \in Outcomes :
          /\ Cast("recovery", RecoveryRace, planFile, state)
          /\ LET stake == IF state = "CONFIRMED" THEN PayloadStake(planFile) ELSE 0
             IN  ledger' = [ledger EXCEPT !.bank = @ - stake, !.turnover = @ + stake]
    /\ UNCHANGED <<calendar, runner, plan, snapshot, fits, front, goal, secured,
                   history, killed, prepared, planFile, tick>>

\* What a vote may bring: nothing, a hit of its first ticket, or a refund of one.
Returns(cast) == {0, cast.bets[1].money * TailPolicy.odds, cast.bets[1].money}

SeenConfirmed(race) == \E daemon \in Daemons : InState(daemon, race, "CONFIRMED")

\* The hit of a tail plan of the wanted size, before the next plan is built.
Reaches(race, paid) ==
    /\ goal > 0 /\ fits /\ paid = votes[race].plan.bets[1].money * TailPolicy.odds
    /\ runner = "ready" /\ Done > 0 /\ race = calendar[Done].id

Settle ==
    \E race \in DOMAIN votes, row \in BOOLEAN :
        /\ ~votes[race].settled
        /\ \E paid \in Returns(votes[race].plan) : \E noted \in {0, paid} :
              LET counted == row /\ SeenConfirmed(race)
                  refund == paid = votes[race].plan.bets[1].money
              IN  /\ Spend(Fault(~row \/ refund \/ noted # paid))
                  /\ votes' = [votes EXCEPT ![race].settled = TRUE, ![race].paid = paid]
                  /\ ledger' = IF counted THEN [ledger EXCEPT !.bank = @ + noted] ELSE ledger
                  /\ secured' = IF counted /\ Reaches(race, noted) THEN goal ELSE secured
                  /\ history' =
                        IF ~counted THEN history
                        ELSE Append(history,
                                    [race |-> race, stake |-> PayloadStake(votes[race].plan),
                                     payout |-> noted])
        /\ UNCHANGED <<calendar, runner, plan, snapshot, fits, front, goal, recoveryVars>>

-----------------------------------------------------------------------------
(* The recovery. *)

OnAllinDay == \E i \in DOMAIN calendar : calendar[i].script = "allin"

RecoveryPlans ==
    {BuildAllin(calendar[i], market, Target(calendar[i]) - Lead) :
        i \in {j \in DOMAIN calendar : calendar[j].id = RecoveryRace}, market \in Complete}

RecoveryStep ==
    /\ OnAllinDay
    /\ \/ Kill \/ Prepare(ledger.turnover)
       \/ TickOpens \/ TickImports \/ TickArms \/ TickEnds
       \/ tick = "building" /\ \E new \in RecoveryPlans : TickWrites(new)
    /\ UNCHANGED dayVars

Next ==
    \/ TableRace \/ TailRace \/ Sanrentan3Race \/ AllinRace \/ DynamicRace
    \/ Import \/ PassRace \/ Vote \/ RecoveryVote \/ Settle \/ RecoveryStep

Spec == Init /\ [][Next]_vars

-----------------------------------------------------------------------------
(* Properties *)

\* The state is well formed; votes are of races that were played.
TypeOK ==
    /\ calendar \in Calendars /\ faults \in 0..MaxFaults
    /\ runner \in {"ready", "built", "imported"} /\ snapshot \in Snapshots \union {NoSnapshot}
    /\ ledger.front_races_done = Len(front) /\ ledger.races_bet <= Len(front)
    /\ DOMAIN votes \subseteq {calendar[i].id : i \in DOMAIN calendar}
    /\ tick \in {"idle", "building", "importing", "arming"}

\* What is wrong with the rows of the plan's pool: a combination listed twice; one of
\* another length, with a horse twice, or with a bracket above 8.
PoolRows == LoadSurface(snapshot.rows[plan.pool])

RepeatsRow == PoolRows # Distinct(PoolRows)

MalformedRow ==
    \E q \in Range(PoolRows) :
        \/ Len(q.horses) # PoolNumbers[plan.pool]
        \/ IF plan.pool = "wakuren" THEN ~(Range(q.horses) \subseteq 1..8)
           ELSE Different(q.horses) < Len(q.horses)

RepeatsHorse == Cardinality(Range(snapshot.win)) < Len(snapshot.win)

\* What nothing in the scripts prevents: tickets added for the floor, without one too
\* many, that the daemon's max_bets_per_race does not admit, and a dynamic day that
\* has won more than its frozen max_stake_per_race.
OverLimits ==
    \/ /\ Race.script = "v17" /\ Len(plan.bets) > MaxBetsPerRace
       /\ (Len(plan.bets) - 1) * plan.bets[1].money
              < IF OnTailDay THEN QualificationFloor(ledger) ELSE CurrentFloor(ledger)
    \/ Race.script = "dynamic" /\ PayloadStake(plan) > MaxStakePerRace

\* The envelopes of all scripts keep the daemon's contract (build_vote_plan.py: "The
\* daemon computes these from the policy and rejects anything else"): a plan is
\* refused only above those limits, for a win market that lists a horse twice, or for
\* its pool's rows: the first two weeks' scripts pass on a repeated combination and a
\* malformed one, the dynamic day only the latter, the all-in script neither.  Whatever
\* the bands lacked, its plan costs what expected_stake says of the class.
BuiltIsAdmitted ==
    runner = "built" /\ plan # NoPlan =>
        /\ \/ Admitted(plan) \/ OverLimits \/ RepeatsHorse
           \/ RepeatsRow /\ Race.script \in {"v17", "sanrentan3"}
           \/ MalformedRow /\ Race.script # "allin"
        /\ Race.script = "allin" =>
              PayloadStake(plan) = ExpectedStake(ProposedClass(Quality(Scored(snapshot))))

\* "a race that gets skipped is made up by the ones after it" (build_vote_plan.py):
\* when the last front race was bet at its floor, and the floor was not cut by the
\* cap, the minimum turnover is reached whatever was passed before.
FloorMakesUp ==
    Len(front) >= FrontRaces /\ front[FrontRaces].floor > 0 =>
        LET last == front[FrontRaces]
        IN  last.fits /\ last.spend >= last.floor => ledger.turnover >= MinTurnover

\* What the tail strategy has yet to spend to qualify.
Outstanding ==
    Greater(TurnoverNeed(ledger), TailPolicy.future * CountNeed(ledger))

\* "makes one hit reach goal" and "preserves qualification" (build_vote_plan.py):
\* after a hit at the target odds of a ticket that was not cut, settled before the
\* next plan, the bank covers the goal and the qualification, through all later
\* lost races, until the goal is raised or another strategy takes over.
HitSecuresGoal == secured > 0 /\ CountNeed(ledger) > 0 => ledger.bank - Outstanding >= secured

\* "fail-closed recovery": the recovery race is posted by one daemon at most.
PostedOnce ==
    \A daemon, other \in Daemons, race \in DOMAIN journals["original"] :
        /\ Knows(daemon, race) /\ journals[daemon][race].state \in Outcomes
        /\ Knows(other, race) /\ journals[other][race].state \in Outcomes
        => daemon = other

\* The contest's own balance.
Official ==
    InitialBank - SumOver(LAMBDA race : PayloadStake(votes[race].plan), DOMAIN votes)
                + SumOver(LAMBDA race : votes[race].paid, DOMAIN votes)

\* build_ledger.py takes the daemons' snapshots because they hold "the plan that was
\* allowed to be sent" and the CONFIRMED state (RECONCILIATION_COMMENTARY): every vote
\* the contest took is in the ledger with the plan that was cast, and a confirmed entry
\* is a vote it took.  And it takes the payout of a race without a row for a part of
\* the credit that no row accounts for: so it is, whatever rows are missing or say
\* nothing, when all votes were seen confirmed.
LedgerHoldsVotes ==
    LET entries == Entries(<<journals["recovery"], journals["original"]>>)
        payouts == Payouts(history)
        stakes == [race \in DOMAIN entries |-> PayloadStake(entries[race].plan)]
    IN  /\ \A race \in DOMAIN votes :
              race \in DOMAIN entries /\ entries[race].plan = votes[race].plan
        /\ Confirmed(entries) \subseteq DOMAIN votes
        /\ DOMAIN votes \subseteq Confirmed(entries) =>
              SumOver(LAMBDA race : votes[race].paid, UnknownPayout(entries, payouts))
                 <= UnexplainedCredit(Official,
                                      ImpliedBank(InitialBank, entries, payouts, stakes))
=============================================================================
