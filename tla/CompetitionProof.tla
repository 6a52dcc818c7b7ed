-------------------------- MODULE CompetitionProof --------------------------
(***************************************************************************)
(* What holds of the contest for every calendar, market, ranking, number   *)
(* of faults and death of a tick.  The invariants are proved in the order  *)
(* in which they rest on each other:                                       *)
(*                                                                         *)
(*   RecoveryIsAlone   the recovery begins only when the original daemon   *)
(*     is killed and has no record of the race.  A killed daemon may still *)
(*     be given a plan, which stays VALIDATED because only a daemon that   *)
(*     was not killed votes; and nothing but the recovery's own race ever  *)
(*     reaches the recovery daemon.                                        *)
(*   WellFormed        every variable is what its type says.  The types    *)
(*     of the plans come from what each script makes of its rows.          *)
(*   FloorIsNoted      each front race that is over has the floor it was   *)
(*     asked to meet, so that the last of them makes up the turnover.      *)
(*   PlanIsSound       the plan at hand was made of its market, in time    *)
(*     and above the floor.                                                *)
(*   HitIsPrepared     until a vote is settled, the plan or vote of the    *)
(*     race covers what the account will still owe after a hit.            *)
(*   VotesAreTold      every accepted vote is in the journal of a daemon   *)
(*     with the plan that was voted, and every row of the caller's history *)
(*     is a vote that a daemon saw confirmed.                              *)
(***************************************************************************)
EXTENDS Competition, PlanningProof

\* Every record holds a state and a plan.
JournalsWellFormed ==
    /\ DOMAIN journals = Daemons
    /\ \A daemon \in Daemons : \A race \in DOMAIN journals[daemon] :
          journals[daemon][race] =
             [state |-> journals[daemon][race].state, plan |-> journals[daemon][race].plan]

\* The recovery has begun.
Recovering == tick # "idle" \/ DOMAIN journals["recovery"] # {}

\* The original daemon neither has posted nor will post the recovery race.
OriginalIsOut ==
    killed /\ (Knows("original", RecoveryRace) => InState("original", RecoveryRace, "VALIDATED"))

\* Inductive: what makes PostedOnce hold.
RecoveryIsAlone ==
    /\ JournalsWellFormed
    /\ DOMAIN journals["recovery"] \subseteq {RecoveryRace}
    /\ planFile = NoPlan \/ planFile.race_id = RecoveryRace
    /\ tick = "importing" => planFile # NoPlan
    /\ Recovering => OriginalIsOut

-----------------------------------------------------------------------------

\* The all-in script writes plans for the race it was asked for only.
LEMMA RecoveryPlanIsForRace ==
    ASSUME NEW new \in RecoveryPlans
    PROVE  new = NoPlan \/ new.race_id = RecoveryRace
<1>1. PICK i \in {j \in DOMAIN calendar : calendar[j].id = RecoveryRace}, market \in Complete :
          new = BuildAllin(calendar[i], market, Target(calendar[i]) - Lead)
  BY DEF RecoveryPlans
<1>2. CASE new # NoPlan
  <2>1. \E pool, bets :
           new = Envelope(calendar[i], market, Target(calendar[i]) - Lead, pool, bets)
    BY <1>1, <1>2 DEF BuildAllin
  <2>2. QED
    BY <2>1, <1>1 DEF Envelope
<1>3. QED
  BY <1>2

\* An import adds a VALIDATED record of the plan's race to one journal.
LEMMA ImportAdds ==
    ASSUME RecoveryIsAlone, NEW daemon \in Daemons, NEW new, ImportPlan(daemon, new)
    PROVE  /\ JournalsWellFormed'
           /\ \A other \in Daemons : other # daemon => journals'[other] = journals[other]
           /\ DOMAIN journals'[daemon] = DOMAIN journals[daemon] \union {new.race_id}
           /\ journals'[daemon][new.race_id].state = "VALIDATED"
           /\ journals'[daemon][new.race_id].plan = new /\ new.race_id \notin DOMAIN journals[daemon]
           /\ \A race \in DOMAIN journals[daemon] : journals'[daemon][race] = journals[daemon][race]
<1>1. journals' = Journaled(daemon, new.race_id, "VALIDATED", new)
  BY DEF ImportPlan
<1>2. new.race_id \notin DOMAIN journals[daemon]
  BY DEF ImportPlan, Knows
<1>3. /\ DOMAIN journals' = Daemons
      /\ \A other \in Daemons : other # daemon => journals'[other] = journals[other]
      /\ journals'[daemon] = [race \in DOMAIN journals[daemon] \union {new.race_id} |->
                                 IF race = new.race_id
                                 THEN [state |-> "VALIDATED", plan |-> new]
                                 ELSE journals[daemon][race]]
  BY <1>1 DEF Journaled, RecoveryIsAlone, JournalsWellFormed
<1>4. JournalsWellFormed'
  <2>1. SUFFICES ASSUME NEW other \in Daemons, NEW race \in DOMAIN journals'[other]
                 PROVE  journals'[other][race] = [state |-> journals'[other][race].state,
                                                  plan |-> journals'[other][race].plan]
    BY <1>3 DEF JournalsWellFormed
  <2>2. CASE other = daemon /\ race = new.race_id
    BY <1>3, <2>2
  <2>3. CASE other = daemon /\ race # new.race_id
    BY <1>3, <2>1, <2>3 DEF RecoveryIsAlone, JournalsWellFormed
  <2>4. CASE other # daemon
    BY <1>3, <2>1, <2>4 DEF RecoveryIsAlone, JournalsWellFormed
  <2>5. QED
    BY <2>2, <2>3, <2>4
<1>5. QED
  BY <1>2, <1>3, <1>4

\* A change of state touches one record and adds none.
LEMMA MoveKeeps ==
    ASSUME RecoveryIsAlone, NEW daemon \in Daemons, NEW moved, NEW state,
           journals' = Moved(daemon, moved, state)
    PROVE  /\ JournalsWellFormed'
           /\ \A other \in Daemons : other # daemon => journals'[other] = journals[other]
           /\ DOMAIN journals'[daemon] = DOMAIN journals[daemon]
           /\ \A race \in DOMAIN journals[daemon] :
                 /\ journals'[daemon][race].plan = journals[daemon][race].plan
                 /\ journals'[daemon][race].state
                       = IF race = moved THEN state ELSE journals[daemon][race].state
<1>1. /\ DOMAIN journals' = Daemons
      /\ \A other \in Daemons : other # daemon => journals'[other] = journals[other]
      /\ journals'[daemon] = [journals[daemon] EXCEPT ![moved].state = state]
  BY DEF Moved, RecoveryIsAlone, JournalsWellFormed
<1>2. /\ DOMAIN journals'[daemon] = DOMAIN journals[daemon]
      /\ \A race \in DOMAIN journals[daemon] :
            journals'[daemon][race] = IF race = moved
                                      THEN [journals[daemon][race] EXCEPT !.state = state]
                                      ELSE journals[daemon][race]
  BY <1>1
<1>3. JournalsWellFormed'
  <2>1. SUFFICES ASSUME NEW other \in Daemons, NEW race \in DOMAIN journals'[other]
                 PROVE  journals'[other][race] = [state |-> journals'[other][race].state,
                                                  plan |-> journals'[other][race].plan]
    BY <1>1 DEF JournalsWellFormed
  <2>2. CASE other = daemon
    <3>1. journals[daemon][race] = [state |-> journals[daemon][race].state,
                                    plan |-> journals[daemon][race].plan]
      BY <1>2, <2>1, <2>2 DEF RecoveryIsAlone, JournalsWellFormed
    <3>2. CASE race = moved
      <4>1. journals'[daemon][race] = [state |-> state, plan |-> journals[daemon][race].plan]
        BY <1>2, <2>1, <2>2, <3>1, <3>2
      <4>2. QED
        BY <4>1, <2>2
    <3>3. CASE race # moved
      BY <1>2, <2>1, <2>2, <3>1, <3>3
    <3>4. QED
      BY <3>2, <3>3
  <2>3. CASE other # daemon
    BY <1>1, <2>1, <2>3 DEF RecoveryIsAlone, JournalsWellFormed
  <2>4. QED
    BY <2>2, <2>3
<1>4. ASSUME NEW race \in DOMAIN journals[daemon]
      PROVE  /\ journals'[daemon][race].plan = journals[daemon][race].plan
             /\ journals'[daemon][race].state
                   = IF race = moved THEN state ELSE journals[daemon][race].state
  <2>1. journals[daemon][race] = [state |-> journals[daemon][race].state,
                                  plan |-> journals[daemon][race].plan]
    BY DEF RecoveryIsAlone, JournalsWellFormed
  <2>2. CASE race = moved
    <3>1. journals'[daemon][race] = [state |-> state, plan |-> journals[daemon][race].plan]
      BY <1>2, <2>1, <2>2
    <3>2. QED
      BY <2>2, <3>1
  <2>3. CASE race # moved
    BY <1>2, <2>3
  <2>4. QED
    BY <2>2, <2>3
<1>5. QED
  BY <1>1, <1>2, <1>3, <1>4

-----------------------------------------------------------------------------

\* On the first day no daemon has a record.
LEMMA InitAlone == Init => RecoveryIsAlone
<1>1. ASSUME Init PROVE RecoveryIsAlone
  <2>1. /\ journals = [daemon \in Daemons |-> <<>>] /\ killed = FALSE
        /\ planFile = NoPlan /\ tick = "idle"
    BY <1>1 DEF Init, RecoveryInit
  <2>2. \A daemon \in Daemons : DOMAIN journals[daemon] = {}
    BY <2>1
  <2>3. QED
    BY <2>1, <2>2 DEF RecoveryIsAlone, JournalsWellFormed, Recovering, Daemons
<1>2. QED
  BY <1>1

\* What the daemons and the recovery do not take part in.
LEMMA OthersKeepAlone == RecoveryIsAlone /\ UNCHANGED recoveryVars => RecoveryIsAlone'
BY DEF recoveryVars, RecoveryIsAlone, JournalsWellFormed, Recovering, OriginalIsOut, InState, Knows

\* The day's import: the original daemon may learn of the race, as VALIDATED.
LEMMA ImportKeepsAlone == RecoveryIsAlone /\ Import => RecoveryIsAlone'
<1> SUFFICES ASSUME RecoveryIsAlone, Import PROVE RecoveryIsAlone'
  OBVIOUS
<1>1. /\ ImportPlan("original", plan)
      /\ UNCHANGED <<killed, planFile, tick>>
  BY DEF Import
<1>2. /\ JournalsWellFormed' /\ journals'["recovery"] = journals["recovery"]
      /\ DOMAIN journals'["original"] = DOMAIN journals["original"] \union {plan.race_id}
      /\ journals'["original"][plan.race_id].state = "VALIDATED"
      /\ \A race \in DOMAIN journals["original"] :
            journals'["original"][race] = journals["original"][race]
  BY <1>1, ImportAdds DEF Daemons
<1>3. OriginalIsOut => OriginalIsOut'
  BY <1>1, <1>2 DEF OriginalIsOut, InState, Knows
<1>4. Recovering' => Recovering
  BY <1>1, <1>2 DEF Recovering
<1>5. QED
  BY <1>1, <1>2, <1>3, <1>4 DEF RecoveryIsAlone

\* A vote of the day: its daemon was not killed, so the recovery has not begun.
LEMMA VoteKeepsAlone == RecoveryIsAlone /\ Vote => RecoveryIsAlone'
<1> SUFFICES ASSUME RecoveryIsAlone, Vote PROVE RecoveryIsAlone'
  OBVIOUS
<1>1. PICK state \in Outcomes : Cast("original", Race.id, plan, state)
  BY DEF Vote
<1>2. ~killed /\ UNCHANGED <<killed, planFile, tick>>
  BY DEF Vote
<1>3. /\ JournalsWellFormed' /\ journals'["recovery"] = journals["recovery"]
  BY <1>1, MoveKeeps DEF Cast, Daemons
<1>4. ~Recovering
  BY <1>2 DEF RecoveryIsAlone, OriginalIsOut
<1>5. ~Recovering'
  BY <1>2, <1>3, <1>4 DEF Recovering
<1>6. QED
  BY <1>2, <1>3, <1>5 DEF RecoveryIsAlone

\* The recovery's own record moves on; the original daemon's does not.
LEMMA RecoveryMoveKeepsAlone ==
    ASSUME RecoveryIsAlone, NEW state, Knows("recovery", RecoveryRace),
           journals' = Moved("recovery", RecoveryRace, state), UNCHANGED <<killed, planFile>>,
           tick' \in {tick, "idle"}
    PROVE  RecoveryIsAlone'
<1>1. /\ JournalsWellFormed' /\ journals'["original"] = journals["original"]
      /\ DOMAIN journals'["recovery"] = DOMAIN journals["recovery"]
  BY MoveKeeps DEF Daemons
<1>2. Recovering
  BY DEF Recovering, Knows
<1>3. OriginalIsOut'
  BY <1>1, <1>2 DEF RecoveryIsAlone, OriginalIsOut, InState, Knows
<1>4. tick' = "importing" => planFile' # NoPlan
  BY DEF RecoveryIsAlone
<1>5. QED
  BY <1>1, <1>3, <1>4 DEF RecoveryIsAlone

\* The recovery daemon votes for the recovery race only.
LEMMA RecoveryVoteKeepsAlone == RecoveryIsAlone /\ RecoveryVote => RecoveryIsAlone'
<1> SUFFICES ASSUME RecoveryIsAlone, RecoveryVote PROVE RecoveryIsAlone'
  OBVIOUS
<1>1. PICK state \in Outcomes : Cast("recovery", RecoveryRace, planFile, state)
  BY DEF RecoveryVote
<1>2. /\ journals' = Moved("recovery", RecoveryRace, state)
      /\ Knows("recovery", RecoveryRace) /\ UNCHANGED <<killed, planFile, tick>>
  BY <1>1 DEF RecoveryVote, Cast, InState
<1>3. QED
  BY <1>2, RecoveryMoveKeepsAlone

\* Each step of the recovery: it begins after the check, and goes on with its own race.
LEMMA RecoveryStepKeepsAlone == RecoveryIsAlone /\ RecoveryStep => RecoveryIsAlone'
<1> SUFFICES ASSUME RecoveryIsAlone, RecoveryStep PROVE RecoveryIsAlone'
  OBVIOUS
<1> USE DEF Recovering, OriginalIsOut, InState, Knows, JournalsWellFormed
<1>1. CASE Kill
  BY <1>1 DEF RecoveryIsAlone, Kill
<1>2. CASE Prepare(ledger.turnover)
  BY <1>2 DEF RecoveryIsAlone, Prepare
<1>3. CASE TickOpens
  BY <1>3 DEF RecoveryIsAlone, TickOpens, RaceIsFree
<1>4. CASE \E new \in RecoveryPlans : TickWrites(new)
  <2>1. PICK new \in RecoveryPlans : TickWrites(new)
    BY <1>4
  <2>2. planFile' # NoPlan /\ planFile'.race_id = RecoveryRace
    BY <2>1, RecoveryPlanIsForRace DEF TickWrites, RecoveryIsAlone
  <2>3. QED
    BY <2>1, <2>2 DEF TickWrites, RecoveryIsAlone
<1>5. CASE TickImports
  <2>1. planFile.race_id = RecoveryRace
    BY <1>5 DEF TickImports, RecoveryIsAlone
  <2>2. /\ JournalsWellFormed' /\ journals'["original"] = journals["original"]
        /\ DOMAIN journals'["recovery"] = DOMAIN journals["recovery"] \union {RecoveryRace}
    BY <1>5, <2>1, ImportAdds DEF TickImports, Daemons
  <2>3. QED
    BY <1>5, <2>2 DEF TickImports, RecoveryIsAlone
<1>6. CASE TickArms
  BY <1>6, RecoveryMoveKeepsAlone DEF TickArms
<1>7. CASE TickEnds
  BY <1>7 DEF RecoveryIsAlone, TickEnds
<1>8. QED
  BY <1>1, <1>2, <1>3, <1>4, <1>5, <1>6, <1>7 DEF RecoveryStep

\* Every step keeps the recovery alone.
LEMMA NextKeepsAlone == RecoveryIsAlone /\ [Next]_vars => RecoveryIsAlone'
<1> SUFFICES ASSUME RecoveryIsAlone, [Next]_vars PROVE RecoveryIsAlone'
  OBVIOUS
<1>1. CASE TableRace
  BY <1>1, OthersKeepAlone DEF TableRace, NewPlan
<1>2. CASE TailRace
  BY <1>2, OthersKeepAlone DEF TailRace, NewPlan
<1>3. CASE Sanrentan3Race
  BY <1>3, OthersKeepAlone DEF Sanrentan3Race, NewPlan
<1>4. CASE AllinRace
  BY <1>4, OthersKeepAlone DEF AllinRace, NewPlan
<1>5. CASE DynamicRace
  BY <1>5, OthersKeepAlone DEF DynamicRace, NewPlan
<1>6. CASE Import
  BY <1>6, ImportKeepsAlone
<1>7. CASE PassRace
  BY <1>7, OthersKeepAlone DEF PassRace
<1>8. CASE Vote
  BY <1>8, VoteKeepsAlone
<1>9. CASE RecoveryVote
  BY <1>9, RecoveryVoteKeepsAlone
<1>10. CASE Settle
  BY <1>10, OthersKeepAlone DEF Settle
<1>11. CASE RecoveryStep
  BY <1>11, RecoveryStepKeepsAlone
<1>12. CASE UNCHANGED vars
  BY <1>12, OthersKeepAlone DEF vars
<1>13. QED
  BY <1>1, <1>2, <1>3, <1>4, <1>5, <1>6, <1>7, <1>8, <1>9, <1>10, <1>11, <1>12 DEF Next

\* A race in the recovery's journal is the recovery race, which the original daemon
\* has at most as VALIDATED.
LEMMA AloneImpliesPostedOnce == RecoveryIsAlone => PostedOnce
<1> SUFFICES ASSUME RecoveryIsAlone,
                    NEW daemon \in Daemons, NEW other \in Daemons,
                    NEW race \in DOMAIN journals["original"],
                    Knows(daemon, race), journals[daemon][race].state \in Outcomes,
                    Knows(other, race), journals[other][race].state \in Outcomes,
                    daemon # other
             PROVE  FALSE
  BY DEF PostedOnce
<1>1. /\ Knows("recovery", race) /\ Knows("original", race)
      /\ journals["original"][race].state \in Outcomes
  BY DEF Daemons
<1>2. race = RecoveryRace /\ OriginalIsOut
  BY <1>1 DEF RecoveryIsAlone, Recovering, Knows
<1>3. QED
  BY <1>1, <1>2 DEF OriginalIsOut, InState, Outcomes

\* "One-race, fail-closed recovery" (recover_allin.py): whatever ticks die and
\* whatever the killed daemon is still given, one daemon at most posts the race.
THEOREM RecoveryPostsOnce == Spec => []PostedOnce
<1>1. Init => RecoveryIsAlone
  BY InitAlone
<1>2. RecoveryIsAlone /\ [Next]_vars => RecoveryIsAlone'
  BY NextKeepsAlone
<1>3. RecoveryIsAlone => PostedOnce
  BY AloneImpliesPostedOnce
<1>4. QED
  BY <1>1, <1>2, <1>3, PTL DEF Spec

-----------------------------------------------------------------------------
(* The strategy of the tail day. *)

\* ceil_unit (build_vote_plan.py): d times as much covers n.
LEMMA CeilUnitCovers ==
    ASSUME NEW n \in Int, NEW d \in Nat \ {0}
    PROVE  CeilUnit(n, d) \in Int /\ n <= CeilUnit(n, d) * d
<1> DEFINE m == Greater(n, d * StakeUnit)
           units == RoundUp(m, d * StakeUnit)
<1>1. StakeUnit \in Nat \ {0}
  BY ContractAssumption
<1>2. d * StakeUnit \in Nat \ {0}
  BY <1>1
<1>3. m \in Int /\ n <= m
  BY <1>2 DEF Greater
<1>4. units \in Int /\ m <= units * (d * StakeUnit)
  BY <1>2, <1>3, CeilingCovers DEF RoundUp
<1>5. CeilUnit(n, d) = units * StakeUnit
  BY DEF CeilUnit
<1>6. units * (d * StakeUnit) = (units * StakeUnit) * d
  BY <1>1, <1>4, Regroup
<1>7. units * StakeUnit \in Int
  BY <1>1, <1>4
<1>8. QED
  BY <1>3, <1>4, <1>5, <1>6, <1>7

\* one_hit_reserve_instruction (build_vote_plan.py): after a hit at the target odds
\* with at least the stake asked for, the bank covers the goal and whatever the day
\* still has to spend: the turnover that is missing then, or the stakes kept for the
\* races that must still be bet, whichever is more.
THEOREM OneHitCoversGoal ==
    ASSUME NEW account, account.bank \in Nat, account.turnover \in Nat, account.races_bet \in Nat,
           NEW aim \in Nat, NEW stake \in Int, stake >= OneHit(account, aim)
    PROVE  account.bank + stake * (TailPolicy.odds - 1)
             - Greater(TurnoverNeed(account) - stake,
                       TailPolicy.future * Greater(0, CountNeed(account) - 1)) >= aim
<1> DEFINE bank == account.bank
           odds == TailPolicy.odds
           need == TurnoverNeed(account)
           reserve == TailPolicy.future * Greater(0, CountNeed(account) - 1)
           first == CeilUnit(aim + need - bank, odds)
           rest == CeilUnit(need - reserve, 1)
           second == CeilUnit(aim + reserve - bank, odds - 1)
<1>1. odds \in Nat /\ odds >= 2 /\ TailPolicy.future \in Nat
  BY TailAssumption, ContractAssumption
<1>2. need \in Nat
  BY TailAssumption DEF TurnoverNeed, Greater
<1>3. reserve \in Nat
  <2>1. Greater(0, CountNeed(account) - 1) \in Nat
    BY TailAssumption DEF CountNeed, Greater
  <2>2. QED
    BY <1>1, <2>1
<1>4. first \in Int /\ aim + need - bank <= first * odds
  <2>1. aim + need - bank \in Int /\ odds \in Nat \ {0}
    BY <1>1, <1>2
  <2>2. QED
    BY <2>1, CeilUnitCovers
<1>5. rest \in Int /\ need - reserve <= rest
  <2>1. need - reserve \in Int
    BY <1>2, <1>3
  <2>2. rest \in Int /\ need - reserve <= rest * 1
    BY <2>1, CeilUnitCovers
  <2>3. QED
    BY <2>2
<1>6. second \in Int /\ aim + reserve - bank <= second * (odds - 1)
  <2>1. aim + reserve - bank \in Int /\ odds - 1 \in Nat \ {0}
    BY <1>1, <1>3
  <2>2. QED
    BY <2>1, CeilUnitCovers
<1>7. stake * (odds - 1) \in Int /\ stake * odds = stake * (odds - 1) + stake
  BY <1>1
<1>8. /\ bank + stake * (odds - 1) - (need - stake) >= aim
      /\ bank + stake * (odds - 1) - reserve >= aim
  <2>1. CASE need - first >= reserve
    <3>1. stake >= first
      BY <2>1 DEF OneHit
    <3>2. first * odds <= stake * odds /\ first * (odds - 1) <= stake * (odds - 1)
      BY <1>1, <1>4, <3>1, Scale
    <3>3. first * (odds - 1) \in Int /\ first * odds = first * (odds - 1) + first
      BY <1>1, <1>4
    <3>4. QED
      BY <1>1, <1>2, <1>3, <1>4, <1>7, <2>1, <3>2, <3>3
  <2>2. CASE ~(need - first >= reserve)
    <3>1. stake >= Greater(rest, second)
      BY <2>2 DEF OneHit
    <3>2. stake >= rest /\ stake >= second
      BY <1>5, <1>6, <3>1 DEF Greater
    <3>3. second * (odds - 1) <= stake * (odds - 1)
      BY <1>1, <1>6, <3>2, Scale
    <3>4. second * (odds - 1) \in Int
      BY <1>1, <1>6
    <3>5. QED
      BY <1>2, <1>3, <1>5, <1>6, <1>7, <3>2, <3>3, <3>4
  <2>3. QED
    BY <2>1, <2>2
<1>9. QED
  BY <1>2, <1>3, <1>7, <1>8 DEF Greater

\* q lists the positions in ascending order, and t what s holds there.
Selects(t, s, positions, q) ==
    /\ DOMAIN t = 1..Cardinality(positions) /\ DOMAIN q = 1..Cardinality(positions)
    /\ \A i \in DOMAIN t : q[i] \in positions /\ t[i] = s[q[i]]
    /\ \A i, j \in DOMAIN t : i < j => q[i] < q[j]
    /\ \A x \in positions : \E i \in DOMAIN t : q[i] = x

\* What the rows at some positions of a list are.
LEMMA SubsequenceParts ==
    ASSUME NEW S, NEW s \in Seq(S), NEW positions \in SUBSET (DOMAIN s)
    PROVE  /\ IsFiniteSet(positions) /\ Cardinality(positions) \in Nat
           /\ Subsequence(s, positions) \in Seq(S)
           /\ Len(Subsequence(s, positions)) = Cardinality(positions)
           /\ \E q : Selects(Subsequence(s, positions), s, positions, q)
<1> DEFINE n == Cardinality(positions)
           before == Before(positions)
           order == InOrder(before, positions)
<1>1. IsFiniteSet(positions) /\ n \in Nat
  <2>1. DOMAIN s = 1..Len(s) /\ Len(s) \in Nat
    BY SeqParts
  <2>2. IsFiniteSet(1..Len(s))
    BY <2>1, FS_Interval
  <2>3. QED
    BY <2>1, <2>2, FS_Subset, FS_CardinalityType
<1>2. positions \subseteq Int
  BY SeqParts
<1>3. Orders(before, positions)
  BY <1>2, BeforeOrders
<1>4. \A x, y \in positions : y < x <=> <<y, x>> \in before
  BY DEF Before
<1> HIDE DEF before
<1>5. \A x \in positions : Rank(before, positions, x) = Cardinality({y \in positions : y < x})
  <2>1. \A x \in positions : {y \in positions : <<y, x>> \in before} = {y \in positions : y < x}
    BY <1>4
  <2>2. QED
    BY <2>1 DEF Rank
<1>6. Subsequence(s, positions) = [k \in DOMAIN order |-> s[order[k]]]
  <2> DEFINE a(k) == CHOOSE x \in positions : Cardinality({y \in positions : y < x}) = k - 1
             b(k) == CHOOSE x \in positions : Rank(before, positions, x) = k - 1
             ordered == [k \in 1..n |-> a(k)]
  <2>1. \A k \in 1..n : a(k) = b(k)
    BY <1>5
  <2>2. order = [k \in 1..n |-> b(k)]
    BY DEF InOrder
  <2>3. Subsequence(s, positions) = [k \in DOMAIN ordered |-> s[ordered[k]]]
    BY DEF Subsequence, Ordered
  <2>4. ordered = order
    <3> HIDE DEF a, b, order
    <3>1. QED
      BY <2>1, <2>2
  <2>5. QED
    BY <2>3, <2>4
<1>7. /\ order \in Seq(positions) /\ Len(order) = n
      /\ \A x \in positions : \E i \in 1..n : order[i] = x
      /\ \A i, j \in 1..n : i < j => <<order[i], order[j]>> \in before
  BY <1>1, <1>3, OrderSorts
<1> HIDE DEF order
<1>8. DOMAIN order = 1..n /\ \A i \in 1..n : order[i] \in positions
  BY <1>7, SeqParts
<1>9. DOMAIN Subsequence(s, positions) = 1..n
  BY <1>6, <1>8
<1>10. \A i \in 1..n : Subsequence(s, positions)[i] = s[order[i]]
  BY <1>6, <1>8
<1>11. \A i \in 1..n : s[order[i]] \in S
  BY <1>8, SeqParts
<1>12. Subsequence(s, positions) = [i \in 1..n |-> s[order[i]]]
  BY <1>6, <1>8
<1>13. Subsequence(s, positions) \in Seq(S) /\ Len(Subsequence(s, positions)) = n
  BY <1>1, <1>11, <1>12
<1>14. Selects(Subsequence(s, positions), s, positions, order)
  BY <1>4, <1>7, <1>8, <1>9, <1>10 DEF Selects
<1>15. QED
  BY <1>1, <1>13, <1>14

-----------------------------------------------------------------------------
(* The tickets of a plan. *)

\* A ticket of a plan.
Bet == [bet : Seq(Horses), money : Nat]

\* The tickets of a plan that is not empty.
IsPlan(p) == p.bets \in Seq(Bet) /\ p.bets # <<>>

\* A plan costs a number of points, and something if its first ticket does.
LEMMA PlanCosts ==
    ASSUME NEW p, IsPlan(p)
    PROVE  /\ PayloadStake(p) \in Nat /\ Len(p.bets) \in Nat \ {0}
           /\ DOMAIN p.bets = 1..Len(p.bets)
           /\ \A i \in 1..Len(p.bets) : p.bets[i].money \in Nat /\ p.bets[i].money <= PayloadStake(p)
<1> DEFINE q == p.bets
           n == Len(q)
           f == [i \in DOMAIN q |-> q[i].money]
           cost == PayloadStake(p)
<1>1. q \in Seq(Bet) /\ q # <<>>
  BY DEF IsPlan
<1>2. n \in Nat /\ DOMAIN q = 1..n /\ \A i \in DOMAIN q : q[i] \in Bet
  BY <1>1, SeqParts
<1>3. \A i \in DOMAIN q : q[i].money \in Nat
  BY <1>2 DEF Bet
<1>4. cost = SumOn(f, 1..n)
  <2>1. \A i \in DOMAIN p.bets : p.bets[i].money \in Int
    BY <1>3
  <2>2. QED
    BY <1>1, <2>1, PayloadIsSum
<1>5. n # 0
  BY <1>1
<1> HIDE DEF q, n, cost
<1>6. IsFiniteSet(1..n) /\ \A i \in 1..n : f[i] \in Nat /\ f[i] = q[i].money
  <2>1. IsFiniteSet(1..n)
    BY <1>2, FS_Interval
  <2>2. QED
    BY <1>2, <1>3, <2>1
<1> HIDE DEF f
<1>7. cost \in Nat
  BY <1>4, <1>6, SumGrows
<1>8. ASSUME NEW i \in 1..n PROVE f[i] <= cost
  <2>1. {i} \in SUBSET (1..n)
    OBVIOUS
  <2>2. SumOn(f, {i}) <= SumOn(f, 1..n)
    BY <1>6, <2>1, SumGrows
  <2>3. SumOn(f, {} \union {i}) = f[i] + SumOn(f, {})
    <3>1. {} \in SUBSET (1..n) /\ i \notin {} /\ \A j \in 1..n : f[j] \in Int
      BY <1>6
    <3>2. QED
      BY <1>6, <3>1, SumInsert
  <2>4. SumOn(f, {}) = 0
    BY <1>6, SumUnrolls
  <2>5. {} \union {i} = {i}
    OBVIOUS
  <2>6. QED
    BY <1>4, <1>6, <2>2, <2>3, <2>4, <2>5
<1>9. QED
  BY <1>2, <1>3, <1>5, <1>6, <1>7, <1>8 DEF cost, q, n

\* The same stake on each of some rows.
LEMMA TicketsCost ==
    ASSUME NEW race, NEW market, NEW now, NEW pool, NEW rows \in Seq(Quoted), rows # <<>>,
           NEW stake \in Nat, NEW p, p = Envelope(race, market, now, pool, Tickets(rows, stake))
    PROVE  /\ IsPlan(p) /\ Len(p.bets) = Len(rows) /\ Len(rows) \in Nat \ {0}
           /\ \A i \in 1..Len(rows) : p.bets[i].bet = rows[i].horses /\ p.bets[i].money = stake
           /\ PayloadStake(p) = Len(rows) * stake
<1> DEFINE n == Len(rows)
           f == [i \in DOMAIN p.bets |-> p.bets[i].money]
<1>1. n \in Nat /\ DOMAIN rows = 1..n /\ \A i \in 1..n : rows[i] \in Quoted
  BY SeqParts
<1>2. p.bets = [i \in 1..n |-> [bet |-> rows[i].horses, money |-> stake]]
  BY <1>1 DEF Envelope, Tickets
<1>3. \A i \in 1..n : [bet |-> rows[i].horses, money |-> stake] \in Bet
  BY <1>1 DEF Quoted, Bet
<1>4. n # 0
  OBVIOUS
<1> HIDE DEF n
<1>5. p.bets \in Seq(Bet) /\ Len(p.bets) = n /\ DOMAIN p.bets = 1..n
  BY <1>1, <1>2, <1>3
<1>6. \A i \in 1..n : p.bets[i].bet = rows[i].horses /\ p.bets[i].money = stake
  BY <1>2
<1>7. PayloadStake(p) = SumOn(f, 1..n)
  <2>1. \A i \in DOMAIN p.bets : p.bets[i].money \in Int
    BY <1>5, <1>6
  <2>2. QED
    BY <1>5, <2>1, PayloadIsSum
<1>8. SumOn(f, 1..n) = n * stake
  <2>1. \A i \in 1..n : f[i] = stake
    BY <1>5, <1>6
  <2> HIDE DEF f
  <2>2. QED
    BY <1>1, <2>1, SumOfEqual
<1>9. p.bets # <<>>
  BY <1>1, <1>4, <1>5
<1>10. QED
  BY <1>1, <1>4, <1>5, <1>6, <1>7, <1>8, <1>9 DEF IsPlan, n

\* The rows with odds and a readable combination, in their order.
LEMMA LoadParts ==
    ASSUME NEW rows \in Seq(Quoted)
    PROVE  /\ LoadSurface(rows) \in Seq(Quoted)
           /\ \A i \in DOMAIN LoadSurface(rows) : LoadSurface(rows)[i].odds > 0
           /\ \E keep : \E q : /\ keep \in SUBSET (DOMAIN rows)
                               /\ Selects(LoadSurface(rows), rows, keep, q)
<1> DEFINE keep == {i \in DOMAIN rows : rows[i].odds > 0 /\ rows[i].horses # <<>>}
<1>1. LoadSurface(rows) = Subsequence(rows, keep)
  BY DEF LoadSurface
<1>2. keep \in SUBSET (DOMAIN rows) /\ \A i \in keep : rows[i].odds > 0
  OBVIOUS
<1> HIDE DEF keep
<1>3. /\ LoadSurface(rows) \in Seq(Quoted)
      /\ \E q : Selects(LoadSurface(rows), rows, keep, q)
  BY <1>1, <1>2, SubsequenceParts
<1>4. \A i \in DOMAIN LoadSurface(rows) : LoadSurface(rows)[i].odds > 0
  BY <1>2, <1>3 DEF Selects
<1>5. QED
  BY <1>2, <1>3, <1>4

\* pick_rows: as many as asked for, or all there are.
LEMMA PickRowsParts ==
    ASSUME NEW market, NEW pool, NEW count \in Nat \ {0}, market.rows[pool] \in Seq(Quoted),
           Len(PickRows(market, pool, count)) >= count
    PROVE  LET rows == LoadSurface(market.rows[pool])
               chosen == PickRows(market, pool, count)
           IN  /\ market.win # <<>> /\ rows \in Seq(Quoted) /\ count <= Len(rows)
               /\ chosen = SubSeq(rows, 1, count) /\ chosen \in Seq(Quoted) /\ Len(chosen) = count
               /\ \A i \in 1..count : chosen[i] = rows[i] /\ i \in DOMAIN rows
<1> DEFINE rows == LoadSurface(market.rows[pool])
           chosen == PickRows(market, pool, count)
           k == Lesser(Len(rows), count)
<1>1. rows \in Seq(Quoted)
  BY LoadParts
<1>2. market.win # <<>>
  <2>1. CASE market.win = <<>>
    <3>1. chosen = <<>>
      BY <2>1 DEF PickRows
    <3>2. Len(chosen) = 0
      BY <3>1
    <3>3. QED
      BY <3>2
  <2>2. QED
    BY <2>1
<1>3. chosen = SubSeq(rows, 1, k)
  BY <1>2 DEF PickRows
<1> HIDE DEF rows, chosen
<1>4. Len(rows) \in Nat /\ DOMAIN rows = 1..Len(rows) /\ \A i \in DOMAIN rows : rows[i] \in Quoted
  BY <1>1, SeqParts
<1>5. k \in Nat /\ k <= Len(rows) /\ k <= count
  BY <1>4 DEF Lesser
<1> HIDE DEF k
<1>6. chosen = [i \in 1..k |-> rows[i]]
  BY <1>1, <1>3, <1>5
<1>7. chosen \in Seq(Quoted) /\ Len(chosen) = k
  BY <1>4, <1>5, <1>6
<1>8. k = count
  BY <1>5, <1>7 DEF chosen
<1>9. QED
  BY <1>1, <1>2, <1>3, <1>4, <1>5, <1>6, <1>7, <1>8 DEF rows, chosen

-----------------------------------------------------------------------------
(* How many tickets. *)

\* RoundUp is the least number of times that covers m.
LEMMA RoundUpParts ==
    ASSUME NEW m \in Int, NEW n \in Nat \ {0}
    PROVE  /\ RoundUp(m, n) \in Int /\ m <= RoundUp(m, n) * n /\ RoundUp(m, n) * n < m + n
           /\ (RoundUp(m, n) - 1) * n < m
<1> DEFINE k == RoundUp(m, n)
<1>1. k \in Int /\ m <= k * n /\ k * n < m + n
  BY CeilingCovers DEF RoundUp
<1> HIDE DEF k
<1>2. (k - 1) * n = k * n - n /\ k * n \in Int
  BY <1>1
<1>3. QED
  BY <1>1, <1>2 DEF k

\* fit_ticket_count: raised for the floor, without one too many, and cut by the cap.
LEMMA FitParts ==
    ASSUME NEW instruction, instruction.stake \in Nat \ {0}, instruction.tickets \in Nat \ {0},
           instruction.floor \in Int
    PROVE  LET count == FitTickets(instruction)
               stake == instruction.stake
           IN  /\ count \in Nat \ {0}
               /\ stake <= PerRaceCap => stake * count <= PerRaceCap
               /\ count > instruction.tickets => (count - 1) * stake < instruction.floor
               /\ stake * instruction.tickets >= instruction.floor
                    => count <= instruction.tickets
<1> DEFINE count == FitTickets(instruction)
           stake == instruction.stake
           tickets == instruction.tickets
           floor == instruction.floor
           least == RoundUp(floor, stake)
           raised == IF stake * tickets < floor THEN Greater(tickets, least) ELSE tickets
           cut == PerRaceCap \div stake
<1>1. least \in Int /\ (least - 1) * stake < floor
  BY RoundUpParts
<1>2. PerRaceCap \in Nat \ {0}
  BY TableAssumption
<1>3. cut \in Int /\ cut * stake <= PerRaceCap
  <2>1. PerRaceCap \in Int /\ stake \in Nat \ {0}
    BY <1>2
  <2> HIDE DEF stake
  <2>2. QED
    BY <2>1, Quotient
<1>4. count = IF stake * raised > PerRaceCap THEN Greater(1, cut) ELSE raised
  BY DEF FitTickets
<1> HIDE DEF count, least, cut
<1>5. raised \in Nat \ {0} /\ raised >= tickets
  BY <1>1 DEF Greater
<1>6. raised > tickets => raised = least
  BY <1>1 DEF Greater
<1>7. stake * tickets >= floor => raised = tickets
  BY <1>2 DEF Greater
<1> HIDE DEF raised
<1>8. /\ count \in Nat \ {0} /\ count <= raised
      /\ count = raised \/ count = 1 \/ (count = cut /\ stake * raised > PerRaceCap)
  <2>1. CASE stake * raised > PerRaceCap
    <3>1. cut < raised
      <4>1. SUFFICES ASSUME raised <= cut PROVE FALSE
        BY <1>3, <1>5
      <4>2. raised * stake <= cut * stake /\ raised * stake \in Int /\ cut * stake \in Int
        BY <1>3, <1>5, <4>1, Scale
      <4>3. raised * stake = stake * raised
        BY <1>5
      <4>4. QED
        BY <1>2, <1>3, <2>1, <4>2, <4>3
    <3>2. count = Greater(1, cut)
      BY <1>4, <2>1
    <3>3. QED
      BY <1>3, <1>5, <2>1, <3>1, <3>2 DEF Greater
  <2>2. CASE ~(stake * raised > PerRaceCap)
    BY <1>4, <1>5, <2>2
  <2>3. QED
    BY <2>1, <2>2
<1>9. ASSUME stake <= PerRaceCap PROVE stake * count <= PerRaceCap
  <2>1. CASE count = 1
    BY <1>9, <2>1
  <2>2. CASE count = cut
    <3>1. stake * count = count * stake
      BY <1>8
    <3>2. QED
      BY <1>3, <2>2, <3>1
  <2>3. CASE count = raised /\ count # 1 /\ count # cut
    <3>1. CASE stake * raised > PerRaceCap
      BY <1>3, <1>4, <2>3, <3>1 DEF Greater
    <3>2. CASE ~(stake * raised > PerRaceCap)
      <4>1. stake * raised \in Int
        BY <1>5
      <4>2. QED
        BY <1>2, <2>3, <3>2, <4>1
    <3>3. QED
      BY <3>1, <3>2
  <2>4. QED
    BY <1>8, <2>1, <2>2, <2>3
<1>10. ASSUME count > tickets PROVE (count - 1) * stake < floor
  <2>1. raised = least
    BY <1>5, <1>6, <1>8, <1>10
  <2>2. count - 1 <= least - 1 /\ count - 1 \in Int /\ least - 1 \in Int
    BY <1>1, <1>8, <2>1
  <2>3. (count - 1) * stake <= (least - 1) * stake
    BY <2>2, Scale
  <2>4. (count - 1) * stake \in Int /\ (least - 1) * stake \in Int
    BY <2>2
  <2>5. QED
    BY <1>1, <2>3, <2>4
<1>11. stake * tickets >= floor => count <= tickets
  BY <1>7, <1>8
<1>12. QED
  BY <1>8, <1>9, <1>10, <1>11 DEF count

\* The caller's ledger.
IsLedger(account) ==
    /\ account.bank \in Int /\ account.turnover \in Nat
    /\ account.front_races_done \in Nat /\ account.races_bet \in Nat
    /\ account.races_remaining \in Int

\* current_floor: the floor is a number of points, and while the minimum turnover is
\* not reached it is the cap or covers the share of the races that are left.
LEMMA CurrentFloorParts ==
    ASSUME NEW account, IsLedger(account)
    PROVE  /\ CurrentFloor(account) \in Nat
           /\ account.turnover < MinTurnover /\ account.front_races_done >= FrontRaces - 1
                /\ CurrentFloor(account) < PerRaceCap
                => account.turnover + CurrentFloor(account) >= MinTurnover
<1> DEFINE left == Greater(1, FrontRaces - account.front_races_done)
           missing == MinTurnover - account.turnover
           need == RoundUp(missing, left * StakeUnit) * StakeUnit
           floor == CurrentFloor(account)
<1>1. /\ account.turnover \in Nat /\ account.front_races_done \in Nat
      /\ {TailFloor, MinTurnover, PerRaceCap, FrontRaces} \subseteq Nat \ {0}
      /\ StakeUnit \in Nat \ {0}
  BY TableAssumption, ContractAssumption DEF IsLedger
<1>2. left \in Nat \ {0} /\ (account.front_races_done >= FrontRaces - 1 => left = 1)
  BY <1>1 DEF Greater
<1>3. missing \in Int
  BY <1>1
<1>4. floor = IF account.turnover >= MinTurnover THEN TailFloor
              ELSE Lesser(PerRaceCap, Greater(TailFloor, need))
  BY DEF CurrentFloor
<1> HIDE DEF left, missing, floor
<1>5. left * StakeUnit \in Nat \ {0}
  BY <1>1, <1>2
<1>6. need \in Int /\ (left = 1 => need >= missing)
  <2>1. /\ RoundUp(missing, left * StakeUnit) \in Int
        /\ missing <= RoundUp(missing, left * StakeUnit) * (left * StakeUnit)
    BY <1>3, <1>5, RoundUpParts
  <2>2. need \in Int
    BY <1>1, <2>1
  <2>3. ASSUME left = 1 PROVE need >= missing
    <3>1. left * StakeUnit = StakeUnit
      BY <1>1, <2>3
    <3>2. QED
      BY <2>1, <3>1
  <2>4. QED
    BY <2>2, <2>3
<1> HIDE DEF need
<1>7. floor \in Nat
  BY <1>1, <1>4, <1>6 DEF Lesser, Greater
<1>8. ASSUME account.turnover < MinTurnover, left = 1, floor < PerRaceCap
      PROVE  account.turnover + floor >= MinTurnover
  <2>1. floor = Greater(TailFloor, need)
    BY <1>1, <1>4, <1>6, <1>8 DEF Lesser, Greater
  <2>2. floor >= missing
    BY <1>1, <1>3, <1>6, <1>8, <2>1 DEF Greater
  <2>3. QED
    BY <1>1, <1>7, <2>2 DEF missing
<1>9. QED
  BY <1>2, <1>7, <1>8 DEF floor

\* The row the policy table has for a ledger.
LEMMA LookupParts ==
    ASSUME NEW account, IsLedger(account)
    PROVE  \E key \in DOMAIN Table : Lookup(account) = Table[key]
<1> DEFINE remaining == Greater(1, Lesser(TableRaces, account.races_remaining))
           R == Rows(account)
           banks == {key[2] : key \in R}
<1>1. TableRaces \in Nat \ {0} /\ account.bank \in Int /\ account.races_remaining \in Int
  BY TableAssumption DEF IsLedger
<1>2. remaining \in 1..TableRaces
  BY <1>1 DEF Greater, Lesser
<1>3. R = {key \in DOMAIN Table : key[1] = remaining /\ key[2] <= Greater(0, account.bank)}
  BY DEF Rows
<1> HIDE DEF R, remaining
<1>4. \A key \in DOMAIN Table : key \in (1..TableRaces) \X Nat
  BY TableAssumption
<1>5. <<remaining, 0>> \in R
  <2>1. <<remaining, 0>> \in DOMAIN Table
    BY <1>2, TableAssumption
  <2>2. 0 <= Greater(0, account.bank)
    BY <1>1 DEF Greater
  <2>3. QED
    BY <1>3, <2>1, <2>2
<1>6. IsFiniteSet(banks)
  <2>1. IsFiniteSet(R)
    <3>1. R \subseteq DOMAIN Table
      BY <1>3
    <3>2. QED
      BY <3>1, FS_Subset, TableAssumption
  <2>2. [key \in R |-> key[2]] \in Surjection(R, banks)
    BY DEF Surjection
  <2>3. QED
    BY <2>1, <2>2, FS_Surjection
<1>7. banks \subseteq Int /\ banks # {}
  BY <1>3, <1>4, <1>5
<1>8. PICK richest \in banks : \A bank \in banks : bank <= richest
  BY <1>6, <1>7, GreatestOf
<1>9. \E key \in R : \A other \in R : other[2] <= key[2]
  BY <1>8
<1> HIDE DEF banks
<1>10. PICK key \in R : key = CHOOSE k \in R : \A other \in R : other[2] <= k[2]
  BY <1>9
<1>11. QED
  BY <1>3, <1>10 DEF Lookup, R

\* What the policy table tells a front race to do.
IsInstruction(instruction) ==
    /\ instruction.stake \in Int /\ instruction.tickets \in Nat \ {0}
    /\ instruction.floor \in Int

\* Every instruction of the table is one, from a row of it or a place bet on the floor.
LEMMA TableInstructionParts ==
    ASSUME NEW account, IsLedger(account)
    PROVE  LET instruction == TableInstruction(account)
           IN  /\ IsInstruction(instruction) /\ instruction.floor = CurrentFloor(account)
               /\ \E key \in DOMAIN Table :
                     \/ /\ instruction.pool = "place" /\ instruction.tickets = 1
                        /\ instruction.stake = Greater(CurrentFloor(account), StakeUnit)
                     \/ /\ instruction.pool = Table[key].pool
                        /\ instruction.tickets = Table[key].tickets /\ Table[key].tickets > 0
                        /\ instruction.stake = Table[key].stake
<1> DEFINE instruction == TableInstruction(account)
           floor == CurrentFloor(account)
<1>1. PICK key \in DOMAIN Table : Lookup(account) = Table[key]
  BY LookupParts
<1>2. Table[key] \in [pool : STRING, tickets : Nat, stake : Nat]
  BY TableAssumption
<1>3. floor \in Nat
  BY CurrentFloorParts
<1>4. StakeUnit \in Nat
  BY ContractAssumption
<1> HIDE DEF floor
<1>5. instruction = IF Table[key].tickets = 0
                    THEN [pool |-> "place", tickets |-> 1, stake |-> Greater(floor, StakeUnit),
                          floor |-> floor]
                    ELSE [pool |-> Table[key].pool, tickets |-> Table[key].tickets,
                          stake |-> Table[key].stake, floor |-> floor]
  BY <1>1 DEF TableInstruction, floor
<1> HIDE DEF instruction
<1>6. CASE Table[key].tickets = 0
  <2>1. /\ instruction.pool = "place" /\ instruction.tickets = 1
        /\ instruction.stake = Greater(floor, StakeUnit) /\ instruction.floor = floor
    BY <1>5, <1>6
  <2>2. IsInstruction(instruction)
    BY <1>3, <1>4, <2>1 DEF IsInstruction, Greater
  <2>3. QED
    BY <2>1, <2>2 DEF instruction, floor
<1>7. CASE Table[key].tickets # 0
  <2>1. /\ instruction.pool = Table[key].pool /\ instruction.tickets = Table[key].tickets
        /\ instruction.stake = Table[key].stake /\ instruction.floor = floor
    BY <1>5, <1>7
  <2>2. IsInstruction(instruction) /\ Table[key].tickets > 0
    BY <1>2, <1>3, <1>7, <2>1 DEF IsInstruction
  <2>3. QED
    BY <2>1, <2>2 DEF instruction, floor
<1>8. QED
  BY <1>6, <1>7

\* A number of units.
IsUnits(points) == \E k \in Int : points = k * StakeUnit

\* A unit and nothing are numbers of units.
LEMMA OneUnit == IsUnits(StakeUnit) /\ IsUnits(0)
<1>1. StakeUnit \in Nat
  BY ContractAssumption
<1>2. StakeUnit = 1 * StakeUnit /\ 0 = 0 * StakeUnit
  BY <1>1
<1>3. QED
  BY <1>2 DEF IsUnits

\* The scripts test a number of units by its remainder.
LEMMA UnitsAreWhole ==
    ASSUME NEW points \in Int
    PROVE  IsUnits(points) <=> WholeUnits(points)
<1>1. StakeUnit \in Nat \ {0}
  BY ContractAssumption
<1>2. ASSUME IsUnits(points) PROVE WholeUnits(points)
  <2>1. PICK k \in Int : points = k * StakeUnit
    BY <1>2 DEF IsUnits
  <2>2. (k * StakeUnit) % StakeUnit = 0
    BY <1>1, Multiples
  <2>3. QED
    BY <2>1, <2>2 DEF WholeUnits
<1>3. ASSUME WholeUnits(points) PROVE IsUnits(points)
  <2>1. points % StakeUnit = 0
    BY <1>3 DEF WholeUnits
  <2>2. (points \div StakeUnit) * StakeUnit = points /\ points \div StakeUnit \in Int
    BY <1>1, <2>1, Multiples, Quotient
  <2>3. QED
    BY <2>2 DEF IsUnits
<1>4. QED
  BY <1>2, <1>3

\* Sums and differences of units are units.
LEMMA UnitsAdd ==
    ASSUME NEW a, NEW b, IsUnits(a), IsUnits(b)
    PROVE  IsUnits(a + b) /\ IsUnits(a - b) /\ a \in Int
<1>1. StakeUnit \in Nat
  BY ContractAssumption
<1>2. PICK k \in Int : a = k * StakeUnit
  BY DEF IsUnits
<1>3. PICK m \in Int : b = m * StakeUnit
  BY DEF IsUnits
<1>4. a + b = (k + m) * StakeUnit /\ a - b = (k - m) * StakeUnit
  BY <1>1, <1>2, <1>3
<1>5. k + m \in Int /\ k - m \in Int
  OBVIOUS
<1>6. IsUnits(a + b) /\ IsUnits(a - b)
  BY <1>4, <1>5 DEF IsUnits
<1>7. QED
  BY <1>1, <1>2, <1>6

\* Less than one unit more is no unit more.
LEMMA UnitsApart ==
    ASSUME NEW a, NEW b, IsUnits(a), IsUnits(b), a < b
    PROVE  a + StakeUnit <= b
<1>1. StakeUnit \in Nat \ {0}
  BY ContractAssumption
<1>2. PICK k \in Int : a = k * StakeUnit
  BY DEF IsUnits
<1>3. PICK m \in Int : b = m * StakeUnit
  BY DEF IsUnits
<1>4. k + 1 <= m
  <2>1. SUFFICES ASSUME m <= k PROVE FALSE
    OBVIOUS
  <2>2. m * StakeUnit <= k * StakeUnit /\ m * StakeUnit \in Int /\ k * StakeUnit \in Int
    BY <1>1, <2>1, Scale
  <2>3. QED
    BY <1>2, <1>3, <2>2
<1>5. (k + 1) * StakeUnit <= m * StakeUnit
  BY <1>1, <1>4, Scale
<1>6. (k + 1) * StakeUnit = k * StakeUnit + StakeUnit
  BY <1>1
<1>7. QED
  BY <1>2, <1>3, <1>5, <1>6

\* ceil_unit: a positive number of units, and not one too many.
LEMMA CeilUnitParts ==
    ASSUME NEW n \in Int, NEW d \in Nat \ {0}
    PROVE  /\ IsUnits(CeilUnit(n, d))
           /\ CeilUnit(n, d) \in Nat /\ CeilUnit(n, d) >= StakeUnit
           /\ (CeilUnit(n, d) - StakeUnit) * d < Greater(n, d * StakeUnit)
<1> DEFINE m == Greater(n, d * StakeUnit)
           k == RoundUp(m, d * StakeUnit)
<1>1. StakeUnit \in Nat \ {0}
  BY ContractAssumption
<1>2. d * StakeUnit \in Nat \ {0}
  BY <1>1
<1>3. m \in Int /\ m >= d * StakeUnit
  BY <1>2 DEF Greater
<1>4. CeilUnit(n, d) = k * StakeUnit
  BY DEF CeilUnit
<1> HIDE DEF m
<1>5. /\ k \in Int /\ m <= k * (d * StakeUnit)
      /\ (k - 1) * (d * StakeUnit) < m
  BY <1>2, <1>3, RoundUpParts
<1> HIDE DEF k
<1>6. k >= 1
  <2>1. SUFFICES ASSUME k <= 0 PROVE FALSE
    BY <1>5
  <2>2. k * (d * StakeUnit) <= 0 * (d * StakeUnit)
    BY <1>2, <1>5, <2>1, Scale
  <2>3. k * (d * StakeUnit) \in Int /\ 0 * (d * StakeUnit) = 0
    BY <1>2, <1>5
  <2>4. QED
    BY <1>2, <1>3, <1>5, <2>2, <2>3
<1>7. k * StakeUnit \in Nat /\ k * StakeUnit >= StakeUnit
  <2>1. 1 * StakeUnit <= k * StakeUnit
    BY <1>1, <1>5, <1>6, Scale
  <2>2. k * StakeUnit \in Int
    BY <1>1, <1>5
  <2>3. QED
    BY <1>1, <2>1, <2>2
<1>8. (k - 1) * (d * StakeUnit) = (k * StakeUnit - StakeUnit) * d
  <2>1. (k - 1) * (d * StakeUnit) = ((k - 1) * StakeUnit) * d
    <3>1. k - 1 \in Int
      BY <1>5
    <3>2. QED
      BY <1>1, <3>1, Regroup
  <2>2. (k - 1) * StakeUnit = k * StakeUnit - StakeUnit
    BY <1>1, <1>5
  <2>3. QED
    BY <2>1, <2>2
<1>9. IsUnits(CeilUnit(n, d))
  BY <1>4, <1>5 DEF IsUnits
<1>10. QED
  BY <1>4, <1>5, <1>7, <1>8, <1>9 DEF m

\* What the account still lacks is a natural number.
LEMMA NeedsParts ==
    ASSUME NEW account, IsLedger(account)
    PROVE  TurnoverNeed(account) \in Nat /\ CountNeed(account) \in Nat
<1>1. TailPolicy.turnover \in Nat /\ TailPolicy.races \in Nat
  BY TailAssumption
<1>2. account.turnover \in Nat /\ account.races_bet \in Nat
  BY DEF IsLedger
<1>3. QED
  BY <1>1, <1>2 DEF TurnoverNeed, CountNeed, Greater

\* What qualification asks of a race.
LEMMA QualificationParts ==
    ASSUME NEW account, IsLedger(account)
    PROVE  /\ QualificationFloor(account) \in Nat /\ QualificationFloor(account) >= StakeUnit
           /\ IsUnits(QualificationFloor(account))
<1>1. TurnoverNeed(account) \in Nat /\ CountNeed(account) \in Nat
  BY NeedsParts
<1>2. StakeUnit \in Nat \ {0}
  BY ContractAssumption
<1>3. CASE CountNeed(account) > 0 /\ TurnoverNeed(account) > 0
  <2>1. QualificationFloor(account) = CeilUnit(TurnoverNeed(account), CountNeed(account))
    BY <1>3 DEF QualificationFloor
  <2>2. CountNeed(account) \in Nat \ {0} /\ TurnoverNeed(account) \in Int
    BY <1>1, <1>3
  <2>3. QED
    BY <2>1, <2>2, CeilUnitParts
<1>4. CASE ~(CountNeed(account) > 0 /\ TurnoverNeed(account) > 0)
  <2>1. QualificationFloor(account) = StakeUnit
    BY <1>4 DEF QualificationFloor
  <2>2. IsUnits(StakeUnit)
    BY <1>2, OneUnit
  <2>3. QED
    BY <1>2, <2>1, <2>2
<1>5. QED
  BY <1>3, <1>4

\* So is the goal, whoever leads the ranking.
LEMMA GoalParts ==
    ASSUME NEW ranking \in Rankings, NEW date, NEW now \in Int
    PROVE  EffectiveGoal(ranking, date, now) \in Nat
<1>1. TailPolicy.base \in Nat /\ TailPolicy.most \in Nat /\ TailPolicy.buffer \in Nat
  BY TailAssumption
<1>2. ranking.leader \in Nat /\ ranking.goal \in Nat
  BY CaptureAssumption
<1>3. StakeUnit \in Nat \ {0}
  BY ContractAssumption
<1> DEFINE proposed == Greater(ranking.goal, ranking.leader + TailPolicy.buffer)
           rounded == RoundUp(Greater(proposed, StakeUnit), StakeUnit) * StakeUnit
<1>4. Greater(proposed, StakeUnit) \in Int
  BY <1>1, <1>2, <1>3 DEF Greater
<1>5. RoundUp(Greater(proposed, StakeUnit), StakeUnit) \in Int
  BY <1>3, <1>4, RoundUpParts
<1>6. rounded \in Int
  BY <1>3, <1>5
<1> HIDE DEF rounded
<1>7. EffectiveGoal(ranking, date, now)
        \in {Lesser(TailPolicy.most, Greater(TailPolicy.base, rounded)), TailPolicy.base}
  BY DEF EffectiveGoal, rounded
<1>8. QED
  BY <1>1, <1>6, <1>7 DEF Lesser, Greater

\* What the tail asks of a single ticket: whole units, at least one, enough for
\* the goal and for the floor.
LEMMA WantedParts ==
    ASSUME NEW account, IsLedger(account), NEW aim \in Nat
    PROVE  /\ OneHit(account, aim) \in Nat /\ IsUnits(WantedOneHit(account, aim))
           /\ WantedOneHit(account, aim) \in Nat /\ WantedOneHit(account, aim) >= StakeUnit
           /\ WantedOneHit(account, aim) >= OneHit(account, aim)
           /\ WantedOneHit(account, aim) >= QualificationFloor(account)
<1>1. TurnoverNeed(account) \in Nat /\ CountNeed(account) \in Nat /\ account.bank \in Int
  BY NeedsParts DEF IsLedger
<1>2. /\ TailPolicy.odds \in Nat \ {0} /\ TailPolicy.odds - 1 \in Nat \ {0}
      /\ TailPolicy.future \in Nat
  BY TailAssumption, ContractAssumption
<1> DEFINE need == TurnoverNeed(account)
           kept == Greater(0, CountNeed(account) - 1)
           reserve == TailPolicy.future * kept
<1>3. kept \in Nat
  BY <1>1 DEF Greater
<1>4. reserve \in Nat
  BY <1>2, <1>3
<1> HIDE DEF kept, need
<1>5. need \in Nat
  BY <1>1 DEF need
<1>6. /\ aim + need - account.bank \in Int /\ need - reserve \in Int
      /\ aim + reserve - account.bank \in Int
  BY <1>1, <1>4, <1>5
<1> HIDE DEF reserve
<1>7. /\ CeilUnit(aim + need - account.bank, TailPolicy.odds) \in Nat
      /\ CeilUnit(need - reserve, 1) \in Nat
      /\ CeilUnit(aim + reserve - account.bank, TailPolicy.odds - 1) \in Nat
      /\ IsUnits(CeilUnit(aim + need - account.bank, TailPolicy.odds))
      /\ IsUnits(CeilUnit(need - reserve, 1))
      /\ IsUnits(CeilUnit(aim + reserve - account.bank, TailPolicy.odds - 1))
  <2>1. \A n \in Int, d \in Nat \ {0} : CeilUnit(n, d) \in Nat /\ IsUnits(CeilUnit(n, d))
    BY CeilUnitParts
  <2>2. 1 \in Nat \ {0}
    OBVIOUS
  <2>3. QED
    BY <1>2, <1>6, <2>1, <2>2
<1>8. OneHit(account, aim)
        \in {CeilUnit(aim + need - account.bank, TailPolicy.odds),
             Greater(CeilUnit(need - reserve, 1),
                     CeilUnit(aim + reserve - account.bank, TailPolicy.odds - 1))}
  BY DEF OneHit, need, reserve, kept
<1>9. OneHit(account, aim) \in Nat /\ IsUnits(OneHit(account, aim))
  BY <1>7, <1>8 DEF Greater
<1>10. /\ QualificationFloor(account) \in Nat /\ QualificationFloor(account) >= StakeUnit
       /\ IsUnits(QualificationFloor(account))
  BY QualificationParts
<1>11. WantedOneHit(account, aim) \in {OneHit(account, aim), QualificationFloor(account)}
  BY DEF WantedOneHit, Greater
<1>12. QED
  BY <1>9, <1>10, <1>11, ContractAssumption DEF WantedOneHit, Greater

\* one_hit_reserve_instruction: the wanted stake, cut to the cap and to the bank.
LEMMA TailInstructionParts ==
    ASSUME NEW account, IsLedger(account), NEW aim \in Nat
    PROVE  LET instruction == TailInstruction(account, aim)
           IN  /\ IsInstruction(instruction) /\ instruction.pool = TailPolicy.pool
               /\ instruction.tickets = 1 /\ instruction.floor = QualificationFloor(account)
               /\ instruction.stake <= PerRaceCap /\ IsUnits(instruction.stake)
               /\ instruction.stake = WantedOneHit(account, aim)
                  \/ instruction.stake < WantedOneHit(account, aim)
               /\ instruction.stake
                    = Lesser(Lesser(Lesser(TailPolicy.stake, PerRaceCap), WantedOneHit(account, aim)),
                             (account.bank \div StakeUnit) * StakeUnit)
<1> DEFINE wanted == WantedOneHit(account, aim)
           held == (account.bank \div StakeUnit) * StakeUnit
           capped == Lesser(Lesser(TailPolicy.stake, PerRaceCap), wanted)
           instruction == TailInstruction(account, aim)
<1>1. /\ TailPolicy.stake \in Nat /\ PerRaceCap \in Nat /\ TailPolicy.tickets = 1
      /\ IsUnits(TailPolicy.stake) /\ IsUnits(PerRaceCap)
  BY TailAssumption, TableAssumption, UnitsAreWhole
<1>2. wanted \in Nat /\ IsUnits(wanted)
  BY WantedParts
<1>3. account.bank \in Int /\ StakeUnit \in Nat \ {0}
  BY ContractAssumption DEF IsLedger
<1>4. account.bank \div StakeUnit \in Int
  BY <1>3, Quotient
<1>5. held \in Int /\ IsUnits(held)
  BY <1>3, <1>4 DEF IsUnits
<1>6. instruction = [pool |-> TailPolicy.pool, tickets |-> TailPolicy.tickets,
                     stake |-> Lesser(capped, held), floor |-> QualificationFloor(account)]
  BY DEF TailInstruction
<1>7. /\ instruction.pool = TailPolicy.pool /\ instruction.tickets = TailPolicy.tickets
      /\ instruction.stake = Lesser(capped, held)
      /\ instruction.floor = QualificationFloor(account)
  BY <1>6
<1> HIDE DEF instruction, wanted, held
<1>8. instruction.stake \in {TailPolicy.stake, PerRaceCap, wanted, held}
  BY <1>7 DEF Lesser
<1>9. instruction.stake <= PerRaceCap /\ instruction.stake <= wanted
  BY <1>1, <1>2, <1>5, <1>7 DEF Lesser
<1>10. QualificationFloor(account) \in Nat
  BY QualificationParts
<1>11. instruction.stake \in Int /\ IsUnits(instruction.stake)
  BY <1>1, <1>2, <1>5, <1>8
<1>12. IsInstruction(instruction)
  BY <1>1, <1>7, <1>10, <1>11 DEF IsInstruction
<1>13. QED
  BY <1>1, <1>2, <1>7, <1>9, <1>11, <1>12 DEF instruction, wanted, held

-----------------------------------------------------------------------------
(* The plans of the scripts. *)

\* p is an envelope with tickets, for a market that was captured in time.
Written(p, race, market, now) ==
    /\ p = Envelope(race, market, now, p.pool, p.bets) /\ IsPlan(p)
    /\ market.win # <<>> /\ now < Deadline(race)

\* The same stake on each of the first rows of a surface.
OnFirstRows(p, rows, count, stake) ==
    /\ rows \in Seq(Quoted) /\ count \in Nat \ {0} /\ count <= Len(rows)
    /\ Len(p.bets) = count /\ PayloadStake(p) = count * stake
    /\ \A i \in 1..count : /\ i \in DOMAIN rows /\ p.bets[i].bet = rows[i].horses
                           /\ p.bets[i].money = stake

\* What the envelope of the scripts sets beside the bets.
LEMMA EnvelopeParts ==
    ASSUME NEW race, NEW market, NEW now, NEW pool, NEW bets
    PROVE  LET p == Envelope(race, market, now, pool, bets)
           IN  /\ p.bets = bets /\ p.pool = pool /\ p.race_id = race.id /\ p # NoPlan
               /\ p.race_date = DateOf(race.post) /\ p.created = now /\ p.post = race.post
               /\ p.target = Target(race) /\ p.deadline = Deadline(race)
               /\ p.mark = MarksFromMarket(market.win)
<1> DEFINE p == Envelope(race, market, now, pool, bets)
<1>1. p # NoPlan
  <2>1. DOMAIN NoPlan = {"race_id"} /\ "bets" \in DOMAIN p
    BY DEF NoPlan, Envelope
  <2>2. QED
    BY <2>1
<1>2. QED
  BY <1>1 DEF Envelope

\* build_vote_plan.py, by the table or by the one-hit strategy.
LEMMA VotePlanParts ==
    ASSUME NEW race, NEW market, NEW now, NEW bank, NEW instruction, IsInstruction(instruction),
           market.rows[instruction.pool] \in Seq(Quoted),
           race.post \in Nat, now \in Int,
           NEW p, p = BuildVotePlan(race, market, now, bank, instruction), p # NoPlan
    PROVE  /\ Written(p, race, market, now) /\ p.pool = instruction.pool
           /\ instruction.stake \in Nat \ {0} /\ instruction.stake >= StakeUnit
           /\ ~(instruction.stake * FitTickets(instruction) > bank)
           /\ OnFirstRows(p, LoadSurface(market.rows[instruction.pool]),
                          FitTickets(instruction), instruction.stake)
<1> DEFINE count == FitTickets(instruction)
           stake == instruction.stake
           chosen == PickRows(market, instruction.pool, count)
           rows == LoadSurface(market.rows[instruction.pool])
<1>1. /\ ~(stake < StakeUnit) /\ ~(stake * count > bank)
      /\ ~(Len(chosen) < count) /\ ~(now >= Deadline(race))
      /\ p = Envelope(race, market, now, instruction.pool, Tickets(chosen, stake))
  <2>1. p = IF \/ stake < StakeUnit \/ stake * count > bank
               \/ Len(chosen) < count \/ now >= Deadline(race)
            THEN NoPlan
            ELSE Envelope(race, market, now, instruction.pool, Tickets(chosen, stake))
    BY DEF BuildVotePlan
  <2> HIDE DEF count, stake, chosen
  <2>2. QED
    BY <2>1
<1>2. StakeUnit \in Nat \ {0} /\ stake \in Int
  BY ContractAssumption DEF IsInstruction
<1>3. stake \in Nat \ {0} /\ stake >= StakeUnit
  BY <1>1, <1>2
<1>4. count \in Nat \ {0}
  BY <1>3, FitParts DEF IsInstruction
<1> HIDE DEF count
<1>5. Len(chosen) >= count
  <2>1. market.win # <<>> => chosen = SubSeq(rows, 1, Lesser(Len(rows), count))
    BY DEF PickRows
  <2>2. rows \in Seq(Quoted)
    BY LoadParts
  <2>3. Len(chosen) \in Int
    <3>1. CASE market.win = <<>>
      <4>1. chosen = <<>>
        BY <3>1 DEF PickRows
      <4>2. QED
        BY <4>1
    <3>2. CASE market.win # <<>>
      <4> HIDE DEF rows, chosen
      <4>1. Len(rows) \in Nat /\ Lesser(Len(rows), count) \in Int
        BY <1>4, <2>2, SeqParts DEF Lesser
      <4>2. SubSeq(rows, 1, Lesser(Len(rows), count)) \in Seq(Quoted)
        <5>1. Lesser(Len(rows), count) <= Len(rows)
          BY <1>4, <4>1 DEF Lesser
        <5>2. \A i \in 1..Len(rows) : rows[i] \in Quoted
          BY <2>2, SeqParts
        <5>3. QED
          BY <2>2, <4>1, <5>1, <5>2
      <4>3. QED
        BY <2>1, <3>2, <4>2, SeqParts
    <3>3. QED
      BY <3>1, <3>2
  <2>4. QED
    BY <1>1, <1>4, <2>3
<1>6. /\ market.win # <<>> /\ rows \in Seq(Quoted) /\ count <= Len(rows)
      /\ chosen \in Seq(Quoted) /\ Len(chosen) = count
      /\ \A i \in 1..count : chosen[i] = rows[i] /\ i \in DOMAIN rows
  BY <1>4, <1>5, PickRowsParts
<1> HIDE DEF chosen, rows, stake
<1>7. chosen # <<>>
  <2>1. CASE chosen = <<>>
    <3>1. Len(chosen) = 0
      BY <2>1
    <3>2. QED
      BY <1>4, <1>6, <3>1
  <2>2. QED
    BY <2>1
<1>8. /\ IsPlan(p) /\ Len(p.bets) = count /\ PayloadStake(p) = count * stake
      /\ \A i \in 1..count : p.bets[i].bet = chosen[i].horses /\ p.bets[i].money = stake
  <2>1. stake \in Nat
    BY <1>3
  <2>2. QED
    BY <1>1, <1>6, <1>7, <2>1, TicketsCost
<1>9. Written(p, race, market, now) /\ p.pool = instruction.pool
  <2>1. p.bets = Tickets(chosen, stake) /\ p.pool = instruction.pool
    BY <1>1, EnvelopeParts
  <2>2. Deadline(race) \in Int
    BY ContractAssumption DEF Deadline
  <2>3. QED
    BY <1>1, <1>6, <1>8, <2>1, <2>2 DEF Written
<1>10. OnFirstRows(p, rows, count, stake)
  BY <1>4, <1>6, <1>8 DEF OnFirstRows
<1>11. QED
  BY <1>1, <1>3, <1>9, <1>10 DEF count, rows, stake

\* sanrentan3_plan.py.
LEMMA Sanrentan3Parts ==
    ASSUME NEW race, NEW market, NEW now, market.rows["sanrentan"] \in Seq(Quoted),
           race.post \in Nat, now \in Int,
           NEW p, p = BuildSanrentan3(race, market, now), p # NoPlan
    PROVE  /\ Written(p, race, market, now) /\ p.pool = "sanrentan"
           /\ OnFirstRows(p, LoadSurface(market.rows["sanrentan"]), FixedTickets, FixedStake)
<1> DEFINE chosen == PickRows(market, "sanrentan", FixedTickets)
           rows == LoadSurface(market.rows["sanrentan"])
<1>1. /\ Len(chosen) = FixedTickets /\ ~(now >= Deadline(race))
      /\ p = Envelope(race, market, now, "sanrentan", Tickets(chosen, FixedStake))
  BY DEF BuildSanrentan3
<1>2. FixedTickets \in Nat \ {0} /\ FixedStake \in Nat
  BY FixedAssumption
<1>3. Len(chosen) >= FixedTickets
  BY <1>1, <1>2
<1>4. /\ market.win # <<>> /\ rows \in Seq(Quoted) /\ FixedTickets <= Len(rows)
      /\ chosen \in Seq(Quoted)
      /\ \A i \in 1..FixedTickets : chosen[i] = rows[i] /\ i \in DOMAIN rows
  BY <1>2, <1>3, PickRowsParts
<1> HIDE DEF chosen, rows
<1>5. chosen # <<>>
  <2>1. CASE chosen = <<>>
    <3>1. Len(chosen) = 0
      BY <2>1
    <3>2. QED
      BY <1>1, <1>2, <3>1
  <2>2. QED
    BY <2>1
<1>6. /\ IsPlan(p) /\ Len(p.bets) = FixedTickets /\ PayloadStake(p) = FixedTickets * FixedStake
      /\ \A i \in 1..FixedTickets :
            p.bets[i].bet = chosen[i].horses /\ p.bets[i].money = FixedStake
  <2>1. /\ IsPlan(p) /\ Len(p.bets) = Len(chosen) /\ PayloadStake(p) = Len(chosen) * FixedStake
        /\ \A i \in 1..Len(chosen) :
              p.bets[i].bet = chosen[i].horses /\ p.bets[i].money = FixedStake
    <3>1. p = Envelope(race, market, now, "sanrentan", Tickets(chosen, FixedStake))
      BY <1>1
    <3>2. chosen \in Seq(Quoted) /\ FixedStake \in Nat
      BY <1>2, <1>4
    <3>3. QED
      BY <1>5, <3>1, <3>2, TicketsCost
  <2>2. QED
    BY <1>1, <2>1
<1>7. p.bets = Tickets(chosen, FixedStake) /\ p.pool = "sanrentan" /\ now < Deadline(race)
  <2>1. Deadline(race) \in Int
    BY ContractAssumption DEF Deadline
  <2>2. QED
    BY <1>1, <2>1, EnvelopeParts
<1>8. QED
  BY <1>1, <1>2, <1>4, <1>6, <1>7 DEF Written, OnFirstRows, rows

-----------------------------------------------------------------------------
(* The all-in script. *)

\* The first k of some positions.
FirstOf(S, k) == {i \in S : Cardinality({j \in S : j < i}) < k}

\* The first k of some positions are k, or all of them.
LEMMA FirstOfCounts ==
    ASSUME NEW S \in SUBSET Int, IsFiniteSet(S), NEW k \in Nat
    PROVE  /\ IsFiniteSet(FirstOf(S, k)) /\ Cardinality(FirstOf(S, k)) \in Nat
           /\ Cardinality(FirstOf(S, k)) <= k
           /\ k <= Cardinality(S) => Cardinality(FirstOf(S, k)) = k
<1> DEFINE before == Before(S)
           F == FirstOf(S, k)
           T == 0..(k - 1)
<1>1. Orders(before, S)
  BY BeforeOrders
<1>2. \A x \in S : Rank(before, S, x) = Cardinality({j \in S : j < x})
  <2>1. \A x \in S : {y \in S : <<y, x>> \in before} = {y \in S : y < x}
    BY DEF Before
  <2>2. QED
    BY <2>1 DEF Rank
<1> HIDE DEF before
<1>3. F = {x \in S : Rank(before, S, x) < k}
  BY <1>2 DEF FirstOf
<1>4. /\ \A x \in S : Rank(before, S, x) \in 0..(Cardinality(S) - 1)
      /\ \A x, y \in S : Rank(before, S, x) = Rank(before, S, y) => x = y
  BY <1>1, RankGrows
<1>5. Cardinality(S) \in Nat
  BY FS_CardinalityType
<1> HIDE DEF F
<1>6. IsFiniteSet(F) /\ Cardinality(F) \in Nat
  BY <1>3, FS_Subset, FS_CardinalityType
<1> DEFINE f == [x \in F |-> Rank(before, S, x)]
<1>7. f \in Injection(F, T)
  <2>1. \A x \in F : x \in S /\ Rank(before, S, x) \in T
    BY <1>3, <1>4, <1>5
  <2> HIDE DEF T
  <2>2. f \in [F -> T]
    BY <2>1
  <2>3. \A x, y \in F : f[x] = f[y] => x = y
    BY <1>4, <2>1
  <2> HIDE DEF f
  <2>4. QED
    BY <2>2, <2>3 DEF Injection, IsInjective
<1>8. IsFiniteSet(T) /\ Cardinality(T) = k
  <2>1. 0 \in Int /\ k - 1 \in Int
    OBVIOUS
  <2>2. /\ IsFiniteSet(0..(k - 1))
        /\ Cardinality(0..(k - 1)) = IF 0 > k - 1 THEN 0 ELSE k - 1 - 0 + 1
    BY <2>1, FS_Interval
  <2>3. QED
    BY <2>2
<1>9. Cardinality(F) <= k
  BY <1>7, <1>8, FS_Injection
<1>10. ASSUME k <= Cardinality(S) PROVE Cardinality(F) = k
  <2>1. f \in Surjection(F, T)
    <3>1. ASSUME NEW r \in T PROVE \E x \in F : f[x] = r
      <4>1. r \in 0..(Cardinality(S) - 1) /\ r < k
        BY <1>5, <1>10
      <4> HIDE DEF T, f
      <4>2. PICK x \in S : Rank(before, S, x) = r
        BY <4>1, PositionIsTaken DEF before
      <4>3. x \in F
        BY <1>3, <4>1, <4>2
      <4>4. QED
        BY <4>2, <4>3 DEF f
    <3>2. f \in [F -> T]
      BY <1>7 DEF Injection
    <3> HIDE DEF f, T
    <3>3. QED
      BY <3>1, <3>2 DEF Surjection
  <2>2. QED
    BY <1>7, <1>8, <2>1, FS_Injection
<1>11. QED
  BY <1>6, <1>9, <1>10 DEF F

\* The all-in script knows three bands of odds.
LEMMA BandParts ==
    ASSUME NEW odds \in Nat
    PROVE  Band(odds) \in 1..3
<1> DEFINE S == {i \in DOMAIN BandLimits : odds >= BandLimits[i]}
<1>1. DOMAIN BandLimits = 1..2
  BY AllinAssumption
<1>2. IsFiniteSet(1..2) /\ Cardinality(1..2) = 2
  <2>1. PICK a \in Int, b \in Int : a = 1 /\ b = 2
    OBVIOUS
  <2>2. IsFiniteSet(a..b) /\ Cardinality(a..b) = IF a > b THEN 0 ELSE b - a + 1
    BY FS_Interval
  <2>3. QED
    BY <2>1, <2>2
<1>3. S \in SUBSET (1..2)
  BY <1>1
<1>4. Cardinality(S) \in Nat /\ Cardinality(S) <= 2
  BY <1>2, <1>3, FS_Subset, FS_CardinalityType
<1>5. QED
  BY <1>4 DEF Band

\* The sum of three shares is not exceeded.
LEMMA ThreeCount ==
    ASSUME NEW A, NEW B, NEW C, IsFiniteSet(A), IsFiniteSet(B), IsFiniteSet(C),
           NEW a \in Nat, NEW b \in Nat, NEW c \in Nat,
           Cardinality(A) <= a, Cardinality(B) <= b, Cardinality(C) <= c
    PROVE  /\ IsFiniteSet((A \union B) \union C)
           /\ Cardinality((A \union B) \union C) <= a + b + c
<1>1. /\ IsFiniteSet(A \union B)
      /\ Cardinality(A \union B) = Cardinality(A) + Cardinality(B) - Cardinality(A \intersect B)
  BY FS_Union
<1>2. /\ IsFiniteSet((A \union B) \union C)
      /\ Cardinality((A \union B) \union C)
           = Cardinality(A \union B) + Cardinality(C) - Cardinality((A \union B) \intersect C)
  BY <1>1, FS_Union
<1>3. /\ Cardinality(A) \in Nat /\ Cardinality(B) \in Nat /\ Cardinality(C) \in Nat
      /\ Cardinality(A \intersect B) \in Nat /\ Cardinality((A \union B) \intersect C) \in Nat
  <2>1. IsFiniteSet(A \intersect B) /\ IsFiniteSet((A \union B) \intersect C)
    BY <1>1, FS_Intersection
  <2>2. QED
    BY <2>1, FS_CardinalityType
<1>4. QED
  BY <1>1, <1>2, <1>3

\* The budget of a class covers its bands and its boost.
LEMMA ClassParts ==
    ASSUME NEW class \in Classes
    PROVE  LET spec == ClassSpecs[class]
           IN  /\ spec.tickets \in Nat \ {0} /\ spec.boost \in Nat /\ WholeUnits(spec.boost)
               /\ \A i \in 1..3 : spec.bands[i] \in Nat
               /\ spec.bands[1] + spec.bands[2] + spec.bands[3] <= spec.tickets
               /\ spec.tickets <= ClassSpecs["A"].tickets
BY AllinAssumption

\* select_candidates: whatever the bands lack, as many as the class holds.
LEMMA SelectParts ==
    ASSUME NEW scored \in Seq(Quoted), NEW class \in Classes,
           Len(scored) >= ClassSpecs["A"].tickets
    PROVE  /\ SelectCandidates(scored, class) \in Seq(Quoted)
           /\ Len(SelectCandidates(scored, class)) = ClassSpecs[class].tickets
           /\ \E chosen : \E q : /\ chosen \in SUBSET (DOMAIN scored)
                                 /\ Selects(SelectCandidates(scored, class), scored, chosen, q)
<1> DEFINE spec == ClassSpecs[class]
           D == DOMAIN scored
           better(S, i) == Cardinality({j \in S : j < i})
           peers(i) == {j \in D : Band(scored[j].odds) = Band(scored[i].odds)}
           banded == {i \in D : better(peers(i), i) < spec.bands[Band(scored[i].odds)]}
           rest == D \ banded
           more == {i \in rest : better(rest, i) < spec.tickets - Cardinality(banded)}
           chosen == banded \union more
           of(b) == {j \in D : Band(scored[j].odds) = b}
<1>1. SelectCandidates(scored, class) = Subsequence(scored, chosen)
  BY DEF SelectCandidates
<1>2. D = 1..Len(scored) /\ Len(scored) \in Nat /\ \A i \in D : scored[i].odds \in Nat
  <2>1. DOMAIN scored = 1..Len(scored) /\ Len(scored) \in Nat
    BY SeqParts
  <2>2. \A i \in DOMAIN scored : scored[i] \in Quoted
    BY SeqParts
  <2>3. QED
    BY <2>1, <2>2 DEF Quoted
<1>3. IsFiniteSet(D) /\ Cardinality(D) = Len(scored) /\ D \subseteq Int
  <2> DEFINE n == Len(scored)
  <2>1. n \in Nat /\ D = 1..n
    BY <1>2
  <2> HIDE DEF n, D
  <2>2. 1 \in Int /\ n \in Int
    BY <2>1
  <2>3. IsFiniteSet(1..n) /\ Cardinality(1..n) = IF 1 > n THEN 0 ELSE n - 1 + 1
    BY <2>2, FS_Interval
  <2>4. IsFiniteSet(D) /\ Cardinality(D) = n /\ D \subseteq Int
    BY <2>1, <2>3
  <2>5. QED
    BY <2>4 DEF n
<1>4. /\ spec.tickets \in Nat \ {0} /\ spec.tickets <= Len(scored)
      /\ \A i \in 1..3 : spec.bands[i] \in Nat
      /\ spec.bands[1] + spec.bands[2] + spec.bands[3] <= spec.tickets
  <2>1. "A" \in Classes
    BY DEF Classes
  <2>2. ClassSpecs["A"].tickets \in Nat
    BY <2>1, ClassParts
  <2>3. QED
    BY <1>2, <2>2, ClassParts
<1>5. \A i \in D : Band(scored[i].odds) \in 1..3
  BY <1>2, BandParts
<1> HIDE DEF D, spec
<1>6. banded = (FirstOf(of(1), spec.bands[1]) \union FirstOf(of(2), spec.bands[2]))
                 \union FirstOf(of(3), spec.bands[3])
  <2>1. ASSUME NEW i \in D, NEW b \in 1..3
        PROVE  i \in FirstOf(of(b), spec.bands[b])
                 <=> Band(scored[i].odds) = b /\ better(peers(i), i) < spec.bands[Band(scored[i].odds)]
    BY DEF FirstOf
  <2>2. \A i \in D : i \in banded
             <=> \E b \in 1..3 : i \in FirstOf(of(b), spec.bands[b])
    BY <1>5, <2>1
  <2>3. \A b \in 1..3 : FirstOf(of(b), spec.bands[b]) \subseteq D
    BY DEF FirstOf
  <2>4. banded \subseteq D
    OBVIOUS
  <2> HIDE DEF banded, of
  <2>5. QED
    BY <2>2, <2>3, <2>4
<1>7. /\ IsFiniteSet(banded) /\ Cardinality(banded) \in Nat
      /\ Cardinality(banded) <= spec.tickets
  <2>1. ASSUME NEW b \in 1..3
        PROVE  /\ IsFiniteSet(FirstOf(of(b), spec.bands[b]))
               /\ Cardinality(FirstOf(of(b), spec.bands[b])) <= spec.bands[b]
    <3>1. of(b) \in SUBSET Int /\ IsFiniteSet(of(b)) /\ spec.bands[b] \in Nat
      BY <1>3, <1>4, FS_Subset
    <3> HIDE DEF of
    <3>2. QED
      BY <3>1, FirstOfCounts
  <2> DEFINE A == FirstOf(of(1), spec.bands[1])
             B == FirstOf(of(2), spec.bands[2])
             C == FirstOf(of(3), spec.bands[3])
  <2>2. /\ IsFiniteSet(A) /\ IsFiniteSet(B) /\ IsFiniteSet(C)
        /\ Cardinality(A) <= spec.bands[1] /\ Cardinality(B) <= spec.bands[2]
        /\ Cardinality(C) <= spec.bands[3]
    BY <2>1
  <2>3. banded = (A \union B) \union C
    BY <1>6
  <2> HIDE DEF A, B, C, banded
  <2>4. spec.bands[1] \in Nat /\ spec.bands[2] \in Nat /\ spec.bands[3] \in Nat
    BY <1>4
  <2>5. /\ IsFiniteSet((A \union B) \union C)
        /\ Cardinality((A \union B) \union C) <= spec.bands[1] + spec.bands[2] + spec.bands[3]
    BY <2>2, <2>4, ThreeCount
  <2>6. IsFiniteSet(banded) /\ Cardinality(banded) \in Nat
    BY <2>3, <2>5, FS_CardinalityType
  <2>7. QED
    BY <1>4, <2>3, <2>4, <2>5, <2>6
<1>8. banded \subseteq D
  OBVIOUS
<1> HIDE DEF banded
<1> DEFINE k == spec.tickets - Cardinality(banded)
<1>9. IsFiniteSet(rest) /\ rest \subseteq Int /\ Cardinality(rest) = Len(scored) - Cardinality(banded)
  <2>1. D \intersect banded = banded
    BY <1>8
  <2>2. IsFiniteSet(D \ banded)
    BY <1>3, FS_Subset
  <2>3. Cardinality(D \ banded) = Cardinality(D) - Cardinality(D \intersect banded)
    BY <1>3, FS_Difference
  <2>4. QED
    BY <1>3, <2>1, <2>2, <2>3
<1>10. more = FirstOf(rest, k)
  BY DEF FirstOf
<1>11. k \in Nat /\ k <= Cardinality(rest)
  BY <1>2, <1>4, <1>7, <1>9
<1>12. more \subseteq rest /\ rest \intersect banded = {}
  OBVIOUS
<1> HIDE DEF k, rest, more
<1>13. IsFiniteSet(more) /\ Cardinality(more) = k
  BY <1>9, <1>10, <1>11, FirstOfCounts
<1>14. banded \intersect more = {}
  BY <1>12
<1>15. Cardinality(chosen) = spec.tickets
  <2>1. Cardinality(banded \union more)
          = Cardinality(banded) + Cardinality(more) - Cardinality(banded \intersect more)
    BY <1>7, <1>13, FS_Union
  <2>2. Cardinality({}) = 0
    BY FS_EmptySet
  <2>3. QED
    <3>1. Cardinality(more) = spec.tickets - Cardinality(banded)
      BY <1>13 DEF k
    <3>2. Cardinality(banded \intersect more) = 0
      BY <1>14, <2>2
    <3>3. Cardinality(banded \union more) = spec.tickets
      BY <1>4, <1>7, <2>1, <3>1, <3>2
    <3>4. QED
      BY <3>3
<1>16. chosen \in SUBSET (DOMAIN scored)
  BY <1>8, <1>12 DEF rest, D
<1> HIDE DEF chosen
<1>17. /\ Subsequence(scored, chosen) \in Seq(Quoted)
       /\ Len(Subsequence(scored, chosen)) = Cardinality(chosen)
       /\ \E q : Selects(Subsequence(scored, chosen), scored, chosen, q)
  BY <1>16, SubsequenceParts
<1>18. QED
  BY <1>1, <1>15, <1>16, <1>17 DEF spec

\* No combination twice.
AllDistinct(rows) == \A i, j \in DOMAIN rows : rows[i].horses = rows[j].horses => i = j

\* What is left of some rows names no combination twice.
LEMMA DistinctParts ==
    ASSUME NEW rows \in Seq(Quoted)
    PROVE  Distinct(rows) \in Seq(Quoted) /\ AllDistinct(Distinct(rows))
<1> DEFINE firsts == {i \in DOMAIN rows :
                         \A j \in 1..(i - 1) : rows[j].horses # rows[i].horses}
<1>1. Distinct(rows) = Subsequence(rows, firsts)
  BY DEF Distinct
<1>2. DOMAIN rows = 1..Len(rows) /\ Len(rows) \in Nat
  BY SeqParts
<1>3. ASSUME NEW i \in firsts, NEW j \in firsts, i < j PROVE rows[i].horses # rows[j].horses
  <2>1. i \in 1..(j - 1)
    BY <1>2, <1>3
  <2>2. QED
    BY <2>1
<1>4. firsts \in SUBSET (DOMAIN rows)
  OBVIOUS
<1> HIDE DEF firsts
<1>5. Distinct(rows) \in Seq(Quoted)
  BY <1>1, <1>4, SubsequenceParts
<1>6. PICK q : Selects(Distinct(rows), rows, firsts, q)
  BY <1>1, <1>4, SubsequenceParts
<1>7. ASSUME NEW i \in DOMAIN Distinct(rows), NEW j \in DOMAIN Distinct(rows), i < j
      PROVE  Distinct(rows)[i].horses # Distinct(rows)[j].horses
  <2>1. /\ q[i] \in firsts /\ q[j] \in firsts /\ q[i] < q[j]
        /\ Distinct(rows)[i] = rows[q[i]] /\ Distinct(rows)[j] = rows[q[j]]
    BY <1>6, <1>7 DEF Selects
  <2>2. QED
    BY <1>3, <2>1
<1>8. DOMAIN Distinct(rows) \subseteq Int
  BY <1>5, SeqParts
<1>9. QED
  BY <1>5, <1>7, <1>8 DEF AllDistinct

\* What is selected from rows without a repeated combination repeats none.
LEMMA SelectionDistinct ==
    ASSUME NEW rows, AllDistinct(rows), NEW positions \in SUBSET (DOMAIN rows), NEW q, NEW t,
           Selects(t, rows, positions, q), DOMAIN t \subseteq Int, DOMAIN rows \subseteq Int
    PROVE  AllDistinct(t)
<1>1. SUFFICES ASSUME NEW i \in DOMAIN t, NEW j \in DOMAIN t, t[i].horses = t[j].horses
               PROVE  i = j
  BY DEF AllDistinct
<1>2. /\ q[i] \in DOMAIN rows /\ q[j] \in DOMAIN rows /\ t[i] = rows[q[i]] /\ t[j] = rows[q[j]]
      /\ (i < j => q[i] < q[j]) /\ (j < i => q[j] < q[i])
  BY DEF Selects
<1>3. q[i] = q[j]
  BY <1>1, <1>2 DEF AllDistinct
<1>4. i \in Int /\ j \in Int /\ q[i] \in Int
  BY <1>2
<1>5. ~(i < j) /\ ~(j < i)
  BY <1>2, <1>3, <1>4
<1>6. QED
  BY <1>4, <1>5

\* What the all-in script asks of a combination: three numbers, and three horses.
AreTriples(rows) ==
    \A i \in DOMAIN rows : Len(rows[i].horses) = 3 /\ Different(rows[i].horses) = 3

\* score_candidates.
LEMMA ScoredParts ==
    ASSUME NEW market, market.rows["sanrentan"] \in Seq(Quoted)
    PROVE  /\ Scored(market) \in Seq(Quoted) /\ AllDistinct(Scored(market))
           /\ market.win = <<>> => Scored(market) = <<>>
           /\ AreTriples(Scored(market))
<1> DEFINE rows == Distinct(LoadSurface(market.rows["sanrentan"]))
           eligible == {i \in DOMAIN rows :
                           /\ Len(rows[i].horses) = 3 /\ Different(rows[i].horses) = 3
                           /\ Longshot(market.win, rows[i], Different(market.win) + 1)}
           first(i, j) == \/ rows[i].draws > rows[j].draws
                          \/ rows[i].draws = rows[j].draws /\ rows[i].odds < rows[j].odds
                          \/ rows[i].draws = rows[j].draws /\ rows[i].odds = rows[j].odds /\ i < j
           before == {p \in eligible \X eligible : first(p[1], p[2])}
           order == InOrder(before, eligible)
           n == Cardinality(eligible)
           ordered == Ordered(eligible, first)
<1>1. Scored(market) = IF market.win = <<>> THEN <<>>
                         ELSE [k \in DOMAIN ordered |-> rows[ordered[k]]]
  BY DEF Scored
<1>2. rows \in Seq(Quoted) /\ AllDistinct(rows)
  BY LoadParts, DistinctParts
<1> HIDE DEF rows
<1>3. /\ eligible \in SUBSET (DOMAIN rows)
      /\ \A i \in eligible : Len(rows[i].horses) = 3 /\ Different(rows[i].horses) = 3
  OBVIOUS
<1>4. DOMAIN rows = 1..Len(rows) /\ Len(rows) \in Nat /\ \A i \in DOMAIN rows : rows[i] \in Quoted
  BY <1>2, SeqParts
<1>5. \A i \in eligible : i \in Int /\ rows[i].draws \in Nat /\ rows[i].odds \in Nat
  BY <1>3, <1>4 DEF Quoted
<1>6. IsFiniteSet(eligible) /\ n \in Nat
  <2>1. IsFiniteSet(1..Len(rows))
    BY <1>4, FS_Interval
  <2>2. QED
    BY <1>3, <1>4, <2>1, FS_Subset, FS_CardinalityType
<1> HIDE DEF eligible
<1>7. Orders(before, eligible)
  <2>1. \A x \in eligible : <<x, x>> \notin before
    BY <1>5
  <2>2. ASSUME NEW x \in eligible, NEW y \in eligible, NEW z \in eligible,
               <<x, y>> \in before, <<y, z>> \in before
        PROVE  <<x, z>> \in before
    <3>1. first(x, y) /\ first(y, z)
      BY <2>2
    <3>2. /\ x \in Int /\ rows[x].draws \in Nat /\ rows[x].odds \in Nat
          /\ y \in Int /\ rows[y].draws \in Nat /\ rows[y].odds \in Nat
          /\ z \in Int /\ rows[z].draws \in Nat /\ rows[z].odds \in Nat
      BY <1>5
    <3>3. first(x, z)
      BY <3>1, <3>2
    <3>4. QED
      BY <3>3
  <2>3. ASSUME NEW x \in eligible, NEW y \in eligible, x # y
        PROVE  <<x, y>> \in before \/ <<y, x>> \in before
    <3>1. first(x, y) \/ first(y, x)
      BY <1>5, <2>3
    <3>2. QED
      BY <3>1
  <2> HIDE DEF before
  <2>4. QED
    BY <2>1, <2>2, <2>3 DEF Orders
<1>8. \A x, y \in eligible : first(y, x) <=> <<y, x>> \in before
  OBVIOUS
<1> HIDE DEF before
<1>9. \A x \in eligible : Rank(before, eligible, x) = Cardinality({y \in eligible : first(y, x)})
  <2>1. \A x \in eligible : {y \in eligible : <<y, x>> \in before} = {y \in eligible : first(y, x)}
    BY <1>8
  <2>2. QED
    BY <2>1 DEF Rank
<1>10. ordered = order
  <2> DEFINE a(k) == CHOOSE x \in eligible : Cardinality({y \in eligible : first(y, x)}) = k - 1
             b(k) == CHOOSE x \in eligible : Rank(before, eligible, x) = k - 1
  <2>1. \A k \in 1..n : a(k) = b(k)
    BY <1>9
  <2>2. ordered = [k \in 1..n |-> a(k)] /\ order = [k \in 1..n |-> b(k)]
    BY DEF Ordered, InOrder
  <2> HIDE DEF a, b, ordered, order
  <2>3. QED
    BY <2>1, <2>2
<1> HIDE DEF ordered, order
<1>11. /\ order \in Seq(eligible) /\ Len(order) = n
       /\ \A i, j \in 1..n : i < j => <<order[i], order[j]>> \in before
  BY <1>6, <1>7, OrderSorts DEF order
<1>12. DOMAIN order = 1..n /\ \A i \in 1..n : order[i] \in eligible
  BY <1>11, SeqParts
<1> DEFINE list == [k \in 1..n |-> rows[order[k]]]
<1>13. \A k \in 1..n : rows[order[k]] \in Quoted
  BY <1>3, <1>4, <1>12
<1>14. list \in Seq(Quoted) /\ DOMAIN list = 1..n /\ \A k \in 1..n : list[k] = rows[order[k]]
  BY <1>6, <1>13
<1> HIDE DEF list
<1>15. AllDistinct(list)
  <2>1. SUFFICES ASSUME NEW i \in 1..n, NEW j \in 1..n, list[i].horses = list[j].horses
                 PROVE  i = j
    BY <1>14 DEF AllDistinct
  <2>2. order[i] = order[j]
    BY <1>2, <1>3, <1>12, <1>14, <2>1 DEF AllDistinct
  <2>3. <<order[i], order[j]>> \notin before /\ <<order[j], order[i]>> \notin before
    BY <1>7, <1>12, <2>2 DEF Orders
  <2>4. QED
    BY <1>6, <1>11, <2>3
<1>16. CASE market.win = <<>>
  <2>1. Scored(market) = <<>>
    BY <1>1, <1>16
  <2>2. <<>> \in Seq(Quoted) /\ AllDistinct(<<>>) /\ AreTriples(<<>>)
    BY DEF AllDistinct, AreTriples
  <2>3. QED
    BY <2>1, <2>2
<1>17. CASE market.win # <<>>
  <2>1. Scored(market) = list
    BY <1>1, <1>10, <1>12, <1>17 DEF list
  <2>2. AreTriples(list)
    BY <1>3, <1>12, <1>14 DEF AreTriples
  <2>3. QED
    BY <1>14, <1>15, <1>17, <2>1, <2>2
<1>18. QED
  BY <1>16, <1>17

\* What every plan of the contest costs per ticket.
WholeTickets(p) == \A i \in DOMAIN p.bets : p.bets[i].money > 0 /\ WholeUnits(p.bets[i].money)

\* The same for every ticket, and more for the first.
Boosts(f, n, money, boost) ==
    \A i \in 1..n : f[i] = IF i = 1 THEN money + boost ELSE money

\* What a list of tickets with a boosted first one costs.
LEMMA BoostedSum ==
    ASSUME NEW n \in Nat \ {0}, NEW money \in Int, NEW boost \in Int,
           NEW f, Boosts(f, n, money, boost)
    PROVE  SumOn(f, 1..n) = n * money + boost
<1> DEFINE I == 1..n
           g == [i \in I |-> money]
           one == 1
           R == I \ {one}
<1>1. SumOn(g, 1..n) = n * money
  <2>1. \A i \in 1..n : g[i] = money
    OBVIOUS
  <2> HIDE DEF g
  <2>2. QED
    BY <2>1, SumOfEqual
<1>2. IsFiniteSet(I)
  <2>1. 1 \in Int /\ n \in Int
    OBVIOUS
  <2>2. QED
    BY <2>1, FS_Interval
<1>3. /\ one \in I /\ one \notin R /\ R \in SUBSET I /\ I = R \union {one}
      /\ \A i \in I : f[i] \in Int /\ g[i] \in Int
      /\ \A i \in R : f[i] = g[i]
      /\ f[one] = money + boost /\ g[one] = money
  BY DEF Boosts
<1> HIDE DEF g, one, R
<1>4. IsFiniteSet(R)
  BY <1>2, <1>3, FS_Subset
<1>5. SumOn(f, R) = SumOn(g, R) /\ SumOn(g, R) \in Int
  BY <1>3, <1>4, SumSame, SumType
<1> HIDE DEF I
<1>6. /\ SumOn(f, R \union {one}) = f[one] + SumOn(f, R)
      /\ SumOn(g, R \union {one}) = g[one] + SumOn(g, R)
  BY <1>2, <1>3, SumInsert
<1>7. SumOn(f, I) = money + boost + SumOn(g, R) /\ SumOn(g, I) = money + SumOn(g, R)
  BY <1>3, <1>5, <1>6
<1>8. SumOn(f, I) = SumOn(g, I) + boost
  BY <1>5, <1>7
<1>9. QED
  BY <1>1, <1>8 DEF I

\* allin_plan.py: tickets of one stake, the best one with the boost of its class.
LEMMA AllinParts ==
    ASSUME NEW race, NEW market, NEW now, market.rows["sanrentan"] \in Seq(Quoted),
           race.post \in Nat, now \in Int,
           NEW p, p = BuildAllin(race, market, now), p # NoPlan
    PROVE  LET class == ProposedClass(Quality(Scored(market)))
           IN  /\ Written(p, race, market, now) /\ class \in Classes /\ p.pool = "sanrentan"
               /\ Len(p.bets) = ClassSpecs[class].tickets
               /\ PayloadStake(p) = ExpectedStake(class) /\ WholeTickets(p)
               /\ \A i, j \in DOMAIN p.bets : p.bets[i].bet = p.bets[j].bet => i = j
               /\ \A i \in DOMAIN p.bets :
                     Len(p.bets[i].bet) = 3 /\ Different(p.bets[i].bet) = 3
<1> DEFINE scored == Scored(market)
           class == ProposedClass(Quality(scored))
           spec == ClassSpecs[class]
           chosen == SelectCandidates(scored, class)
           bets == [Tickets(chosen, AllinMoney) EXCEPT ![1].money = @ + spec.boost]
           n == spec.tickets
<1>1. /\ ~(Len(scored) < ClassSpecs["A"].tickets) /\ ~(now >= Deadline(race))
      /\ p = Envelope(race, market, now, "sanrentan", bets)
  BY DEF BuildAllin
<1>2. /\ scored \in Seq(Quoted) /\ AllDistinct(scored) /\ AreTriples(scored)
      /\ (market.win = <<>> => scored = <<>>)
  BY ScoredParts
<1>3. class \in Classes
  BY DEF ProposedClass, Classes
<1> HIDE DEF class, scored
<1>4. /\ n \in Nat \ {0} /\ spec.boost \in Nat /\ IsUnits(spec.boost)
      /\ AllinMoney \in Nat \ {0} /\ IsUnits(AllinMoney)
  <2>1. n \in Nat \ {0} /\ spec.boost \in Nat /\ WholeUnits(spec.boost)
    BY <1>3, ClassParts
  <2>2. AllinMoney \in Nat \ {0} /\ WholeUnits(AllinMoney)
    BY AllinAssumption
  <2>3. QED
    BY <2>1, <2>2, UnitsAreWhole
<1>5. Len(scored) >= ClassSpecs["A"].tickets /\ scored # <<>>
  <2>1. "A" \in Classes
    BY DEF Classes
  <2>2. ClassSpecs["A"].tickets \in Nat \ {0}
    BY <2>1, ClassParts
  <2>3. Len(scored) \in Nat
    BY <1>2, SeqParts
  <2>4. Len(scored) >= ClassSpecs["A"].tickets
    BY <1>1, <2>2, <2>3
  <2>5. scored # <<>>
    BY <2>2, <2>4
  <2>6. QED
    BY <2>4, <2>5
<1>6. chosen \in Seq(Quoted) /\ Len(chosen) = n
  BY <1>2, <1>3, <1>5, SelectParts
<1>7. PICK positions \in SUBSET (DOMAIN scored) : \E q : Selects(chosen, scored, positions, q)
  BY <1>2, <1>3, <1>5, SelectParts
<1> HIDE DEF chosen, n, spec
<1>8. DOMAIN chosen = 1..n /\ \A i \in 1..n : chosen[i] \in Quoted
  BY <1>6, SeqParts
<1>9. AllDistinct(chosen)
  <2>1. DOMAIN chosen \subseteq Int /\ DOMAIN scored \subseteq Int
    BY <1>2, <1>6, SeqParts
  <2>2. PICK q : Selects(chosen, scored, positions, q)
    BY <1>7
  <2>3. QED
    BY <1>2, <2>1, <2>2, SelectionDistinct
<1>19. AreTriples(chosen)
  <2>1. PICK q : Selects(chosen, scored, positions, q)
    BY <1>7
  <2>2. QED
    BY <1>2, <2>1 DEF AreTriples, Selects
<1> DEFINE money(i) == IF i = 1 THEN AllinMoney + spec.boost ELSE AllinMoney
<1>10. p.bets = [i \in 1..n |-> [bet |-> chosen[i].horses, money |-> money(i)]]
  <2>1. p.bets = bets
    <3> HIDE DEF bets
    <3>1. QED
      BY <1>1, EnvelopeParts
  <2>2. Tickets(chosen, AllinMoney) = [i \in 1..n |-> [bet |-> chosen[i].horses, money |-> AllinMoney]]
    BY <1>8 DEF Tickets
  <2> DEFINE plain == Tickets(chosen, AllinMoney)
             boosted == [plain[1] EXCEPT !.money = @ + spec.boost]
  <2>3. bets = [i \in 1..n |-> IF i = 1 THEN boosted ELSE plain[i]]
    BY <1>4, <2>2
  <2>4. plain[1] = [bet |-> chosen[1].horses, money |-> AllinMoney]
    BY <1>4, <2>2
  <2>5. boosted = [bet |-> chosen[1].horses, money |-> AllinMoney + spec.boost]
    BY <2>4
  <2>6. \A i \in 1..n : (IF i = 1 THEN boosted ELSE plain[i])
                            = [bet |-> chosen[i].horses, money |-> money(i)]
    <3>1. ASSUME NEW i \in 1..n
          PROVE  (IF i = 1 THEN boosted ELSE plain[i])
                    = [bet |-> chosen[i].horses, money |-> money(i)]
      <4>1. CASE i = 1
        BY <2>5, <4>1
      <4>2. CASE i # 1
        BY <2>2, <4>2
      <4>3. QED
        BY <4>1, <4>2
    <3>2. QED
      BY <3>1
  <2> HIDE DEF bets, boosted, plain, money
  <2>7. QED
    BY <2>1, <2>3, <2>6
<1>11. \A i \in 1..n : money(i) \in Nat /\ money(i) > 0 /\ WholeUnits(money(i))
  <2>1. AllinMoney + spec.boost \in Nat /\ AllinMoney + spec.boost > 0
    BY <1>4
  <2>2. WholeUnits(AllinMoney + spec.boost) /\ WholeUnits(AllinMoney)
    <3>1. IsUnits(AllinMoney + spec.boost)
      BY <1>4, UnitsAdd
    <3>2. QED
      BY <1>4, <2>1, <3>1, UnitsAreWhole
  <2>3. QED
    BY <1>4, <2>1, <2>2
<1>12. /\ p.bets \in Seq(Bet) /\ Len(p.bets) = n /\ DOMAIN p.bets = 1..n
       /\ \A i \in 1..n : p.bets[i].bet = chosen[i].horses /\ p.bets[i].money = money(i)
  <2>1. \A i \in 1..n : [bet |-> chosen[i].horses, money |-> money(i)] \in Bet
    BY <1>8, <1>11 DEF Quoted, Bet
  <2> HIDE DEF money
  <2>2. QED
    BY <1>4, <1>10, <2>1
<1>13. IsPlan(p)
  <2>1. p.bets # <<>>
    BY <1>4, <1>12
  <2>2. QED
    BY <1>12, <2>1 DEF IsPlan
<1>14. PayloadStake(p) = ExpectedStake(class)
  <2> DEFINE f == [i \in DOMAIN p.bets |-> p.bets[i].money]
  <2>1. \A i \in 1..n : f[i] = money(i)
    BY <1>12
  <2>2. PayloadStake(p) = SumOn(f, 1..n)
    <3>1. \A i \in DOMAIN p.bets : p.bets[i].money \in Int
      BY <1>11, <1>12
    <3>2. QED
      BY <1>12, <3>1, PayloadIsSum
  <2> HIDE DEF f
  <2>3. SumOn(f, 1..n) = n * AllinMoney + spec.boost
    <3>1. PICK each \in Int, more \in Int, k \in Nat \ {0} :
            each = AllinMoney /\ more = spec.boost /\ k = n
      BY <1>4
    <3>2. Boosts(f, k, each, more)
      BY <2>1, <3>1 DEF Boosts
    <3>3. SumOn(f, 1..k) = k * each + more
      BY <3>2, BoostedSum, Zenon
    <3>4. QED
      BY <3>1, <3>3
  <2>4. QED
    BY <2>2, <2>3 DEF ExpectedStake, n, spec
<1>15. Written(p, race, market, now)
  <2>1. Deadline(race) \in Int
    BY ContractAssumption DEF Deadline
  <2>2. now < Deadline(race) /\ market.win # <<>>
    BY <1>1, <1>2, <1>5, <2>1
  <2>3. p = Envelope(race, market, now, p.pool, p.bets)
    BY <1>1, EnvelopeParts
  <2>4. QED
    BY <1>13, <2>2, <2>3 DEF Written
<1>16. WholeTickets(p)
  BY <1>11, <1>12 DEF WholeTickets
<1>17. \A i, j \in DOMAIN p.bets : p.bets[i].bet = p.bets[j].bet => i = j
  BY <1>8, <1>9, <1>12 DEF AllDistinct
<1>18. \A i \in DOMAIN p.bets : Len(p.bets[i].bet) = 3 /\ Different(p.bets[i].bet) = 3
  BY <1>8, <1>12, <1>19 DEF AreTriples
<1>20. p.pool = "sanrentan"
  <2> HIDE DEF bets
  <2>1. QED
    BY <1>1, EnvelopeParts
<1>21. QED
  BY <1>3, <1>12, <1>14, <1>15, <1>16, <1>17, <1>18, <1>20 DEF class, n, spec, scored

-----------------------------------------------------------------------------
(* The dynamic script. *)

\* The allocator's candidates are the positions of the rows it may buy.
LEMMA DynamicMarket ==
    ASSUME NEW market, market.rows["sanrentan"] \in Seq(Quoted)
    PROVE  LET rows == LoadSurface(market.rows["sanrentan"])
           IN  /\ rows \in Seq(Quoted) /\ Market(DynamicCandidates(market))
               /\ \A q \in DynamicCandidates(market) : q.combination \in DOMAIN rows
               /\ DynamicCandidates(market) # {} =>
                     market.win # <<>> /\ rows = Distinct(rows)
<1> DEFINE rows == LoadSurface(market.rows["sanrentan"])
           J == {j \in DOMAIN rows : /\ Different(rows[j].horses) = 3
                                     /\ Longshot(market.win, rows[j], 99)}
           Q == {Offer(rows, i) : i \in J}
<1>1. rows \in Seq(Quoted) /\ \A i \in DOMAIN rows : rows[i].odds > 0
  BY LoadParts
<1>2. DynamicCandidates(market) = IF market.win = <<>> \/ rows # Distinct(rows) THEN {} ELSE Q
  BY DEF DynamicCandidates
<1>3. J \subseteq DOMAIN rows
  OBVIOUS
<1> HIDE DEF rows, J
<1>4. DOMAIN rows = 1..Len(rows) /\ Len(rows) \in Nat /\ \A i \in DOMAIN rows : rows[i] \in Quoted
  BY <1>1, SeqParts
<1>5. \A i \in J : rows[i].odds \in Nat \ {0} /\ rows[i].draws \in Nat
  BY <1>1, <1>3, <1>4 DEF Quoted
<1>6. Market(Q) /\ \A q \in Q : q.combination \in J
  BY <1>3, <1>4, <1>5, OffersAreMarket
<1>7. \A q \in Q : q.combination \in DOMAIN rows
  BY <1>3, <1>6
<1>8. Market({})
  BY FS_EmptySet DEF Market
<1> HIDE DEF Q
<1>9. CASE market.win = <<>> \/ rows # Distinct(rows)
  <2>1. DynamicCandidates(market) = {}
    BY <1>2, <1>9
  <2>2. QED
    BY <1>1, <1>8, <2>1 DEF rows
<1>10. CASE ~(market.win = <<>> \/ rows # Distinct(rows))
  <2>1. DynamicCandidates(market) = Q
    BY <1>2, <1>10
  <2>2. QED
    BY <1>1, <1>6, <1>7, <1>10, <2>1 DEF rows
<1>11. QED
  BY <1>9, <1>10

\* An account in debt has nothing to use.
LEMMA DebtBuysNothing ==
    ASSUME NEW bank \in Int, NEW slots \in 1..DynamicSlots, bank < 0
    PROVE  Usable(bank, DynamicAllowance(bank, slots)) < BetUnit
<1> DEFINE granted == DynamicAllowance(bank, slots)
           m == Lesser(bank, granted)
<1>1. DynamicSlots \in Nat \ {0} /\ BetUnit \in Nat \ {0}
  BY AllinAssumption, AllocationAssumption
<1>2. granted \in Int
  <2> DEFINE weight == SlotWeight(slots, DynamicSlots)
             weights == WeightsLeft(slots, DynamicSlots)
             share == (bank * weight) \div weights
  <2>1. weight = DynamicSlots - slots + 1 /\ weights \in Nat \ {0}
    <3>1. 0 \in Nat
      OBVIOUS
    <3>2. QED
      BY <1>1, <3>1, AllowanceParts
  <2>2. weight \in Int
    BY <1>1, <2>1
  <2>3. granted = (share \div BetUnit) * BetUnit
    BY DEF DynamicAllowance, RaceAllowance
  <2> HIDE DEF weight, weights, granted
  <2>4. bank * weight \in Int
    BY <2>2
  <2>5. share \in Int
    BY <2>1, <2>4, Quotient
  <2> HIDE DEF share
  <2>6. share \div BetUnit \in Int
    BY <1>1, <2>5, Quotient
  <2>7. QED
    BY <1>1, <2>3, <2>6
<1> HIDE DEF granted
<1>3. m \in Int /\ m < 0
  BY <1>2 DEF Lesser
<1>4. Usable(bank, granted) = (m \div BetUnit) * BetUnit
  BY DEF Usable
<1> HIDE DEF m
<1>5. m \div BetUnit \in Int /\ (m \div BetUnit) * BetUnit <= m
  BY <1>1, <1>3, Quotient
<1>6. QED
  BY <1>1, <1>3, <1>4, <1>5 DEF granted

\* phase2/optimizer.py: the allocator's tickets, each of another row.
LEMMA DynamicParts ==
    ASSUME NEW race, NEW market, NEW now, NEW bank \in Int, NEW slots,
           market.rows["sanrentan"] \in Seq(Quoted), race.post \in Nat, now \in Int,
           NEW p, p = BuildDynamic(race, market, now, bank, slots), p # NoPlan
    PROVE  LET rows == LoadSurface(market.rows["sanrentan"])
           IN  /\ Written(p, race, market, now) /\ WholeTickets(p) /\ Len(p.bets) <= MaxShortlist
               /\ AllDistinct(rows) /\ p.pool = "sanrentan"
               /\ \A i \in DOMAIN p.bets : \E k \in DOMAIN rows : p.bets[i].bet = rows[k].horses
               /\ \A i, j \in DOMAIN p.bets : p.bets[i].bet = p.bets[j].bet => i = j
<1> DEFINE rows == LoadSurface(market.rows["sanrentan"])
           quotes == DynamicCandidates(market)
           granted == DynamicAllowance(bank, slots)
           call == Allocate(quotes, bank, granted, DynamicTarget, slots = 1)
           t == DynamicTickets(market, bank, slots)
           bet(i) == [bet |-> rows[t[i].combination].horses, money |-> t[i].stake]
<1>1. /\ slots \in 1..DynamicSlots /\ t # <<>> /\ ~(now >= Deadline(race))
      /\ p = Envelope(race, market, now, "sanrentan", [i \in DOMAIN t |-> bet(i)])
  <2>1. p = IF \/ ~Captured(market) \/ slots \notin 1..DynamicSlots
               \/ t = <<>> \/ now >= Deadline(race)
            THEN NoPlan
            ELSE Envelope(race, market, now, "sanrentan", [i \in DOMAIN t |-> bet(i)])
    BY DEF BuildDynamic
  <2> HIDE DEF t, bet
  <2>2. QED
    BY <2>1
<1>2. /\ rows \in Seq(Quoted) /\ Market(quotes) /\ \A q \in quotes : q.combination \in DOMAIN rows
      /\ quotes # {} => market.win # <<>> /\ rows = Distinct(rows)
  BY DynamicMarket
<1>3. t = call.tickets
  BY DEF DynamicTickets
<1>4. /\ call.tickets = IF bank >= DynamicTarget \/ Usable(bank, granted) < BetUnit THEN <<>>
                        ELSE call.tickets
  BY DEF Allocate
<1> HIDE DEF rows, quotes, t
<1>5. bank \in Nat
  <2>1. SUFFICES ASSUME bank < 0 PROVE FALSE
    OBVIOUS
  <2>2. Usable(bank, granted) < BetUnit
    BY <1>1, <2>1, DebtBuysNothing
  <2>3. call.tickets = <<>>
    BY <1>4, <2>2
  <2>4. QED
    BY <1>1, <1>3, <2>3
<1>6. granted \in Nat
  <2>1. DynamicSlots \in Nat \ {0}
    BY AllinAssumption
  <2>2. RaceAllowance(bank, slots, DynamicSlots) \in 0..bank
    BY <1>1, <1>5, <2>1, AllowanceParts
  <2>3. QED
    BY <1>5, <2>2 DEF DynamicAllowance
<1> HIDE DEF granted
<1>7. CallFits(call, quotes, bank, granted, DynamicTarget)
  <2>1. DynamicTarget \in Nat
    BY AllinAssumption
  <2>2. QED
    BY <1>2, <1>5, <1>6, <2>1, AllocateParts
<1> HIDE DEF call
<1>8. /\ DOMAIN t = 1..Len(t) /\ Len(t) \in Nat /\ \A i \in DOMAIN t : t[i].stake \in Nat
      /\ AreWhole(t, quotes)
  <2>1. AreSized(t, RequiredReturn(bank, call.allowance, DynamicTarget)) /\ AreWhole(t, quotes)
    BY <1>1, <1>3, <1>7 DEF CallFits
  <2>2. QED
    BY <2>1 DEF AreSized
<1>9. /\ Len(t) <= MaxShortlist
      /\ \A i \in DOMAIN t : /\ t[i].stake \in Nat /\ t[i].stake > 0 /\ t[i].combination \in DOMAIN rows
                             /\ \E k \in Int : t[i].stake = k * BetUnit
      /\ \A i, j \in DOMAIN t : t[i].combination = t[j].combination => i = j
  BY <1>2, <1>8 DEF AreWhole
<1>10. Len(t) # 0 /\ quotes # {}
  <2>1. Len(t) > 0
    BY <1>8 DEF AreWhole
  <2>2. 1 \in DOMAIN t
    BY <1>8, <2>1
  <2>3. QED
    BY <1>8, <2>1, <2>2 DEF AreWhole
<1>11. /\ market.win # <<>> /\ AllDistinct(rows)
       /\ DOMAIN rows \subseteq Int /\ \A i \in DOMAIN rows : rows[i] \in Quoted
  <2>1. rows = Distinct(rows) /\ market.win # <<>>
    BY <1>2, <1>10
  <2>2. AllDistinct(Distinct(rows))
    BY <1>2, DistinctParts
  <2>3. DOMAIN rows = 1..Len(rows) /\ \A i \in DOMAIN rows : rows[i] \in Quoted
    BY <1>2, SeqParts
  <2>4. QED
    BY <2>1, <2>2, <2>3
<1> HIDE DEF bet
<1>12. /\ p.bets = [i \in 1..Len(t) |-> bet(i)] /\ p.pool = "sanrentan"
       /\ p = Envelope(race, market, now, p.pool, p.bets)
  BY <1>1, <1>8, EnvelopeParts
<1>13. \A i \in DOMAIN t : /\ bet(i).bet = rows[t[i].combination].horses
                           /\ bet(i).money = t[i].stake /\ bet(i) \in Bet
  BY <1>9, <1>11 DEF bet, Bet, Quoted
<1>14. /\ p.bets \in Seq(Bet) /\ Len(p.bets) = Len(t) /\ DOMAIN p.bets = DOMAIN t
       /\ \A i \in DOMAIN t : p.bets[i] = bet(i)
  BY <1>8, <1>12, <1>13
<1>15. Written(p, race, market, now)
  <2>1. p.bets # <<>>
    BY <1>8, <1>10, <1>14
  <2>2. Deadline(race) \in Int
    BY ContractAssumption DEF Deadline
  <2>3. now < Deadline(race)
    BY <1>1, <2>2
  <2>4. QED
    BY <1>11, <1>12, <1>14, <2>1, <2>3 DEF Written, IsPlan
<1>16. WholeTickets(p)
  <2>1. ASSUME NEW i \in DOMAIN p.bets PROVE p.bets[i].money > 0 /\ WholeUnits(p.bets[i].money)
    <3>1. p.bets[i].money = t[i].stake /\ t[i].stake \in Nat /\ t[i].stake > 0
      BY <1>9, <1>13, <1>14
    <3>2. IsUnits(t[i].stake)
      <4>1. BetUnit = StakeUnit
        BY TableAssumption
      <4>2. QED
        BY <1>9, <1>14, <4>1 DEF IsUnits
    <3>3. QED
      BY <3>1, <3>2, UnitsAreWhole
  <2>2. QED
    BY <2>1 DEF WholeTickets
<1>17. \A i \in DOMAIN p.bets : \E k \in DOMAIN rows : p.bets[i].bet = rows[k].horses
  BY <1>9, <1>13, <1>14
<1>18. \A i, j \in DOMAIN p.bets : p.bets[i].bet = p.bets[j].bet => i = j
  BY <1>9, <1>11, <1>13, <1>14 DEF AllDistinct
<1>19. Len(p.bets) <= MaxShortlist
  BY <1>9, <1>14
<1>20. QED
  BY <1>11, <1>12, <1>15, <1>16, <1>17, <1>18, <1>19 DEF rows

-----------------------------------------------------------------------------
(* What the daemon admits. *)

\* Each ticket is whole, so the plan costs some units.
LEMMA WholePlan ==
    ASSUME NEW p, IsPlan(p), WholeTickets(p)
    PROVE  /\ PayloadStake(p) \in Nat \ {0} /\ IsUnits(PayloadStake(p))
           /\ p.bets[1].money \in Nat \ {0} /\ IsUnits(p.bets[1].money)
           /\ Len(p.bets) = 1 => PayloadStake(p) = p.bets[1].money
<1> DEFINE n == Len(p.bets)
           f == [i \in DOMAIN p.bets |-> p.bets[i].money]
           g == [i \in 1..n |-> p.bets[i].money \div StakeUnit]
<1>1. /\ PayloadStake(p) \in Nat /\ n \in Nat \ {0} /\ DOMAIN p.bets = 1..n
      /\ \A i \in 1..n : p.bets[i].money \in Nat /\ p.bets[i].money <= PayloadStake(p)
  BY PlanCosts
<1>2. StakeUnit \in Nat \ {0}
  BY ContractAssumption
<1>3. \A i \in 1..n : p.bets[i].money > 0 /\ p.bets[i].money % StakeUnit = 0
  BY <1>1 DEF WholeTickets, WholeUnits
<1>4. PayloadStake(p) = SumOn(f, 1..n)
  <2>1. \A i \in DOMAIN p.bets : p.bets[i].money \in Int
    BY <1>1
  <2>2. p.bets \in Seq(Bet)
    BY DEF IsPlan
  <2>3. QED
    BY <2>1, <2>2, PayloadIsSum
<1>5. IsFiniteSet(1..n)
  <2>1. 1 \in Int /\ n \in Int
    BY <1>1
  <2>2. QED
    BY <2>1, FS_Interval
<1>6. \A i \in 1..n : /\ g[i] \in Int /\ f[i] = g[i] * StakeUnit /\ f[i] = p.bets[i].money
  <2>1. \A i \in 1..n : /\ p.bets[i].money \div StakeUnit \in Int
                        /\ (p.bets[i].money \div StakeUnit) * StakeUnit = p.bets[i].money
    <3>1. ASSUME NEW i \in 1..n
          PROVE  /\ p.bets[i].money \div StakeUnit \in Int
                 /\ (p.bets[i].money \div StakeUnit) * StakeUnit = p.bets[i].money
      <4>1. p.bets[i].money \in Int /\ p.bets[i].money % StakeUnit = 0
        BY <1>1, <1>3
      <4>2. QED
        BY <1>2, <4>1, Multiples, Quotient
    <3>2. QED
      BY <3>1
  <2>2. QED
    BY <1>1, <2>1
<1> HIDE DEF n, f, g
<1>7. SumOn(f, 1..n) = SumOn(g, 1..n) * StakeUnit
  <2>1. StakeUnit \in Int
    BY <1>2
  <2>2. QED
    BY <1>5, <1>6, <2>1, SumScaled
<1>8. SumOn(g, 1..n) \in Int
  BY <1>5, <1>6, SumType
<1>9. IsUnits(PayloadStake(p))
  BY <1>4, <1>7, <1>8 DEF IsUnits
<1>10. 1 \in 1..n
  BY <1>1
<1>11. p.bets[1].money \in Nat \ {0} /\ p.bets[1].money <= PayloadStake(p)
  BY <1>1, <1>3, <1>10
<1>12. IsUnits(p.bets[1].money)
  BY <1>6, <1>10 DEF IsUnits
<1>13. ASSUME n = 1 PROVE PayloadStake(p) = p.bets[1].money
  <2>1. \A i \in 1..n : f[i] = p.bets[1].money
    <3>1. \A i \in 1..n : i = 1
      BY <1>13
    <3>2. QED
      BY <1>6, <3>1
  <2>2. p.bets[1].money \in Int /\ n \in Nat
    BY <1>1, <1>11
  <2>3. SumOn(f, 1..n) = n * p.bets[1].money
    BY <2>1, <2>2, SumOfEqual
  <2>4. QED
    BY <1>4, <1>11, <1>13, <2>3
<1>14. QED
  BY <1>1, <1>9, <1>11, <1>12, <1>13 DEF n

\* The first rows of a surface make whole tickets, and repeat nothing the market does not.
LEMMA FirstRowsParts ==
    ASSUME NEW p, NEW listed \in Seq(Quoted), NEW count, NEW stake \in Nat \ {0}, IsUnits(stake),
           IsPlan(p), OnFirstRows(p, LoadSurface(listed), count, stake)
    PROVE  /\ WholeTickets(p) /\ Len(p.bets) = count /\ count \in Nat \ {0}
           /\ p.bets[1].money = stake /\ PayloadStake(p) = count * stake
           /\ \A i \in DOMAIN p.bets : \E q \in Range(LoadSurface(listed)) : p.bets[i].bet = q.horses
           /\ \/ LoadSurface(listed) # Distinct(LoadSurface(listed))
              \/ \A i, j \in DOMAIN p.bets : p.bets[i].bet = p.bets[j].bet => i = j
<1> DEFINE rows == LoadSurface(listed)
<1>1. /\ rows \in Seq(Quoted) /\ count \in Nat \ {0} /\ count <= Len(rows)
      /\ Len(p.bets) = count /\ PayloadStake(p) = count * stake
      /\ \A i \in 1..count : /\ i \in DOMAIN rows /\ p.bets[i].bet = rows[i].horses
                             /\ p.bets[i].money = stake
  BY DEF OnFirstRows
<1>2. DOMAIN p.bets = 1..count
  BY <1>1, PlanCosts
<1>3. WholeTickets(p)
  <2>1. stake > 0 /\ WholeUnits(stake)
    BY UnitsAreWhole
  <2>2. QED
    BY <1>1, <1>2, <2>1 DEF WholeTickets
<1>4. p.bets[1].money = stake
  <2>1. 1 \in 1..count
    BY <1>1
  <2>2. QED
    BY <1>1, <2>1
<1>5. ASSUME rows = Distinct(rows)
      PROVE  \A i, j \in DOMAIN p.bets : p.bets[i].bet = p.bets[j].bet => i = j
  <2> HIDE DEF rows
  <2>1. AllDistinct(Distinct(rows))
    BY <1>1, DistinctParts
  <2>2. QED
    BY <1>1, <1>2, <1>5, <2>1 DEF AllDistinct
<1>6. \A i \in DOMAIN p.bets : \E q \in Range(rows) : p.bets[i].bet = q.horses
  BY <1>1, <1>2 DEF Range
<1>7. QED
  BY <1>1, <1>3, <1>4, <1>5, <1>6

-----------------------------------------------------------------------------
(* The plan of the day's script. *)

\* What an instruction asks of the race, at the least.
AskedFloor == IF OnTailDay THEN QualificationFloor(ledger) ELSE CurrentFloor(ledger)

\* The rows of a plan's pool.
RowsOf(p, market) == LoadSurface(market.rows[p.pool])

\* The tickets of the plan are rows of its pool.
OfRows(p, market) ==
    \A i \in DOMAIN p.bets : \E q \in Range(RowsOf(p, market)) : p.bets[i].bet = q.horses

\* The tickets are three different horses each, for the trifecta.
OfTriples(p) ==
    /\ p.pool = "sanrentan"
    /\ \A i \in DOMAIN p.bets : Len(p.bets[i].bet) = 3 /\ Different(p.bets[i].bet) = 3

\* A plan as a script writes it: whole, within the daemon's limits but for tickets the
\* floor asked for, without a combination twice if its pool's rows repeat none, and of
\* combinations that are those rows'.
Sound(p, race, market, now, floor) ==
    /\ Written(p, race, market, now) /\ WholeTickets(p) /\ p.pool \in DOMAIN market.rows
    /\ race.script = "dynamic" \/ PayloadStake(p) <= MaxStakePerRace
    /\ \/ Len(p.bets) <= MaxBetsPerRace
       \/ race.script = "v17" /\ (Len(p.bets) - 1) * p.bets[1].money < floor
    /\ \/ \A i, j \in DOMAIN p.bets : p.bets[i].bet = p.bets[j].bet => i = j
       \/ race.script \in {"v17", "sanrentan3"} /\ RowsOf(p, market) # Distinct(RowsOf(p, market))
    /\ IF race.script = "allin" THEN OfTriples(p) ELSE OfRows(p, market)
    /\ race.script = "allin" =>
          PayloadStake(p) = ExpectedStake(ProposedClass(Quality(Scored(market))))

\* What a script hands over.
Handed(late, market, new, aim, fit) ==
    /\ NewPlan(late, market, new, aim, fit)
    /\ late \in BOOLEAN /\ market \in Snapshots /\ aim \in Nat /\ fit \in BOOLEAN
    /\ new # NoPlan => Sound(new, Race, market, Instant(late), AskedFloor)

\* The races of the calendar.
Ids == {calendar[i].id : i \in DOMAIN calendar}

\* The race at hand is one of the calendar, with its times.
LEMMA RaceParts ==
    ASSUME calendar \in Calendars, Done \in Nat, Done < Len(calendar)
    PROVE  /\ Done + 1 \in DOMAIN calendar /\ Race.id \in Ids /\ Race.id \in Nat \ {0}
           /\ Race.post \in Nat /\ \A late \in BOOLEAN : Instant(late) \in Int
<1>1. calendar \in Seq([id : Nat \ {0}, post : Nat, script : STRING])
  BY CalendarAssumption
<1>2. DOMAIN calendar = 1..Len(calendar) /\ Len(calendar) \in Nat
      /\ \A i \in DOMAIN calendar : calendar[i] \in [id : Nat \ {0}, post : Nat, script : STRING]
  BY <1>1, SeqParts
<1>3. Done + 1 \in DOMAIN calendar
  BY <1>2
<1>4. Race \in [id : Nat \ {0}, post : Nat, script : STRING]
  BY <1>2, <1>3 DEF Race
<1>5. Race.id \in Ids
  BY <1>3 DEF Ids, Race
<1>6. \A late \in BOOLEAN : Instant(late) \in Int
  BY <1>4, ContractAssumption DEF Instant, Deadline, Target
<1>7. QED
  BY <1>3, <1>4, <1>5, <1>6

\* The floor is a number of whole units within the cap of a race.
LEMMA FloorIsWhole ==
    ASSUME NEW account, IsLedger(account)
    PROVE  /\ CurrentFloor(account) \in Nat /\ IsUnits(CurrentFloor(account))
           /\ CurrentFloor(account) <= PerRaceCap
<1> DEFINE left == Greater(1, FrontRaces - account.front_races_done)
           missing == MinTurnover - account.turnover
           need == RoundUp(missing, left * StakeUnit) * StakeUnit
<1>1. /\ account.turnover \in Nat /\ account.front_races_done \in Nat
      /\ {TailFloor, MinTurnover, PerRaceCap, FrontRaces} \subseteq Nat \ {0}
      /\ StakeUnit \in Nat \ {0} /\ TailFloor <= PerRaceCap
      /\ WholeUnits(TailFloor) /\ WholeUnits(PerRaceCap)
  BY TableAssumption, ContractAssumption DEF IsLedger
<1>2. IsUnits(TailFloor) /\ IsUnits(PerRaceCap)
  BY <1>1, UnitsAreWhole
<1>3. CurrentFloor(account) \in Nat
  BY CurrentFloorParts
<1>4. CurrentFloor(account) = IF account.turnover >= MinTurnover THEN TailFloor
                              ELSE Lesser(PerRaceCap, Greater(TailFloor, need))
  BY DEF CurrentFloor
<1>5. left \in Nat \ {0} /\ missing \in Int
  BY <1>1 DEF Greater
<1> HIDE DEF left, missing
<1>6. left * StakeUnit \in Nat \ {0}
  BY <1>1, <1>5
<1>7. RoundUp(missing, left * StakeUnit) \in Int
  BY <1>5, <1>6, RoundUpParts
<1>8. IsUnits(need) /\ need \in Int
  BY <1>1, <1>7 DEF IsUnits
<1> HIDE DEF need
<1>9. CurrentFloor(account) \in {TailFloor, PerRaceCap, need} /\ CurrentFloor(account) <= PerRaceCap
  BY <1>1, <1>4, <1>8 DEF Lesser, Greater
<1>10. QED
  BY <1>2, <1>3, <1>8, <1>9

\* The limits of the day's policy.
LEMMA LimitsParts ==
    /\ MaxBetsPerRace \in Nat /\ MaxStakePerRace \in Nat /\ PerRaceCap <= MaxStakePerRace
    /\ 1 <= MaxBetsPerRace /\ FixedTickets <= MaxBetsPerRace /\ MaxShortlist <= MaxBetsPerRace
    /\ ClassSpecs["A"].tickets <= MaxBetsPerRace
    /\ FixedTickets * FixedStake <= MaxStakePerRace
    /\ \A class \in Classes : ExpectedStake(class) <= MaxStakePerRace
    /\ \A key \in DOMAIN Table : Table[key].tickets <= MaxBetsPerRace
<1>1. MaxBetsPerRace \in Nat /\ MaxStakePerRace \in Nat
  BY ContractAssumption
<1>2. {1, FixedTickets, MaxShortlist, ClassSpecs["A"].tickets} \subseteq 0..MaxBetsPerRace
  BY LimitsAssumption
<1>3. /\ {PerRaceCap, FixedTickets * FixedStake} \subseteq 0..MaxStakePerRace
      /\ \A class \in Classes : ExpectedStake(class) \in 0..MaxStakePerRace
  BY LimitsAssumption
<1>4. \A key \in DOMAIN Table : Table[key].tickets <= MaxBetsPerRace
  BY LimitsAssumption
<1>5. QED
  BY <1>1, <1>2, <1>3, <1>4

\* The stake of an instruction of the table: whole, and within the cap.
LEMMA TableStake ==
    ASSUME NEW account, IsLedger(account), NEW market, IsMarket(market)
    PROVE  LET instruction == TableInstruction(account)
           IN  /\ IsInstruction(instruction) /\ instruction.floor = CurrentFloor(account)
               /\ instruction.pool \in DOMAIN market.rows
               /\ market.rows[instruction.pool] \in Seq(Quoted)
               /\ instruction.stake \in Nat \ {0} /\ IsUnits(instruction.stake)
               /\ instruction.stake <= PerRaceCap /\ instruction.tickets <= MaxBetsPerRace
<1> DEFINE instruction == TableInstruction(account)
<1>1. IsInstruction(instruction) /\ instruction.floor = CurrentFloor(account)
  BY TableInstructionParts
<1>2. PICK key \in DOMAIN Table :
         \/ /\ instruction.pool = "place" /\ instruction.tickets = 1
            /\ instruction.stake = Greater(CurrentFloor(account), StakeUnit)
         \/ /\ instruction.pool = Table[key].pool
            /\ instruction.tickets = Table[key].tickets /\ Table[key].tickets > 0
            /\ instruction.stake = Table[key].stake
  BY TableInstructionParts
<1>3. /\ "place" \in DOMAIN market.rows /\ Table[key].pool \in DOMAIN market.rows
      /\ \A pool \in DOMAIN market.rows : market.rows[pool] \in Seq(Quoted)
  BY DEF IsMarket
<1>4. /\ StakeUnit \in Nat \ {0} /\ PerRaceCap \in Nat \ {0} /\ IsUnits(PerRaceCap) /\ IsUnits(StakeUnit)
  BY ContractAssumption, TableAssumption, UnitsAreWhole, OneUnit
<1> HIDE DEF instruction
<1>5. CASE /\ instruction.pool = "place" /\ instruction.tickets = 1
           /\ instruction.stake = Greater(CurrentFloor(account), StakeUnit)
  <2>1. /\ CurrentFloor(account) \in Nat /\ IsUnits(CurrentFloor(account))
        /\ CurrentFloor(account) <= PerRaceCap
    BY FloorIsWhole
  <2>2. StakeUnit <= PerRaceCap
    <3>1. IsUnits(0) /\ 0 < PerRaceCap
      BY <1>4, OneUnit
    <3>2. 0 + StakeUnit <= PerRaceCap
      <4>1. PICK zero : zero = 0
        OBVIOUS
      <4>2. zero + StakeUnit <= PerRaceCap
        BY <1>4, <3>1, <4>1, UnitsApart
      <4>3. QED
        BY <4>1, <4>2
    <3>3. QED
      BY <1>4, <3>2
  <2>3. instruction.stake \in {CurrentFloor(account), StakeUnit} /\ instruction.stake >= StakeUnit
    BY <1>4, <1>5, <2>1 DEF Greater
  <2>4. instruction.stake \in Nat \ {0} /\ instruction.stake <= PerRaceCap
    BY <1>4, <2>1, <2>2, <2>3
  <2>5. IsUnits(instruction.stake)
    BY <1>4, <2>1, <2>3
  <2>6. QED
    BY <1>1, <1>3, <1>5, <2>4, <2>5, LimitsParts DEF instruction
<1>6. CASE /\ instruction.pool = Table[key].pool
           /\ instruction.tickets = Table[key].tickets /\ Table[key].tickets > 0
           /\ instruction.stake = Table[key].stake
  <2>1. Table[key].stake \in StakeUnit..PerRaceCap /\ WholeUnits(Table[key].stake)
    BY <1>6, TableAssumption
  <2>2. Table[key].stake \in Nat \ {0} /\ Table[key].stake <= PerRaceCap
    BY <1>4, <2>1
  <2>3. IsUnits(Table[key].stake)
    BY <2>1, <2>2, UnitsAreWhole
  <2>4. instruction.tickets <= MaxBetsPerRace
    BY <1>6, LimitsParts
  <2>5. QED
    BY <1>1, <1>3, <1>6, <2>2, <2>3, <2>4 DEF instruction
<1>7. QED
  BY <1>2, <1>5, <1>6

\* A plan of build_vote_plan.py by an instruction within the limits.
LEMMA InstructedParts ==
    ASSUME NEW race, race.post \in Nat, race.script = "v17", NEW market, NEW now \in Int, NEW bank,
           NEW instruction, IsInstruction(instruction), instruction.pool \in DOMAIN market.rows,
           market.rows[instruction.pool] \in Seq(Quoted), IsUnits(instruction.stake),
           instruction.stake <= PerRaceCap, instruction.tickets <= MaxBetsPerRace,
           NEW p, p = BuildVotePlan(race, market, now, bank, instruction), p # NoPlan
    PROVE  /\ Sound(p, race, market, now, instruction.floor)
           /\ Len(p.bets) = FitTickets(instruction) /\ p.bets[1].money = instruction.stake
           /\ instruction.stake \in Nat \ {0}
           /\ PayloadStake(p) = Len(p.bets) * p.bets[1].money
           /\ ~(PayloadStake(p) > bank)
<1> DEFINE count == FitTickets(instruction)
           stake == instruction.stake
<1>1. /\ Written(p, race, market, now) /\ stake \in Nat \ {0} /\ ~(stake * count > bank)
      /\ p.pool = instruction.pool
      /\ OnFirstRows(p, LoadSurface(market.rows[instruction.pool]), count, stake)
  BY VotePlanParts
<1>2. /\ count \in Nat \ {0} /\ (stake <= PerRaceCap => stake * count <= PerRaceCap)
      /\ count > instruction.tickets => (count - 1) * stake < instruction.floor
  <2>1. stake \in Nat \ {0} /\ instruction.tickets \in Nat \ {0} /\ instruction.floor \in Int
    BY <1>1 DEF IsInstruction
  <2>2. QED
    BY <2>1, FitParts
<1> HIDE DEF count
<1>3. IsPlan(p)
  BY <1>1 DEF Written
<1>4. /\ WholeTickets(p) /\ Len(p.bets) = count /\ p.bets[1].money = stake
      /\ PayloadStake(p) = count * stake
      /\ OfRows(p, market)
      /\ \/ RowsOf(p, market) # Distinct(RowsOf(p, market))
         \/ \A i, j \in DOMAIN p.bets : p.bets[i].bet = p.bets[j].bet => i = j
  BY <1>1, <1>3, FirstRowsParts DEF RowsOf, OfRows
<1>5. count * stake = stake * count
  BY <1>1, <1>2
<1>6. PayloadStake(p) <= MaxStakePerRace
  <2>1. stake * count <= PerRaceCap /\ stake * count \in Int /\ PerRaceCap \in Int
    BY <1>1, <1>2, TableAssumption
  <2>2. PerRaceCap <= MaxStakePerRace /\ MaxStakePerRace \in Nat
    BY LimitsParts
  <2>3. QED
    BY <1>4, <1>5, <2>1, <2>2
<1>7. Len(p.bets) <= MaxBetsPerRace \/ (Len(p.bets) - 1) * p.bets[1].money < instruction.floor
  <2>1. instruction.tickets \in Nat /\ MaxBetsPerRace \in Nat
    BY LimitsParts DEF IsInstruction
  <2>2. CASE count > instruction.tickets
    BY <1>2, <1>4, <2>2
  <2>3. CASE ~(count > instruction.tickets)
    BY <1>2, <1>4, <2>1, <2>3
  <2>4. QED
    BY <2>2, <2>3
<1>8. Sound(p, race, market, now, instruction.floor)
  <2>1. race.script # "allin" /\ race.script \in {"v17", "sanrentan3"}
    OBVIOUS
  <2>2. QED
    BY <1>1, <1>4, <1>6, <1>7, <2>1 DEF Sound
<1>9. QED
  BY <1>1, <1>4, <1>5, <1>8 DEF count

-----------------------------------------------------------------------------
(* The steps of the scripts. *)

\* What a script may rely on when its race comes up.
LEMMA ScriptedParts ==
    ASSUME calendar \in Calendars, IsLedger(ledger), NEW script, Scripted(script),
           NEW market \in Snapshots, NEW late \in BOOLEAN
    PROVE  /\ Done \in Nat /\ Race.post \in Nat /\ Race.script = script /\ Instant(late) \in Int
           /\ IsMarket(market) /\ "sanrentan" \in DOMAIN market.rows
           /\ \A pool \in DOMAIN market.rows : market.rows[pool] \in Seq(Quoted)
<1>1. Done \in Nat /\ Done < Len(calendar) /\ Race.script = script
  BY DEF Scripted, IsLedger, Done
<1>2. Race.post \in Nat /\ Instant(late) \in Int
  BY <1>1, RaceParts
<1>3. IsMarket(market)
  BY CaptureAssumption
<1>4. QED
  BY <1>1, <1>2, <1>3 DEF IsMarket

\* The table's script hands over a sound plan, or none.
LEMMA TableHands ==
    ASSUME calendar \in Calendars, IsLedger(ledger), TableRace
    PROVE  /\ Scripted("v17") /\ ~OnTailDay
           /\ \E late, market, new : Handed(late, market, new, 0, CurrentFloor(ledger) < PerRaceCap)
<1>1. PICK late \in BOOLEAN, market \in Snapshots :
         /\ Scripted("v17") /\ ~OnTailDay
         /\ NewPlan(late, market,
                   BuildVotePlan(Race, market, Instant(late), ledger.bank,
                                 TableInstruction(ledger)),
                   0, CurrentFloor(ledger) < PerRaceCap)
  BY DEF TableRace
<1> DEFINE instruction == TableInstruction(ledger)
           new == BuildVotePlan(Race, market, Instant(late), ledger.bank, instruction)
<1>2. /\ Race.post \in Nat /\ Race.script = "v17" /\ Instant(late) \in Int /\ IsMarket(market)
  BY <1>1, ScriptedParts
<1>3. /\ IsInstruction(instruction) /\ instruction.floor = CurrentFloor(ledger)
      /\ instruction.pool \in DOMAIN market.rows
      /\ market.rows[instruction.pool] \in Seq(Quoted)
      /\ instruction.stake \in Nat \ {0} /\ IsUnits(instruction.stake)
      /\ instruction.stake <= PerRaceCap /\ instruction.tickets <= MaxBetsPerRace
  BY <1>2, TableStake
<1>4. ASSUME new # NoPlan PROVE Sound(new, Race, market, Instant(late), AskedFloor)
  <2>1. AskedFloor = instruction.floor
    BY <1>1, <1>3 DEF AskedFloor
  <2> HIDE DEF instruction
  <2>2. QED
    BY <1>2, <1>3, <1>4, <2>1, InstructedParts
<1>5. 0 \in Nat /\ (CurrentFloor(ledger) < PerRaceCap) \in BOOLEAN
  OBVIOUS
<1> HIDE DEF new
<1>6. Handed(late, market, new, 0, CurrentFloor(ledger) < PerRaceCap)
  BY <1>1, <1>4, <1>5 DEF Handed, new
<1>7. QED
  BY <1>1, <1>6

\* A plan of the one-hit strategy.
Aimed(p, aim, fit) ==
    /\ ~(PayloadStake(p) > ledger.bank) /\ PayloadStake(p) = Len(p.bets) * p.bets[1].money
    /\ p.bets[1].money <= WantedOneHit(ledger, aim)
    /\ Len(p.bets) = 1 \/ (Len(p.bets) - 1) * p.bets[1].money < QualificationFloor(ledger)
    /\ p.bets[1].money >= QualificationFloor(ledger) => Len(p.bets) = 1
    /\ fit => p.bets[1].money = WantedOneHit(ledger, aim)

\* So does the tail, whose plan aims at the goal.
LEMMA TailHands ==
    ASSUME calendar \in Calendars, IsLedger(ledger), TailRace
    PROVE  /\ Scripted("v17") /\ OnTailDay
           /\ \E late, market, new, aim, fit :
                 Handed(late, market, new, aim, fit) /\ (new # NoPlan => Aimed(new, aim, fit))
<1>1. PICK late \in BOOLEAN, market \in Snapshots, ranking \in Rankings :
         /\ Scripted("v17") /\ OnTailDay
         /\ LET target == EffectiveGoal(ranking, TailDate, Instant(late))
                instruction == TailInstruction(ledger, target)
            IN  NewPlan(late, market,
                        BuildVotePlan(Race, market, Instant(late), ledger.bank, instruction),
                        target, instruction.stake = WantedOneHit(ledger, target))
  BY DEF TailRace
<1> DEFINE aim == EffectiveGoal(ranking, TailDate, Instant(late))
           instruction == TailInstruction(ledger, aim)
           new == BuildVotePlan(Race, market, Instant(late), ledger.bank, instruction)
           fit == instruction.stake = WantedOneHit(ledger, aim)
<1>2. /\ Race.post \in Nat /\ Race.script = "v17" /\ Instant(late) \in Int /\ IsMarket(market)
  BY <1>1, ScriptedParts
<1>3. aim \in Nat
  BY <1>2, GoalParts
<1> HIDE DEF aim
<1>4. /\ IsInstruction(instruction) /\ instruction.pool = TailPolicy.pool
      /\ instruction.tickets = 1 /\ instruction.floor = QualificationFloor(ledger)
      /\ instruction.stake <= PerRaceCap /\ IsUnits(instruction.stake)
      /\ instruction.stake = WantedOneHit(ledger, aim) \/ instruction.stake < WantedOneHit(ledger, aim)
  BY <1>3, TailInstructionParts
<1>5. WantedOneHit(ledger, aim) \in Nat
  BY <1>3, WantedParts
<1>6. instruction.pool \in DOMAIN market.rows /\ market.rows[instruction.pool] \in Seq(Quoted)
  BY <1>2, <1>4 DEF IsMarket
<1> HIDE DEF instruction
<1>7. ASSUME new # NoPlan
      PROVE  /\ Sound(new, Race, market, Instant(late), AskedFloor) /\ Aimed(new, aim, fit)
  <2>1. AskedFloor = instruction.floor
    BY <1>1, <1>4 DEF AskedFloor
  <2>2. /\ Sound(new, Race, market, Instant(late), instruction.floor)
        /\ Len(new.bets) = FitTickets(instruction) /\ new.bets[1].money = instruction.stake
        /\ instruction.stake \in Nat \ {0}
        /\ PayloadStake(new) = Len(new.bets) * new.bets[1].money
        /\ ~(PayloadStake(new) > ledger.bank)
    <3>1. instruction.tickets <= MaxBetsPerRace
      BY <1>4, LimitsParts
    <3>2. QED
      BY <1>2, <1>4, <1>6, <1>7, <3>1, InstructedParts
  <2> HIDE DEF new
  <2>3. /\ FitTickets(instruction) \in Nat \ {0}
        /\ FitTickets(instruction) > 1
              => (FitTickets(instruction) - 1) * instruction.stake < instruction.floor
        /\ instruction.stake >= instruction.floor => FitTickets(instruction) <= 1
    <3>1. /\ instruction.stake \in Nat \ {0} /\ instruction.tickets \in Nat \ {0}
          /\ instruction.floor \in Int
      BY <1>4, <2>2 DEF IsInstruction
    <3>2. instruction.stake * instruction.tickets = instruction.stake
      BY <1>4, <3>1
    <3>3. QED
      BY <1>4, <3>1, <3>2, FitParts
  <2>4. Len(new.bets) = 1 \/ (Len(new.bets) - 1) * new.bets[1].money < QualificationFloor(ledger)
    BY <1>4, <2>2, <2>3
  <2>5. new.bets[1].money >= QualificationFloor(ledger) => Len(new.bets) = 1
    BY <1>4, <2>2, <2>3
  <2>6. new.bets[1].money <= WantedOneHit(ledger, aim)
    BY <1>4, <1>5, <2>2
  <2>7. QED
    BY <2>1, <2>2, <2>4, <2>5, <2>6 DEF Aimed
<1>8. fit \in BOOLEAN
  OBVIOUS
<1>9. NewPlan(late, market, new, aim, fit)
  BY <1>1 DEF aim, instruction
<1> HIDE DEF new, fit
<1>10. Handed(late, market, new, aim, fit)
  BY <1>3, <1>7, <1>8, <1>9 DEF Handed
<1>11. QED
  BY <1>1, <1>7, <1>10

\* So does the trifecta script.
LEMMA Sanrentan3Hands ==
    ASSUME calendar \in Calendars, IsLedger(ledger), Sanrentan3Race
    PROVE  /\ Scripted("sanrentan3")
           /\ \E late, market, new : Handed(late, market, new, 0, FALSE)
<1>1. PICK late \in BOOLEAN, market \in Snapshots :
         /\ Scripted("sanrentan3")
         /\ NewPlan(late, market, BuildSanrentan3(Race, market, Instant(late)), 0, FALSE)
  BY DEF Sanrentan3Race
<1> DEFINE new == BuildSanrentan3(Race, market, Instant(late))
<1>2. /\ Race.post \in Nat /\ Race.script = "sanrentan3" /\ Instant(late) \in Int
      /\ "sanrentan" \in DOMAIN market.rows /\ market.rows["sanrentan"] \in Seq(Quoted)
  BY <1>1, ScriptedParts
<1>3. ASSUME new # NoPlan PROVE Sound(new, Race, market, Instant(late), AskedFloor)
  <2>1. /\ Written(new, Race, market, Instant(late)) /\ new.pool = "sanrentan"
        /\ OnFirstRows(new, LoadSurface(market.rows["sanrentan"]), FixedTickets, FixedStake)
    BY <1>2, <1>3, Sanrentan3Parts
  <2> HIDE DEF new
  <2>2. IsUnits(FixedStake) /\ FixedStake \in Nat \ {0} /\ FixedTickets \in Nat
    BY FixedAssumption, UnitsAreWhole
  <2>3. /\ WholeTickets(new) /\ Len(new.bets) = FixedTickets
        /\ PayloadStake(new) = FixedTickets * FixedStake
        /\ OfRows(new, market)
        /\ \/ RowsOf(new, market) # Distinct(RowsOf(new, market))
           \/ \A i, j \in DOMAIN new.bets : new.bets[i].bet = new.bets[j].bet => i = j
    BY <1>2, <2>1, <2>2, FirstRowsParts DEF Written, RowsOf, OfRows
  <2>4. PayloadStake(new) <= MaxStakePerRace /\ Len(new.bets) <= MaxBetsPerRace
    BY <2>3, LimitsParts
  <2>5. Race.script # "allin" /\ Race.script \in {"v17", "sanrentan3"}
    BY <1>2
  <2>6. QED
    BY <1>2, <2>1, <2>3, <2>4, <2>5 DEF Sound
<1>4. NewPlan(late, market, new, 0, FALSE)
  BY <1>1
<1> HIDE DEF new
<1>5. Handed(late, market, new, 0, FALSE)
  BY <1>3, <1>4 DEF Handed
<1>6. QED
  BY <1>1, <1>5

\* So does the all-in script.
LEMMA AllinHands ==
    ASSUME calendar \in Calendars, IsLedger(ledger), AllinRace
    PROVE  Scripted("allin") /\ \E late, market, new : Handed(late, market, new, 0, FALSE)
<1>1. PICK late \in BOOLEAN, market \in Snapshots :
         /\ Scripted("allin")
         /\ NewPlan(late, market, BuildAllin(Race, market, Instant(late)), 0, FALSE)
  BY DEF AllinRace
<1> DEFINE new == BuildAllin(Race, market, Instant(late))
           class == ProposedClass(Quality(Scored(market)))
<1>2. /\ Race.post \in Nat /\ Race.script = "allin" /\ Instant(late) \in Int
      /\ "sanrentan" \in DOMAIN market.rows /\ market.rows["sanrentan"] \in Seq(Quoted)
  BY <1>1, ScriptedParts
<1>3. ASSUME new # NoPlan PROVE Sound(new, Race, market, Instant(late), AskedFloor)
  <2>1. /\ Written(new, Race, market, Instant(late)) /\ class \in Classes
        /\ OfTriples(new)
        /\ Len(new.bets) = ClassSpecs[class].tickets
        /\ PayloadStake(new) = ExpectedStake(class) /\ WholeTickets(new)
        /\ \A i, j \in DOMAIN new.bets : new.bets[i].bet = new.bets[j].bet => i = j
    BY <1>2, <1>3, AllinParts DEF OfTriples
  <2> HIDE DEF new, class
  <2>2. PayloadStake(new) <= MaxStakePerRace
    BY <2>1, LimitsParts
  <2>3. Len(new.bets) <= MaxBetsPerRace
    <3>1. ClassSpecs[class].tickets \in Nat /\ ClassSpecs[class].tickets <= ClassSpecs["A"].tickets
      BY <2>1, ClassParts
    <3>2. "A" \in Classes
      BY DEF Classes
    <3>3. ClassSpecs["A"].tickets \in Nat
      BY <3>2, ClassParts
    <3>4. QED
      BY <2>1, <3>1, <3>3, LimitsParts
  <2>4. new.pool \in DOMAIN market.rows /\ Race.script = "allin"
    BY <1>2, <2>1 DEF OfTriples
  <2>5. QED
    BY <2>1, <2>2, <2>3, <2>4 DEF Sound, class
<1>4. NewPlan(late, market, new, 0, FALSE)
  BY <1>1
<1> HIDE DEF new
<1>5. Handed(late, market, new, 0, FALSE)
  BY <1>3, <1>4 DEF Handed
<1>6. QED
  BY <1>1, <1>5

\* So does the dynamic script.
LEMMA DynamicHands ==
    ASSUME calendar \in Calendars, IsLedger(ledger), DynamicRace
    PROVE  Scripted("dynamic") /\ \E late, market, new : Handed(late, market, new, 0, FALSE)
<1> DEFINE slots == Greater(1, Len(calendar) - Done)
<1>1. PICK late \in BOOLEAN, market \in Snapshots :
         /\ Scripted("dynamic")
         /\ NewPlan(late, market, BuildDynamic(Race, market, Instant(late), ledger.bank, slots),
                    0, FALSE)
  BY DEF DynamicRace
<1> DEFINE new == BuildDynamic(Race, market, Instant(late), ledger.bank, slots)
<1>2. /\ Race.post \in Nat /\ Race.script = "dynamic" /\ Instant(late) \in Int
      /\ "sanrentan" \in DOMAIN market.rows /\ market.rows["sanrentan"] \in Seq(Quoted)
      /\ ledger.bank \in Int
  BY <1>1, ScriptedParts DEF IsLedger
<1> HIDE DEF slots
<1>3. ASSUME new # NoPlan PROVE Sound(new, Race, market, Instant(late), AskedFloor)
  <2>1. /\ Written(new, Race, market, Instant(late)) /\ WholeTickets(new)
        /\ Len(new.bets) <= MaxShortlist /\ new.pool = "sanrentan" /\ OfRows(new, market)
        /\ \A i, j \in DOMAIN new.bets : new.bets[i].bet = new.bets[j].bet => i = j
    <3> DEFINE rows == LoadSurface(market.rows["sanrentan"])
    <3>1. /\ Written(new, Race, market, Instant(late)) /\ WholeTickets(new)
          /\ Len(new.bets) <= MaxShortlist /\ new.pool = "sanrentan"
          /\ \A i \in DOMAIN new.bets : \E k \in DOMAIN rows : new.bets[i].bet = rows[k].horses
          /\ \A i, j \in DOMAIN new.bets : new.bets[i].bet = new.bets[j].bet => i = j
      BY <1>2, <1>3, DynamicParts
    <3> HIDE DEF new
    <3>2. OfRows(new, market)
      <4>1. RowsOf(new, market) = rows
        BY <3>1 DEF RowsOf
      <4> HIDE DEF rows
      <4>2. QED
        BY <3>1, <4>1 DEF OfRows, Range
    <3>3. QED
      BY <3>1, <3>2
  <2> HIDE DEF new
  <2>2. Len(new.bets) <= MaxBetsPerRace
    <3>1. Len(new.bets) \in Nat
      BY <2>1, PlanCosts DEF Written
    <3>2. MaxShortlist \in Nat
      BY AllocationAssumption
    <3>3. QED
      BY <2>1, <3>1, <3>2, LimitsParts
  <2>3. Race.script # "allin"
    BY <1>2
  <2>4. QED
    BY <1>2, <2>1, <2>2, <2>3 DEF Sound
<1>4. NewPlan(late, market, new, 0, FALSE)
  BY <1>1
<1> HIDE DEF new
<1>5. Handed(late, market, new, 0, FALSE)
  BY <1>3, <1>4 DEF Handed
<1>6. QED
  BY <1>1, <1>5

-----------------------------------------------------------------------------
(* Well-formed states. *)

\* A plan whose tickets are whole units.
IsVotable(p) == IsPlan(p) /\ WholeTickets(p)

\* What is kept of a vote.
IsVote(vote) ==
    /\ vote = [plan |-> vote.plan, paid |-> vote.paid, settled |-> vote.settled]
    /\ IsVotable(vote.plan) /\ vote.paid \in Nat /\ vote.settled \in BOOLEAN

\* The day: its calendar, the faults so far, the runner, the tick and the goal.
DayTypes ==
    /\ calendar \in Calendars /\ faults \in 0..MaxFaults
    /\ runner \in {"ready", "built", "imported"} /\ snapshot \in Snapshots \union {NoSnapshot}
    /\ tick \in {"idle", "building", "importing", "arming"}
    /\ goal \in Nat /\ secured \in Nat /\ fits \in BOOLEAN

\* The account that the contest keeps.
Ledgers == [bank : Int, turnover : Nat, front_races_done : Nat, races_bet : Nat,
            races_remaining : Int]

\* The account is the caller's, and counts the races that the front has played.
LedgerTypes ==
    /\ ledger \in Ledgers /\ Done = Len(front) /\ ledger.races_bet <= Len(front)
    /\ front \in Seq([floor : Nat, spend : Nat, fits : BOOLEAN])

\* The script's plan is for the next race.
PlanTypes ==
    /\ runner = "ready" => plan = NoPlan
    /\ runner # "ready" => Done < Len(calendar)
    /\ plan # NoPlan => IsVotable(plan) /\ plan.race_id = Race.id
    /\ runner = "imported" => plan # NoPlan

\* The recovery's plan is for a race of the day, and only an all-in day has one.
RecoveryTypes ==
    /\ planFile # NoPlan => IsVotable(planFile) /\ RecoveryRace \in Ids
    /\ DOMAIN journals["recovery"] # {} => planFile # NoPlan
    /\ ~OnAllinDay => tick = "idle" /\ planFile = NoPlan

\* The votes are of races of the calendar.
VoteTypes == DOMAIN votes \subseteq Ids /\ \A race \in DOMAIN votes : IsVote(votes[race])

\* Inductive with RecoveryIsAlone: every variable is what its type says, and a
\* plan or a vote is made of tickets of whole units.
WellFormed == DayTypes /\ LedgerTypes /\ PlanTypes /\ RecoveryTypes /\ VoteTypes

\* Such a ledger is one that the scripts can read.
LEMMA LedgerParts == LedgerTypes => IsLedger(ledger)
BY DEF LedgerTypes, Ledgers, IsLedger

\* The contest starts well-formed.
LEMMA InitWellFormed == Init => WellFormed
<1> SUFFICES ASSUME Init PROVE WellFormed
  OBVIOUS
<1>1. /\ calendar \in Calendars /\ faults = 0 /\ runner = "ready" /\ plan = NoPlan
      /\ snapshot = NoSnapshot /\ fits = FALSE /\ front = <<>> /\ goal = 0 /\ secured = 0
      /\ votes = <<>> /\ RecoveryInit
      /\ ledger = [bank |-> InitialBank, turnover |-> 0, front_races_done |-> 0, races_bet |-> 0,
                   races_remaining |-> TableRaces]
  BY DEF Init
<1>2. MaxFaults \in Nat /\ InitialBank \in Nat /\ TableRaces \in Nat
  BY CalendarAssumption, TableAssumption
<1>3. DayTypes
  <2>1. tick = "idle"
    BY <1>1 DEF RecoveryInit
  <2>2. 0 \in 0..MaxFaults
    BY <1>2
  <2>3. QED
    BY <1>1, <2>1, <2>2 DEF DayTypes
<1>4. LedgerTypes
  BY <1>1, <1>2 DEF LedgerTypes, Ledgers, Done
<1>5. PlanTypes
  BY <1>1 DEF PlanTypes
<1>6. RecoveryTypes
  <2>1. planFile = NoPlan /\ tick = "idle" /\ journals["recovery"] = <<>>
    BY <1>1 DEF RecoveryInit, Daemons
  <2>2. DOMAIN journals["recovery"] = {}
    BY <2>1
  <2>3. QED
    BY <2>1, <2>2 DEF RecoveryTypes
<1>7. VoteTypes
  <2>1. DOMAIN votes = {}
    BY <1>1
  <2>2. QED
    BY <2>1 DEF VoteTypes
<1>8. QED
  BY <1>3, <1>4, <1>5, <1>6, <1>7 DEF WellFormed

\* A fault more, or none.
LEMMA SpendParts ==
    ASSUME faults \in 0..MaxFaults, NEW count \in Nat, Spend(count)
    PROVE  faults' \in 0..MaxFaults
<1>1. MaxFaults \in Nat
  BY CalendarAssumption
<1>2. QED
  BY <1>1 DEF Spend

\* A fault counts once or not at all.
LEMMA FaultParts == \A flaw : Fault(flaw) \in Nat
BY DEF Fault

\* The races of the calendar stay.
LEMMA SameCalendar ==
    ASSUME calendar' = calendar
    PROVE  Ids' = Ids /\ OnAllinDay' = OnAllinDay
BY DEF Ids, OnAllinDay

\* A handed plan keeps the state well-formed.
LEMMA HandedWellFormed ==
    ASSUME WellFormed, NEW script, Scripted(script),
           NEW late, NEW market, NEW new, NEW aim, NEW fit, Handed(late, market, new, aim, fit)
    PROVE  WellFormed'
<1>1. /\ NewPlan(late, market, new, aim, fit) /\ market \in Snapshots /\ aim \in Nat
      /\ fit \in BOOLEAN /\ (new # NoPlan => Sound(new, Race, market, Instant(late), AskedFloor))
  BY DEF Handed
<1>2. /\ Spend(Fault(late) + Fault(market \notin Complete))
      /\ snapshot' = market /\ plan' = new /\ goal' = aim /\ fits' = fit
      /\ secured' = IF aim \in 1..secured THEN secured ELSE 0
      /\ runner' = "built"
      /\ UNCHANGED <<calendar, ledger, front, votes, history, recoveryVars>>
  BY <1>1 DEF NewPlan
<1>3. DayTypes'
  <2>1. Fault(late) + Fault(market \notin Complete) \in Nat
    BY FaultParts
  <2>2. faults' \in 0..MaxFaults
    BY <1>2, <2>1, SpendParts DEF WellFormed, DayTypes
  <2>3. secured' \in Nat
    BY <1>2 DEF WellFormed, DayTypes
  <2>4. QED
    BY <1>1, <1>2, <2>2, <2>3 DEF WellFormed, DayTypes, recoveryVars
<1>4. LedgerTypes'
  BY <1>2 DEF WellFormed, LedgerTypes, Done
<1>5. PlanTypes'
  <2>1. Done' = Done /\ Race' = Race /\ Done < Len(calendar)
    BY <1>2 DEF Done, Race, Scripted
  <2>2. new # NoPlan => IsVotable(new) /\ new.race_id = Race.id
    <3>1. SUFFICES ASSUME new # NoPlan PROVE IsVotable(new) /\ new.race_id = Race.id
      OBVIOUS
    <3>2. /\ new = Envelope(Race, market, Instant(late), new.pool, new.bets) /\ IsPlan(new)
          /\ WholeTickets(new)
      BY <1>1, <3>1 DEF Sound, Written
    <3>3. new.race_id = Race.id
      BY <3>2, EnvelopeParts
    <3>4. QED
      BY <3>2, <3>3 DEF IsVotable
  <2>3. QED
    BY <1>2, <2>1, <2>2 DEF PlanTypes
<1>6. RecoveryTypes'
  BY <1>2, SameCalendar DEF WellFormed, RecoveryTypes, recoveryVars
<1>7. VoteTypes'
  BY <1>2, SameCalendar DEF WellFormed, VoteTypes
<1>8. QED
  BY <1>3, <1>4, <1>5, <1>6, <1>7 DEF WellFormed

\* The race is over, with this stake.
LEMMA RaceOverTypes ==
    ASSUME WellFormed, runner # "ready", NEW stake \in Nat, RaceOver(stake), calendar' = calendar
    PROVE  /\ LedgerTypes' /\ PlanTypes' /\ runner' = "ready" /\ snapshot' = NoSnapshot
           /\ Done' = Done + 1 /\ Len(front') = Len(front) + 1
           /\ \A i \in 1..Len(front) : front'[i] = front[i]
           /\ front'[Len(front) + 1] = [floor |-> Floor, spend |-> stake, fits |-> fits]
           /\ ledger'.bank = ledger.bank - stake /\ ledger'.turnover = ledger.turnover + stake
           /\ ledger'.races_bet = IF stake > 0 THEN ledger.races_bet + 1 ELSE ledger.races_bet
<1> DEFINE row == [floor |-> Floor, spend |-> stake, fits |-> fits]
<1>1. /\ runner' = "ready" /\ plan' = NoPlan /\ snapshot' = NoSnapshot
      /\ ledger' = [ledger EXCEPT !.bank = @ - stake, !.turnover = @ + stake,
                                  !.front_races_done = @ + 1, !.races_remaining = @ - 1,
                                  !.races_bet = IF stake > 0 THEN @ + 1 ELSE @]
      /\ front' = Append(front, row)
  BY DEF RaceOver
<1>2. /\ ledger \in Ledgers /\ IsLedger(ledger) /\ Done = Len(front) /\ ledger.races_bet <= Len(front)
      /\ front \in Seq([floor : Nat, spend : Nat, fits : BOOLEAN])
  BY LedgerParts DEF WellFormed, LedgerTypes
<1>3. row \in [floor : Nat, spend : Nat, fits : BOOLEAN]
  <2>1. Floor \in Nat
    BY <1>2, CurrentFloorParts DEF Floor
  <2>2. fits \in BOOLEAN
    BY DEF WellFormed, DayTypes
  <2> HIDE DEF IsLedger
  <2>3. QED
    BY <2>1, <2>2
<1> HIDE DEF row
<1>4. /\ front' \in Seq([floor : Nat, spend : Nat, fits : BOOLEAN])
      /\ Len(front') = Len(front) + 1 /\ Len(front) \in Nat
      /\ \A i \in 1..Len(front) : front'[i] = front[i]
      /\ front'[Len(front) + 1] = row
  BY <1>1, <1>2, <1>3
<1>5. /\ ledger'.bank = ledger.bank - stake /\ ledger'.turnover = ledger.turnover + stake
      /\ ledger'.front_races_done = ledger.front_races_done + 1
      /\ ledger'.races_remaining = ledger.races_remaining - 1
      /\ ledger'.races_bet = IF stake > 0 THEN ledger.races_bet + 1 ELSE ledger.races_bet
  BY <1>1, <1>2 DEF Ledgers
<1>6. ledger' \in Ledgers /\ ledger'.races_bet <= Len(front')
  <2>1. ledger' \in Ledgers
    <3>1. /\ ledger.bank \in Int /\ ledger.turnover \in Nat /\ ledger.front_races_done \in Nat
          /\ ledger.races_bet \in Nat /\ ledger.races_remaining \in Int
      BY <1>2 DEF Ledgers
    <3>2. ledger' = [bank |-> ledger.bank - stake, turnover |-> ledger.turnover + stake,
                     front_races_done |-> ledger.front_races_done + 1,
                     races_bet |-> IF stake > 0 THEN ledger.races_bet + 1 ELSE ledger.races_bet,
                     races_remaining |-> ledger.races_remaining - 1]
      BY <1>1, <1>2 DEF Ledgers
    <3>3. QED
      BY <3>1, <3>2 DEF Ledgers
  <2>2. ledger.races_bet \in Nat
    BY <1>2 DEF Ledgers
  <2>3. QED
    BY <1>2, <1>4, <1>5, <2>1, <2>2
<1>7. Done' = Done + 1 /\ Done' = Len(front')
  BY <1>2, <1>4, <1>5 DEF Done, Ledgers
<1>8. LedgerTypes'
  BY <1>4, <1>6, <1>7 DEF LedgerTypes
<1>9. PlanTypes'
  BY <1>1 DEF PlanTypes
<1>10. QED
  BY <1>1, <1>4, <1>5, <1>7, <1>8, <1>9 DEF row

\* So does its import,
LEMMA ImportWellFormed ==
    ASSUME WellFormed, RecoveryIsAlone, Import
    PROVE  WellFormed'
<1>1. /\ runner = "built" /\ plan # NoPlan /\ ImportPlan("original", plan) /\ runner' = "imported"
      /\ UNCHANGED <<killed, prepared, planFile, tick>>
      /\ UNCHANGED <<calendar, faults, ledger, plan, snapshot, fits, front, goal, secured,
                     votes, history>>
  BY DEF Import
<1>2. journals'["recovery"] = journals["recovery"]
  BY <1>1, ImportAdds DEF Daemons
<1>3. DayTypes' /\ LedgerTypes'
  BY <1>1 DEF WellFormed, DayTypes, LedgerTypes, Done
<1>4. PlanTypes'
  <2>1. Done' = Done /\ Race' = Race
    BY <1>1 DEF Done, Race
  <2>2. QED
    BY <1>1, <2>1 DEF WellFormed, PlanTypes
<1>5. RecoveryTypes' /\ VoteTypes'
  BY <1>1, <1>2, SameCalendar DEF WellFormed, RecoveryTypes, VoteTypes
<1>6. QED
  BY <1>3, <1>4, <1>5 DEF WellFormed

\* a race that is passed,
LEMMA PassWellFormed ==
    ASSUME WellFormed, PassRace
    PROVE  WellFormed'
<1>1. /\ runner # "ready" /\ RaceOver(0)
      /\ UNCHANGED <<calendar, faults, fits, goal, secured, votes, history, recoveryVars>>
  BY DEF PassRace
<1>2. LedgerTypes' /\ PlanTypes' /\ runner' = "ready" /\ snapshot' = NoSnapshot
  <2>1. 0 \in Nat
    OBVIOUS
  <2>2. QED
    BY <1>1, <2>1, RaceOverTypes
<1>3. DayTypes'
  BY <1>1, <1>2 DEF WellFormed, DayTypes, recoveryVars
<1>4. RecoveryTypes' /\ VoteTypes'
  BY <1>1, SameCalendar DEF WellFormed, RecoveryTypes, VoteTypes, recoveryVars
<1>5. QED
  BY <1>2, <1>3, <1>4 DEF WellFormed

\* A vote that the contest has, or that it has not.
LEMMA CastTypes ==
    ASSUME WellFormed, NEW daemon, NEW race \in Ids, NEW cast, IsVotable(cast), cast.race_id = race,
           NEW state, Cast(daemon, race, cast, state), calendar' = calendar
    PROVE  /\ VoteTypes' /\ faults' \in 0..MaxFaults /\ journals' = Moved(daemon, race, state)
           /\ \/ /\ state \in {"CONFIRMED", "AMBIGUOUS"}
                 /\ DOMAIN votes' = DOMAIN votes \union {race}
                 /\ votes'[race] = [plan |-> cast, paid |-> 0, settled |-> FALSE]
                 /\ \A other \in DOMAIN votes : other # race => votes'[other] = votes[other]
              \/ state \in {"AMBIGUOUS", "REJECTED"} /\ votes' = votes
<1>1. /\ journals' = Moved(daemon, race, state)
      /\ \/ state \in {"CONFIRMED", "AMBIGUOUS"} /\ Accepted(cast)
         \/ state \in {"AMBIGUOUS", "REJECTED"} /\ UNCHANGED votes
      /\ Spend(Fault(state # "CONFIRMED"))
  BY DEF Cast
<1>2. faults' \in 0..MaxFaults
  <2>1. Fault(state # "CONFIRMED") \in Nat
    BY FaultParts
  <2>2. QED
    BY <1>1, <2>1, SpendParts DEF WellFormed, DayTypes
<1>3. DOMAIN votes \subseteq Ids /\ Ids' = Ids /\ \A other \in DOMAIN votes : IsVote(votes[other])
  BY SameCalendar DEF WellFormed, VoteTypes
<1>4. CASE state \in {"CONFIRMED", "AMBIGUOUS"} /\ Accepted(cast)
  <2> DEFINE vote == [plan |-> cast, paid |-> 0, settled |-> FALSE]
  <2>1. votes' = [other \in DOMAIN votes \union {race} |-> IF other = race THEN vote ELSE votes[other]]
    BY <1>4 DEF Accepted
  <2>2. IsVote(vote)
    BY DEF IsVote
  <2> HIDE DEF vote
  <2>3. /\ DOMAIN votes' = DOMAIN votes \union {race} /\ votes'[race] = vote
        /\ \A other \in DOMAIN votes : other # race => votes'[other] = votes[other]
    BY <2>1
  <2>4. \A other \in DOMAIN votes' : IsVote(votes'[other])
    BY <1>3, <2>2, <2>3
  <2>5. VoteTypes'
    BY <1>3, <2>3, <2>4 DEF VoteTypes
  <2>6. QED
    BY <1>1, <1>2, <1>4, <2>3, <2>5 DEF vote
<1>5. CASE state \in {"AMBIGUOUS", "REJECTED"} /\ UNCHANGED votes
  <2>1. VoteTypes'
    BY <1>3, <1>5 DEF VoteTypes
  <2>2. QED
    BY <1>1, <1>2, <1>5, <2>1
<1>6. QED
  BY <1>1, <1>4, <1>5

\* a vote of the original daemon,
LEMMA VoteWellFormed ==
    ASSUME WellFormed, RecoveryIsAlone, Vote
    PROVE  WellFormed'
<1>1. PICK state \in Outcomes :
         /\ Cast("original", Race.id, plan, state)
         /\ RaceOver(IF state = "CONFIRMED" THEN PayloadStake(plan) ELSE 0)
  BY DEF Vote
<1>2. /\ runner = "imported"
      /\ UNCHANGED <<calendar, fits, goal, secured, history, killed, prepared, planFile, tick>>
  BY DEF Vote
<1>3. IsVotable(plan) /\ plan.race_id = Race.id /\ Race.id \in Ids
  <2>1. plan # NoPlan /\ Done < Len(calendar) /\ calendar \in Calendars /\ Done \in Nat
    BY <1>2, LedgerParts DEF WellFormed, PlanTypes, DayTypes, LedgerTypes, IsLedger, Done
  <2>2. QED
    BY <2>1, RaceParts DEF WellFormed, PlanTypes
<1>4. VoteTypes' /\ faults' \in 0..MaxFaults /\ journals' = Moved("original", Race.id, state)
  BY <1>1, <1>2, <1>3, CastTypes
<1>5. journals'["recovery"] = journals["recovery"]
  BY <1>4, MoveKeeps DEF Daemons
<1>6. LedgerTypes' /\ PlanTypes' /\ runner' = "ready" /\ snapshot' = NoSnapshot
  <2>1. (IF state = "CONFIRMED" THEN PayloadStake(plan) ELSE 0) \in Nat
    BY <1>3, PlanCosts DEF IsVotable
  <2>2. QED
    BY <1>1, <1>2, <2>1, RaceOverTypes
<1>7. DayTypes'
  BY <1>2, <1>4, <1>6 DEF WellFormed, DayTypes
<1>8. RecoveryTypes'
  BY <1>2, <1>5, SameCalendar DEF WellFormed, RecoveryTypes
<1>9. QED
  BY <1>4, <1>6, <1>7, <1>8 DEF WellFormed

\* What a recovery's vote costs.
LEMMA RecoveryVoteParts ==
    ASSUME WellFormed, RecoveryIsAlone, RecoveryVote
    PROVE  /\ IsVotable(planFile) /\ RecoveryRace \in Ids /\ planFile.race_id = RecoveryRace
           /\ OnAllinDay
           /\ \E state \in Outcomes :
                 /\ Cast("recovery", RecoveryRace, planFile, state)
                 /\ LET stake == IF state = "CONFIRMED" THEN PayloadStake(planFile) ELSE 0
                    IN  /\ stake \in Nat
                        /\ ledger' = [ledger EXCEPT !.bank = @ - stake, !.turnover = @ + stake]
<1>1. PICK state \in Outcomes :
         /\ Cast("recovery", RecoveryRace, planFile, state)
         /\ LET stake == IF state = "CONFIRMED" THEN PayloadStake(planFile) ELSE 0
            IN  ledger' = [ledger EXCEPT !.bank = @ - stake, !.turnover = @ + stake]
  BY DEF RecoveryVote
<1>2. RecoveryRace \in DOMAIN journals["recovery"]
  BY DEF RecoveryVote, InState, Knows
<1>3. planFile # NoPlan
  BY <1>2 DEF WellFormed, RecoveryTypes
<1>4. IsVotable(planFile) /\ RecoveryRace \in Ids /\ planFile.race_id = RecoveryRace /\ OnAllinDay
  BY <1>3 DEF WellFormed, RecoveryTypes, RecoveryIsAlone
<1>5. (IF state = "CONFIRMED" THEN PayloadStake(planFile) ELSE 0) \in Nat
  BY <1>4, PlanCosts DEF IsVotable
<1>6. QED
  BY <1>1, <1>4, <1>5

\* a vote of the recovery daemon,
LEMMA RecoveryVoteWellFormed ==
    ASSUME WellFormed, RecoveryIsAlone, RecoveryVote
    PROVE  WellFormed'
<1>1. UNCHANGED <<calendar, runner, plan, snapshot, fits, front, goal, secured,
                  history, killed, prepared, planFile, tick>>
  BY DEF RecoveryVote
<1>2. /\ IsVotable(planFile) /\ RecoveryRace \in Ids /\ planFile.race_id = RecoveryRace
  BY RecoveryVoteParts
<1>3. PICK state \in Outcomes :
         /\ Cast("recovery", RecoveryRace, planFile, state)
         /\ LET stake == IF state = "CONFIRMED" THEN PayloadStake(planFile) ELSE 0
            IN  /\ stake \in Nat
                /\ ledger' = [ledger EXCEPT !.bank = @ - stake, !.turnover = @ + stake]
  BY RecoveryVoteParts
<1>4. VoteTypes' /\ faults' \in 0..MaxFaults
  BY <1>1, <1>2, <1>3, CastTypes
<1>5. DayTypes'
  BY <1>1, <1>4 DEF WellFormed, DayTypes
<1>6. LedgerTypes' /\ Done' = Done
  <2>1. ledger \in Ledgers
    BY DEF WellFormed, LedgerTypes
  <2>2. PICK stake \in Nat : ledger' = [ledger EXCEPT !.bank = @ - stake, !.turnover = @ + stake]
    BY <1>3
  <2>3. /\ ledger' \in Ledgers /\ ledger'.front_races_done = ledger.front_races_done
        /\ ledger'.races_bet = ledger.races_bet
    <3>1. /\ ledger.bank \in Int /\ ledger.turnover \in Nat /\ ledger.front_races_done \in Nat
          /\ ledger.races_bet \in Nat /\ ledger.races_remaining \in Int
      BY <2>1 DEF Ledgers
    <3>2. ledger' = [bank |-> ledger.bank - stake, turnover |-> ledger.turnover + stake,
                     front_races_done |-> ledger.front_races_done,
                     races_bet |-> ledger.races_bet, races_remaining |-> ledger.races_remaining]
      BY <2>1, <2>2 DEF Ledgers
    <3>3. QED
      BY <3>1, <3>2 DEF Ledgers
  <2>4. QED
    BY <1>1, <2>3 DEF WellFormed, LedgerTypes, Done
<1>7. PlanTypes'
  <2>1. Race' = Race
    BY <1>1, <1>6 DEF Race, Done
  <2>2. QED
    BY <1>1, <1>6, <2>1 DEF WellFormed, PlanTypes
<1>8. RecoveryTypes'
  <2>1. planFile # NoPlan
    BY <1>2 DEF WellFormed, RecoveryTypes, RecoveryVote, InState, Knows
  <2>2. QED
    BY <1>1, <2>1, SameCalendar DEF WellFormed, RecoveryTypes
<1>9. QED
  BY <1>4, <1>5, <1>6, <1>7, <1>8 DEF WellFormed

\* The race is settled: what its vote paid, and what the caller notes of it.
Settles(race, row, paid, noted) ==
    LET counted == row /\ SeenConfirmed(race)
    IN  /\ noted \in {0, paid}
        /\ ~votes[race].settled /\ votes[race].plan.bets[1].money \in Nat \ {0}
        /\ \E flaw : Spend(Fault(flaw))
        /\ DOMAIN votes' = DOMAIN votes
        /\ votes'[race] = [plan |-> votes[race].plan, paid |-> paid, settled |-> TRUE]
        /\ \A other \in DOMAIN votes : other # race => votes'[other] = votes[other]
        /\ ledger' = IF counted THEN [ledger EXCEPT !.bank = @ + noted] ELSE ledger
        /\ secured' = IF counted /\ Reaches(race, noted) THEN goal ELSE secured
        /\ history' =
              IF ~counted THEN history
              ELSE Append(history,
                          [race |-> race, stake |-> PayloadStake(votes[race].plan),
                           payout |-> noted])

\* What a settlement does to the vote and the ledger.
LEMMA SettleParts ==
    ASSUME WellFormed, Settle
    PROVE  \E race \in DOMAIN votes, row \in BOOLEAN, paid \in Nat, noted \in Nat :
              Settles(race, row, paid, noted)
<1>1. PICK race \in DOMAIN votes, row \in BOOLEAN :
         /\ ~votes[race].settled
         /\ \E paid \in Returns(votes[race].plan) : \E noted \in {0, paid} :
               LET counted == row /\ SeenConfirmed(race)
                   refund == paid = votes[race].plan.bets[1].money
               IN  /\ Spend(Fault(~row \/ refund \/ noted # paid))
                   /\ votes' = [votes EXCEPT ![race].settled = TRUE, ![race].paid = paid]
                   /\ ledger' = IF counted THEN [ledger EXCEPT !.bank = @ + noted] ELSE ledger
                   /\ secured' = IF counted /\ Reaches(race, noted) THEN goal ELSE secured
                   /\ history' =
                         IF ~counted THEN history
                         ELSE Append(history,
                                     [race |-> race, stake |-> PayloadStake(votes[race].plan),
                                      payout |-> noted])
  BY ZenonT(60) DEF Settle
<1> DEFINE counted == row /\ SeenConfirmed(race)
           entry(noted) == [race |-> race, stake |-> PayloadStake(votes[race].plan), payout |-> noted]
<1>2. PICK paid \in Returns(votes[race].plan) :
         \E noted \in {0, paid} :
           /\ \E flaw : Spend(Fault(flaw))
           /\ votes' = [votes EXCEPT ![race].settled = TRUE, ![race].paid = paid]
           /\ ledger' = IF counted THEN [ledger EXCEPT !.bank = @ + noted] ELSE ledger
           /\ secured' = IF counted /\ Reaches(race, noted) THEN goal ELSE secured
           /\ history' = IF ~counted THEN history ELSE Append(history, entry(noted))
  BY <1>1
<1>3. PICK noted \in {0, paid} :
         /\ \E flaw : Spend(Fault(flaw))
         /\ votes' = [votes EXCEPT ![race].settled = TRUE, ![race].paid = paid]
         /\ ledger' = IF counted THEN [ledger EXCEPT !.bank = @ + noted] ELSE ledger
         /\ secured' = IF counted /\ Reaches(race, noted) THEN goal ELSE secured
         /\ history' = IF ~counted THEN history ELSE Append(history, entry(noted))
  BY <1>2
<1> HIDE DEF counted, entry
<1>4. IsVotable(votes[race].plan)
  BY DEF WellFormed, VoteTypes, IsVote
<1>5. votes[race].plan.bets[1].money \in Nat \ {0}
  BY <1>4, WholePlan DEF IsVotable
<1>6. paid \in Nat
  <2>1. TailPolicy.odds \in Nat
    BY TailAssumption
  <2> DEFINE money == votes[race].plan.bets[1].money
  <2>2. paid \in {0, money * TailPolicy.odds, money}
    BY DEF Returns
  <2> HIDE DEF money
  <2>3. money \in Nat
    BY <1>5 DEF money
  <2>4. QED
    BY <2>1, <2>2, <2>3
<1>7. /\ DOMAIN votes' = DOMAIN votes
      /\ votes'[race] = [plan |-> votes[race].plan, paid |-> paid, settled |-> TRUE]
      /\ \A other \in DOMAIN votes : other # race => votes'[other] = votes[other]
  <2>1. IsVote(votes[race])
    BY DEF WellFormed, VoteTypes
  <2>2. votes[race] = [plan |-> votes[race].plan, paid |-> votes[race].paid,
                       settled |-> votes[race].settled]
    BY <2>1 DEF IsVote
  <2>3. QED
    BY <1>3, <2>2
<1>8. /\ noted \in {0, paid} /\ noted \in Nat
      /\ ~votes[race].settled /\ votes[race].plan.bets[1].money \in Nat \ {0}
      /\ \E flaw : Spend(Fault(flaw))
      /\ DOMAIN votes' = DOMAIN votes
      /\ votes'[race] = [plan |-> votes[race].plan, paid |-> paid, settled |-> TRUE]
      /\ \A other \in DOMAIN votes : other # race => votes'[other] = votes[other]
      /\ ledger' = IF counted THEN [ledger EXCEPT !.bank = @ + noted] ELSE ledger
      /\ secured' = IF counted /\ Reaches(race, noted) THEN goal ELSE secured
      /\ history' = IF ~counted THEN history ELSE Append(history, entry(noted))
  BY <1>1, <1>3, <1>5, <1>6, <1>7
<1>9. Settles(race, row, paid, noted)
  BY <1>8, Zenon DEF Settles, counted, entry
<1>10. QED
  BY <1>6, <1>8, <1>9

\* a result,
LEMMA SettleWellFormed ==
    ASSUME WellFormed, Settle
    PROVE  WellFormed'
<1>1. UNCHANGED <<calendar, runner, plan, snapshot, fits, front, goal, recoveryVars>>
  BY DEF Settle
<1>2. PICK race \in DOMAIN votes, paid \in Nat, noted \in Nat :
         /\ \E flaw : Spend(Fault(flaw))
         /\ DOMAIN votes' = DOMAIN votes
         /\ votes'[race] = [plan |-> votes[race].plan, paid |-> paid, settled |-> TRUE]
         /\ \A other \in DOMAIN votes : other # race => votes'[other] = votes[other]
         /\ ledger' \in {[ledger EXCEPT !.bank = @ + noted], ledger}
         /\ secured' \in {goal, secured}
  <2>1. PICK race \in DOMAIN votes, row \in BOOLEAN, paid \in Nat, noted \in Nat :
           Settles(race, row, paid, noted)
    BY SettleParts, Zenon
  <2>2. QED
    BY <2>1 DEF Settles
<1>3. faults' \in 0..MaxFaults
  <2>1. PICK flaw : Spend(Fault(flaw))
    BY <1>2
  <2>2. Fault(flaw) \in Nat
    BY FaultParts
  <2>3. QED
    BY <2>1, <2>2, SpendParts DEF WellFormed, DayTypes
<1>4. DayTypes'
  BY <1>1, <1>2, <1>3 DEF WellFormed, DayTypes, recoveryVars
<1>5. ledger' \in Ledgers /\ Done' = Done /\ ledger'.races_bet = ledger.races_bet
  <2>1. ledger \in Ledgers
    BY DEF WellFormed, LedgerTypes
  <2>2. ledger.bank + noted \in Int
    BY <2>1, <1>2 DEF Ledgers
  <2>3. CASE ledger' = ledger
    BY <2>1, <2>3 DEF Done
  <2>4. CASE ledger' = [ledger EXCEPT !.bank = @ + noted]
    BY <2>1, <2>2, <2>4 DEF Ledgers, Done
  <2>5. QED
    BY <1>2, <2>3, <2>4
<1>6. LedgerTypes'
  BY <1>1, <1>5 DEF WellFormed, LedgerTypes
<1>7. PlanTypes'
  <2>1. Race' = Race
    BY <1>1, <1>5 DEF Race, Done
  <2>2. QED
    BY <1>1, <1>5, <2>1 DEF WellFormed, PlanTypes
<1>8. RecoveryTypes'
  BY <1>1, SameCalendar DEF WellFormed, RecoveryTypes, recoveryVars
<1>9. VoteTypes'
  <2>1. IsVote(votes'[race])
    <3>1. IsVote(votes[race])
      BY DEF WellFormed, VoteTypes
    <3>2. QED
      BY <1>2, <3>1 DEF IsVote
  <2>2. QED
    BY <1>1, <1>2, <2>1, SameCalendar DEF WellFormed, VoteTypes
<1>10. QED
  BY <1>4, <1>6, <1>7, <1>8, <1>9 DEF WellFormed

\* The recovery's plan is the all-in script's, for a race of the day.
LEMMA RecoveryPlanParts ==
    ASSUME calendar \in Calendars, NEW new \in RecoveryPlans, new # NoPlan
    PROVE  IsVotable(new) /\ RecoveryRace \in Ids /\ new.race_id = RecoveryRace
<1>1. PICK i \in {j \in DOMAIN calendar : calendar[j].id = RecoveryRace}, market \in Complete :
          new = BuildAllin(calendar[i], market, Target(calendar[i]) - Lead)
  BY DEF RecoveryPlans
<1>2. calendar[i].post \in Nat
  <2>1. calendar \in Seq([id : Nat \ {0}, post : Nat, script : STRING])
    BY CalendarAssumption
  <2>2. calendar[i] \in [id : Nat \ {0}, post : Nat, script : STRING]
    BY <2>1, SeqParts
  <2>3. QED
    BY <2>2
<1>3. Target(calendar[i]) - Lead \in Int
  BY <1>2, ContractAssumption DEF Target
<1>4. market.rows["sanrentan"] \in Seq(Quoted)
  BY CaptureAssumption DEF IsMarket
<1> DEFINE race == calendar[i]
           now == Target(race) - Lead
<1>5. race.post \in Nat /\ now \in Int /\ new = BuildAllin(race, market, now)
  BY <1>1, <1>2, <1>3
<1> HIDE DEF race, now
<1>6. Written(new, race, market, now) /\ WholeTickets(new)
  BY <1>4, <1>5, AllinParts
<1>7. new.race_id = RecoveryRace
  BY RecoveryPlanIsForRace
<1>8. RecoveryRace \in Ids
  BY <1>1 DEF Ids
<1>9. QED
  BY <1>6, <1>7, <1>8 DEF Written, IsVotable

\* the death of the daemon and each step of the recovery,
LEMMA RecoveryStepWellFormed ==
    ASSUME WellFormed, RecoveryIsAlone, RecoveryStep
    PROVE  WellFormed'
<1>1. OnAllinDay /\ UNCHANGED dayVars
  BY DEF RecoveryStep
<1>2. LedgerTypes' /\ PlanTypes' /\ VoteTypes'
  BY <1>1, SameCalendar DEF WellFormed, LedgerTypes, PlanTypes, VoteTypes, dayVars, Done, Race
<1>3. Ids' = Ids /\ OnAllinDay'
  BY <1>1, SameCalendar DEF dayVars
<1>4. /\ tick' \in {"idle", "building", "importing", "arming"}
      /\ planFile' # NoPlan => IsVotable(planFile') /\ RecoveryRace \in Ids
      /\ DOMAIN journals'["recovery"] # {} => planFile' # NoPlan
  <2>1. /\ tick \in {"idle", "building", "importing", "arming"}
        /\ planFile # NoPlan => IsVotable(planFile) /\ RecoveryRace \in Ids
        /\ DOMAIN journals["recovery"] # {} => planFile # NoPlan
    BY DEF WellFormed, DayTypes, RecoveryTypes
  <2>2. CASE Kill
    BY <2>1, <2>2 DEF Kill
  <2>3. CASE Prepare(ledger.turnover)
    BY <2>1, <2>3 DEF Prepare
  <2>4. CASE TickOpens
    BY <2>1, <2>4 DEF TickOpens
  <2>5. CASE \E new \in RecoveryPlans : TickWrites(new)
    <3>1. PICK new \in RecoveryPlans : TickWrites(new)
      BY <2>5
    <3>2. /\ planFile = NoPlan => new # NoPlan
          /\ planFile' = IF planFile = NoPlan THEN new ELSE planFile
          /\ tick' = "importing" /\ journals' = journals
      BY <3>1 DEF TickWrites
    <3>3. new # NoPlan => IsVotable(new) /\ RecoveryRace \in Ids
      BY RecoveryPlanParts DEF WellFormed, DayTypes
    <3>4. QED
      BY <2>1, <3>2, <3>3
  <2>6. CASE TickImports
    <3>1. planFile # NoPlan
      BY <2>6 DEF TickImports, RecoveryIsAlone
    <3>2. QED
      BY <2>1, <2>6, <3>1 DEF TickImports
  <2>7. CASE TickArms
    <3>1. planFile # NoPlan
      BY <2>1, <2>7 DEF TickArms, InState, Knows
    <3>2. QED
      BY <2>1, <2>7, <3>1 DEF TickArms
  <2>8. CASE TickEnds
    BY <2>1, <2>8 DEF TickEnds
  <2>9. QED
    BY <2>2, <2>3, <2>4, <2>5, <2>6, <2>7, <2>8 DEF RecoveryStep
<1>5. DayTypes'
  BY <1>1, <1>4 DEF WellFormed, DayTypes, dayVars
<1>6. RecoveryTypes'
  BY <1>3, <1>4 DEF RecoveryTypes
<1>7. QED
  BY <1>2, <1>5, <1>6 DEF WellFormed

\* and a step that changes nothing.
LEMMA StutterWellFormed == WellFormed /\ UNCHANGED vars => WellFormed'
<1> SUFFICES ASSUME WellFormed, UNCHANGED vars PROVE WellFormed'
  OBVIOUS
<1>1. UNCHANGED dayVars /\ UNCHANGED recoveryVars
  BY DEF vars
<1>2. DayTypes' /\ LedgerTypes' /\ PlanTypes'
  BY <1>1 DEF WellFormed, DayTypes, LedgerTypes, PlanTypes, dayVars, recoveryVars, Done, Race
<1>3. RecoveryTypes' /\ VoteTypes'
  BY <1>1, SameCalendar DEF WellFormed, RecoveryTypes, VoteTypes, dayVars, recoveryVars
<1>4. QED
  BY <1>2, <1>3 DEF WellFormed

\* Every step keeps the state well-formed.
LEMMA NextWellFormed == WellFormed /\ RecoveryIsAlone /\ [Next]_vars => WellFormed'
<1> SUFFICES ASSUME WellFormed, RecoveryIsAlone, [Next]_vars PROVE WellFormed'
  OBVIOUS
<1>1. calendar \in Calendars /\ IsLedger(ledger)
  BY LedgerParts DEF WellFormed, DayTypes
<1>2. CASE TableRace
  BY <1>1, <1>2, TableHands, HandedWellFormed
<1>3. CASE TailRace
  BY <1>1, <1>3, TailHands, HandedWellFormed
<1>4. CASE Sanrentan3Race
  BY <1>1, <1>4, Sanrentan3Hands, HandedWellFormed
<1>5. CASE AllinRace
  BY <1>1, <1>5, AllinHands, HandedWellFormed
<1>6. CASE DynamicRace
  BY <1>1, <1>6, DynamicHands, HandedWellFormed
<1>7. CASE Import
  BY <1>7, ImportWellFormed
<1>8. CASE PassRace
  BY <1>8, PassWellFormed
<1>9. CASE Vote
  BY <1>9, VoteWellFormed
<1>10. CASE RecoveryVote
  BY <1>10, RecoveryVoteWellFormed
<1>11. CASE Settle
  BY <1>11, SettleWellFormed
<1>12. CASE RecoveryStep
  BY <1>12, RecoveryStepWellFormed
<1>13. CASE UNCHANGED vars
  BY <1>13, StutterWellFormed
<1>14. QED
  BY <1>2, <1>3, <1>4, <1>5, <1>6, <1>7, <1>8, <1>9, <1>10, <1>11, <1>12, <1>13 DEF Next

\* What all that follows rests on.
Reachable == WellFormed /\ RecoveryIsAlone

\* What the invariants below are proved from.
LEMMA ReachableIsInductive ==
    /\ Init => Reachable
    /\ Reachable /\ [Next]_vars => Reachable'
BY InitWellFormed, InitAlone, NextWellFormed, NextKeepsAlone DEF Reachable

\* The contest stays well formed, whatever the markets, the rankings and the faults:
\* the caller's counters agree, and votes are of races of the calendar.
THEOREM ContestTypes == Spec => []TypeOK
<1>1. Reachable => TypeOK
  <2>1. SUFFICES ASSUME Reachable PROVE TypeOK
    OBVIOUS
  <2>2. DOMAIN votes \subseteq {calendar[i].id : i \in DOMAIN calendar}
    BY <2>1 DEF Reachable, WellFormed, VoteTypes, Ids
  <2>3. QED
    BY <2>1, <2>2 DEF Reachable, WellFormed, DayTypes, LedgerTypes, TypeOK, Done
<1>2. QED
  BY <1>1, ReachableIsInductive, PTL DEF Spec

-----------------------------------------------------------------------------
(* The floor. *)

\* Inductive: a plan that fits was made for a floor that the cap did not cut, and
\* nothing that the floor depends on has changed since.
FloorIsNoted ==
    /\ runner # "ready" /\ Race.script = "v17" /\ ~OnTailDay /\ fits
          => CurrentFloor(ledger) < PerRaceCap
    /\ FloorMakesUp

\* The floor looks only at the turnover and at the front races that are done.
LEMMA FloorDependsOn ==
    ASSUME NEW account, NEW other, other.turnover = account.turnover,
           other.front_races_done = account.front_races_done
    PROVE  CurrentFloor(other) = CurrentFloor(account)
BY DEF CurrentFloor

\* A race of the table or of the tail, and the recovery's race, are of different calendars.
LEMMA NoRecoveryBeside ==
    ASSUME calendar \in Calendars, NEW i \in DOMAIN calendar, calendar[i].script = "v17"
    PROVE  ~OnAllinDay
BY CalendarAssumption DEF OnAllinDay

\* A race is over with at least its floor, or it is not the last front race.
LEMMA OverKeepsFloor ==
    ASSUME Reachable, FloorIsNoted, runner # "ready", NEW stake \in Nat, RaceOver(stake),
           calendar' = calendar
    PROVE  FloorIsNoted'
<1>1. /\ runner' = "ready" /\ Len(front') = Len(front) + 1
      /\ \A i \in 1..Len(front) : front'[i] = front[i]
      /\ front'[Len(front) + 1] = [floor |-> Floor, spend |-> stake, fits |-> fits]
      /\ ledger'.turnover = ledger.turnover + stake
  BY RaceOverTypes DEF Reachable
<1>2. /\ IsLedger(ledger) /\ ledger.turnover \in Nat /\ ledger.front_races_done = Len(front)
      /\ Len(front) \in Nat
  BY LedgerParts DEF Reachable, WellFormed, LedgerTypes, IsLedger, Done
<1>3. FrontRaces \in Nat \ {0} /\ MinTurnover \in Nat
  BY TableAssumption
<1>4. FloorMakesUp'
  <2>1. SUFFICES ASSUME Len(front') >= FrontRaces, front'[FrontRaces].floor > 0,
                        front'[FrontRaces].fits,
                        front'[FrontRaces].spend >= front'[FrontRaces].floor
                 PROVE  ledger'.turnover >= MinTurnover
    BY DEF FloorMakesUp
  <2>2. CASE Len(front) >= FrontRaces
    <3>1. front'[FrontRaces] = front[FrontRaces]
      BY <1>1, <1>2, <1>3, <2>2
    <3>2. ledger.turnover >= MinTurnover
      BY <2>1, <2>2, <3>1 DEF FloorIsNoted, FloorMakesUp
    <3>3. QED
      BY <1>1, <1>2, <1>3, <3>2
  <2>3. CASE ~(Len(front) >= FrontRaces)
    <3>1. Len(front) + 1 = FrontRaces
      BY <1>1, <1>2, <1>3, <2>1, <2>3
    <3>2. Floor > 0 /\ fits /\ stake >= Floor
      BY <1>1, <2>1, <3>1
    <3>3. Floor = CurrentFloor(ledger) /\ Race.script = "v17" /\ ~OnTailDay
      BY <3>2 DEF Floor
    <3>4. CurrentFloor(ledger) < PerRaceCap
      BY <3>2, <3>3 DEF FloorIsNoted
    <3>5. /\ CurrentFloor(ledger) \in Nat
          /\ ledger.turnover < MinTurnover => ledger.turnover + CurrentFloor(ledger) >= MinTurnover
      <4>1. ledger.front_races_done >= FrontRaces - 1
        BY <1>2, <1>3, <3>1
      <4>2. QED
        BY <1>2, <3>4, <4>1, CurrentFloorParts
    <3>6. QED
      BY <1>1, <1>2, <1>3, <3>2, <3>3, <3>5
  <2>4. QED
    BY <2>2, <2>3
<1>5. QED
  BY <1>1, <1>4 DEF FloorIsNoted

\* A new plan changes neither the ledger nor the races that are over.
LEMMA HandedKeepsFloor ==
    ASSUME FloorIsNoted, NEW late, NEW market, NEW new, NEW aim, NEW fit,
           Handed(late, market, new, aim, fit),
           Race.script = "v17" /\ ~OnTailDay /\ fit => CurrentFloor(ledger) < PerRaceCap
    PROVE  FloorIsNoted'
<1>1. fits' = fit /\ UNCHANGED <<calendar, ledger, front>>
  BY DEF Handed, NewPlan
<1>2. Race' = Race
  BY <1>1 DEF Race, Done
<1>3. OnTailDay' = OnTailDay
  BY <1>2 DEF OnTailDay
<1>4. FloorMakesUp'
  BY <1>1 DEF FloorIsNoted, FloorMakesUp
<1>5. QED
  BY <1>1, <1>2, <1>3, <1>4 DEF FloorIsNoted

\* What leaves the races, the turnover and the plan alone.
LEMMA OthersKeepFloor ==
    ASSUME FloorIsNoted, UNCHANGED <<calendar, fits, front>>, runner' # "ready" => runner # "ready",
           ledger'.turnover = ledger.turnover,
           ledger'.front_races_done = ledger.front_races_done
    PROVE  FloorIsNoted'
<1>1. Race' = Race
  BY DEF Race, Done
<1>2. OnTailDay' = OnTailDay
  BY <1>1 DEF OnTailDay
<1>3. FloorMakesUp'
  BY DEF FloorIsNoted, FloorMakesUp
<1>4. CurrentFloor(ledger)' = CurrentFloor(ledger)
  BY FloorDependsOn
<1>5. QED
  BY <1>1, <1>2, <1>3, <1>4 DEF FloorIsNoted

\* The recovery's vote spends more, on a day without a floor.
LEMMA RecoveryKeepsFloor ==
    ASSUME Reachable, FloorIsNoted, RecoveryVote
    PROVE  FloorIsNoted'
<1>1. OnAllinDay /\ UNCHANGED <<calendar, runner, fits, front>>
  BY RecoveryVoteParts DEF Reachable, RecoveryVote
<1>2. PICK stake \in Nat : ledger' = [ledger EXCEPT !.bank = @ - stake, !.turnover = @ + stake]
  BY RecoveryVoteParts DEF Reachable
<1>3. ledger \in Ledgers /\ calendar \in Calendars
  BY DEF Reachable, WellFormed, LedgerTypes, DayTypes
<1>4. /\ ledger.turnover \in Nat /\ ledger'.turnover = ledger.turnover + stake
      /\ ledger'.front_races_done = ledger.front_races_done
  BY <1>2, <1>3 DEF Ledgers
<1>5. Race' = Race /\ Done' = Done
  BY <1>1, <1>4 DEF Race, Done
<1>6. FloorMakesUp'
  <2>1. FrontRaces \in Nat \ {0} /\ MinTurnover \in Nat
    BY TableAssumption
  <2>2. FloorMakesUp
    BY DEF FloorIsNoted
  <2>3. QED
    BY <1>1, <1>4, <2>1, <2>2 DEF FloorMakesUp
<1>7. runner # "ready" => Race.script # "v17"
  <2>1. SUFFICES ASSUME runner # "ready", Race.script = "v17" PROVE FALSE
    OBVIOUS
  <2>2. Done \in Nat /\ Done < Len(calendar)
    BY <1>3, <2>1 DEF Reachable, WellFormed, PlanTypes, Done, Ledgers
  <2>3. Done + 1 \in DOMAIN calendar
    BY <1>3, <2>2, RaceParts
  <2>4. QED
    BY <1>1, <1>3, <2>1, <2>3, NoRecoveryBeside DEF Race
<1>8. QED
  BY <1>1, <1>5, <1>6, <1>7 DEF FloorIsNoted

\* Every step keeps the note of the floors.
LEMMA NextKeepsFloor == Reachable /\ FloorIsNoted /\ [Next]_vars => FloorIsNoted'
<1> SUFFICES ASSUME Reachable, FloorIsNoted, [Next]_vars PROVE FloorIsNoted'
  OBVIOUS
<1>1. calendar \in Calendars /\ IsLedger(ledger) /\ ledger \in Ledgers
  BY LedgerParts DEF Reachable, WellFormed, DayTypes, LedgerTypes
<1>2. CASE TableRace
  BY <1>1, <1>2, TableHands, HandedKeepsFloor
<1>3. CASE TailRace
  BY <1>1, <1>3, TailHands, HandedKeepsFloor
<1>4. CASE Sanrentan3Race
  BY <1>1, <1>4, Sanrentan3Hands, HandedKeepsFloor
<1>5. CASE AllinRace
  BY <1>1, <1>5, AllinHands, HandedKeepsFloor
<1>6. CASE DynamicRace
  BY <1>1, <1>6, DynamicHands, HandedKeepsFloor
<1>7. CASE Import
  BY <1>7, OthersKeepFloor DEF Import
<1>8. CASE PassRace
  <2>1. runner # "ready" /\ RaceOver(0) /\ calendar' = calendar /\ 0 \in Nat
    BY <1>8 DEF PassRace
  <2>2. QED
    BY <2>1, OverKeepsFloor
<1>9. CASE Vote
  <2>1. PICK state \in Outcomes :
           RaceOver(IF state = "CONFIRMED" THEN PayloadStake(plan) ELSE 0)
    BY <1>9 DEF Vote
  <2>2. runner = "imported" /\ calendar' = calendar
    BY <1>9 DEF Vote
  <2>3. IsPlan(plan)
    BY <2>2 DEF Reachable, WellFormed, PlanTypes, IsVotable
  <2>4. (IF state = "CONFIRMED" THEN PayloadStake(plan) ELSE 0) \in Nat
    BY <2>3, PlanCosts
  <2>5. QED
    BY <2>1, <2>2, <2>4, OverKeepsFloor
<1>10. CASE RecoveryVote
  BY <1>10, RecoveryKeepsFloor
<1>11. CASE Settle
  <2>1. UNCHANGED <<calendar, runner, fits, front>>
    BY <1>11 DEF Settle
  <2>2. \E paid \in Nat : ledger' \in {[ledger EXCEPT !.bank = @ + paid], ledger}
    BY <1>11, SettleParts DEF Reachable, Settles
  <2>3. ledger'.turnover = ledger.turnover /\ ledger'.front_races_done = ledger.front_races_done
    BY <1>1, <2>2 DEF Ledgers
  <2>4. QED
    BY <2>1, <2>3, OthersKeepFloor
<1>12. CASE RecoveryStep
  BY <1>12, OthersKeepFloor DEF RecoveryStep, dayVars
<1>13. CASE UNCHANGED vars
  BY <1>13, OthersKeepFloor DEF vars, dayVars
<1>14. QED
  BY <1>2, <1>3, <1>4, <1>5, <1>6, <1>7, <1>8, <1>9, <1>10, <1>11, <1>12, <1>13 DEF Next

\* "A race that gets skipped is made up by the ones after it" (build_vote_plan.py): the
\* last front race, bet at a floor that the cap did not cut, completes the minimum
\* turnover, for every table, schedule and series of passed races.
THEOREM FloorIsMadeUp == Spec => []FloorMakesUp
<1>1. Init => FloorIsNoted
  <2>1. SUFFICES ASSUME Init PROVE FloorIsNoted
    OBVIOUS
  <2>2. runner = "ready" /\ front = <<>> /\ FrontRaces \in Nat \ {0}
    BY <2>1, TableAssumption DEF Init
  <2>3. ~(Len(front) >= FrontRaces)
    BY <2>2
  <2>4. QED
    BY <2>2, <2>3 DEF FloorIsNoted, FloorMakesUp
<1>2. FloorIsNoted => FloorMakesUp
  BY DEF FloorIsNoted
<1>3. QED
  BY <1>1, <1>2, NextKeepsFloor, ReachableIsInductive, PTL DEF Spec

-----------------------------------------------------------------------------
(* The daemon's checks. *)

\* A list with as many members as places has none twice.
LEMMA AllDiffer ==
    ASSUME NEW S, NEW list \in Seq(S), ~(Cardinality(Range(list)) < Len(list))
    PROVE  \A i, j \in DOMAIN list : list[i] = list[j] => i = j
<1> DEFINE n == Len(list)
           T == Range(list)
<1>1. n \in Nat /\ DOMAIN list = 1..n
  BY SeqParts
<1>2. list \in Surjection(1..n, T)
  <2>1. \A i \in 1..n : list[i] \in T
    BY <1>1 DEF Range
  <2>2. list = [i \in 1..n |-> list[i]]
    BY <1>1, SeqParts
  <2>3. \A x \in T : \E i \in 1..n : list[i] = x
    BY <1>1 DEF Range
  <2> HIDE DEF n, T
  <2>4. QED
    BY <2>1, <2>2, <2>3 DEF Surjection
<1>3. IsFiniteSet(1..n) /\ Cardinality(1..n) = n
  <2> HIDE DEF n
  <2>1. 1 \in Int /\ n \in Int
    BY <1>1
  <2>2. IsFiniteSet(1..n) /\ Cardinality(1..n) = IF 1 > n THEN 0 ELSE n - 1 + 1
    BY <2>1, FS_Interval
  <2>3. QED
    BY <1>1, <2>2
<1>4. ~(Cardinality(T) < n)
  OBVIOUS
<1> HIDE DEF n, T
<1>5. /\ IsFiniteSet(T) /\ Cardinality(T) <= n
      /\ Cardinality(T) = n => list \in Injection(1..n, T)
  BY <1>2, <1>3, FS_Surjection
<1>6. Cardinality(T) \in Nat
  BY <1>5, FS_CardinalityType
<1>7. Cardinality(T) = n
  BY <1>1, <1>4, <1>5, <1>6
<1>8. QED
  BY <1>1, <1>5, <1>7 DEF Injection, IsInjective

\* A combination that the pool does not have.
IsMalformed(pool, horses) ==
    \/ Len(horses) # PoolNumbers[pool]
    \/ IF pool = "wakuren" THEN ~(Range(horses) \subseteq 1..8)
       ELSE Different(horses) < Len(horses)

\* Every other one the daemon takes, if it is in the pool's order.
LEMMA BetIsValid ==
    ASSUME NEW pool \in Pools, NEW bet \in Seq(Horses), ~IsMalformed(pool, bet),
           pool \notin {"umatan", "sanrentan"} => Ascending(bet)
    PROVE  ValidBetID(pool, bet)
<1>1. DOMAIN bet = 1..Len(bet) /\ Len(bet) \in Nat /\ \A i \in DOMAIN bet : bet[i] \in Horses
  BY SeqParts
<1>2. Len(bet) = PoolNumbers[pool]
  BY DEF IsMalformed
<1>3. \A i, j \in DOMAIN bet :
         i < j /\ pool \in {"wakuren", "umaren", "wide", "sanrenpuku"} => bet[i] <= bet[j]
  BY DEF Ascending
<1>4. CASE pool = "wakuren"
  <2>1. \A i \in DOMAIN bet : bet[i] \in 1..8
    BY <1>4 DEF IsMalformed, Range
  <2>2. QED
    BY <1>2, <1>3, <1>4, <2>1 DEF ValidBetID
<1>5. CASE pool # "wakuren"
  <2>1. ~(Cardinality(Range(bet)) < Len(bet))
    BY <1>5 DEF IsMalformed, Different
  <2>2. \A i, j \in DOMAIN bet : bet[i] = bet[j] => i = j
    BY <2>1, AllDiffer
  <2>3. \A i, j \in DOMAIN bet : i < j => bet[i] # bet[j]
    BY <1>1, <2>2
  <2>4. QED
    BY <1>1, <1>2, <1>3, <1>5, <2>3 DEF ValidBetID
<1>6. QED
  BY <1>4, <1>5

\* So it takes the combinations of a plan whose pool's rows are well formed, and those
\* of an all-in plan.
LEMMA BetsAreValid ==
    ASSUME NEW p, IsPlan(p), NEW market, IsMarket(market), p.pool \in DOMAIN market.rows,
           \/ OfTriples(p)
           \/ /\ OfRows(p, market)
              /\ \A q \in Range(RowsOf(p, market)) : ~IsMalformed(p.pool, q.horses)
    PROVE  p.pool \in AllowedPools /\ \A i \in DOMAIN p.bets : ValidBetID(p.pool, p.bets[i].bet)
<1>1. p.pool \in Pools
  BY DEF IsMarket
<1>2. AllowedPools = Pools
  BY LimitsAssumption, ContractAssumption
<1>3. \A i \in DOMAIN p.bets : p.bets[i].bet \in Seq(Horses)
  <2>1. \A i \in DOMAIN p.bets : p.bets[i] \in Bet
    BY SeqParts DEF IsPlan
  <2>2. QED
    BY <2>1 DEF Bet
<1>4. ASSUME NEW i \in DOMAIN p.bets PROVE ValidBetID(p.pool, p.bets[i].bet)
  <2> DEFINE bet == p.bets[i].bet
  <2>1. CASE OfTriples(p)
    <3>1. p.pool = "sanrentan" /\ Len(bet) = 3 /\ Different(bet) = 3
      BY <2>1 DEF OfTriples
    <3>2. ~IsMalformed(p.pool, bet)
      BY <3>1 DEF IsMalformed, PoolNumbers
    <3>3. QED
      BY <1>1, <1>3, <3>1, <3>2, BetIsValid
  <2>2. CASE /\ OfRows(p, market)
             /\ \A q \in Range(RowsOf(p, market)) : ~IsMalformed(p.pool, q.horses)
    <3> DEFINE listed == market.rows[p.pool]
               rows == LoadSurface(listed)
    <3>1. PICK q \in Range(rows) : bet = q.horses
      BY <2>2 DEF OfRows, RowsOf
    <3>2. ~IsMalformed(p.pool, bet)
      BY <2>2, <3>1 DEF RowsOf
    <3>3. listed \in Seq(Quoted)
      BY DEF IsMarket
    <3>4. PICK keep : \E order : /\ keep \in SUBSET (DOMAIN listed)
                                 /\ Selects(rows, listed, keep, order)
      BY <3>3, LoadParts
    <3>5. PICK order : keep \in SUBSET (DOMAIN listed) /\ Selects(rows, listed, keep, order)
      BY <3>4
    <3>6. PICK k \in DOMAIN rows : q = rows[k]
      BY <3>1 DEF Range
    <3>7. \E n \in DOMAIN listed : q = listed[n]
      BY <3>5, <3>6 DEF Selects
    <3>8. p.pool \notin {"umatan", "sanrentan"} => Ascending(bet)
      BY <3>1, <3>7 DEF IsMarket
    <3> HIDE DEF rows, listed
    <3>9. QED
      BY <1>1, <1>3, <3>2, <3>8, BetIsValid
  <2>3. QED
    BY <2>1, <2>2
<1>5. QED
  BY <1>1, <1>2, <1>4

\* Between three places of a win market without a horse twice, each has one horse.
LEMMA MarksParts ==
    ASSUME NEW win \in Seq(Horses), win # <<>>, ~(Cardinality(Range(win)) < Len(win)),
           NEW p, p.mark = MarksFromMarket(win)
    PROVE  ValidMark(p)
<1> DEFINE n == Len(win)
           k == Lesser(4, n)
           top == SubSeq(win, 1, k)
<1>1. n \in Nat /\ DOMAIN win = 1..n /\ n # 0 /\ \A i \in 1..n : win[i] \in Horses
  BY SeqParts
<1>2. k \in 1..4 /\ k <= n
  BY <1>1 DEF Lesser
<1>3. \A i, j \in 1..n : win[i] = win[j] => i = j
  BY <1>1, AllDiffer
<1> HIDE DEF n
<1>4. top = [i \in 1..k |-> win[i]]
  <2> HIDE DEF k
  <2>1. QED
    BY <1>1, <1>2
<1> HIDE DEF k
<1>5. DOMAIN top = 1..k /\ \A i \in 1..k : top[i] = win[i] /\ win[i] \in Horses /\ i \in 1..n
  BY <1>1, <1>2, <1>4
<1> HIDE DEF top
<1>6. ASSUME NEW i \in 1..k PROVE RankOf(top, top[i], 4) = i
  <2>1. {j \in DOMAIN top : top[j] = top[i]} = {i}
    BY <1>3, <1>5
  <2>2. IsFiniteSet({i}) /\ {i} # {} /\ {i} \subseteq Int
    <3>1. i \in Int
      BY <1>2
    <3>2. IsFiniteSet({i})
      BY FS_Singleton
    <3>3. QED
      BY <3>1, <3>2
  <2>3. Max({i}) \in {i}
    BY <2>2, GreatestOf
  <2>4. QED
    BY <1>5, <2>1, <2>3 DEF RankOf, Range
<1>7. /\ DOMAIN p.mark = Range(top)
      /\ \A horse \in Range(top) : p.mark[horse] = RankOf(top, horse, 4)
  BY DEF MarksFromMarket, top, k, n
<1>8. \A horse \in Range(top) : \E i \in 1..k : horse = top[i]
  BY <1>5 DEF Range
<1>9. \A i \in 1..k : top[i] \in Range(top) /\ p.mark[top[i]] = i
  BY <1>5, <1>6, <1>7 DEF Range
<1>10. DOMAIN p.mark \subseteq Horses /\ \A horse \in DOMAIN p.mark : p.mark[horse] \in 1..4
  <2>1. \A i \in 1..k : top[i] \in Horses /\ i \in 1..4
    <3>1. \A i \in 1..k : i \in 1..4
      BY <1>2
    <3>2. \A i \in 1..k : top[i] \in Horses
      BY <1>5
    <3>3. QED
      BY <3>1, <3>2
  <2>2. \A horse \in DOMAIN p.mark : horse \in Horses /\ p.mark[horse] \in 1..4
    BY <1>7, <1>8, <1>9, <2>1
  <2>3. QED
    BY <2>2
<1>11. DOMAIN p.mark # {} /\ Marked(p, 1) # {}
  <2>1. 1 \in 1..k
    BY <1>2
  <2>2. top[1] \in DOMAIN p.mark /\ p.mark[top[1]] = 1
    BY <1>7, <1>9, <2>1
  <2>3. QED
    BY <2>2 DEF Marked
<1>12. \A code \in 1..3 : AtMostOne(Marked(p, code))
  BY <1>7, <1>8, <1>9 DEF Marked, AtMostOne
<1>13. QED
  BY <1>10, <1>11, <1>12 DEF ValidMark

\* A sound plan passes the daemon's checks, but for the limits and the market's repeats.
LEMMA SoundParts ==
    ASSUME NEW p, NEW race, race.post \in Nat, NEW market, IsMarket(market), NEW now \in Int,
           NEW floor, Sound(p, race, market, now, floor)
    PROVE  /\ ValidTimes(p)
           /\ ValidMark(p) \/ Cardinality(Range(market.win)) < Len(market.win)
           /\ \/ ValidBets(p)
              \/ /\ race.script \in {"v17", "sanrentan3"}
                 /\ RowsOf(p, market) # Distinct(RowsOf(p, market))
              \/ /\ race.script # "allin"
                 /\ \E q \in Range(RowsOf(p, market)) : IsMalformed(p.pool, q.horses)
           /\ \/ WithinRaceLimits(p)
              \/ /\ race.script = "v17" /\ Len(p.bets) > MaxBetsPerRace
                 /\ (Len(p.bets) - 1) * p.bets[1].money < floor
              \/ race.script = "dynamic" /\ PayloadStake(p) > MaxStakePerRace
<1>1. /\ p = Envelope(race, market, now, p.pool, p.bets) /\ IsPlan(p) /\ market.win # <<>>
      /\ now < Deadline(race) /\ WholeTickets(p)
  BY DEF Sound, Written
<1>2. /\ p.race_date = DateOf(race.post) /\ p.created = now /\ p.post = race.post
      /\ p.target = Target(race) /\ p.deadline = Deadline(race)
      /\ p.mark = MarksFromMarket(market.win)
  BY <1>1, EnvelopeParts
<1>3. ValidTimes(p)
  <2>1. /\ {TargetOffset, CutoffOffset} \subseteq Nat \ {0} /\ CutoffOffset < TargetOffset
    BY ContractAssumption
  <2>2. QED
    BY <1>1, <1>2, <2>1 DEF ValidTimes, Target, Deadline
<1>4. ValidMark(p) \/ Cardinality(Range(market.win)) < Len(market.win)
  <2>1. market.win \in Seq(Horses)
    BY DEF IsMarket
  <2>2. QED
    BY <1>1, <1>2, <2>1, MarksParts
<1>5. \/ \A i, j \in DOMAIN p.bets : p.bets[i].bet = p.bets[j].bet => i = j
      \/ /\ race.script \in {"v17", "sanrentan3"}
         /\ RowsOf(p, market) # Distinct(RowsOf(p, market))
  BY DEF Sound
<1>6. \/ p.pool \in AllowedPools /\ \A i \in DOMAIN p.bets : ValidBetID(p.pool, p.bets[i].bet)
      \/ /\ race.script # "allin"
         /\ \E q \in Range(RowsOf(p, market)) : IsMalformed(p.pool, q.horses)
  <2>1. /\ p.pool \in DOMAIN market.rows
        /\ IF race.script = "allin" THEN OfTriples(p) ELSE OfRows(p, market)
    BY DEF Sound
  <2>2. QED
    BY <1>1, <2>1, BetsAreValid
<1>7. Len(p.bets) \in Nat /\ PayloadStake(p) \in Nat
  BY <1>1, PlanCosts
<1>8. MaxBetsPerRace \in Nat /\ MaxStakePerRace \in Nat
  BY ContractAssumption
<1>9. /\ race.script = "dynamic" \/ PayloadStake(p) <= MaxStakePerRace
      /\ \/ Len(p.bets) <= MaxBetsPerRace
         \/ race.script = "v17" /\ (Len(p.bets) - 1) * p.bets[1].money < floor
  BY DEF Sound
<1>10. \/ WithinRaceLimits(p)
       \/ /\ race.script = "v17" /\ Len(p.bets) > MaxBetsPerRace
          /\ (Len(p.bets) - 1) * p.bets[1].money < floor
       \/ race.script = "dynamic" /\ PayloadStake(p) > MaxStakePerRace
  BY <1>7, <1>8, <1>9 DEF WithinRaceLimits
<1>11. p.bets # <<>> /\ \A i \in DOMAIN p.bets :
          p.bets[i].money > 0 /\ p.bets[i].money % StakeUnit = 0
  BY <1>1 DEF IsPlan, WholeTickets, WholeUnits
<1>12. \/ ValidBets(p)
       \/ /\ race.script \in {"v17", "sanrentan3"}
          /\ RowsOf(p, market) # Distinct(RowsOf(p, market))
       \/ /\ race.script # "allin"
          /\ \E q \in Range(RowsOf(p, market)) : IsMalformed(p.pool, q.horses)
  BY <1>5, <1>6, <1>11 DEF ValidBets
<1>13. QED
  BY <1>3, <1>4, <1>10, <1>12

-----------------------------------------------------------------------------
(* The script's plan. *)

\* Inductive: the plan that waits for its vote is the one the script wrote for the next
\* race, for the ledger as it still is.
PlanIsSound ==
    runner # "ready" /\ plan # NoPlan =>
        \E now \in Int : Sound(plan, Race, snapshot, now, AskedFloor)

\* Only the table's and the tail's races are asked for a floor.
LEMMA SoundElsewhere ==
    ASSUME NEW p, NEW race, NEW market, NEW now, NEW floor, NEW other,
           Sound(p, race, market, now, floor), race.script # "v17" \/ other = floor
    PROVE  Sound(p, race, market, now, other)
BY DEF Sound

\* The floor that a plan was asked to meet stays while the account does.
LEMMA AskedFloorDepends ==
    ASSUME calendar' = calendar, ledger'.turnover = ledger.turnover,
           ledger'.races_bet = ledger.races_bet,
           ledger'.front_races_done = ledger.front_races_done
    PROVE  Race' = Race /\ AskedFloor' = AskedFloor
<1>1. Race' = Race
  BY DEF Race, Done
<1>2. OnTailDay' = OnTailDay
  BY <1>1 DEF OnTailDay
<1>3. CurrentFloor(ledger)' = CurrentFloor(ledger)
  BY FloorDependsOn
<1>4. QualificationFloor(ledger)' = QualificationFloor(ledger)
  BY DEF QualificationFloor, TurnoverNeed, CountNeed
<1>5. QED
  BY <1>1, <1>2, <1>3, <1>4 DEF AskedFloor

\* What leaves the plan, the race and the caller's counters alone.
LEMMA OthersKeepPlan ==
    ASSUME PlanIsSound, UNCHANGED <<calendar, plan, snapshot>>, runner' # "ready" => runner # "ready",
           ledger'.turnover = ledger.turnover, ledger'.races_bet = ledger.races_bet,
           ledger'.front_races_done = ledger.front_races_done
    PROVE  PlanIsSound'
<1>1. Race' = Race /\ AskedFloor' = AskedFloor
  BY AskedFloorDepends
<1>2. QED
  BY <1>1 DEF PlanIsSound

\* A handed plan is sound.
LEMMA HandedKeepsPlan ==
    ASSUME Reachable, NEW script, Scripted(script), NEW late, NEW market, NEW new, NEW aim, NEW fit,
           Handed(late, market, new, aim, fit)
    PROVE  PlanIsSound'
<1>1. /\ snapshot' = market /\ plan' = new /\ UNCHANGED <<calendar, ledger>>
      /\ late \in BOOLEAN
      /\ new # NoPlan => Sound(new, Race, market, Instant(late), AskedFloor)
  BY DEF Handed, NewPlan
<1>2. Race' = Race /\ AskedFloor' = AskedFloor
  BY <1>1, AskedFloorDepends
<1>3. Instant(late) \in Int
  <2>1. Done \in Nat /\ Done < Len(calendar) /\ calendar \in Calendars
    BY LedgerParts DEF Reachable, WellFormed, DayTypes, Scripted, IsLedger, Done
  <2>2. QED
    BY <1>1, <2>1, RaceParts
<1>4. QED
  BY <1>1, <1>2, <1>3 DEF PlanIsSound

\* The recovery's vote, while the day's script has a plan without a floor.
LEMMA RecoveryKeepsPlan ==
    ASSUME Reachable, PlanIsSound, RecoveryVote
    PROVE  PlanIsSound'
<1>1. SUFFICES ASSUME runner' # "ready", plan' # NoPlan
               PROVE  \E now \in Int : Sound(plan', Race', snapshot', now, AskedFloor')
  BY DEF PlanIsSound
<1>2. OnAllinDay /\ UNCHANGED <<calendar, runner, plan, snapshot>>
  BY RecoveryVoteParts DEF Reachable, RecoveryVote
<1>3. PICK stake \in Nat : ledger' = [ledger EXCEPT !.bank = @ - stake, !.turnover = @ + stake]
  BY RecoveryVoteParts DEF Reachable
<1>4. ledger \in Ledgers /\ calendar \in Calendars
  BY DEF Reachable, WellFormed, LedgerTypes, DayTypes
<1>5. Race' = Race
  BY <1>2, <1>3, <1>4 DEF Ledgers, Race, Done
<1>6. Race.script # "v17"
  <2>1. SUFFICES ASSUME Race.script = "v17" PROVE FALSE
    OBVIOUS
  <2>2. Done \in Nat /\ Done < Len(calendar)
    BY <1>1, <1>2, <1>4 DEF Reachable, WellFormed, PlanTypes, Done, Ledgers
  <2>3. Done + 1 \in DOMAIN calendar
    BY <1>4, <2>2, RaceParts
  <2>4. QED
    BY <1>2, <1>4, <2>1, <2>3, NoRecoveryBeside DEF Race
<1>7. PICK now \in Int : Sound(plan, Race, snapshot, now, AskedFloor)
  BY <1>1, <1>2 DEF PlanIsSound
<1>8. Sound(plan, Race, snapshot, now, AskedFloor')
  BY <1>6, <1>7, SoundElsewhere
<1>9. QED
  BY <1>2, <1>5, <1>8

\* Every step keeps the plan at hand sound.
LEMMA NextKeepsPlan == Reachable /\ PlanIsSound /\ [Next]_vars => PlanIsSound'
<1> SUFFICES ASSUME Reachable, PlanIsSound, [Next]_vars PROVE PlanIsSound'
  OBVIOUS
<1>1. calendar \in Calendars /\ IsLedger(ledger) /\ ledger \in Ledgers
  BY LedgerParts DEF Reachable, WellFormed, DayTypes, LedgerTypes
<1>2. CASE TableRace
  BY <1>1, <1>2, TableHands, HandedKeepsPlan
<1>3. CASE TailRace
  BY <1>1, <1>3, TailHands, HandedKeepsPlan
<1>4. CASE Sanrentan3Race
  BY <1>1, <1>4, Sanrentan3Hands, HandedKeepsPlan
<1>5. CASE AllinRace
  BY <1>1, <1>5, AllinHands, HandedKeepsPlan
<1>6. CASE DynamicRace
  BY <1>1, <1>6, DynamicHands, HandedKeepsPlan
<1>7. CASE Import
  BY <1>7, OthersKeepPlan DEF Import
<1>8. CASE PassRace
  <2>1. runner' = "ready"
    BY <1>8 DEF PassRace, RaceOver
  <2>2. QED
    BY <2>1 DEF PlanIsSound
<1>9. CASE Vote
  <2>1. runner' = "ready"
    BY <1>9 DEF Vote, RaceOver
  <2>2. QED
    BY <2>1 DEF PlanIsSound
<1>10. CASE RecoveryVote
  BY <1>10, RecoveryKeepsPlan
<1>11. CASE Settle
  <2>1. UNCHANGED <<calendar, runner, plan, snapshot>>
    BY <1>11 DEF Settle
  <2>2. \E paid \in Nat : ledger' \in {[ledger EXCEPT !.bank = @ + paid], ledger}
    BY <1>11, SettleParts DEF Reachable, Settles
  <2>3. /\ ledger'.turnover = ledger.turnover /\ ledger'.races_bet = ledger.races_bet
        /\ ledger'.front_races_done = ledger.front_races_done
    BY <1>1, <2>2 DEF Ledgers
  <2>4. QED
    BY <2>1, <2>3, OthersKeepPlan
<1>12. CASE RecoveryStep
  BY <1>12, OthersKeepPlan DEF RecoveryStep, dayVars
<1>13. CASE UNCHANGED vars
  BY <1>13, OthersKeepPlan DEF vars, dayVars
<1>14. QED
  BY <1>2, <1>3, <1>4, <1>5, <1>6, <1>7, <1>8, <1>9, <1>10, <1>11, <1>12, <1>13 DEF Next

\* A sound plan is admitted, or refused for a reason that BuiltIsAdmitted names.
LEMMA SoundIsAdmitted ==
    ASSUME Reachable, PlanIsSound
    PROVE  BuiltIsAdmitted
<1>1. SUFFICES ASSUME runner = "built", plan # NoPlan
               PROVE  /\ \/ Admitted(plan) \/ OverLimits \/ RepeatsHorse
                         \/ RepeatsRow /\ Race.script \in {"v17", "sanrentan3"}
                         \/ MalformedRow /\ Race.script # "allin"
                      /\ Race.script = "allin" =>
                            PayloadStake(plan) = ExpectedStake(ProposedClass(Quality(Scored(snapshot))))
  BY DEF BuiltIsAdmitted
<1>2. PICK now \in Int : Sound(plan, Race, snapshot, now, AskedFloor)
  BY <1>1 DEF PlanIsSound
<1>3. Race.post \in Nat
  <2>1. Done \in Nat /\ Done < Len(calendar) /\ calendar \in Calendars
    BY <1>1, LedgerParts DEF Reachable, WellFormed, DayTypes, PlanTypes, IsLedger, Done
  <2>2. QED
    BY <2>1, RaceParts
<1>4. IsMarket(snapshot)
  <2>1. snapshot.win # <<>>
    BY <1>2 DEF Sound, Written
  <2>2. snapshot \in Snapshots
    BY <2>1 DEF Reachable, WellFormed, DayTypes, NoSnapshot
  <2>3. QED
    BY <2>2, CaptureAssumption
<1>5. /\ ValidTimes(plan) /\ (ValidMark(plan) \/ RepeatsHorse)
      /\ \/ ValidBets(plan)
         \/ RepeatsRow /\ Race.script \in {"v17", "sanrentan3"}
         \/ MalformedRow /\ Race.script # "allin"
      /\ \/ WithinRaceLimits(plan)
         \/ /\ Race.script = "v17" /\ Len(plan.bets) > MaxBetsPerRace
            /\ (Len(plan.bets) - 1) * plan.bets[1].money < AskedFloor
         \/ Race.script = "dynamic" /\ PayloadStake(plan) > MaxStakePerRace
  <2>1. RowsOf(plan, snapshot) = PoolRows
    BY DEF RowsOf, PoolRows
  <2>2. (\E q \in Range(PoolRows) : IsMalformed(plan.pool, q.horses)) => MalformedRow
    BY DEF IsMalformed, MalformedRow
  <2>3. QED
    BY <1>2, <1>3, <1>4, <2>1, <2>2, SoundParts DEF RepeatsHorse, RepeatsRow
<1>6. WithinRaceLimits(plan) \/ OverLimits
  BY <1>5 DEF OverLimits, AskedFloor
<1>7. \/ Admitted(plan) \/ OverLimits \/ RepeatsHorse
      \/ RepeatsRow /\ Race.script \in {"v17", "sanrentan3"}
      \/ MalformedRow /\ Race.script # "allin"
  BY <1>5, <1>6 DEF Admitted
<1>8. QED
  BY <1>2, <1>7 DEF Sound

\* "The daemon computes these from the policy and rejects anything else"
\* (build_vote_plan.py): what any script writes for any market the daemon admits, but
\* for the named limits and flaws of the market, and the all-in plan costs what its
\* class says.
THEOREM BuiltAdmitted == Spec => []BuiltIsAdmitted
<1>1. Init => PlanIsSound
  BY DEF Init, PlanIsSound
<1>2. Reachable /\ PlanIsSound => BuiltIsAdmitted
  BY SoundIsAdmitted
<1>3. QED
  BY <1>1, <1>2, NextKeepsPlan, ReachableIsInductive, PTL DEF Spec

-----------------------------------------------------------------------------
(* What one hit is good for. *)

\* What qualification still asks for, in turnover or in races.
Owed(account) == Greater(TurnoverNeed(account), TailPolicy.future * CountNeed(account))

\* A hit of this ticket covers the goal and what is owed after the race.
Covers(account, money, aim) ==
    account.bank + money * (TailPolicy.odds - 1)
        - Greater(TurnoverNeed(account) - money,
                  TailPolicy.future * Greater(0, CountNeed(account) - 1)) >= aim

\* A lost race with this stake takes no more from the bank than from what is owed.
Leaves(account, stake) ==
    CountNeed(account) > 1 =>
        stake + TailPolicy.future * (CountNeed(account) - 1) <= Owed(account)

\* What the account owes is a natural number.
LEMMA OwedParts ==
    ASSUME NEW account, IsLedger(account)
    PROVE  /\ TurnoverNeed(account) \in Nat /\ CountNeed(account) \in Nat /\ account.bank \in Int
           /\ TailPolicy.future = StakeUnit /\ StakeUnit \in Nat \ {0}
           /\ StakeUnit * CountNeed(account) \in Nat
           /\ Owed(account) = Greater(TurnoverNeed(account), StakeUnit * CountNeed(account))
           /\ Owed(account) \in Nat
<1>1. TurnoverNeed(account) \in Nat /\ CountNeed(account) \in Nat /\ account.bank \in Int
  BY NeedsParts DEF IsLedger
<1>2. TailPolicy.future = StakeUnit /\ StakeUnit \in Nat \ {0}
  BY TailAssumption, ContractAssumption
<1>3. StakeUnit * CountNeed(account) \in Nat
  BY <1>1, <1>2
<1>4. Owed(account) = Greater(TurnoverNeed(account), StakeUnit * CountNeed(account))
  BY <1>2 DEF Owed
<1>5. QED
  BY <1>1, <1>2, <1>3, <1>4 DEF Greater

\* The ledger after a race with this stake.
Spent(account, other, stake) ==
    /\ other.bank = account.bank - stake /\ other.turnover = account.turnover + stake
    /\ other.races_bet = IF stake > 0 THEN account.races_bet + 1 ELSE account.races_bet

\* What the account lacks after a race.
LEMMA NeedsAfter ==
    ASSUME NEW account, IsLedger(account), NEW other, NEW stake \in Nat,
           Spent(account, other, stake)
    PROVE  /\ TurnoverNeed(other) = Greater(0, TurnoverNeed(account) - stake)
           /\ CountNeed(other) = IF stake > 0 THEN Greater(0, CountNeed(account) - 1)
                                 ELSE CountNeed(account)
<1>1. TailPolicy.turnover \in Nat /\ TailPolicy.races \in Nat
  BY TailAssumption
<1>2. account.turnover \in Nat /\ account.races_bet \in Nat
  BY DEF IsLedger
<1>3. QED
  BY <1>1, <1>2 DEF Spent, TurnoverNeed, CountNeed, Greater

\* A confirmed ticket that covers the goal: once it is a hit, the goal is reached.
LEMMA CoversAfter ==
    ASSUME NEW account, IsLedger(account), NEW other, IsLedger(other), NEW money \in Nat \ {0},
           NEW aim \in Nat, Spent(account, other, money), Covers(account, money, aim)
    PROVE  other.bank + money * TailPolicy.odds - Owed(other) >= aim
<1>1. /\ TurnoverNeed(account) \in Nat /\ CountNeed(account) \in Nat /\ account.bank \in Int
      /\ TailPolicy.future = StakeUnit /\ StakeUnit \in Nat \ {0}
  BY OwedParts
<1>2. Owed(other) = Greater(TurnoverNeed(other), StakeUnit * CountNeed(other))
  BY OwedParts
<1> DEFINE kept == StakeUnit * Greater(0, CountNeed(account) - 1)
<1>3. kept \in Nat
  <2>1. Greater(0, CountNeed(account) - 1) \in Nat
    BY <1>1 DEF Greater
  <2>2. QED
    BY <1>1, <2>1
<1>4. /\ TurnoverNeed(other) = Greater(0, TurnoverNeed(account) - money)
      /\ StakeUnit * CountNeed(other) = kept
  BY NeedsAfter
<1>5. account.bank + money * (TailPolicy.odds - 1) - Greater(TurnoverNeed(account) - money, kept)
        >= aim
  BY <1>1 DEF Covers
<1> HIDE DEF kept
<1>6. TailPolicy.odds \in Nat
  BY TailAssumption
<1>7. money * (TailPolicy.odds - 1) = money * TailPolicy.odds - money
      /\ money * TailPolicy.odds \in Nat
  BY <1>6
<1>8. Owed(other) = Greater(TurnoverNeed(account) - money, kept)
  BY <1>1, <1>2, <1>3, <1>4 DEF Greater
<1>9. Greater(TurnoverNeed(account) - money, kept) \in Int
  BY <1>1, <1>3 DEF Greater
<1>10. other.bank = account.bank - money
  BY DEF Spent
<1>11. QED
  BY <1>1, <1>5, <1>7, <1>8, <1>9, <1>10

\* What was covered for all lost races is covered for those after this one.
LEMMA LeavesAfter ==
    ASSUME NEW account, IsLedger(account), NEW other, IsLedger(other), NEW stake \in Nat,
           NEW aim \in Nat, Spent(account, other, stake),
           stake > 0 => Leaves(account, stake),
           CountNeed(account) > 0 => account.bank - Owed(account) >= aim,
           CountNeed(other) > 0
    PROVE  other.bank - Owed(other) >= aim
<1>1. /\ TurnoverNeed(account) \in Nat /\ CountNeed(account) \in Nat /\ account.bank \in Int
      /\ TailPolicy.future = StakeUnit /\ StakeUnit \in Nat \ {0}
      /\ Owed(account) = Greater(TurnoverNeed(account), StakeUnit * CountNeed(account))
      /\ StakeUnit * CountNeed(account) \in Nat
  BY OwedParts
<1>2. /\ Owed(other) = Greater(TurnoverNeed(other), StakeUnit * CountNeed(other))
      /\ StakeUnit * CountNeed(other) \in Nat
  BY OwedParts
<1>3. /\ TurnoverNeed(other) = Greater(0, TurnoverNeed(account) - stake)
      /\ CountNeed(other) = IF stake > 0 THEN Greater(0, CountNeed(account) - 1)
                            ELSE CountNeed(account)
  BY NeedsAfter
<1>4. other.bank = account.bank - stake
  BY DEF Spent
<1>5. CASE stake = 0
  <2>1. TurnoverNeed(other) = TurnoverNeed(account) /\ CountNeed(other) = CountNeed(account)
    BY <1>1, <1>3, <1>5 DEF Greater
  <2>2. QED
    BY <1>1, <1>2, <1>4, <1>5, <2>1
<1>6. CASE stake > 0
  <2>1. CountNeed(account) > 1 /\ CountNeed(other) = CountNeed(account) - 1
    BY <1>1, <1>3, <1>6 DEF Greater
  <2>2. stake + StakeUnit * CountNeed(other) <= Owed(account)
    BY <1>1, <1>6, <2>1 DEF Leaves
  <2>3. stake + Owed(other) <= Owed(account)
    BY <1>1, <1>2, <1>3, <1>6, <2>2 DEF Greater
  <2>4. Owed(other) \in Nat /\ Owed(account) \in Nat
    BY OwedParts
  <2>5. account.bank - Owed(account) >= aim
    BY <2>1, <1>1
  <2>6. QED
    BY <1>1, <1>4, <2>3, <2>4, <2>5
<1>7. QED
  BY <1>5, <1>6

-----------------------------------------------------------------------------

\* Nothing missing is a unit all the same.
LEMMA LeastUnit ==
    ASSUME NEW n \in Int, NEW d \in Nat \ {0}, n <= d * StakeUnit
    PROVE  CeilUnit(n, d) = StakeUnit
<1>1. StakeUnit \in Nat \ {0}
  BY ContractAssumption
<1>2. d * StakeUnit \in Nat \ {0}
  BY <1>1
<1>3. Greater(n, d * StakeUnit) = d * StakeUnit
  BY <1>2 DEF Greater
<1>4. RoundUp(d * StakeUnit, d * StakeUnit) = 1
  <2> DEFINE k == d * StakeUnit
  <2>1. k \in Nat \ {0}
    BY <1>2
  <2> HIDE DEF k
  <2>2. /\ RoundUp(k, k) \in Int /\ k <= RoundUp(k, k) * k /\ (RoundUp(k, k) - 1) * k < k
    <3>1. PICK m : m = k
      OBVIOUS
    <3>2. /\ RoundUp(m, k) \in Int /\ m <= RoundUp(m, k) * k /\ (RoundUp(m, k) - 1) * k < m
      <4>1. m \in Int
        BY <2>1, <3>1
      <4>2. QED
        BY <2>1, <4>1, RoundUpParts
    <3>3. QED
      BY <3>1, <3>2
  <2> DEFINE r == RoundUp(k, k)
  <2> HIDE DEF r
  <2>3. r \in Int /\ k <= r * k /\ (r - 1) * k < k
    BY <2>2 DEF r
  <2>4. r >= 1
    <3>1. SUFFICES ASSUME r <= 0 PROVE FALSE
      BY <2>3
    <3>2. r * k <= 0 * k
      BY <2>1, <2>3, <3>1, Scale
    <3>3. r * k \in Int /\ 0 * k = 0
      BY <2>1, <2>3
    <3>4. QED
      BY <2>1, <2>3, <3>2, <3>3
  <2>5. r <= 1
    <3>1. SUFFICES ASSUME 1 <= r - 1 PROVE FALSE
      BY <2>3
    <3>2. r - 1 \in Int
      BY <2>3
    <3>3. 1 * k <= (r - 1) * k
      BY <2>1, <3>1, <3>2, Scale
    <3>4. (r - 1) * k \in Int /\ 1 * k = k
      BY <2>1, <3>2
    <3>5. QED
      BY <2>1, <2>3, <3>3, <3>4
  <2>6. r = 1
    BY <2>3, <2>4, <2>5
  <2>7. QED
    BY <2>6 DEF r, k
<1>5. QED
  BY <1>1, <1>3, <1>4 DEF CeilUnit

\* With the goal and all that is owed in the bank, a unit is enough, and the wanted
\* stake is what qualification asks of the race.
LEMMA CoveredWants ==
    ASSUME NEW account, IsLedger(account), NEW aim \in Nat, CountNeed(account) > 0,
           account.bank - Owed(account) >= aim
    PROVE  WantedOneHit(account, aim) = QualificationFloor(account)
<1>1. /\ TurnoverNeed(account) \in Nat /\ CountNeed(account) \in Nat /\ account.bank \in Int
      /\ TailPolicy.future = StakeUnit /\ StakeUnit \in Nat \ {0}
      /\ Owed(account) = Greater(TurnoverNeed(account), StakeUnit * CountNeed(account))
      /\ StakeUnit * CountNeed(account) \in Nat
  BY OwedParts
<1>2. TailPolicy.odds \in Nat \ {0} /\ TailPolicy.odds - 1 \in Nat \ {0}
  BY TailAssumption
<1> DEFINE need == TurnoverNeed(account)
           reserve == TailPolicy.future * Greater(0, CountNeed(account) - 1)
           first == CeilUnit(aim + need - account.bank, TailPolicy.odds)
<1>3. reserve = StakeUnit * CountNeed(account) - StakeUnit
  <2>1. Greater(0, CountNeed(account) - 1) = CountNeed(account) - 1
    BY <1>1 DEF Greater
  <2>2. QED
    BY <1>1, <2>1
<1> HIDE DEF reserve
<1>4. aim + need <= account.bank /\ aim + reserve <= account.bank
  BY <1>1, <1>3 DEF Greater
<1>5. first = StakeUnit
  <2>1. TailPolicy.odds * StakeUnit \in Nat
    BY <1>1, <1>2
  <2>2. aim + need - account.bank \in Int /\ aim + need - account.bank <= TailPolicy.odds * StakeUnit
    BY <1>1, <1>4, <2>1
  <2>3. QED
    BY <1>2, <2>2, LeastUnit
<1>6. CeilUnit(aim + reserve - account.bank, TailPolicy.odds - 1) = StakeUnit
  <2>1. (TailPolicy.odds - 1) * StakeUnit \in Nat
    BY <1>1, <1>2
  <2>2. /\ aim + reserve - account.bank \in Int
        /\ aim + reserve - account.bank <= (TailPolicy.odds - 1) * StakeUnit
    BY <1>1, <1>3, <1>4, <2>1
  <2>3. QED
    BY <1>2, <2>2, LeastUnit
<1>7. OneHit(account, aim) = IF need - first >= reserve THEN first
                             ELSE Greater(CeilUnit(need - reserve, 1),
                                          CeilUnit(aim + reserve - account.bank, TailPolicy.odds - 1))
  BY DEF OneHit, reserve
<1> HIDE DEF first
<1>8. OneHit(account, aim) = StakeUnit
  <2>1. CASE need - first >= reserve
    BY <1>5, <1>7, <2>1
  <2>2. CASE ~(need - first >= reserve)
    <3>1. need - reserve \in Int /\ need - reserve <= 1 * StakeUnit
      BY <1>1, <1>3, <1>5, <2>2
    <3>2. CeilUnit(need - reserve, 1) = StakeUnit
      <4>1. PICK one : one = 1
        OBVIOUS
      <4>2. CeilUnit(need - reserve, one) = StakeUnit
        BY <3>1, <4>1, LeastUnit
      <4>3. QED
        BY <4>1, <4>2
    <3>3. Greater(StakeUnit, StakeUnit) = StakeUnit
      BY DEF Greater
    <3>4. QED
      BY <1>6, <1>7, <2>2, <3>2, <3>3
  <2>3. QED
    BY <2>1, <2>2
<1>9. QualificationFloor(account) \in Nat /\ QualificationFloor(account) >= StakeUnit
  BY QualificationParts
<1>10. QED
  BY <1>1, <1>8, <1>9 DEF WantedOneHit, Greater

\* n tickets of a units each, no more than the floor of f units asks for, while t units
\* or c races are still to be bet: the last c - 1 races keep a unit each.
LEMMA FloorLeaves ==
    ASSUME NEW n \in Nat \ {0}, NEW a \in Nat \ {0}, NEW f \in Nat \ {0}, NEW t \in Nat,
           NEW c \in Nat, c > 1, a <= f, n = 1 \/ (n - 1) * a < f, a >= f => n = 1,
           (f - 1) * c < Greater(t, c)
    PROVE  n * a + (c - 1) <= Greater(t, c)
<1>1. CASE f = 1
  <2>1. a = 1 /\ n = 1
    BY <1>1
  <2>2. n * a = 1
    BY <2>1
  <2>3. QED
    BY <2>2 DEF Greater
<1>2. CASE f >= 2
  <2>1. (f - 1) * c \in Int /\ (f - 1) * c >= c
    <3>1. 1 * c <= (f - 1) * c
      <4>1. 1 <= f - 1 /\ f - 1 \in Int
        BY <1>2
      <4>2. QED
        BY <4>1, Scale
    <3>2. QED
      BY <3>1
  <2>2. (f - 1) * c < t
    BY <2>1 DEF Greater
  <2>3. CASE n = 1
    <3>1. n * a = a
      BY <2>3
    <3>2. 0 * (c - 1) <= (f - 2) * (c - 1)
      <4>1. 0 <= f - 2 /\ f - 2 \in Int /\ c - 1 \in Nat
        BY <1>2
      <4>2. QED
        BY <4>1, Scale
    <3>3. (f - 2) * (c - 1) = (f - 1) * c - c - f + 2
      OBVIOUS
    <3>4. 0 * (c - 1) = 0
      OBVIOUS
    <3>5. f + (c - 1) <= (f - 1) * c + 1
      BY <2>1, <3>2, <3>3, <3>4
    <3>6. QED
      BY <2>1, <2>2, <3>1, <3>5 DEF Greater
  <2>4. CASE n # 1
    <3>1. a <= f - 1 /\ (n - 1) * a < f /\ (n - 1) * a \in Int
      BY <2>4
    <3>2. n * a = (n - 1) * a + a
      OBVIOUS
    <3>3. n * a <= 2 * (f - 1)
      BY <3>1, <3>2
    <3>4. 0 * (c - 2) <= (f - 2) * (c - 2)
      <4>1. 0 <= f - 2 /\ f - 2 \in Int /\ c - 2 \in Nat
        BY <1>2
      <4>2. QED
        BY <4>1, Scale
    <3>5. (f - 2) * (c - 2) = (f - 1) * c - 2 * (f - 1) - c + 2
      OBVIOUS
    <3>6. 0 * (c - 2) = 0
      OBVIOUS
    <3>7. 2 * (f - 1) + (c - 1) <= (f - 1) * c + 1
      BY <2>1, <3>4, <3>5, <3>6
    <3>8. n * a \in Int
      OBVIOUS
    <3>9. QED
      BY <2>1, <2>2, <3>3, <3>7, <3>8 DEF Greater
  <2>5. QED
    BY <2>3, <2>4
<1>3. QED
  BY <1>1, <1>2

\* A number of units is no more than another if it has no more units.
LEMMA UnitCounts ==
    ASSUME NEW a \in Int, NEW b \in Int
    PROVE  a * StakeUnit <= b * StakeUnit <=> a <= b
<1>1. StakeUnit \in Nat \ {0}
  BY ContractAssumption
<1>2. ASSUME a <= b PROVE a * StakeUnit <= b * StakeUnit
  BY <1>1, <1>2, Scale
<1>3. ASSUME a * StakeUnit <= b * StakeUnit, ~(a <= b) PROVE FALSE
  <2>1. b + 1 <= a /\ b + 1 \in Int
    BY <1>3
  <2>2. (b + 1) * StakeUnit <= a * StakeUnit
    BY <1>1, <2>1, Scale
  <2>3. (b + 1) * StakeUnit = b * StakeUnit + StakeUnit
    BY <1>1
  <2>4. b * StakeUnit \in Int /\ a * StakeUnit \in Int
    BY <1>1
  <2>5. QED
    BY <1>1, <1>3, <2>2, <2>3, <2>4
<1>4. QED
  BY <1>2, <1>3

\* The greater of two numbers of units.
LEMMA GreaterUnits ==
    ASSUME NEW a \in Int, NEW b \in Int
    PROVE  Greater(a * StakeUnit, b * StakeUnit) = Greater(a, b) * StakeUnit
<1>1. StakeUnit \in Nat \ {0}
  BY ContractAssumption
<1>2. b * StakeUnit <= a * StakeUnit <=> b <= a
  BY UnitCounts
<1>3. a * StakeUnit >= b * StakeUnit <=> a >= b
  BY <1>1, <1>2
<1>4. QED
  BY <1>3 DEF Greater

\* A plan of the one-hit strategy, when a hit already covers the goal.
LEMMA PlanLeaves ==
    ASSUME NEW account, IsLedger(account), IsUnits(account.turnover), NEW aim \in Nat,
           CountNeed(account) > 0 => account.bank - Owed(account) >= aim,
           NEW p, IsPlan(p), WholeTickets(p),
           PayloadStake(p) = Len(p.bets) * p.bets[1].money,
           p.bets[1].money <= WantedOneHit(account, aim),
           \/ Len(p.bets) = 1
           \/ (Len(p.bets) - 1) * p.bets[1].money < QualificationFloor(account),
           p.bets[1].money >= QualificationFloor(account) => Len(p.bets) = 1
    PROVE  Leaves(account, PayloadStake(p))
<1> SUFFICES ASSUME CountNeed(account) > 1
             PROVE  PayloadStake(p) + TailPolicy.future * (CountNeed(account) - 1) <= Owed(account)
  BY DEF Leaves
<1>1. /\ TurnoverNeed(account) \in Nat /\ CountNeed(account) \in Nat /\ account.bank \in Int
      /\ TailPolicy.future = StakeUnit /\ StakeUnit \in Nat \ {0}
      /\ Owed(account) = Greater(TurnoverNeed(account), StakeUnit * CountNeed(account))
  BY OwedParts
<1>2. p.bets[1].money <= QualificationFloor(account)
  <2>1. CountNeed(account) > 0
    BY <1>1
  <2>2. QED
    BY <2>1, CoveredWants
<1>3. /\ QualificationFloor(account) \in Nat /\ QualificationFloor(account) >= StakeUnit
      /\ IsUnits(QualificationFloor(account))
  BY QualificationParts
<1>4. /\ p.bets[1].money \in Nat \ {0} /\ IsUnits(p.bets[1].money)
      /\ Len(p.bets) \in Nat \ {0}
  BY WholePlan, PlanCosts
<1>5. IsUnits(TurnoverNeed(account))
  <2>1. IsUnits(TailPolicy.turnover)
    BY TailAssumption, UnitsAreWhole
  <2>2. IsUnits(TailPolicy.turnover - account.turnover)
    BY <2>1, UnitsAdd
  <2>3. TurnoverNeed(account) \in {0, TailPolicy.turnover - account.turnover}
    BY DEF TurnoverNeed, Greater
  <2>4. QED
    BY <2>2, <2>3, OneUnit
<1> DEFINE n == Len(p.bets)
           c == CountNeed(account)
<1>6. PICK a \in Int : p.bets[1].money = a * StakeUnit
  BY <1>4 DEF IsUnits
<1>7. PICK f \in Int : QualificationFloor(account) = f * StakeUnit
  BY <1>3 DEF IsUnits
<1>8. PICK t \in Int : TurnoverNeed(account) = t * StakeUnit
  BY <1>5 DEF IsUnits
<1>9. a \in Nat \ {0} /\ f \in Nat \ {0} /\ t \in Nat
  <2>1. 1 * StakeUnit = StakeUnit /\ 0 * StakeUnit = 0
    BY <1>1
  <2>2. \A i, j \in Int : i * StakeUnit <= j * StakeUnit <=> i <= j
    BY UnitCounts
  <2>3. f >= 1
    <3>1. 1 * StakeUnit <= f * StakeUnit
      BY <1>1, <1>3, <1>7, <2>1
    <3>2. 1 \in Int
      OBVIOUS
    <3>3. QED
      BY <2>2, <3>1, <3>2
  <2>4. t >= 0
    <3>1. 0 * StakeUnit <= t * StakeUnit
      BY <1>1, <1>8, <2>1
    <3>2. 0 \in Int
      OBVIOUS
    <3>3. QED
      BY <2>2, <3>1, <3>2
  <2>5. ~(a <= 0)
    <3>1. ~(a * StakeUnit <= 0 * StakeUnit)
      BY <1>4, <1>6, <2>1
    <3>2. 0 \in Int
      OBVIOUS
    <3>3. QED
      BY <2>2, <3>1, <3>2
  <2>6. QED
    BY <2>3, <2>4, <2>5
<1>10. a <= f /\ (a >= f => n = 1)
  <2>1. a * StakeUnit <= f * StakeUnit
    BY <1>2, <1>6, <1>7
  <2>2. f * StakeUnit <= a * StakeUnit => n = 1
    BY <1>3, <1>4, <1>6, <1>7
  <2>3. (a * StakeUnit <= f * StakeUnit <=> a <= f) /\ (f * StakeUnit <= a * StakeUnit <=> f <= a)
    BY UnitCounts
  <2>4. QED
    BY <2>1, <2>2, <2>3
<1>11. n = 1 \/ (n - 1) * a < f
  <2>1. SUFFICES ASSUME n # 1 PROVE ~(f <= (n - 1) * a)
    BY <1>4, <1>9
  <2>2. (n - 1) * (a * StakeUnit) < f * StakeUnit
    BY <1>6, <1>7, <2>1
  <2>3. (n - 1) * (a * StakeUnit) = ((n - 1) * a) * StakeUnit /\ (n - 1) * a \in Int
    <3>1. n - 1 \in Int
      BY <1>4
    <3> HIDE DEF n
    <3>2. QED
      BY <1>1, <3>1
  <2>4. f * StakeUnit <= ((n - 1) * a) * StakeUnit <=> f <= (n - 1) * a
    BY <2>3, UnitCounts
  <2>5. f * StakeUnit \in Int /\ ((n - 1) * a) * StakeUnit \in Int
    BY <1>1, <2>3
  <2>6. QED
    BY <2>2, <2>3, <2>4, <2>5
<1> HIDE DEF n, c
<1>12. c \in Nat /\ c > 1 /\ n \in Nat \ {0} /\ StakeUnit * c = c * StakeUnit
  BY <1>1, <1>4 DEF c, n
<1>13. Owed(account) = Greater(t, c) * StakeUnit
  BY <1>1, <1>8, <1>12, GreaterUnits DEF c
<1>14. (f - 1) * c < Greater(t, c)
  <2>1. CASE t = 0
    <3>1. TurnoverNeed(account) = 0
      BY <1>1, <1>8, <2>1
    <3>2. QualificationFloor(account) = StakeUnit
      BY <3>1 DEF QualificationFloor
    <3>3. f = 1
      <4>1. f * StakeUnit <= 1 * StakeUnit
        BY <1>1, <1>7, <3>2
      <4>2. PICK one \in Int : one = 1
        OBVIOUS
      <4>3. f * StakeUnit <= one * StakeUnit <=> f <= one
        BY UnitCounts
      <4>4. QED
        BY <1>9, <4>1, <4>2, <4>3
    <3>4. (f - 1) * c = 0
      BY <1>12, <3>3
    <3>5. QED
      BY <1>9, <1>12, <3>4 DEF Greater
  <2>2. CASE t # 0
    <3>1. TurnoverNeed(account) > 0
      <4>1. StakeUnit <= t * StakeUnit
        <5>1. 1 * StakeUnit <= t * StakeUnit
          <6>1. 1 <= t
            BY <1>9, <2>2
          <6>2. QED
            BY <1>1, <6>1, Scale
        <5>2. QED
          BY <1>1, <5>1
      <4>2. QED
        BY <1>1, <1>8, <4>1
    <3>2. QualificationFloor(account) = CeilUnit(TurnoverNeed(account), c)
      BY <1>12, <3>1 DEF QualificationFloor, c
    <3>3. (QualificationFloor(account) - StakeUnit) * c < Greater(TurnoverNeed(account), c * StakeUnit)
      <4>1. TurnoverNeed(account) \in Int /\ c \in Nat \ {0}
        BY <1>1, <1>12
      <4>2. QED
        BY <3>2, <4>1, CeilUnitParts
    <3>4. Greater(TurnoverNeed(account), c * StakeUnit) = Greater(t, c) * StakeUnit
      BY <1>8, <1>12, GreaterUnits
    <3>5. (QualificationFloor(account) - StakeUnit) * c = ((f - 1) * c) * StakeUnit
      <4>1. f \in Int /\ c \in Int /\ StakeUnit \in Int
        BY <1>1, <1>9, <1>12
      <4>2. (f * StakeUnit - StakeUnit) * c = ((f - 1) * c) * StakeUnit
        BY <4>1
      <4>3. QED
        BY <1>7, <4>2
    <3>6. (f - 1) * c \in Int /\ Greater(t, c) \in Int
      BY <1>9, <1>12 DEF Greater
    <3>7. Greater(t, c) * StakeUnit <= ((f - 1) * c) * StakeUnit <=> Greater(t, c) <= (f - 1) * c
      BY <3>6, UnitCounts
    <3>8. Greater(t, c) * StakeUnit \in Int /\ ((f - 1) * c) * StakeUnit \in Int
      BY <1>1, <3>6
    <3>9. QED
      BY <3>3, <3>4, <3>5, <3>6, <3>7, <3>8
  <2>3. QED
    BY <2>1, <2>2
<1>15. n * a + (c - 1) <= Greater(t, c)
  BY <1>9, <1>10, <1>11, <1>12, <1>14, FloorLeaves
<1>16. PayloadStake(p) + TailPolicy.future * (CountNeed(account) - 1) = (n * a + (c - 1)) * StakeUnit
  <2>1. PayloadStake(p) = n * (a * StakeUnit)
    BY <1>6 DEF n
  <2>2. n \in Int /\ c \in Int /\ a \in Int /\ StakeUnit \in Int
    BY <1>1, <1>12
  <2>3. n * (a * StakeUnit) + StakeUnit * (c - 1) = (n * a + (c - 1)) * StakeUnit
    BY <2>2
  <2>4. QED
    BY <1>1, <2>1, <2>3 DEF c
<1>17. n * a + (c - 1) \in Int /\ Greater(t, c) \in Int
  BY <1>9, <1>12 DEF Greater
<1>18. (n * a + (c - 1)) * StakeUnit <= Greater(t, c) * StakeUnit
  BY <1>15, <1>17, UnitCounts
<1>19. QED
  BY <1>13, <1>16, <1>18

-----------------------------------------------------------------------------
(* The goal. *)

\* The races that are over.
Played == {calendar[i].id : i \in 1..Done}

\* Only the tail's days have a goal, and no recovery beside them.
GoalsAreTail ==
    /\ goal > 0 \/ secured > 0 => ~OnAllinDay
    /\ ~OnAllinDay => DOMAIN votes \subseteq Played

\* The plan that waits for its vote: its hit would reach the goal, and its loss would
\* leave a goal reached before.
PlanCovers ==
    runner # "ready" /\ plan # NoPlan =>
        /\ goal > 0 /\ fits => Len(plan.bets) = 1 /\ Covers(ledger, plan.bets[1].money, goal)
        /\ secured > 0 => Leaves(ledger, PayloadStake(plan))

\* The last vote, as long as its race is not settled.
VoteCovers ==
    \A race \in DOMAIN votes :
        /\ runner = "ready" /\ Done > 0 /\ goal > 0 /\ fits /\ race = calendar[Done].id
        /\ ~votes[race].settled /\ SeenConfirmed(race)
        => ledger.bank + votes[race].plan.bets[1].money * TailPolicy.odds - Owed(ledger) >= goal

\* Inductive: what makes HitSecuresGoal hold.
HitIsPrepared ==
    /\ GoalsAreTail /\ PlanCovers /\ VoteCovers /\ HitSecuresGoal
    /\ IsUnits(ledger.turnover)

\* HitSecuresGoal in terms of what the account owes.
LEMMA SecuredParts ==
    HitSecuresGoal <=> (secured > 0 /\ CountNeed(ledger) > 0 => ledger.bank - Owed(ledger) >= secured)
BY DEF HitSecuresGoal, Outstanding, Owed

\* At first nothing is secured.
LEMMA InitPrepared == Init => HitIsPrepared
<1> SUFFICES ASSUME Init PROVE HitIsPrepared
  OBVIOUS
<1>1. /\ runner = "ready" /\ goal = 0 /\ secured = 0 /\ DOMAIN votes = {} /\ ledger.turnover = 0
  BY DEF Init
<1>2. GoalsAreTail /\ PlanCovers /\ VoteCovers /\ HitSecuresGoal
  BY <1>1 DEF GoalsAreTail, PlanCovers, VoteCovers, HitSecuresGoal
<1>3. IsUnits(ledger.turnover)
  BY <1>1, OneUnit
<1>4. QED
  BY <1>2, <1>3 DEF HitIsPrepared

\* A plan of the tail's, or one of another strategy, which has no goal.
LEMMA HandedPrepared ==
    ASSUME Reachable, HitIsPrepared, NEW late, NEW market, NEW new, NEW aim, NEW fit,
           Handed(late, market, new, aim, fit),
           aim > 0 => ~OnAllinDay /\ (new # NoPlan => Aimed(new, aim, fit))
    PROVE  HitIsPrepared'
<1>1. /\ plan' = new /\ goal' = aim /\ fits' = fit /\ aim \in Nat /\ runner' = "built"
      /\ secured' = IF aim \in 1..secured THEN secured ELSE 0
      /\ UNCHANGED <<calendar, ledger, votes>>
      /\ new # NoPlan => Sound(new, Race, market, Instant(late), AskedFloor)
  BY DEF Handed, NewPlan
<1>2. IsLedger(ledger) /\ secured \in Nat
  BY LedgerParts DEF Reachable, WellFormed, DayTypes
<1>3. secured' > 0 => aim > 0 /\ aim <= secured /\ secured' = secured /\ secured > 0
  BY <1>1, <1>2
<1>4. GoalsAreTail'
  BY <1>1, <1>3, SameCalendar DEF HitIsPrepared, GoalsAreTail, Played, Done
<1>5. PlanCovers'
  <2>1. SUFFICES ASSUME new # NoPlan
                 PROVE  /\ aim > 0 /\ fit => Len(new.bets) = 1 /\ Covers(ledger, new.bets[1].money, aim)
                        /\ secured' > 0 => Leaves(ledger, PayloadStake(new))
    BY <1>1 DEF PlanCovers
  <2>2. IsPlan(new) /\ WholeTickets(new)
    BY <1>1, <2>1 DEF Sound, Written
  <2>3. ASSUME aim > 0, fit
        PROVE  Len(new.bets) = 1 /\ Covers(ledger, new.bets[1].money, aim)
    <3>1. Aimed(new, aim, fit)
      BY <2>1, <2>3
    <3>2. /\ WantedOneHit(ledger, aim) \in Nat /\ WantedOneHit(ledger, aim) >= OneHit(ledger, aim)
          /\ WantedOneHit(ledger, aim) >= QualificationFloor(ledger)
      BY <1>1, <1>2, WantedParts
    <3>3. new.bets[1].money = WantedOneHit(ledger, aim) /\ Len(new.bets) = 1
      BY <2>3, <3>1, <3>2 DEF Aimed
    <3>4. ledger.bank \in Nat
      <4>1. PayloadStake(new) \in Nat \ {0}
        BY <2>2, WholePlan
      <4>2. ~(PayloadStake(new) > ledger.bank) /\ ledger.bank \in Int
        BY <1>2, <3>1 DEF Aimed, IsLedger
      <4>3. QED
        BY <4>1, <4>2
    <3>5. ledger.turnover \in Nat /\ ledger.races_bet \in Nat
      BY <1>2 DEF IsLedger
    <3> DEFINE money == new.bets[1].money
    <3>6. money \in Int /\ money >= OneHit(ledger, aim)
      BY <3>2, <3>3
    <3> HIDE DEF money
    <3>7. Covers(ledger, money, aim)
      BY <1>1, <3>4, <3>5, <3>6, OneHitCoversGoal DEF Covers
    <3>8. QED
      BY <3>3, <3>7 DEF money
  <2>4. ASSUME secured' > 0 PROVE Leaves(ledger, PayloadStake(new))
    <3>1. Aimed(new, aim, fit)
      BY <1>3, <2>1, <2>4
    <3>2. CountNeed(ledger) > 0 => ledger.bank - Owed(ledger) >= aim
      <4>1. CountNeed(ledger) > 0 => ledger.bank - Owed(ledger) >= secured
        BY <1>3, <2>4, SecuredParts DEF HitIsPrepared
      <4>2. Owed(ledger) \in Nat /\ ledger.bank \in Int
        BY <1>2, OwedParts
      <4>3. QED
        BY <1>1, <1>2, <1>3, <2>4, <4>1, <4>2
    <3>3. IsUnits(ledger.turnover)
      BY DEF HitIsPrepared
    <3>4. QED
      BY <1>1, <1>2, <2>2, <3>1, <3>2, <3>3, PlanLeaves DEF Aimed
  <2>5. QED
    BY <2>3, <2>4
<1>6. VoteCovers'
  BY <1>1 DEF VoteCovers
<1>7. HitSecuresGoal'
  <2>1. SUFFICES ASSUME secured' > 0, CountNeed(ledger) > 0
                 PROVE  ledger.bank - Outstanding >= secured'
    BY <1>1 DEF HitSecuresGoal, Outstanding
  <2>2. QED
    BY <1>3, <2>1 DEF HitIsPrepared, HitSecuresGoal
<1>8. IsUnits(ledger'.turnover)
  BY <1>1 DEF HitIsPrepared
<1>9. QED
  BY <1>4, <1>5, <1>6, <1>7, <1>8 DEF HitIsPrepared

-----------------------------------------------------------------------------

\* A race is over with the plan's stake or with none.
LEMMA OverPrepared ==
    ASSUME Reachable, HitIsPrepared, runner # "ready", NEW stake \in Nat, RaceOver(stake),
           UNCHANGED <<calendar, fits, goal, secured>>,
           stake > 0 => plan # NoPlan /\ stake = PayloadStake(plan)
    PROVE  /\ IsUnits(ledger'.turnover) /\ HitSecuresGoal' /\ PlanCovers'
           /\ Done' = Done + 1 /\ Done \in Nat /\ Done < Len(calendar)
           /\ IsLedger(ledger) /\ IsLedger(ledger') /\ Spent(ledger, ledger', stake)
<1>1. /\ LedgerTypes' /\ runner' = "ready" /\ Done' = Done + 1 /\ Spent(ledger, ledger', stake)
  BY RaceOverTypes DEF Reachable, Spent
<1>2. IsLedger(ledger)
  BY LedgerParts DEF Reachable, WellFormed
<1>3. IsLedger(ledger')
  BY <1>1 DEF LedgerTypes, Ledgers, IsLedger
<1>4. Done \in Nat /\ Done < Len(calendar)
  BY <1>2 DEF Reachable, WellFormed, PlanTypes, IsLedger, Done
<1>5. IsUnits(stake)
  <2>1. CASE stake > 0
    <3>1. IsPlan(plan) /\ WholeTickets(plan) /\ stake = PayloadStake(plan)
      BY <2>1 DEF Reachable, WellFormed, PlanTypes, IsVotable
    <3>2. QED
      BY <3>1, WholePlan
  <2>2. CASE ~(stake > 0)
    <3>1. stake = 0
      BY <2>2
    <3>2. QED
      BY <3>1, OneUnit
  <2>3. QED
    BY <2>1, <2>2
<1>6. IsUnits(ledger'.turnover)
  BY <1>1, <1>5, UnitsAdd DEF HitIsPrepared, Spent
<1>7. PlanCovers'
  BY <1>1 DEF PlanCovers
<1>8. HitSecuresGoal'
  <2>1. SUFFICES ASSUME secured > 0, CountNeed(ledger') > 0
                 PROVE  ledger'.bank - Owed(ledger') >= secured
    BY DEF HitSecuresGoal, Outstanding, Owed
  <2>2. CountNeed(ledger) > 0 => ledger.bank - Owed(ledger) >= secured
    BY <2>1, SecuredParts DEF HitIsPrepared
  <2>3. stake > 0 => Leaves(ledger, stake)
    BY <2>1 DEF HitIsPrepared, PlanCovers
  <2>4. secured \in Nat
    BY DEF Reachable, WellFormed, DayTypes
  <2>5. QED
    BY <1>1, <1>2, <1>3, <2>1, <2>2, <2>3, <2>4, LeavesAfter
<1>9. QED
  BY <1>1, <1>2, <1>3, <1>4, <1>6, <1>7, <1>8

\* The race that is next has not been played, so it is none of the votes.
LEMMA NextIsNotPlayed ==
    ASSUME calendar \in Calendars, Done \in Nat, Done < Len(calendar), Done' = Done + 1,
           calendar' = calendar
    PROVE  /\ Race.id \notin Played /\ Played' = Played \union {Race.id}
           /\ calendar'[Done'].id = Race.id
<1>1. calendar \in Seq([id : Nat \ {0}, post : Nat, script : STRING])
      /\ \A i, j \in DOMAIN calendar : calendar[i].id = calendar[j].id => i = j
  BY CalendarAssumption
<1>2. DOMAIN calendar = 1..Len(calendar) /\ Len(calendar) \in Nat
  BY <1>1, SeqParts
<1>3. Done + 1 \in DOMAIN calendar /\ \A i \in 1..Done : i \in DOMAIN calendar /\ i # Done + 1
  BY <1>2
<1>4. Race.id \notin Played
  BY <1>1, <1>3 DEF Race, Played
<1>5. 1..(Done + 1) = 1..Done \union {Done + 1}
  OBVIOUS
<1>6. Played' = Played \union {Race.id}
  BY <1>5 DEF Played, Race
<1>7. calendar'[Done'].id = Race.id
  BY DEF Race
<1>8. QED
  BY <1>4, <1>6, <1>7

\* A race that is passed keeps the rest of the goal covered,
LEMMA PassPrepared ==
    ASSUME Reachable, HitIsPrepared, PassRace
    PROVE  HitIsPrepared'
<1>1. /\ runner # "ready" /\ RaceOver(0)
      /\ UNCHANGED <<calendar, fits, goal, secured, votes, recoveryVars>>
  BY DEF PassRace
<1>2. /\ IsUnits(ledger'.turnover) /\ HitSecuresGoal' /\ PlanCovers'
      /\ Done' = Done + 1 /\ Done \in Nat /\ Done < Len(calendar)
  <2>1. PICK none \in Nat : none = 0
    OBVIOUS
  <2>2. RaceOver(none) /\ ~(none > 0)
    BY <1>1, <2>1
  <2>3. QED
    BY <1>1, <2>2, OverPrepared
<1>3. Race.id \notin Played /\ Played' = Played \union {Race.id} /\ calendar'[Done'].id = Race.id
  BY <1>1, <1>2, NextIsNotPlayed DEF Reachable, WellFormed, DayTypes
<1>4. GoalsAreTail'
  BY <1>1, <1>3, SameCalendar DEF HitIsPrepared, GoalsAreTail
<1>5. VoteCovers'
  <2>1. SUFFICES ASSUME NEW race \in DOMAIN votes, goal > 0, race = Race.id PROVE FALSE
    BY <1>1, <1>3 DEF VoteCovers
  <2>2. DOMAIN votes \subseteq Played
    BY <2>1 DEF HitIsPrepared, GoalsAreTail
  <2>3. QED
    BY <1>3, <2>1, <2>2
<1>6. QED
  BY <1>2, <1>4, <1>5 DEF HitIsPrepared

\* so does a vote,
LEMMA VotePrepared ==
    ASSUME Reachable, HitIsPrepared, Vote
    PROVE  HitIsPrepared'
<1>1. PICK state \in Outcomes :
         /\ Cast("original", Race.id, plan, state)
         /\ RaceOver(IF state = "CONFIRMED" THEN PayloadStake(plan) ELSE 0)
  BY DEF Vote
<1>2. /\ runner = "imported"
      /\ UNCHANGED <<calendar, fits, goal, secured, history, killed, prepared, planFile, tick>>
  BY DEF Vote
<1>3. /\ IsVotable(plan) /\ plan # NoPlan /\ plan.race_id = Race.id /\ Race.id \in Ids
      /\ calendar \in Calendars
  <2>1. plan # NoPlan /\ Done < Len(calendar) /\ calendar \in Calendars /\ Done \in Nat
    BY <1>2, LedgerParts DEF Reachable, WellFormed, PlanTypes, DayTypes, LedgerTypes, IsLedger, Done
  <2>2. QED
    BY <2>1, RaceParts DEF Reachable, WellFormed, PlanTypes
<1> DEFINE stake == IF state = "CONFIRMED" THEN PayloadStake(plan) ELSE 0
<1>4. stake \in Nat /\ RaceOver(stake) /\ (stake > 0 => stake = PayloadStake(plan))
  <2>1. PayloadStake(plan) \in Nat
    BY <1>3, PlanCosts DEF IsVotable
  <2>2. QED
    BY <1>1, <2>1
<1> HIDE DEF stake
<1>5. /\ IsUnits(ledger'.turnover) /\ HitSecuresGoal' /\ PlanCovers'
      /\ Done' = Done + 1 /\ Done \in Nat /\ Done < Len(calendar)
      /\ IsLedger(ledger) /\ IsLedger(ledger') /\ Spent(ledger, ledger', stake)
  BY <1>2, <1>3, <1>4, OverPrepared
<1>6. Race.id \notin Played /\ Played' = Played \union {Race.id} /\ calendar'[Done'].id = Race.id
  BY <1>2, <1>3, <1>5, NextIsNotPlayed
<1>7. /\ journals' = Moved("original", Race.id, state)
      /\ \/ /\ state \in {"CONFIRMED", "AMBIGUOUS"}
            /\ DOMAIN votes' = DOMAIN votes \union {Race.id}
            /\ votes'[Race.id] = [plan |-> plan, paid |-> 0, settled |-> FALSE]
         \/ state \in {"AMBIGUOUS", "REJECTED"} /\ votes' = votes
  BY <1>1, <1>2, <1>3, CastTypes DEF Reachable
<1>8. GoalsAreTail'
  BY <1>2, <1>6, <1>7, SameCalendar DEF HitIsPrepared, GoalsAreTail
<1>9. VoteCovers'
  <2>1. SUFFICES ASSUME NEW race \in DOMAIN votes', goal > 0, fits, race = Race.id, SeenConfirmed(race)'
                 PROVE  ledger'.bank + votes'[race].plan.bets[1].money * TailPolicy.odds - Owed(ledger')
                          >= goal
    BY <1>2, <1>6 DEF VoteCovers
  <2>2. ~OnAllinDay /\ DOMAIN votes \subseteq Played
    BY <2>1 DEF HitIsPrepared, GoalsAreTail
  <2>3. votes' # votes
    BY <1>6, <2>1, <2>2
  <2>4. votes'[race].plan = plan
    BY <1>7, <2>1, <2>3
  <2>5. state = "CONFIRMED"
    <3>1. /\ \A other \in Daemons : other # "original" => journals'[other] = journals[other]
          /\ DOMAIN journals'["original"] = DOMAIN journals["original"]
          /\ \A r \in DOMAIN journals["original"] :
                journals'["original"][r].state
                   = IF r = Race.id THEN state ELSE journals["original"][r].state
      BY <1>7, MoveKeeps DEF Reachable, Daemons
    <3>2. DOMAIN journals["recovery"] = {}
      BY <2>2 DEF Reachable, WellFormed, RecoveryTypes
    <3>3. PICK daemon \in Daemons : InState(daemon, race, "CONFIRMED")'
      BY <2>1 DEF SeenConfirmed
    <3>4. race \in DOMAIN journals'[daemon] /\ journals'[daemon][race].state = "CONFIRMED"
      BY <3>3 DEF InState, Knows
    <3>5. daemon = "original"
      BY <3>1, <3>2, <3>4 DEF Daemons
    <3>6. QED
      BY <2>1, <3>1, <3>4, <3>5
  <2>6. stake = PayloadStake(plan)
    BY <2>5 DEF stake
  <2>7. Len(plan.bets) = 1 /\ Covers(ledger, plan.bets[1].money, goal)
    BY <1>2, <1>3, <2>1 DEF HitIsPrepared, PlanCovers
  <2>8. plan.bets[1].money \in Nat \ {0} /\ PayloadStake(plan) = plan.bets[1].money
    BY <1>3, <2>7, WholePlan DEF IsVotable
  <2> DEFINE money == plan.bets[1].money
  <2> HIDE DEF money
  <2>9. money \in Nat \ {0} /\ Spent(ledger, ledger', money) /\ Covers(ledger, money, goal)
    BY <1>5, <2>6, <2>7, <2>8 DEF money
  <2>10. goal \in Nat
    BY DEF Reachable, WellFormed, DayTypes
  <2>11. ledger'.bank + money * TailPolicy.odds - Owed(ledger') >= goal
    BY <1>5, <2>9, <2>10, CoversAfter
  <2>12. QED
    BY <2>4, <2>11 DEF money
<1>10. QED
  BY <1>5, <1>8, <1>9 DEF HitIsPrepared

-----------------------------------------------------------------------------

\* A payout, a hit's or another's: the bank grows, and the hit's goal is reached.
LEMMA CoversMore ==
    ASSUME NEW account, IsLedger(account), NEW other,
           other.turnover = account.turnover, other.races_bet = account.races_bet,
           other.bank \in Int, other.bank >= account.bank
    PROVE  /\ Owed(other) = Owed(account) /\ CountNeed(other) = CountNeed(account)
           /\ \A money \in Nat, aim \in Nat : Covers(account, money, aim) => Covers(other, money, aim)
           /\ \A stake : Leaves(account, stake) => Leaves(other, stake)
<1>1. TurnoverNeed(other) = TurnoverNeed(account) /\ CountNeed(other) = CountNeed(account)
  BY DEF TurnoverNeed, CountNeed
<1>2. Owed(other) = Owed(account)
  BY <1>1 DEF Owed
<1>3. ASSUME NEW money \in Nat, NEW aim \in Nat, Covers(account, money, aim)
      PROVE  Covers(other, money, aim)
  <2> DEFINE rest == Greater(TurnoverNeed(account) - money,
                             TailPolicy.future * Greater(0, CountNeed(account) - 1))
             win == money * (TailPolicy.odds - 1)
  <2>1. TailPolicy.odds \in Int /\ account.bank \in Int
    BY TailAssumption DEF IsLedger
  <2>2. win \in Int
    BY <2>1
  <2>3. rest \in Int
    <3>1. TurnoverNeed(account) \in Nat /\ CountNeed(account) \in Nat /\ TailPolicy.future \in Nat
      BY OwedParts
    <3>2. Greater(0, CountNeed(account) - 1) \in Int
      BY <3>1 DEF Greater
    <3>3. TailPolicy.future * Greater(0, CountNeed(account) - 1) \in Int
      BY <3>1, <3>2
    <3>4. QED
      BY <3>1, <3>3 DEF Greater
  <2>4. account.bank + win - rest >= aim
    BY <1>3 DEF Covers
  <2>5. Covers(other, money, aim) <=> other.bank + win - rest >= aim
    BY <1>1 DEF Covers
  <2> HIDE DEF rest, win
  <2>6. QED
    BY <2>1, <2>2, <2>3, <2>4, <2>5
<1>4. \A stake : Leaves(account, stake) => Leaves(other, stake)
  BY <1>1, <1>2 DEF Leaves
<1>5. QED
  BY <1>1, <1>2, <1>3, <1>4

\* a result, which a hit that reaches the goal secures,
LEMMA SettlePrepared ==
    ASSUME Reachable, HitIsPrepared, Settle
    PROVE  HitIsPrepared'
<1>1. UNCHANGED <<calendar, runner, plan, fits, front, goal, recoveryVars>>
  BY DEF Settle
<1>2. PICK race \in DOMAIN votes, row \in BOOLEAN, paid \in Nat, noted \in Nat :
         LET counted == row /\ SeenConfirmed(race)
         IN  /\ ~votes[race].settled /\ DOMAIN votes' = DOMAIN votes
             /\ votes'[race] = [plan |-> votes[race].plan, paid |-> paid, settled |-> TRUE]
             /\ \A other \in DOMAIN votes : other # race => votes'[other] = votes[other]
             /\ ledger' = IF counted THEN [ledger EXCEPT !.bank = @ + noted] ELSE ledger
             /\ secured' = IF counted /\ Reaches(race, noted) THEN goal ELSE secured
  <2>1. PICK race \in DOMAIN votes, row \in BOOLEAN, paid \in Nat, noted \in Nat :
           Settles(race, row, paid, noted)
    BY SettleParts, Zenon DEF Reachable
  <2>2. QED
    BY <2>1, Zenon DEF Settles
<1>3. ledger \in Ledgers /\ IsLedger(ledger) /\ goal \in Nat /\ secured \in Nat
  BY LedgerParts DEF Reachable, WellFormed, LedgerTypes, DayTypes
<1>4. /\ ledger.bank \in Int /\ ledger'.bank \in Int /\ ledger'.bank >= ledger.bank
      /\ ledger'.turnover = ledger.turnover /\ ledger'.races_bet = ledger.races_bet
      /\ ledger'.front_races_done = ledger.front_races_done
      /\ row /\ SeenConfirmed(race) => ledger'.bank = ledger.bank + noted
  BY <1>2, <1>3 DEF Ledgers
<1>5. /\ Owed(ledger') = Owed(ledger) /\ CountNeed(ledger') = CountNeed(ledger)
      /\ \A money \in Nat, aim \in Nat : Covers(ledger, money, aim) => Covers(ledger', money, aim)
      /\ \A stake : Leaves(ledger, stake) => Leaves(ledger', stake)
  BY <1>3, <1>4, CoversMore
<1>6. Owed(ledger) \in Nat
  BY <1>3, OwedParts
<1>7. secured' # secured => row /\ SeenConfirmed(race) /\ Reaches(race, noted) /\ secured' = goal
  BY <1>2
<1>8. Done' = Done /\ Ids' = Ids /\ OnAllinDay' = OnAllinDay
  BY <1>1, <1>4, SameCalendar DEF Done
<1>9. GoalsAreTail'
  <2>1. goal > 0 \/ secured' > 0 => goal > 0 \/ secured > 0
    BY <1>3, <1>7
  <2>2. Played' = Played
    BY <1>1, <1>8 DEF Played
  <2>3. QED
    BY <1>1, <1>2, <1>8, <2>1, <2>2 DEF HitIsPrepared, GoalsAreTail
<1>10. PlanCovers'
  <2>1. SUFFICES ASSUME runner # "ready", plan # NoPlan
                 PROVE  /\ goal > 0 /\ fits =>
                              Len(plan.bets) = 1 /\ Covers(ledger', plan.bets[1].money, goal)
                        /\ secured' > 0 => Leaves(ledger', PayloadStake(plan))
    BY <1>1 DEF PlanCovers
  <2>2. secured' = secured
    BY <1>7, <2>1 DEF Reaches
  <2>3. plan.bets[1].money \in Nat
    BY <2>1, WholePlan DEF Reachable, WellFormed, PlanTypes, IsVotable
  <2>4. /\ goal > 0 /\ fits => Len(plan.bets) = 1 /\ Covers(ledger, plan.bets[1].money, goal)
        /\ secured > 0 => Leaves(ledger, PayloadStake(plan))
    BY <2>1 DEF HitIsPrepared, PlanCovers
  <2>5. QED
    BY <1>3, <1>5, <2>2, <2>3, <2>4
<1>11. VoteCovers'
  <2>1. SUFFICES ASSUME NEW other \in DOMAIN votes, runner = "ready", Done > 0, goal > 0, fits,
                        other = calendar[Done].id, ~votes'[other].settled, SeenConfirmed(other)
                 PROVE  ledger'.bank + votes'[other].plan.bets[1].money * TailPolicy.odds
                          - Owed(ledger') >= goal
    BY <1>1, <1>2, <1>8 DEF VoteCovers, SeenConfirmed, InState, Knows, recoveryVars
  <2>2. votes'[other] = votes[other]
    BY <1>2, <2>1
  <2> DEFINE prize == votes[other].plan.bets[1].money * TailPolicy.odds
  <2>3. ledger.bank + prize - Owed(ledger) >= goal
    BY <2>1, <2>2 DEF HitIsPrepared, VoteCovers
  <2>4. prize \in Int
    <3>1. votes[other].plan.bets[1].money \in Nat
      BY WholePlan DEF Reachable, WellFormed, VoteTypes, IsVote, IsVotable
    <3>2. TailPolicy.odds \in Nat
      BY TailAssumption
    <3>3. QED
      BY <3>1, <3>2
  <2>5. ledger'.bank + prize - Owed(ledger) >= goal
    <3> HIDE DEF prize
    <3>1. QED
      BY <1>3, <1>4, <1>6, <2>3, <2>4
  <2>6. QED
    BY <1>5, <2>2, <2>5
<1>12. HitSecuresGoal'
  <2>1. SUFFICES ASSUME secured' > 0, CountNeed(ledger) > 0
                 PROVE  ledger'.bank - Owed(ledger) >= secured'
    BY <1>5 DEF HitSecuresGoal, Outstanding, Owed
  <2>2. CASE secured' = secured
    <3>1. ledger.bank - Owed(ledger) >= secured
      BY <2>1, <2>2, SecuredParts DEF HitIsPrepared
    <3>2. QED
      BY <1>3, <1>4, <1>6, <2>2, <3>1
  <2>3. CASE secured' # secured
    <3>1. row /\ SeenConfirmed(race) /\ secured' = goal /\ Reaches(race, noted)
      BY <1>7, <2>3
    <3>2. /\ goal > 0 /\ fits /\ noted = votes[race].plan.bets[1].money * TailPolicy.odds
          /\ runner = "ready" /\ Done > 0 /\ race = calendar[Done].id /\ ~votes[race].settled
      BY <1>2, <3>1 DEF Reaches
    <3>3. ledger.bank + noted - Owed(ledger) >= goal
      BY <3>1, <3>2 DEF HitIsPrepared, VoteCovers
    <3>4. ledger'.bank = ledger.bank + noted
      BY <1>4, <3>1
    <3>5. QED
      BY <1>3, <1>4, <1>6, <3>1, <3>3, <3>4
  <2>4. QED
    BY <2>2, <2>3
<1>13. IsUnits(ledger'.turnover)
  BY <1>4 DEF HitIsPrepared
<1>14. QED
  BY <1>9, <1>10, <1>11, <1>12, <1>13 DEF HitIsPrepared

-----------------------------------------------------------------------------

\* The recovery has a day without a goal.
LEMMA RecoveryVotePrepared ==
    ASSUME Reachable, HitIsPrepared, RecoveryVote
    PROVE  HitIsPrepared'
<1>1. OnAllinDay /\ UNCHANGED <<calendar, goal, secured>> /\ IsVotable(planFile)
  BY RecoveryVoteParts DEF Reachable, RecoveryVote
<1>2. ~(goal > 0) /\ ~(secured > 0) /\ OnAllinDay'
  BY <1>1, SameCalendar DEF HitIsPrepared, GoalsAreTail
<1>3. GoalsAreTail' /\ PlanCovers' /\ VoteCovers' /\ HitSecuresGoal'
  BY <1>1, <1>2 DEF GoalsAreTail, PlanCovers, VoteCovers, HitSecuresGoal
<1>4. PICK state \in Outcomes :
         LET stake == IF state = "CONFIRMED" THEN PayloadStake(planFile) ELSE 0
         IN  ledger' = [ledger EXCEPT !.bank = @ - stake, !.turnover = @ + stake]
  BY DEF RecoveryVote
<1> DEFINE stake == IF state = "CONFIRMED" THEN PayloadStake(planFile) ELSE 0
<1>5. IsUnits(stake)
  <2>1. IsUnits(PayloadStake(planFile)) /\ IsUnits(0)
    BY <1>1, WholePlan, OneUnit DEF IsVotable
  <2>2. QED
    BY <2>1
<1>6. ledger'.turnover = ledger.turnover + stake
  <2>1. ledger \in Ledgers
    BY DEF Reachable, WellFormed, LedgerTypes
  <2>2. QED
    BY <1>4, <2>1 DEF Ledgers
<1> HIDE DEF stake
<1>7. IsUnits(ledger'.turnover)
  BY <1>5, <1>6, UnitsAdd DEF HitIsPrepared
<1>8. QED
  BY <1>3, <1>7 DEF HitIsPrepared

\* and every step that leaves the account alone.
LEMMA OthersPrepared ==
    ASSUME HitIsPrepared, UNCHANGED <<calendar, ledger, plan, fits, goal, secured, votes>>,
           \/ runner # "ready" /\ runner' # "ready"
           \/ runner' = runner /\ OnAllinDay
           \/ UNCHANGED <<runner, journals>>
    PROVE  HitIsPrepared'
<1>1. Done' = Done /\ Played' = Played /\ OnAllinDay' = OnAllinDay
  BY SameCalendar DEF Done, Played
<1>2. GoalsAreTail'
  BY <1>1 DEF HitIsPrepared, GoalsAreTail
<1>3. PlanCovers'
  BY DEF HitIsPrepared, PlanCovers
<1>4. HitSecuresGoal'
  BY DEF HitIsPrepared, HitSecuresGoal, Outstanding
<1>5. VoteCovers'
  <2>1. CASE runner' # "ready"
    BY <2>1 DEF VoteCovers
  <2>2. CASE OnAllinDay
    <3>1. ~(goal > 0)
      BY <2>2 DEF HitIsPrepared, GoalsAreTail
    <3>2. QED
      BY <3>1 DEF VoteCovers
  <2>3. CASE UNCHANGED <<runner, journals>>
    BY <1>1, <2>3 DEF HitIsPrepared, VoteCovers, SeenConfirmed, InState, Knows
  <2>4. QED
    BY <2>1, <2>2, <2>3
<1>6. QED
  BY <1>2, <1>3, <1>4, <1>5 DEF HitIsPrepared

\* Every step keeps the goal prepared.
LEMMA NextPrepared == Reachable /\ HitIsPrepared /\ [Next]_vars => HitIsPrepared'
<1> SUFFICES ASSUME Reachable, HitIsPrepared, [Next]_vars PROVE HitIsPrepared'
  OBVIOUS
<1>1. calendar \in Calendars /\ IsLedger(ledger)
  BY LedgerParts DEF Reachable, WellFormed, DayTypes
<1>2. ASSUME NEW late, NEW market, NEW new, NEW fit, Handed(late, market, new, 0, fit)
      PROVE  HitIsPrepared'
  <2>1. PICK none : none = 0
    OBVIOUS
  <2>2. Handed(late, market, new, none, fit) /\ ~(none > 0)
    BY <1>2, <2>1
  <2>3. QED
    BY <2>2, HandedPrepared
<1>3. CASE TableRace
  BY <1>1, <1>2, <1>3, TableHands
<1>4. CASE TailRace
  <2>1. PICK late, market, new, aim, fit :
           Handed(late, market, new, aim, fit) /\ (new # NoPlan => Aimed(new, aim, fit))
    BY <1>1, <1>4, TailHands
  <2>2. ~OnAllinDay
    <3>1. Done \in Nat /\ Done < Len(calendar) /\ Race.script = "v17"
      BY <1>1, <1>4, TailHands DEF Scripted, IsLedger, Done
    <3>2. Done + 1 \in DOMAIN calendar
      BY <1>1, <3>1, RaceParts
    <3>3. QED
      BY <1>1, <3>1, <3>2, NoRecoveryBeside DEF Race
  <2>3. QED
    BY <2>1, <2>2, HandedPrepared
<1>5. CASE Sanrentan3Race
  BY <1>1, <1>2, <1>5, Sanrentan3Hands
<1>6. CASE AllinRace
  BY <1>1, <1>2, <1>6, AllinHands
<1>7. CASE DynamicRace
  BY <1>1, <1>2, <1>7, DynamicHands
<1>8. CASE Import
  BY <1>8, OthersPrepared DEF Import
<1>9. CASE PassRace
  BY <1>9, PassPrepared
<1>10. CASE Vote
  BY <1>10, VotePrepared
<1>11. CASE RecoveryVote
  BY <1>11, RecoveryVotePrepared
<1>12. CASE Settle
  BY <1>12, SettlePrepared
<1>13. CASE RecoveryStep
  BY <1>13, OthersPrepared DEF RecoveryStep, dayVars
<1>14. CASE UNCHANGED vars
  BY <1>14, OthersPrepared DEF vars, dayVars, recoveryVars
<1>15. QED
  BY <1>3, <1>4, <1>5, <1>6, <1>7, <1>8, <1>9, <1>10, <1>11, <1>12, <1>13, <1>14 DEF Next

\* "makes one hit reach goal" and "preserves qualification" (build_vote_plan.py): the
\* goal that a hit has reached stays covered, with all that qualification still asks
\* for, through every later plan, lost race, refund and rejected or ambiguous vote.
THEOREM HitSecures == Spec => []HitSecuresGoal
<1>1. HitIsPrepared => HitSecuresGoal
  BY DEF HitIsPrepared
<1>2. QED
  BY <1>1, InitPrepared, NextPrepared, ReachableIsInductive, PTL DEF Spec

-----------------------------------------------------------------------------
(* The contest's balance. *)

\* A sum of one term.
LEMMA SumOne ==
    ASSUME NEW x, NEW f, f[x] \in Int
    PROVE  SumOn(f, {x}) = f[x]
<1>1. IsFiniteSet({x}) /\ IsFiniteSet({})
  BY FS_Singleton, FS_EmptySet
<1>2. Chosen({x}) = x
  BY WithoutChosen, <1>1
<1>3. SumOn(f, {x}) = f[Chosen({x})] + SumOn(f, {x} \ {Chosen({x})}) /\ SumOn(f, {}) = 0
  <2>1. {x} # {}
    OBVIOUS
  <2>2. QED
    BY <1>1, <2>1, SumUnrolls
<1>4. {x} \ {Chosen({x})} = {}
  BY <1>2
<1>5. SumOn(f, {x}) = f[x] + SumOn(f, {})
  BY <1>2, <1>3, <1>4, Zenon
<1>6. QED
  BY <1>3, <1>5

\* A sum of zeros.
LEMMA SumZero ==
    ASSUME NEW S, IsFiniteSet(S), NEW f, \A x \in S : f[x] = 0
    PROVE  SumOn(f, S) = 0
<1>1. PICK c \in Int : c = 0
  OBVIOUS
<1>2. \A x \in S : f[x] \in Int /\ f[x] = f[x] * c
  BY <1>1
<1>3. SumOn(f, S) = SumOn(f, S) * c
  BY <1>1, <1>2, SumScaled
<1>4. SumOn(f, S) \in Int
  BY <1>2, SumType
<1>5. QED
  BY <1>1, <1>3, <1>4

\* Of the votes cast some have a row, which holds what the race paid or nothing: the
\* others have not paid more than the credit the rows leave open.
LEMMA CreditBounds ==
    ASSUME NEW V, IsFiniteSet(V), NEW P \in SUBSET V, NEW B \in Int,
           NEW stake, \A x \in V : stake[x] \in Int, NEW paid, \A x \in V : paid[x] \in Nat,
           NEW row, \A x \in P : row[x] \in {0, paid[x]}
    PROVE  SumOn(paid, V \ P)
              <= (B - SumOn(stake, V) + SumOn(paid, V)) - (B - SumOn(stake, V) + SumOn(row, P))
<1> DEFINE R == {x \in P : row[x] = 0}
<1>1. \A S \in SUBSET V : IsFiniteSet(S) /\ SumOn(stake, S) \in Int /\ SumOn(paid, S) \in Nat
  BY FS_Subset, SumType, SumGrows
<1>2. R \in SUBSET P /\ R \in SUBSET V /\ P \ R \in SUBSET V /\ V \ P \in SUBSET V
  OBVIOUS
<1>3. \A x \in V : paid[x] \in Int
  OBVIOUS
<1>4. SumOn(paid, V) = SumOn(paid, P) + SumOn(paid, V \ P)
  BY <1>3, SumSplit
<1>5. SumOn(paid, P) = SumOn(paid, R) + SumOn(paid, P \ R)
  <2>1. IsFiniteSet(P) /\ \A x \in P : paid[x] \in Int
    BY <1>1, <1>3
  <2>2. QED
    BY <1>2, <2>1, SumSplit
<1>6. SumOn(row, P) = SumOn(row, R) + SumOn(row, P \ R)
  <2>1. IsFiniteSet(P) /\ \A x \in P : row[x] \in Int
    BY <1>1, <1>3
  <2>2. QED
    BY <1>2, <2>1, SumSplit
<1>7. SumOn(row, R) = 0
  BY <1>1, <1>2, SumZero
<1>8. SumOn(row, P \ R) = SumOn(paid, P \ R)
  <2>1. \A x \in P \ R : row[x] = paid[x]
    OBVIOUS
  <2>2. IsFiniteSet(P \ R)
    BY <1>1, <1>2
  <2>3. QED
    BY <2>1, <2>2, SumSame
<1> DEFINE a == SumOn(stake, V)
           c == SumOn(paid, V \ P)
           d == SumOn(paid, R)
           e == SumOn(paid, P \ R)
<1>9. a \in Int /\ c \in Nat /\ d \in Nat /\ e \in Nat
  BY <1>1, <1>2
<1>10. SumOn(paid, V) = (d + e) + c /\ SumOn(row, P) = 0 + e
  BY <1>4, <1>5, <1>6, <1>7, <1>8
<1>11. c <= (B - a + ((d + e) + c)) - (B - a + (0 + e))
  <2> HIDE DEF a, c, d, e
  <2>1. QED
    BY <1>9
<1>12. QED
  BY <1>10, <1>11

-----------------------------------------------------------------------------
(* What the daemons and the caller know of the votes. *)

\* The daemons' plans are the ones that the script and the recovery wrote.
PlansAreKept ==
    /\ runner = "imported" => /\ Knows("original", Race.id)
                              /\ journals["original"][Race.id].plan = plan
    /\ Knows("recovery", RecoveryRace) => journals["recovery"][RecoveryRace].plan = planFile

\* A daemon that saw a vote confirmed had it accepted; a vote that was accepted is in a
\* daemon's journal with its plan, as confirmed or in doubt.
VotesAreKnown ==
    /\ \A daemon \in Daemons : \A race \in DOMAIN journals[daemon] :
          InState(daemon, race, "CONFIRMED") => race \in DOMAIN votes
    /\ \A race \in DOMAIN votes : \E daemon \in Daemons :
          /\ Knows(daemon, race) /\ journals[daemon][race].plan = votes[race].plan
          /\ journals[daemon][race].state \in {"CONFIRMED", "AMBIGUOUS"}

\* A row of the history.
HistoryRows == [race : Nat, stake : Nat \ {0}, payout : Nat]

\* The caller has one row at most of a race, for a vote that was seen confirmed.
RowsAreVotes ==
    /\ history \in Seq(HistoryRows)
    /\ \A i, j \in DOMAIN history : history[i].race = history[j].race => i = j
    /\ \A i \in DOMAIN history :
          LET race == history[i].race
          IN  /\ race \in DOMAIN votes /\ votes[race].settled /\ SeenConfirmed(race)
              /\ history[i].payout \in {0, votes[race].paid}

\* Inductive: what makes LedgerHoldsVotes hold.
VotesAreTold == PlansAreKept /\ VotesAreKnown /\ RowsAreVotes

\* Votes and rows stay as they are, and no journal says more or less of them.
JournalsSayTheSame ==
    \A daemon \in Daemons :
        /\ \A race : InState(daemon, race, "CONFIRMED")' <=> InState(daemon, race, "CONFIRMED")
        /\ \A race : InState(daemon, race, "AMBIGUOUS") => InState(daemon, race, "AMBIGUOUS")'
        /\ \A race \in DOMAIN journals[daemon] :
              journals'[daemon][race].plan = journals[daemon][race].plan

\* At first there is nothing to tell.
LEMMA InitTold == Init => VotesAreTold
<1> SUFFICES ASSUME Init PROVE VotesAreTold
  OBVIOUS
<1>1. /\ runner = "ready" /\ votes = <<>> /\ history = <<>>
      /\ journals = [daemon \in Daemons |-> <<>>]
  BY DEF Init, RecoveryInit
<1>2. DOMAIN votes = {} /\ DOMAIN history = {} /\ \A daemon \in Daemons : DOMAIN journals[daemon] = {}
  BY <1>1
<1>3. history \in Seq(HistoryRows)
  BY <1>1
<1>4. "recovery" \in Daemons
  BY DEF Daemons
<1>5. PlansAreKept /\ VotesAreKnown
  BY <1>1, <1>2, <1>4 DEF PlansAreKept, VotesAreKnown, InState, Knows
<1>6. RowsAreVotes
  BY <1>2, <1>3 DEF RowsAreVotes
<1>7. QED
  BY <1>5, <1>6 DEF VotesAreTold

\* A step that leaves the journals of confirmed votes alone keeps what is known.
LEMMA SameKnown ==
    ASSUME VotesAreTold, UNCHANGED <<votes, history>>, JournalsSayTheSame
    PROVE  VotesAreKnown' /\ RowsAreVotes'
<1>1. VotesAreKnown'
  <2>1. ASSUME NEW daemon \in Daemons, NEW race, InState(daemon, race, "CONFIRMED")'
        PROVE  race \in DOMAIN votes'
    BY <2>1 DEF VotesAreTold, VotesAreKnown, JournalsSayTheSame, InState, Knows
  <2>2. ASSUME NEW race \in DOMAIN votes'
        PROVE  \E daemon \in Daemons :
                  /\ race \in DOMAIN journals'[daemon]
                  /\ journals'[daemon][race].plan = votes'[race].plan
                  /\ journals'[daemon][race].state \in {"CONFIRMED", "AMBIGUOUS"}
    <3>1. PICK daemon \in Daemons :
            /\ Knows(daemon, race) /\ journals[daemon][race].plan = votes[race].plan
            /\ journals[daemon][race].state \in {"CONFIRMED", "AMBIGUOUS"}
      BY DEF VotesAreTold, VotesAreKnown
    <3>2. journals'[daemon][race].plan = votes'[race].plan
      BY <3>1 DEF JournalsSayTheSame, Knows
    <3>3. /\ race \in DOMAIN journals'[daemon]
          /\ journals'[daemon][race].state \in {"CONFIRMED", "AMBIGUOUS"}
      <4>1. InState(daemon, race, "CONFIRMED")' \/ InState(daemon, race, "AMBIGUOUS")'
        BY <3>1 DEF JournalsSayTheSame, InState
      <4>2. QED
        BY <4>1 DEF InState, Knows
    <3>4. QED
      BY <3>2, <3>3
  <2>3. QED
    BY <2>1, <2>2 DEF VotesAreKnown, Knows
<1>2. \A race : SeenConfirmed(race) => SeenConfirmed(race)'
  BY DEF SeenConfirmed, JournalsSayTheSame
<1>3. RowsAreVotes'
  BY <1>2 DEF VotesAreTold, RowsAreVotes
<1>4. QED
  BY <1>1, <1>3

\* A script's plan is not imported yet.
LEMMA HandedTold ==
    ASSUME VotesAreTold, NEW late, NEW market, NEW new, NEW aim, NEW fit,
           Handed(late, market, new, aim, fit)
    PROVE  VotesAreTold'
<1>1. runner' = "built" /\ UNCHANGED <<votes, history, journals, planFile>>
  BY DEF Handed, NewPlan, recoveryVars
<1>2. JournalsSayTheSame
  BY <1>1 DEF JournalsSayTheSame, InState, Knows
<1>3. PlansAreKept'
  BY <1>1 DEF VotesAreTold, PlansAreKept, Knows
<1>4. QED
  BY <1>1, <1>2, <1>3, SameKnown DEF VotesAreTold

\* An import tells of a plan, and of no vote.
LEMMA ImportSaysTheSame ==
    ASSUME RecoveryIsAlone, NEW daemon \in Daemons, NEW new, ImportPlan(daemon, new)
    PROVE  JournalsSayTheSame
<1>1. /\ \A other \in Daemons : other # daemon => journals'[other] = journals[other]
      /\ DOMAIN journals'[daemon] = DOMAIN journals[daemon] \union {new.race_id}
      /\ journals'[daemon][new.race_id].state = "VALIDATED"
      /\ new.race_id \notin DOMAIN journals[daemon]
      /\ \A race \in DOMAIN journals[daemon] : journals'[daemon][race] = journals[daemon][race]
  BY ImportAdds
<1>2. QED
  BY <1>1 DEF JournalsSayTheSame, InState, Knows

\* An import adds a record that is neither confirmed nor in doubt,
LEMMA ImportTold ==
    ASSUME Reachable, VotesAreTold, Import
    PROVE  VotesAreTold'
<1>1. /\ runner = "built" /\ plan # NoPlan /\ ImportPlan("original", plan)
      /\ UNCHANGED <<planFile, ledger, calendar, plan, votes, history>>
  BY DEF Import
<1>2. plan.race_id = Race.id
  BY <1>1 DEF Reachable, WellFormed, PlanTypes
<1>3. JournalsSayTheSame
  BY <1>1, ImportSaysTheSame DEF Daemons, Reachable
<1>4. /\ journals'["recovery"] = journals["recovery"]
      /\ plan.race_id \in DOMAIN journals'["original"]
      /\ journals'["original"][plan.race_id].plan = plan
  BY <1>1, ImportAdds DEF Daemons, Reachable
<1>5. Race' = Race
  BY <1>1 DEF Race, Done
<1>6. PlansAreKept'
  BY <1>1, <1>2, <1>4, <1>5 DEF VotesAreTold, PlansAreKept, Knows
<1>7. QED
  BY <1>1, <1>3, <1>6, SameKnown DEF VotesAreTold

\* a race that is passed changes no journal,
LEMMA PassTold ==
    ASSUME VotesAreTold, PassRace
    PROVE  VotesAreTold'
<1>1. runner' = "ready" /\ UNCHANGED <<votes, history, journals, planFile>>
  BY DEF PassRace, RaceOver, recoveryVars
<1>2. JournalsSayTheSame
  BY <1>1 DEF JournalsSayTheSame, InState, Knows
<1>3. PlansAreKept'
  BY <1>1 DEF VotesAreTold, PlansAreKept, Knows
<1>4. QED
  BY <1>1, <1>2, <1>3, SameKnown DEF VotesAreTold

\* A vote of a race nobody voted yet: the contest has it or it has not, and the daemon
\* says confirmed only of a vote that the contest has.
LEMMA CastTold ==
    ASSUME Reachable, VotesAreTold, NEW daemon \in Daemons, NEW race \in Ids, race \notin DOMAIN votes,
           Knows(daemon, race), NEW cast, IsVotable(cast), cast.race_id = race,
           journals[daemon][race].plan = cast, NEW state \in Outcomes,
           Cast(daemon, race, cast, state), UNCHANGED <<calendar, history>>
    PROVE  VotesAreKnown' /\ RowsAreVotes'
<1>1. /\ journals' = Moved(daemon, race, state)
      /\ \/ /\ state \in {"CONFIRMED", "AMBIGUOUS"}
            /\ DOMAIN votes' = DOMAIN votes \union {race}
            /\ votes'[race] = [plan |-> cast, paid |-> 0, settled |-> FALSE]
            /\ \A other \in DOMAIN votes : other # race => votes'[other] = votes[other]
         \/ state \in {"AMBIGUOUS", "REJECTED"} /\ votes' = votes
  BY CastTypes DEF Reachable
<1>2. /\ \A other \in Daemons : other # daemon => journals'[other] = journals[other]
      /\ DOMAIN journals'[daemon] = DOMAIN journals[daemon]
      /\ \A other \in DOMAIN journals[daemon] :
            /\ journals'[daemon][other].plan = journals[daemon][other].plan
            /\ journals'[daemon][other].state
                  = IF other = race THEN state ELSE journals[daemon][other].state
  BY <1>1, MoveKeeps DEF Reachable
<1>3. \A other \in DOMAIN votes : other # race /\ other \in DOMAIN votes' /\ votes'[other] = votes[other]
  BY <1>1
<1>4. ASSUME NEW any \in Daemons, NEW other, other # race
      PROVE  /\ other \in DOMAIN journals'[any] <=> other \in DOMAIN journals[any]
             /\ other \in DOMAIN journals[any] =>
                   /\ journals'[any][other].plan = journals[any][other].plan
                   /\ journals'[any][other].state = journals[any][other].state
  BY <1>2, <1>4
<1>5. ASSUME NEW any \in Daemons, NEW other \in DOMAIN journals'[any],
             journals'[any][other].state = "CONFIRMED"
      PROVE  other \in DOMAIN votes'
  <2>1. CASE other # race
    BY <1>3, <1>4, <1>5, <2>1 DEF VotesAreTold, VotesAreKnown, InState, Knows
  <2>2. CASE other = race /\ any = daemon
    <3>1. state = "CONFIRMED"
      BY <1>2, <1>5, <2>2 DEF Knows
    <3>2. QED
      BY <1>1, <2>2, <3>1
  <2>3. CASE other = race /\ any # daemon
    <3>1. journals'[any] = journals[any]
      BY <1>2, <2>3
    <3>2. race \in DOMAIN votes
      BY <1>5, <2>3, <3>1 DEF VotesAreTold, VotesAreKnown, InState, Knows
    <3>3. QED
      BY <3>2
  <2>4. QED
    BY <2>1, <2>2, <2>3
<1>6. ASSUME NEW other \in DOMAIN votes'
      PROVE  \E any \in Daemons :
                /\ other \in DOMAIN journals'[any] /\ journals'[any][other].plan = votes'[other].plan
                /\ journals'[any][other].state \in {"CONFIRMED", "AMBIGUOUS"}
  <2>1. CASE other = race
    <3>1. state \in {"CONFIRMED", "AMBIGUOUS"} /\ votes'[race].plan = cast
      <4>1. votes' # votes
        BY <1>6, <2>1
      <4>2. QED
        BY <1>1, <4>1
    <3>2. QED
      BY <1>2, <2>1, <3>1 DEF Knows
  <2>2. CASE other # race
    <3>1. other \in DOMAIN votes
      BY <1>1, <1>6, <2>2
    <3>2. PICK any \in Daemons :
            /\ other \in DOMAIN journals[any] /\ journals[any][other].plan = votes[other].plan
            /\ journals[any][other].state \in {"CONFIRMED", "AMBIGUOUS"}
      BY <3>1 DEF VotesAreTold, VotesAreKnown, Knows
    <3>3. QED
      BY <1>3, <1>4, <2>2, <3>1, <3>2
  <2>3. QED
    BY <2>1, <2>2
<1>7. RowsAreVotes'
  <2>1. ASSUME NEW other \in DOMAIN votes, SeenConfirmed(other)
        PROVE  SeenConfirmed(other)'
    BY <1>3, <1>4, <2>1 DEF SeenConfirmed, InState, Knows
  <2>2. ASSUME NEW i \in DOMAIN history'
        PROVE  /\ history'[i].race \in DOMAIN votes' /\ votes'[history'[i].race].settled
               /\ SeenConfirmed(history[i].race)' /\ history'[i].payout \in {0, votes'[history'[i].race].paid}
    <3>1. /\ history[i].race \in DOMAIN votes /\ votes[history[i].race].settled
          /\ SeenConfirmed(history[i].race) /\ history[i].payout \in {0, votes[history[i].race].paid}
          /\ history' = history
      BY DEF VotesAreTold, RowsAreVotes
    <3>2. QED
      BY <1>3, <2>1, <3>1
  <2>3. QED
    BY <2>2 DEF VotesAreTold, RowsAreVotes
<1>8. QED
  BY <1>5, <1>6, <1>7 DEF VotesAreKnown, InState, Knows

\* a vote that is accepted is in the journal with its plan,
LEMMA VoteTold ==
    ASSUME Reachable, VotesAreTold, Vote
    PROVE  VotesAreTold'
<1>1. PICK state \in Outcomes :
         /\ Cast("original", Race.id, plan, state)
         /\ RaceOver(IF state = "CONFIRMED" THEN PayloadStake(plan) ELSE 0)
  BY DEF Vote
<1>2. /\ runner = "imported" /\ Race.id \notin DOMAIN votes
      /\ UNCHANGED <<calendar, history, planFile>> /\ runner' = "ready"
  BY <1>1 DEF Vote, RaceOver
<1>3. IsVotable(plan) /\ plan.race_id = Race.id /\ Race.id \in Ids
  <2>1. plan # NoPlan /\ Done < Len(calendar) /\ calendar \in Calendars /\ Done \in Nat
    BY <1>2, LedgerParts DEF Reachable, WellFormed, PlanTypes, DayTypes, LedgerTypes, IsLedger, Done
  <2>2. QED
    BY <2>1, RaceParts DEF Reachable, WellFormed, PlanTypes
<1>4. Knows("original", Race.id) /\ journals["original"][Race.id].plan = plan
  BY <1>2 DEF VotesAreTold, PlansAreKept
<1>5. VotesAreKnown' /\ RowsAreVotes'
  BY <1>1, <1>2, <1>3, <1>4, CastTold DEF Daemons
<1>6. journals'["recovery"] = journals["recovery"]
  BY <1>1, MoveKeeps DEF Reachable, Cast, Daemons
<1>7. PlansAreKept'
  BY <1>2, <1>6 DEF VotesAreTold, PlansAreKept, Knows
<1>8. QED
  BY <1>5, <1>7 DEF VotesAreTold

\* and so is the vote of the recovery.
LEMMA RecoveryVoteTold ==
    ASSUME Reachable, VotesAreTold, RecoveryVote
    PROVE  VotesAreTold'
<1>1. /\ InState("recovery", RecoveryRace, "ARMED") /\ RecoveryRace \notin DOMAIN votes
      /\ UNCHANGED <<calendar, runner, plan, history, planFile>>
  BY DEF RecoveryVote
<1>2. PICK state \in Outcomes :
         /\ Cast("recovery", RecoveryRace, planFile, state)
         /\ LET stake == IF state = "CONFIRMED" THEN PayloadStake(planFile) ELSE 0
            IN  ledger' = [ledger EXCEPT !.bank = @ - stake, !.turnover = @ + stake]
  BY DEF RecoveryVote
<1>3. /\ IsVotable(planFile) /\ RecoveryRace \in Ids /\ planFile.race_id = RecoveryRace
  BY RecoveryVoteParts DEF Reachable
<1>4. Knows("recovery", RecoveryRace) /\ journals["recovery"][RecoveryRace].plan = planFile
  BY <1>1 DEF VotesAreTold, PlansAreKept, InState
<1>5. VotesAreKnown' /\ RowsAreVotes'
  BY <1>1, <1>2, <1>3, <1>4, CastTold DEF Daemons
<1>6. /\ journals'["original"] = journals["original"]
      /\ journals'["recovery"][RecoveryRace].plan = journals["recovery"][RecoveryRace].plan
  BY <1>2, <1>4, MoveKeeps DEF Reachable, Cast, Daemons, Knows
<1>7. Race' = Race
  <2>1. ledger'.front_races_done = ledger.front_races_done
    <3>1. ledger \in Ledgers
      BY DEF Reachable, WellFormed, LedgerTypes
    <3>2. QED
      BY <1>2, <3>1 DEF Ledgers
  <2>2. QED
    BY <1>1, <2>1 DEF Race, Done
<1>8. PlansAreKept'
  BY <1>1, <1>4, <1>6, <1>7 DEF VotesAreTold, PlansAreKept, Knows
<1>9. QED
  BY <1>5, <1>8 DEF VotesAreTold

\* A race is known by a number.
LEMMA IdsAreNat ==
    ASSUME calendar \in Calendars
    PROVE  Ids \subseteq Nat
<1>1. calendar \in Seq([id : Nat \ {0}, post : Nat, script : STRING])
  BY CalendarAssumption
<1>2. \A i \in DOMAIN calendar : calendar[i] \in [id : Nat \ {0}, post : Nat, script : STRING]
  BY <1>1, SeqParts
<1>3. QED
  BY <1>2 DEF Ids

\* What settles is voted once, and the caller notes at most one row of it.
LEMMA SettleTold ==
    ASSUME Reachable, VotesAreTold, Settle
    PROVE  VotesAreTold'
<1>1. UNCHANGED <<calendar, runner, plan, journals, planFile>>
  BY DEF Settle, recoveryVars
<1>2. PICK race \in DOMAIN votes, row \in BOOLEAN, paid \in Nat, noted \in Nat :
         Settles(race, row, paid, noted)
  BY SettleParts DEF Reachable
<1> DEFINE counted == row /\ SeenConfirmed(race)
           entry == [race |-> race, stake |-> PayloadStake(votes[race].plan), payout |-> noted]
<1>3. /\ noted \in {0, paid} /\ ~votes[race].settled
      /\ DOMAIN votes' = DOMAIN votes
      /\ votes'[race] = [plan |-> votes[race].plan, paid |-> paid, settled |-> TRUE]
      /\ \A other \in DOMAIN votes : other # race => votes'[other] = votes[other]
      /\ ledger' = IF counted THEN [ledger EXCEPT !.bank = @ + noted] ELSE ledger
      /\ history' = IF ~counted THEN history ELSE Append(history, entry)
  BY <1>2 DEF Settles
<1>4. \A other : SeenConfirmed(other)' <=> SeenConfirmed(other)
  BY <1>1 DEF SeenConfirmed, InState, Knows
<1>5. Race' = Race
  <2>1. ledger'.front_races_done = ledger.front_races_done
    <3>1. ledger \in Ledgers
      BY DEF Reachable, WellFormed, LedgerTypes
    <3>2. QED
      BY <1>3, <3>1 DEF Ledgers
  <2>2. QED
    BY <1>1, <2>1 DEF Race, Done
<1>6. PlansAreKept'
  BY <1>1, <1>5 DEF VotesAreTold, PlansAreKept, Knows
<1>7. \A other \in DOMAIN votes : other \in DOMAIN votes' /\ votes'[other].plan = votes[other].plan
  BY <1>3
<1>8. VotesAreKnown'
  BY <1>1, <1>3, <1>7 DEF VotesAreTold, VotesAreKnown, InState, Knows
<1>9. ASSUME NEW i \in DOMAIN history
      PROVE  /\ history[i].race # race /\ history[i].race \in DOMAIN votes'
             /\ votes'[history[i].race].settled /\ SeenConfirmed(history[i].race)'
             /\ history[i].payout \in {0, votes'[history[i].race].paid}
  <2>1. /\ history[i].race \in DOMAIN votes /\ votes[history[i].race].settled
        /\ SeenConfirmed(history[i].race) /\ history[i].payout \in {0, votes[history[i].race].paid}
    BY DEF VotesAreTold, RowsAreVotes
  <2>2. history[i].race # race
    BY <1>3, <2>1
  <2>3. QED
    BY <1>3, <1>4, <2>1, <2>2
<1>10. RowsAreVotes'
  <2>1. CASE history' = history
    BY <1>9, <2>1 DEF VotesAreTold, RowsAreVotes
  <2>2. CASE history' # history
    <3> DEFINE new == entry
    <3>1. history' = Append(history, new) /\ SeenConfirmed(race)
      BY <1>3, <2>2
    <3>2. new.race = race /\ new.payout \in {0, paid} /\ new \in HistoryRows
      <4>1. PayloadStake(votes[race].plan) \in Nat \ {0}
        <5>1. IsVotable(votes[race].plan)
          BY DEF Reachable, WellFormed, VoteTypes, IsVote
        <5>2. QED
          BY <5>1, WholePlan DEF IsVotable
      <4>2. race \in Nat
        BY IdsAreNat DEF Reachable, WellFormed, DayTypes, VoteTypes
      <4>3. noted \in {0, paid}
        BY <1>3
      <4>4. QED
        BY <4>1, <4>2, <4>3 DEF HistoryRows
    <3> HIDE DEF new
    <3>3. history \in Seq(HistoryRows)
      BY DEF VotesAreTold, RowsAreVotes
    <3> DEFINE n == Len(history)
    <3>4. /\ history' \in Seq(HistoryRows) /\ DOMAIN history' = 1..(n + 1) /\ DOMAIN history = 1..n
          /\ n \in Nat /\ history'[n + 1] = new /\ \A i \in 1..n : history'[i] = history[i]
      BY <3>1, <3>2, <3>3
    <3> HIDE DEF n
    <3>5. \A i \in DOMAIN history' : i \in DOMAIN history \/ i = n + 1
      BY <3>4
    <3>6. ASSUME NEW i \in DOMAIN history', NEW j \in DOMAIN history', history'[i].race = history'[j].race
          PROVE  i = j
      <4>1. CASE i \in DOMAIN history /\ j \in DOMAIN history
        BY <3>4, <3>6, <4>1 DEF VotesAreTold, RowsAreVotes
      <4>2. CASE i \in DOMAIN history /\ j = n + 1
        BY <1>9, <3>2, <3>4, <3>6, <4>2
      <4>3. CASE i = n + 1 /\ j \in DOMAIN history
        BY <1>9, <3>2, <3>4, <3>6, <4>3
      <4>4. QED
        BY <3>5, <4>1, <4>2, <4>3
    <3>7. ASSUME NEW i \in DOMAIN history'
          PROVE  /\ history'[i].race \in DOMAIN votes' /\ votes'[history'[i].race].settled
                 /\ SeenConfirmed(history'[i].race)
                 /\ history'[i].payout \in {0, votes'[history'[i].race].paid}
      <4>1. CASE i \in DOMAIN history
        <5>1. history'[i] = history[i]
          BY <3>4, <4>1
        <5>2. QED
          BY <1>4, <1>9, <4>1, <5>1
      <4>2. CASE i = n + 1
        <5>1. history'[i] = new
          BY <3>4, <4>2
        <5>2. /\ race \in DOMAIN votes' /\ votes'[race].settled /\ votes'[race].paid = paid
              /\ SeenConfirmed(race)
          BY <1>3, <3>1
        <5>3. QED
          BY <3>2, <5>1, <5>2
      <4>3. QED
        BY <3>5, <4>1, <4>2
    <3>8. QED
      BY <1>1, <3>4, <3>6, <3>7 DEF RowsAreVotes, SeenConfirmed, InState, Knows
  <2>3. QED
    BY <2>1, <2>2
<1>11. QED
  BY <1>6, <1>8, <1>10 DEF VotesAreTold

\* The recovery's ticks write, import and arm its plan; none of them votes.
LEMMA RecoveryStepTold ==
    ASSUME Reachable, VotesAreTold, RecoveryStep
    PROVE  VotesAreTold'
<1>1. UNCHANGED dayVars
  BY DEF RecoveryStep
<1>2. UNCHANGED <<runner, plan, votes, history>> /\ Race' = Race
  BY <1>1 DEF dayVars, Race, Done
<1>3. SUFFICES JournalsSayTheSame /\ PlansAreKept'
  BY <1>2, SameKnown DEF VotesAreTold
<1>4. ASSUME UNCHANGED <<journals, planFile>> PROVE JournalsSayTheSame /\ PlansAreKept'
  BY <1>2, <1>4 DEF JournalsSayTheSame, InState, Knows, VotesAreTold, PlansAreKept
<1>5. CASE Kill \/ Prepare(ledger.turnover) \/ TickOpens \/ TickEnds
  BY <1>4, <1>5 DEF Kill, Prepare, TickOpens, TickEnds
<1>6. CASE \E new \in RecoveryPlans : TickWrites(new)
  <2>1. journals' = journals /\ (planFile # NoPlan => planFile' = planFile)
    BY <1>6 DEF TickWrites
  <2>2. JournalsSayTheSame
    BY <2>1 DEF JournalsSayTheSame, InState, Knows
  <2>3. Knows("recovery", RecoveryRace) => planFile # NoPlan
    BY DEF Knows, Reachable, WellFormed, RecoveryTypes
  <2>4. QED
    BY <1>2, <2>1, <2>2, <2>3 DEF VotesAreTold, PlansAreKept, Knows
<1>7. CASE TickImports
  <2>1. /\ ImportPlan("recovery", planFile) /\ planFile' = planFile /\ planFile.race_id = RecoveryRace
    BY <1>7 DEF TickImports, Reachable, RecoveryIsAlone
  <2>2. JournalsSayTheSame
    BY <2>1, ImportSaysTheSame DEF Daemons, Reachable
  <2>3. /\ journals'["original"] = journals["original"]
        /\ journals'["recovery"][RecoveryRace].plan = planFile
    BY <2>1, ImportAdds DEF Daemons, Reachable
  <2>4. QED
    BY <1>2, <2>1, <2>2, <2>3 DEF VotesAreTold, PlansAreKept, Knows
<1>8. CASE TickArms
  <2>1. /\ InState("recovery", RecoveryRace, "VALIDATED") /\ planFile' = planFile
        /\ journals' = Moved("recovery", RecoveryRace, "ARMED")
    BY <1>8 DEF TickArms
  <2>2. /\ journals'["original"] = journals["original"]
        /\ DOMAIN journals'["recovery"] = DOMAIN journals["recovery"]
        /\ \A race \in DOMAIN journals["recovery"] :
              /\ journals'["recovery"][race].plan = journals["recovery"][race].plan
              /\ journals'["recovery"][race].state
                    = IF race = RecoveryRace THEN "ARMED" ELSE journals["recovery"][race].state
    BY <2>1, MoveKeeps DEF Daemons, Reachable
  <2>3. JournalsSayTheSame
    BY <2>1, <2>2 DEF JournalsSayTheSame, InState, Knows, Daemons
  <2>4. QED
    BY <1>2, <2>1, <2>2, <2>3 DEF VotesAreTold, PlansAreKept, Knows, InState
<1>9. QED
  BY <1>5, <1>6, <1>7, <1>8 DEF RecoveryStep

\* Every step keeps the votes told.
LEMMA NextTold == Reachable /\ VotesAreTold /\ [Next]_vars => VotesAreTold'
<1> SUFFICES ASSUME Reachable, VotesAreTold, [Next]_vars PROVE VotesAreTold'
  OBVIOUS
<1>1. calendar \in Calendars /\ IsLedger(ledger)
  BY LedgerParts DEF Reachable, WellFormed, DayTypes
<1>2. CASE TableRace
  BY <1>1, <1>2, TableHands, HandedTold
<1>3. CASE TailRace
  BY <1>1, <1>3, TailHands, HandedTold
<1>4. CASE Sanrentan3Race
  BY <1>1, <1>4, Sanrentan3Hands, HandedTold
<1>5. CASE AllinRace
  BY <1>1, <1>5, AllinHands, HandedTold
<1>6. CASE DynamicRace
  BY <1>1, <1>6, DynamicHands, HandedTold
<1>7. CASE Import
  BY <1>7, ImportTold
<1>8. CASE PassRace
  BY <1>8, PassTold
<1>9. CASE Vote
  BY <1>9, VoteTold
<1>10. CASE RecoveryVote
  BY <1>10, RecoveryVoteTold
<1>11. CASE Settle
  BY <1>11, SettleTold
<1>12. CASE RecoveryStep
  BY <1>12, RecoveryStepTold
<1>13. CASE UNCHANGED vars
  <2>1. UNCHANGED <<runner, plan, votes, history, journals, planFile>> /\ Race' = Race
    BY <1>13 DEF vars, dayVars, recoveryVars, Race, Done
  <2>2. JournalsSayTheSame
    BY <2>1 DEF JournalsSayTheSame, InState, Knows
  <2>3. PlansAreKept'
    BY <2>1 DEF VotesAreTold, PlansAreKept, Knows
  <2>4. QED
    BY <2>1, <2>2, <2>3, SameKnown DEF VotesAreTold
<1>14. QED
  BY <1>2, <1>3, <1>4, <1>5, <1>6, <1>7, <1>8, <1>9, <1>10, <1>11, <1>12, <1>13 DEF Next

\* Of two snapshots the first has the say.
LEMMA EntriesOfTwo ==
    ASSUME NEW a, NEW b
    PROVE  /\ DOMAIN Entries(<<a, b>>) = DOMAIN a \union DOMAIN b
           /\ \A race \in DOMAIN a : Entries(<<a, b>>)[race] = a[race]
           /\ \A race \in DOMAIN b \ DOMAIN a : Entries(<<a, b>>)[race] = b[race]
<1> DEFINE snapshots == <<a, b>>
           taken(race, i) == /\ race \in DOMAIN snapshots[i]
                             /\ \A j \in 1..(i - 1) : race \notin DOMAIN snapshots[j]
           first(race) == CHOOSE i \in DOMAIN snapshots : taken(race, i)
<1>1. DOMAIN snapshots = 1..2 /\ snapshots[1] = a /\ snapshots[2] = b
  OBVIOUS
<1>2. Entries(snapshots) = [race \in UNION {DOMAIN snapshots[i] : i \in DOMAIN snapshots} |->
                               snapshots[first(race)][race]]
  BY DEF Entries
<1> HIDE DEF snapshots
<1>3. UNION {DOMAIN snapshots[i] : i \in DOMAIN snapshots} = DOMAIN a \union DOMAIN b
  <2>1. 1 \in DOMAIN snapshots /\ 2 \in DOMAIN snapshots /\ \A i \in DOMAIN snapshots : i = 1 \/ i = 2
    BY <1>1
  <2>2. QED
    BY <1>1, <2>1
<1>4. ASSUME NEW race, NEW k \in DOMAIN snapshots, taken(race, k),
             \A i \in DOMAIN snapshots : taken(race, i) => i = k
      PROVE  first(race) = k
  <2> HIDE DEF taken
  <2>1. QED
    BY <1>4
<1>5. ASSUME NEW race \in DOMAIN a PROVE first(race) = 1
  <2>1. 1 \in DOMAIN snapshots /\ taken(race, 1)
    BY <1>1
  <2>2. ASSUME NEW i \in DOMAIN snapshots, taken(race, i) PROVE i = 1
    <3>1. CASE i = 2
      <4>1. race \notin DOMAIN snapshots[1]
        BY <2>2, <3>1
      <4>2. QED
        BY <1>1, <4>1
    <3>2. QED
      BY <1>1, <3>1
  <2> HIDE DEF taken, first
  <2>3. QED
    BY <1>4, <2>1, <2>2
<1>6. ASSUME NEW race \in DOMAIN b \ DOMAIN a PROVE first(race) = 2
  <2>1. 2 \in DOMAIN snapshots /\ taken(race, 2)
    <3>1. \A j \in 1..(2 - 1) : j = 1
      OBVIOUS
    <3>2. QED
      BY <1>1, <3>1
  <2>2. ASSUME NEW i \in DOMAIN snapshots, taken(race, i) PROVE i = 2
    <3>1. i # 1
      BY <1>1, <2>2
    <3>2. QED
      BY <1>1, <3>1
  <2> HIDE DEF taken, first
  <2>3. QED
    BY <1>4, <2>1, <2>2
<1> HIDE DEF first, taken
<1>7. /\ DOMAIN Entries(snapshots) = DOMAIN a \union DOMAIN b
      /\ \A race \in DOMAIN a \union DOMAIN b : Entries(snapshots)[race] = snapshots[first(race)][race]
  BY <1>2, <1>3
<1>8. \A race \in DOMAIN a : Entries(snapshots)[race] = a[race]
  BY <1>1, <1>5, <1>7
<1>9. \A race \in DOMAIN b \ DOMAIN a : Entries(snapshots)[race] = b[race]
  BY <1>1, <1>6, <1>7
<1>10. QED
  BY <1>7, <1>8, <1>9 DEF snapshots

\* A calendar has finitely many races, so there are finitely many votes.
LEMMA FewVotes == Reachable => IsFiniteSet(DOMAIN votes)
<1> SUFFICES ASSUME Reachable PROVE IsFiniteSet(DOMAIN votes)
  OBVIOUS
<1>1. calendar \in Seq([id : Nat \ {0}, post : Nat, script : STRING])
  BY CalendarAssumption DEF Reachable, WellFormed, DayTypes
<1> DEFINE n == Len(calendar)
           S == 1..n
<1>2. DOMAIN calendar = 1..n /\ n \in Nat
  BY <1>1
<1>3. Ids = {calendar[i].id : i \in S}
  BY <1>2 DEF Ids
<1> HIDE DEF n
<1>4. IsFiniteSet(S)
  <2>1. 1 \in Int /\ n \in Int
    BY <1>2
  <2>2. QED
    BY <2>1, FS_Interval
<1> HIDE DEF S
<1>5. [i \in S |-> calendar[i].id] \in Surjection(S, Ids)
  BY <1>3 DEF Surjection
<1>6. IsFiniteSet(Ids)
  BY <1>4, <1>5, FS_Surjection
<1>7. DOMAIN votes \subseteq Ids
  BY DEF Reachable, WellFormed, VoteTypes
<1>8. QED
  BY <1>6, <1>7, FS_Subset

\* With one row at most of each race, a race's payout is its row's.
LEMMA PayoutsAreRows ==
    ASSUME NEW rows \in Seq(HistoryRows),
           \A i, j \in DOMAIN rows : rows[i].race = rows[j].race => i = j
    PROVE  /\ DOMAIN Payouts(rows) = {rows[i].race : i \in DOMAIN rows}
           /\ \A i \in DOMAIN rows : Payouts(rows)[rows[i].race] = rows[i].payout
<1> DEFINE bet == {i \in DOMAIN rows : rows[i].stake > 0}
           named(race) == {i \in bet : rows[i].race = race}
<1>1. /\ DOMAIN rows = 1..Len(rows) /\ \A i \in DOMAIN rows : rows[i] \in HistoryRows
  BY SeqParts
<1>2. \A i \in DOMAIN rows : rows[i].stake > 0 /\ rows[i].payout \in Int
  BY <1>1 DEF HistoryRows
<1>3. bet = DOMAIN rows
  BY <1>2
<1>4. Payouts(rows) = [race \in {rows[i].race : i \in bet} |->
                          SumOn([i \in named(race) |-> rows[i].payout], named(race))]
  BY DEF Payouts, SumOver, SumOn
<1> HIDE DEF bet
<1>5. ASSUME NEW i \in DOMAIN rows PROVE Payouts(rows)[rows[i].race] = rows[i].payout
  <2>1. named(rows[i].race) = {i}
    BY <1>3
  <2>2. Payouts(rows)[rows[i].race]
           = SumOn([k \in named(rows[i].race) |-> rows[k].payout], named(rows[i].race))
    BY <1>3, <1>4
  <2>3. Payouts(rows)[rows[i].race] = SumOn([k \in {i} |-> rows[k].payout], {i})
    BY <2>1, <2>2
  <2> DEFINE f == [k \in {i} |-> rows[k].payout]
  <2>4. f[i] = rows[i].payout /\ f[i] \in Int
    BY <1>2
  <2> HIDE DEF f
  <2>5. SumOn(f, {i}) = f[i]
    BY <2>4, SumOne
  <2>6. QED
    BY <2>3, <2>4, <2>5 DEF f
<1>6. DOMAIN Payouts(rows) = {rows[i].race : i \in DOMAIN rows}
  BY <1>3, <1>4
<1>7. QED
  BY <1>5, <1>6

\* The votes that a daemon has seen confirmed.
Seen == {race \in DOMAIN votes : SeenConfirmed(race)}

\* The ledger's entries: what the daemons saw of each vote.
LEMMA EntriesAreVotes ==
    ASSUME Reachable, VotesAreTold,
           NEW entries, entries = Entries(<<journals["recovery"], journals["original"]>>)
    PROVE  /\ Confirmed(entries) = Seen
           /\ \A race \in DOMAIN votes :
                 race \in DOMAIN entries /\ entries[race].plan = votes[race].plan
<1> DEFINE rec == journals["recovery"]
           orig == journals["original"]
<1>1. /\ DOMAIN entries = DOMAIN rec \union DOMAIN orig
      /\ \A race \in DOMAIN rec : entries[race] = rec[race]
      /\ \A race \in DOMAIN orig \ DOMAIN rec : entries[race] = orig[race]
  BY EntriesOfTwo
<1>2. ASSUME NEW race \in DOMAIN rec, race \in DOMAIN orig
      PROVE  orig[race].state = "VALIDATED"
  <2>1. race = RecoveryRace /\ OriginalIsOut
    BY DEF Reachable, RecoveryIsAlone, Recovering
  <2>2. QED
    BY <1>2, <2>1 DEF OriginalIsOut, InState, Knows
<1>3. \A daemon \in Daemons : journals[daemon] \in {rec, orig}
  BY DEF Daemons
<1>4. ASSUME NEW daemon \in Daemons, NEW race \in DOMAIN journals[daemon],
             journals[daemon][race].state # "VALIDATED"
      PROVE  race \in DOMAIN entries /\ entries[race] = journals[daemon][race]
  <2>1. CASE journals[daemon] = rec
    BY <1>1, <2>1
  <2>2. CASE journals[daemon] = orig
    <3>1. race \in DOMAIN orig \ DOMAIN rec
      BY <1>2, <1>4, <2>2
    <3>2. QED
      BY <1>1, <2>2, <3>1
  <2>3. QED
    BY <1>3, <2>1, <2>2
<1>5. ASSUME NEW race \in DOMAIN entries
      PROVE  \E daemon \in Daemons : race \in DOMAIN journals[daemon] /\ entries[race] = journals[daemon][race]
  BY <1>1 DEF Daemons
<1> HIDE DEF rec, orig
<1>6. ASSUME NEW race \in DOMAIN votes
      PROVE  race \in DOMAIN entries /\ entries[race].plan = votes[race].plan
  <2>1. PICK daemon \in Daemons :
          /\ race \in DOMAIN journals[daemon] /\ journals[daemon][race].plan = votes[race].plan
          /\ journals[daemon][race].state \in {"CONFIRMED", "AMBIGUOUS"}
    BY DEF VotesAreTold, VotesAreKnown, Knows
  <2>2. journals[daemon][race].state # "VALIDATED"
    BY <2>1
  <2>3. QED
    BY <1>4, <2>1, <2>2
<1>7. ASSUME NEW race \in Confirmed(entries) PROVE race \in Seen
  <2>1. race \in DOMAIN entries /\ entries[race].state = "CONFIRMED"
    BY DEF Confirmed
  <2>2. PICK daemon \in Daemons : race \in DOMAIN journals[daemon] /\ entries[race] = journals[daemon][race]
    BY <1>5, <2>1
  <2>3. InState(daemon, race, "CONFIRMED")
    BY <2>1, <2>2 DEF InState, Knows
  <2>4. race \in DOMAIN votes
    BY <2>2, <2>3 DEF VotesAreTold, VotesAreKnown
  <2>5. QED
    BY <2>3, <2>4 DEF Seen, SeenConfirmed
<1>8. ASSUME NEW race \in Seen PROVE race \in Confirmed(entries)
  <2>1. PICK daemon \in Daemons : InState(daemon, race, "CONFIRMED")
    BY DEF Seen, SeenConfirmed
  <2>2. race \in DOMAIN entries /\ entries[race] = journals[daemon][race]
    BY <1>4, <2>1 DEF InState, Knows
  <2>3. QED
    BY <2>1, <2>2 DEF Confirmed, InState
<1>9. QED
  BY <1>6, <1>7, <1>8

\* The caller's rows are of votes that were seen, with what they paid or nothing.
LEMMA RowsArePaid ==
    ASSUME Reachable, VotesAreTold, NEW payouts, payouts = Payouts(history)
    PROVE  /\ DOMAIN payouts \subseteq Seen
           /\ \A race \in DOMAIN payouts : payouts[race] \in {0, votes[race].paid}
<1>1. /\ DOMAIN payouts = {history[i].race : i \in DOMAIN history}
      /\ \A i \in DOMAIN history : payouts[history[i].race] = history[i].payout
  BY PayoutsAreRows DEF VotesAreTold, RowsAreVotes
<1>2. ASSUME NEW race \in DOMAIN payouts
      PROVE  race \in Seen /\ payouts[race] \in {0, votes[race].paid}
  <2>1. PICK i \in DOMAIN history : race = history[i].race
    BY <1>1
  <2>2. /\ race \in DOMAIN votes /\ SeenConfirmed(race)
        /\ history[i].payout \in {0, votes[race].paid}
    BY <2>1 DEF VotesAreTold, RowsAreVotes
  <2>3. QED
    BY <1>1, <2>1, <2>2 DEF Seen
<1>3. QED
  BY <1>2


\* Votes that are told are in the ledger, and bound what is unknown.
LEMMA ToldAreHeld == Reachable /\ VotesAreTold => LedgerHoldsVotes
<1> SUFFICES ASSUME Reachable, VotesAreTold PROVE LedgerHoldsVotes
  OBVIOUS
<1>1. PICK entries : entries = Entries(<<journals["recovery"], journals["original"]>>)
  OBVIOUS
<1>2. PICK payouts : payouts = Payouts(history)
  OBVIOUS
<1> DEFINE V == DOMAIN votes
           P == DOMAIN payouts
           stakes == [race \in DOMAIN entries |-> PayloadStake(entries[race].plan)]
           stake == [race \in V |-> PayloadStake(votes[race].plan)]
           paid == [race \in V |-> votes[race].paid]
<1>3. /\ Confirmed(entries) = Seen
      /\ \A race \in V : race \in DOMAIN entries /\ entries[race].plan = votes[race].plan
  BY <1>1, EntriesAreVotes
<1>4. P \subseteq Seen /\ \A race \in P : payouts[race] \in {0, votes[race].paid}
  BY <1>2, RowsArePaid
<1>5. IsFiniteSet(V) /\ Seen \subseteq V
  BY FewVotes DEF Seen
<1>6. \A race \in V : /\ stake[race] \in Int /\ paid[race] \in Nat
                     /\ paid[race] = votes[race].paid
  <2>1. ASSUME NEW race \in V PROVE PayloadStake(votes[race].plan) \in Int /\ votes[race].paid \in Nat
    <3>1. IsVote(votes[race])
      BY DEF Reachable, WellFormed, VoteTypes
    <3>2. PayloadStake(votes[race].plan) \in Nat
      BY <3>1, WholePlan DEF IsVote, IsVotable
    <3>3. QED
      BY <3>1, <3>2 DEF IsVote
  <2>2. QED
    BY <2>1
<1>7. Official = InitialBank - SumOn(stake, V) + SumOn(paid, V)
  BY DEF Official, SumOver, SumOn
<1>8. ASSUME V \subseteq Confirmed(entries)
      PROVE  SumOver(LAMBDA race : votes[race].paid, UnknownPayout(entries, payouts))
                <= UnexplainedCredit(Official, ImpliedBank(InitialBank, entries, payouts, stakes))
  <2>1. Confirmed(entries) = V
    BY <1>3, <1>5, <1>8
  <2>2. KnownPayout(entries, payouts) = P /\ UnknownPayout(entries, payouts) = V \ P
    BY <1>3, <1>4, <2>1 DEF KnownPayout, UnknownPayout
  <2>3. ImpliedBank(InitialBank, entries, payouts, stakes)
           = InitialBank - SumOn(stake, V) + SumOn(payouts, P)
    <3> DEFINE f == [race \in V |-> stakes[race]]
               g == [race \in P |-> payouts[race]]
    <3>1. ImpliedBank(InitialBank, entries, payouts, stakes)
             = InitialBank - SumOn(f, V) + SumOn(g, P)
      <4> HIDE DEF stakes, P, V
      <4>1. QED
        BY <2>1, <2>2 DEF ImpliedBank, SumOver, SumOn
    <3>2. SumOn(f, V) = SumOn(stake, V)
      <4>1. \A race \in V : f[race] = stake[race]
        BY <1>3
      <4> HIDE DEF f, stake, V
      <4>2. QED
        BY <1>5, <4>1, SumSame
    <3>3. SumOn(g, P) = SumOn(payouts, P)
      <4>1. IsFiniteSet(P)
        BY <1>4, <1>5, FS_Subset
      <4>2. \A race \in P : g[race] = payouts[race]
        OBVIOUS
      <4> HIDE DEF g, P
      <4>3. QED
        BY <4>1, <4>2, SumSame
    <3>4. QED
      BY <3>1, <3>2, <3>3
  <2>4. SumOver(LAMBDA race : votes[race].paid, V \ P) = SumOn(paid, V \ P)
    <3> DEFINE f == [race \in V \ P |-> votes[race].paid]
    <3>1. SumOver(LAMBDA race : votes[race].paid, V \ P) = SumOn(f, V \ P)
      BY DEF SumOver, SumOn
    <3>2. \A race \in V \ P : f[race] = paid[race]
      OBVIOUS
    <3>3. IsFiniteSet(V \ P)
      BY <1>5, FS_Subset
    <3> HIDE DEF f, paid, P, V
    <3>4. QED
      BY <3>1, <3>2, <3>3, SumSame
  <2>5. \A race \in P : payouts[race] \in {0, paid[race]}
    BY <1>4, <1>5, <1>6
  <2>6. InitialBank \in Int /\ P \in SUBSET V
    BY <1>4, <1>5, CalendarAssumption
  <2> HIDE DEF V, P, stake, paid, stakes
  <2>7. SumOn(paid, V \ P)
           <= (InitialBank - SumOn(stake, V) + SumOn(paid, V))
                 - (InitialBank - SumOn(stake, V) + SumOn(payouts, P))
    BY <1>5, <1>6, <2>5, <2>6, CreditBounds
  <2>8. UnknownPayout(entries, payouts) = V \ P
    BY <2>2
  <2>9. QED
    BY <1>7, <2>3, <2>4, <2>7, <2>8 DEF UnexplainedCredit
<1>9. Confirmed(entries) \subseteq DOMAIN votes
  BY <1>3, <1>5
<1>10. \A race \in DOMAIN votes : race \in DOMAIN entries /\ entries[race].plan = votes[race].plan
  BY <1>3
<1>11. QED
  BY <1>1, <1>2, <1>8, <1>9, <1>10 DEF LedgerHoldsVotes, V, stakes

\* build_ledger.py may rely on the snapshots: at any time, whichever markets, refunds,
\* outcomes and rows there were, every vote the contest took is in the ledger with the
\* plan that was cast, every confirmed entry is such a vote, and when all votes were seen
\* confirmed the credit that is left unexplained bounds the payouts without a row.
THEOREM LedgerHolds == Spec => []LedgerHoldsVotes
<1>1. Init => Reachable /\ VotesAreTold
  BY ReachableIsInductive, InitTold
<1>2. Reachable /\ VotesAreTold /\ [Next]_vars => (Reachable /\ VotesAreTold)'
  BY ReachableIsInductive, NextTold
<1>3. Reachable /\ VotesAreTold => LedgerHoldsVotes
  BY ToldAreHeld
<1>4. QED
  BY <1>1, <1>2, <1>3, PTL DEF Spec
=============================================================================
