---------------------------- MODULE PlanDayProof ----------------------------
(***************************************************************************)
(* The planner, the paper contest and the back test, for every policy,     *)
(* panel, bank, clock and sequence of results.                             *)
(***************************************************************************)
EXTENDS Backtest, PlanningProof

-----------------------------------------------------------------------------
(* The panel. *)

\* The order of load_panel.
RaceBefore(r, q) == r.post < q.post \/ (r.post = q.post /\ r.id < q.id)

\* A date's races are loaded once each, by post time and then by id.
LEMMA PanelSorted ==
    ASSUME NEW R \in Panels
    PROVE  /\ LoadPanel(R) \in Seq(R) /\ LoadPanel(R) # <<>>
           /\ \A i, j \in 1..Len(LoadPanel(R)) :
                 i < j => /\ RaceBefore(LoadPanel(R)[i], LoadPanel(R)[j])
                          /\ LoadPanel(R)[i].id # LoadPanel(R)[j].id
<1> DEFINE before == {x \in R \X R : RaceBefore(x[1], x[2])}
<1>1. IsFiniteSet(R) /\ R # {} /\ Cardinality(R) \in Nat /\ Cardinality(R) # 0
  BY DayAssumption, FS_CardinalityType, FS_EmptySet
<1>2. \A r \in R : r.id \in Nat /\ r.post \in Nat
  BY DayAssumption
<1>3. \A r, q \in R : r.id = q.id => r = q
  BY DayAssumption
<1>4. \A r, q \in R : <<r, q>> \in before <=> RaceBefore(r, q)
  OBVIOUS
<1>5. LoadPanel(R) = InOrder(before, R)
  <2>1. \A r \in R : Rank(before, R, r) = Cardinality({q \in R : RaceBefore(q, r)})
    <3>1. \A r \in R : {q \in R : <<q, r>> \in before} = {q \in R : RaceBefore(q, r)}
      BY <1>4
    <3>2. QED
      BY <3>1 DEF Rank
  <2>2. LoadPanel(R) = [n \in 1..Cardinality(R) |->
                           CHOOSE r \in R : Cardinality({q \in R : RaceBefore(q, r)}) = n - 1]
    BY DEF LoadPanel, Ordered, RaceBefore
  <2>3. InOrder(before, R) = [n \in 1..Cardinality(R) |->
                                 CHOOSE r \in R : Rank(before, R, r) = n - 1]
    BY DEF InOrder
  <2> HIDE DEF before
  <2>4. ASSUME NEW n \in 1..Cardinality(R)
        PROVE  (CHOOSE r \in R : Cardinality({q \in R : RaceBefore(q, r)}) = n - 1)
                  = CHOOSE r \in R : Rank(before, R, r) = n - 1
    BY <2>1
  <2>5. QED
    BY <2>2, <2>3, <2>4
<1> HIDE DEF before
<1>6. Orders(before, R)
  <2>1. \A r \in R : ~RaceBefore(r, r)
    BY <1>2 DEF RaceBefore
  <2>2. \A r, q, t \in R : RaceBefore(r, q) /\ RaceBefore(q, t) => RaceBefore(r, t)
    BY <1>2 DEF RaceBefore
  <2>3. ASSUME NEW r \in R, NEW q \in R, r # q PROVE RaceBefore(r, q) \/ RaceBefore(q, r)
    <3>1. r.id # q.id
      BY <1>3, <2>3
    <3>2. r.id \in Nat /\ q.id \in Nat /\ r.post \in Nat /\ q.post \in Nat
      BY <1>2
    <3>3. PICK a \in Nat, b \in Nat, c \in Nat, d \in Nat :
             a = r.id /\ b = q.id /\ c = r.post /\ d = q.post
      BY <3>2
    <3>4. c < d \/ d < c \/ (c = d /\ a < b) \/ (d = c /\ b < a)
      BY <3>1, <3>3
    <3>5. QED
      BY <3>3, <3>4 DEF RaceBefore
  <2>4. QED
    BY <1>4, <2>1, <2>2, <2>3 DEF Orders
<1>7. /\ InOrder(before, R) \in Seq(R) /\ Len(InOrder(before, R)) = Cardinality(R)
      /\ \A i, j \in 1..Cardinality(R) :
            i < j => <<InOrder(before, R)[i], InOrder(before, R)[j]>> \in before
  BY <1>1, <1>6, OrderSorts
<1> DEFINE p == LoadPanel(R)
<1>8. p \in Seq(R) /\ Len(p) = Cardinality(R) /\ \A i, j \in 1..Len(p) :
         i < j => <<p[i], p[j]>> \in before
  BY <1>5, <1>7
<1> HIDE DEF p
<1>9. \A i \in 1..Len(p) : p[i] \in R
  BY <1>8
<1>10. p # <<>>
  BY <1>1, <1>8
<1>11. ASSUME NEW i \in 1..Len(p), NEW j \in 1..Len(p), i < j
       PROVE  RaceBefore(p[i], p[j]) /\ p[i].id # p[j].id
  <2>1. p[i] \in R /\ p[j] \in R /\ RaceBefore(p[i], p[j])
    BY <1>4, <1>8, <1>9, <1>11
  <2>2. p[i].id = p[j].id => p[i] = p[j]
    BY <1>3, <2>1
  <2>3. p[i] # p[j]
    BY <1>2, <2>1 DEF RaceBefore
  <2>4. QED
    BY <2>1, <2>2, <2>3
<1>12. QED
  BY <1>8, <1>10, <1>11 DEF p

-----------------------------------------------------------------------------
(* One plan. *)

\* What load_race has seen to.
LEMMA RaceFileParts ==
    ASSUME NEW race, IsRaceFile(race)
    PROVE  /\ Len(race.win) \in Nat /\ Len(race.win) >= 3 /\ DOMAIN race.win = 1..Len(race.win)
           /\ \A i, j \in DOMAIN race.win : race.win[i] = race.win[j] => i = j
           /\ Len(race.quotes) \in Nat /\ DOMAIN race.quotes = 1..Len(race.quotes)
           /\ \A i \in DOMAIN race.quotes :
                 /\ race.quotes[i] \in [horses : [1..3 -> Nat], odds : Nat \ {0}, draws : Nat]
                 /\ \A j, k \in 1..3 :
                       race.quotes[i].horses[j] = race.quotes[i].horses[k] => j = k
           /\ \A i, j \in DOMAIN race.quotes :
                 race.quotes[i].horses = race.quotes[j].horses => i = j
<1>1. /\ race.win \in Seq(Nat) /\ Len(race.win) >= 3 /\ IsInjective(race.win)
      /\ race.quotes \in Seq([horses : [1..3 -> Nat], odds : Nat \ {0}, draws : Nat])
      /\ \A i \in DOMAIN race.quotes : IsInjective(race.quotes[i].horses)
      /\ \A i, j \in DOMAIN race.quotes :
            race.quotes[i].horses = race.quotes[j].horses => i = j
  BY DEF IsRaceFile
<1>2. Len(race.win) \in Nat /\ DOMAIN race.win = 1..Len(race.win)
  BY <1>1, SeqParts, Zenon
<1>3. /\ Len(race.quotes) \in Nat /\ DOMAIN race.quotes = 1..Len(race.quotes)
      /\ \A i \in DOMAIN race.quotes :
            race.quotes[i] \in [horses : [1..3 -> Nat], odds : Nat \ {0}, draws : Nat]
  BY <1>1, SeqParts, Zenon
<1>4. ASSUME NEW i \in DOMAIN race.quotes, NEW j \in 1..3, NEW k \in 1..3,
             race.quotes[i].horses[j] = race.quotes[i].horses[k]
      PROVE  j = k
  <2>1. DOMAIN race.quotes[i].horses = 1..3
    BY <1>3
  <2>2. QED
    BY <1>1, <1>4, <2>1 DEF IsInjective
<1>5. \A i, j \in DOMAIN race.win : race.win[i] = race.win[j] => i = j
  BY <1>1 DEF IsInjective
<1>6. QED
  BY <1>1, <1>2, <1>3, <1>4, <1>5

\* The combinations a plan bets on are the first ones, as many as there are.
LEMMA PicksAreRanks ==
    ASSUME NEW race, Len(race.quotes) \in Nat, NEW count \in Nat
    PROVE  \E n \in 0..count : /\ n <= Len(race.quotes)
                               /\ count > 0 /\ Len(race.quotes) > 0 => n > 0
                               /\ PickNearOdds(race, count) = [i \in 1..n |-> i]
<1> DEFINE listed == Len(race.quotes)
           n == IF count <= listed THEN count ELSE listed
<1>1. n \in 0..count /\ n <= listed /\ (count > 0 /\ listed > 0 => n > 0)
  OBVIOUS
<1>2. {r \in 1..count : r <= listed} = 1..n
  OBVIOUS
<1>3. PickNearOdds(race, count) = [i \in 1..n |-> i]
  BY <1>2 DEF PickNearOdds
<1> HIDE DEF n
<1>4. QED
  BY <1>1, <1>3

\* What build_plan can be asked to write.
Documents ==
    {BuildPlan(x[1], PickNearOdds(x[1], x[2]), x[3], x[4]) :
        x \in (UNION Panels) \X Nat \X Nat \X Int}

\* A plan the daemon finds nothing wrong with but its date, its limits and its age, if it
\* admits trifectas and all marked horses are in its range.
Contract(p) ==
    /\ p.race_id \in Nat /\ p.post \in Nat /\ p.target \in Int
    /\ PayloadStake(p) \in Nat
    /\ ValidTimes(p)
    /\ DOMAIN p.mark \subseteq Horses => ValidMark(p)
    /\ "sanrentan" \in AllowedPools => ValidBets(p)

\* The marks are of different horses, one each of the codes 1 to 3.
LEMMA MarksAreValid ==
    ASSUME NEW race, IsRaceFile(race), NEW p, p.mark = MarksFromWinOdds(race.win),
           DOMAIN p.mark \subseteq Horses
    PROVE  ValidMark(p)
<1> DEFINE win == race.win
           marked == {rank \in DOMAIN win : rank <= 18}
           rankOf(horse) == CHOOSE rank \in marked : win[rank] = horse
<1>1. /\ Len(win) \in Nat /\ Len(win) >= 3 /\ DOMAIN win = 1..Len(win)
      /\ \A i, j \in DOMAIN win : win[i] = win[j] => i = j
  BY RaceFileParts
<1>2. 1 \in marked /\ marked \subseteq 1..18 /\ marked \subseteq DOMAIN win
  BY <1>1
<1>3. p.mark = [horse \in {win[rank] : rank \in marked} |->
                   IF rankOf(horse) < 4 THEN rankOf(horse) ELSE 4]
  BY DEF MarksFromWinOdds
<1> HIDE DEF win, marked
<1>4. DOMAIN p.mark = {win[rank] : rank \in marked}
  BY <1>3
<1>5. ASSUME NEW rank \in marked
      PROVE  p.mark[win[rank]] = IF rank < 4 THEN rank ELSE 4
  <2>1. rankOf(win[rank]) \in marked /\ win[rankOf(win[rank])] = win[rank]
    OBVIOUS
  <2>2. rankOf(win[rank]) = rank
    BY <1>1, <1>2, <2>1
  <2>3. p.mark[win[rank]] = IF rankOf(win[rank]) < 4 THEN rankOf(win[rank]) ELSE 4
    BY <1>3
  <2>4. QED
    BY <2>2, <2>3
<1>6. \A horse \in DOMAIN p.mark : p.mark[horse] \in 1..4
  BY <1>2, <1>4, <1>5
<1>7. Marked(p, 1) # {} /\ DOMAIN p.mark # {}
  <2>1. win[1] \in DOMAIN p.mark /\ p.mark[win[1]] = 1
    BY <1>2, <1>4, <1>5
  <2>2. QED
    BY <2>1 DEF Marked
<1>8. \A code \in 1..3 : AtMostOne(Marked(p, code))
  <2>1. SUFFICES ASSUME NEW code \in 1..3,
                        NEW x \in DOMAIN p.mark, NEW y \in DOMAIN p.mark,
                        p.mark[x] = code, p.mark[y] = code
                 PROVE  x = y
    BY DEF Marked, AtMostOne
  <2>2. PICK i \in marked, j \in marked : x = win[i] /\ y = win[j]
    BY <1>4
  <2>3. i = code /\ j = code
    BY <1>2, <1>5, <2>1, <2>2
  <2>4. QED
    BY <2>2, <2>3
<1>9. QED
  BY <1>6, <1>7, <1>8 DEF ValidMark

\* Three different horses of the daemon's range are a trifecta.
LEMMA TrifectaIsValid ==
    ASSUME NEW bet \in [1..3 -> Nat], \A j, k \in 1..3 : bet[j] = bet[k] => j = k,
           Range(bet) \subseteq Horses
    PROVE  ValidBetID("sanrentan", bet)
<1>1. bet \in Seq(Nat) /\ Len(bet) = 3 /\ DOMAIN bet = 1..3
  <2> DEFINE s == [i \in 1..3 |-> bet[i]]
  <2>1. s \in Seq(Nat) /\ Len(s) = 3 /\ DOMAIN s = 1..3
    OBVIOUS
  <2>2. s = bet
    OBVIOUS
  <2>3. QED
    BY <2>1, <2>2
<1>2. PoolNumbers["sanrentan"] = 3
  BY DEF PoolNumbers
<1>3. \A i \in 1..3 : bet[i] \in Horses
  BY <1>1 DEF Range
<1>4. QED
  BY <1>1, <1>2, <1>3 DEF ValidBetID

\* build_plan writes such plans, and the plan costs what the planner charges.
LEMMA BuiltIsValid ==
    ASSUME NEW R \in Panels, NEW race \in R, NEW count \in Nat, NEW stake \in Nat,
           NEW created \in Int, Buildable(race, stake, created),
           race.quotes # <<>>, count > 0, Nameable(race, PickNearOdds(race, count))
    PROVE  LET p == BuildPlan(race, PickNearOdds(race, count), stake, created)
           IN  /\ p \in Documents /\ Contract(p)
               /\ p.race_id = race.id /\ p.post = race.post /\ p.created = created
               /\ PayloadStake(p) = stake * Len(PickNearOdds(race, count))
               /\ Len(PickNearOdds(race, count)) \in 1..count
<1> DEFINE picks == PickNearOdds(race, count)
           p == BuildPlan(race, picks, stake, created)
           horses(i) == race.quotes[i].horses
<1>1. race.id \in Nat /\ race.post \in Nat /\ IsRaceFile(race)
  BY DayAssumption
<1>2. /\ Len(race.quotes) \in Nat /\ Len(race.quotes) > 0
      /\ DOMAIN race.quotes = 1..Len(race.quotes)
      /\ \A i \in DOMAIN race.quotes :
            /\ horses(i) \in [1..3 -> Nat]
            /\ \A j, k \in 1..3 : horses(i)[j] = horses(i)[k] => j = k
      /\ \A i, j \in DOMAIN race.quotes : horses(i) = horses(j) => i = j
  <2>1. /\ Len(race.quotes) \in Nat /\ DOMAIN race.quotes = 1..Len(race.quotes)
        /\ \A i \in DOMAIN race.quotes :
              /\ race.quotes[i] \in [horses : [1..3 -> Nat], odds : Nat \ {0}, draws : Nat]
              /\ \A j, k \in 1..3 : horses(i)[j] = horses(i)[k] => j = k
        /\ \A i, j \in DOMAIN race.quotes : horses(i) = horses(j) => i = j
    BY <1>1, RaceFileParts
  <2>2. Len(race.quotes) # 0
    <3> DEFINE Rows == [horses : [1..3 -> Nat], odds : Nat \ {0}, draws : Nat]
    <3>1. race.quotes \in Seq(Rows)
      BY <1>1 DEF IsRaceFile
    <3> HIDE DEF Rows
    <3>2. QED
      BY <3>1
  <2>3. QED
    BY <2>1, <2>2
<1>3. PICK n \in 1..count : n <= Len(race.quotes) /\ picks = [i \in 1..n |-> i]
  BY <1>2, PicksAreRanks
<1>4. Len(picks) = n /\ DOMAIN picks = 1..n
  BY <1>3
<1>5. p \in Documents
  <2> DEFINE x == <<race, count, stake, created>>
  <2>1. x \in (UNION Panels) \X Nat \X Nat \X Int
    OBVIOUS
  <2>2. x[1] = race /\ x[2] = count /\ x[3] = stake /\ x[4] = created
    OBVIOUS
  <2> HIDE DEF x
  <2>3. BuildPlan(x[1], PickNearOdds(x[1], x[2]), x[3], x[4]) \in Documents
    BY <2>1 DEF Documents
  <2>4. QED
    BY <2>2, <2>3
<1>6. /\ p.race_id = race.id /\ p.race_date = DateOf(race.post) /\ p.created = created
      /\ p.post = race.post /\ p.target = race.post - TargetOffset
      /\ p.deadline = race.post - CutoffOffset
      /\ p.mark = MarksFromWinOdds(race.win) /\ p.pool = "sanrentan"
      /\ p.bets = [i \in DOMAIN picks |-> [bet |-> horses(picks[i]), money |-> stake]]
  BY DEF BuildPlan, Target, Deadline
<1>7. \A i \in 1..n : Range(horses(i)) \subseteq Horses
  BY <1>3, <1>4 DEF Nameable
<1> HIDE DEF p, picks, horses
<1>8. p.bets = [i \in 1..n |-> [bet |-> horses(i), money |-> stake]]
  BY <1>3, <1>4, <1>6
<1> DEFINE Bets == [bet : [1..3 -> Nat], money : Nat]
<1>9. /\ p.bets \in Seq(Bets) /\ Len(p.bets) = n /\ DOMAIN p.bets = 1..n
      /\ \A i \in 1..n : p.bets[i].money = stake /\ p.bets[i].bet = horses(i)
  <2> DEFINE bet(i) == [bet |-> horses(i), money |-> stake]
             listed == [i \in 1..n |-> bet(i)]
  <2>1. ASSUME NEW i \in 1..n
        PROVE  bet(i) \in Bets /\ bet(i).money = stake /\ bet(i).bet = horses(i)
    <3>1. i \in DOMAIN race.quotes
      BY <1>2, <1>3
    <3>2. PICK h \in [1..3 -> Nat] : h = horses(i)
      BY <1>2, <3>1
    <3>3. [bet |-> h, money |-> stake] \in Bets
      OBVIOUS
    <3>4. QED
      BY <3>2, <3>3
  <2> HIDE DEF Bets, bet
  <2>2. /\ listed \in Seq(Bets) /\ Len(listed) = n /\ DOMAIN listed = 1..n
        /\ \A i \in 1..n : listed[i] = bet(i)
    BY <1>3, <2>1
  <2>3. p.bets = listed
    BY <1>8 DEF bet
  <2> HIDE DEF listed
  <2>4. QED
    BY <2>1, <2>2, <2>3
<1>10. PayloadStake(p) = stake * n
  <2> DEFINE f == [i \in DOMAIN p.bets |-> p.bets[i].money]
  <2> HIDE DEF Bets
  <2>1. PayloadStake(p) = SumOn(f, 1..n)
    <3>1. \A i \in DOMAIN p.bets : p.bets[i].money \in Int
      BY <1>9
    <3>2. p.bets \in Seq(Bets) /\ Len(p.bets) = n
      BY <1>9
    <3>3. PayloadStake(p) = SumOn(f, 1..Len(p.bets))
      BY <3>1, <3>2, PayloadIsSum
    <3>4. QED
      BY <3>2, <3>3
  <2>2. \A i \in 1..n : f[i] = stake
    BY <1>9
  <2> HIDE DEF f
  <2>3. SumOn(f, 1..n) = n * stake
    BY <1>3, <2>2, SumOfEqual
  <2>4. QED
    BY <1>3, <2>1, <2>3
<1> HIDE DEF Bets
<1>11. ValidTimes(p)
  <2>1. /\ TargetOffset \in Nat \ {0} /\ CutoffOffset \in Nat \ {0}
        /\ CutoffOffset < TargetOffset
    BY ContractAssumption
  <2>2. created < race.post - CutoffOffset
    BY DEF Buildable, Deadline
  <2>3. QED
    BY <1>1, <1>6, <2>1, <2>2 DEF ValidTimes
<1>12. ASSUME "sanrentan" \in AllowedPools PROVE ValidBets(p)
  <2>1. stake > 0 /\ stake % StakeUnit = 0
    BY DEF Buildable
  <2>2. p.bets # <<>>
    BY <1>3, <1>9
  <2>3. ASSUME NEW i \in 1..n PROVE ValidBetID(p.pool, p.bets[i].bet)
    <3>1. /\ horses(i) \in [1..3 -> Nat] /\ Range(horses(i)) \subseteq Horses
          /\ \A j, k \in 1..3 : horses(i)[j] = horses(i)[k] => j = k
      BY <1>2, <1>3, <1>7
    <3>2. ValidBetID("sanrentan", horses(i))
      BY <3>1, TrifectaIsValid
    <3>3. QED
      BY <1>6, <1>9, <3>2
  <2>4. ASSUME NEW i \in 1..n, NEW j \in 1..n, p.bets[i].bet = p.bets[j].bet PROVE i = j
    <3>1. i \in DOMAIN race.quotes /\ j \in DOMAIN race.quotes
      BY <1>2, <1>3
    <3>2. horses(i) = horses(j)
      BY <1>9, <2>4
    <3>3. QED
      BY <1>2, <3>1, <3>2
  <2>5. QED
    BY <1>6, <1>9, <1>12, <2>1, <2>2, <2>3, <2>4 DEF ValidBets
<1>13. PayloadStake(p) \in Nat
  BY <1>3, <1>10
<1>14. DOMAIN p.mark \subseteq Horses => ValidMark(p)
  BY <1>1, <1>6, MarksAreValid
<1>15. Contract(p)
  BY <1>1, <1>6, <1>11, <1>12, <1>13, <1>14, ContractAssumption, SMTT(30) DEF Contract
<1>16. QED
  BY <1>3, <1>4, <1>5, <1>6, <1>10, <1>15, SMTT(30) DEF p, picks

-----------------------------------------------------------------------------
(* The grid and the stakes of the policy table. *)

\* What a field of a specification is.
LEMMA SpecFields ==
    ASSUME NEW s, WellFormed(s)
    PROVE  /\ s.goal \in Nat \ {0} /\ s.races \in Nat \ {0} /\ s.grid \in Nat \ {0}
           /\ s.unit \in Nat \ {0} /\ s.draws \in Nat \ {0}
           /\ s.initial \in Nat /\ s.cap \in Nat /\ s.most \in Nat
           /\ \A i \in DOMAIN s.bands : /\ s.bands[i].odds \in Nat \ {0, 1}
                                        /\ s.bands[i].hit \in Nat /\ s.bands[i].most \in Nat
           /\ \A i \in DOMAIN s.counts : s.counts[i] \in Nat \ {0}
           /\ \A i \in DOMAIN s.rules : /\ s.rules[i].kind \in {"gap", "bank"}
                                        /\ s.rules[i].num \in Nat
                                        /\ s.rules[i].den \in Nat \ {0}
<1>1. /\ s.goal \in Nat \ {0} /\ s.races \in Nat \ {0} /\ s.grid \in Nat \ {0}
      /\ s.unit \in Nat \ {0} /\ s.draws \in Nat \ {0}
      /\ s.initial \in Nat /\ s.cap \in Nat /\ s.most \in Nat
  BY DEF WellFormed
<1>2. \A i \in DOMAIN s.bands : s.bands[i] \in [odds : Nat \ {0, 1}, hit : Nat, most : Nat]
  <2>1. s.bands \in Seq([odds : Nat \ {0, 1}, hit : Nat, most : Nat])
    BY DEF WellFormed
  <2>2. QED
    BY <2>1, SeqParts, Zenon
<1>3. \A i \in DOMAIN s.counts : s.counts[i] \in Nat \ {0}
  <2>1. s.counts \in Seq(Nat \ {0})
    BY DEF WellFormed
  <2>2. QED
    BY <2>1, SeqParts, Zenon
<1>4. \A i \in DOMAIN s.rules :
          s.rules[i] \in [kind : {"gap", "bank"}, num : Nat, den : Nat \ {0}]
  <2>1. s.rules \in Seq([kind : {"gap", "bank"}, num : Nat, den : Nat \ {0}])
    BY DEF WellFormed
  <2>2. QED
    BY <2>1, SeqParts, Zenon
<1>5. QED
  BY <1>1, <1>2, <1>3, <1>4

\* A grid point at or below an amount.
LEMMA GridBelow ==
    ASSUME NEW s, WellFormed(s), NEW amount \in Nat, NEW parts \in Nat \ {0}
    PROVE  /\ TopIndex(s) \in Nat /\ GridIndex(s, amount, parts) \in GridPoints(s)
           /\ BankAt(s, GridIndex(s, amount, parts)) * parts <= amount
<1> DEFINE cell == parts * s.grid
           i == GridIndex(s, amount, parts)
<1>1. s.goal \in Nat /\ s.grid \in Nat \ {0}
  BY SpecFields
<1>2. TopIndex(s) \in Nat
  <2>1. 5 * s.goal \in Nat /\ 4 * s.grid \in Nat \ {0}
    BY <1>1
  <2>2. QED
    BY <2>1, QuotientIsNat DEF TopIndex
<1>3. cell \in Nat \ {0}
  BY <1>1
<1>4. amount \div cell \in Nat /\ (amount \div cell) * cell <= amount
  BY <1>3, Quotient, QuotientIsNat
<1>5. i \in Nat /\ i <= amount \div cell /\ i <= TopIndex(s)
  BY <1>2, <1>4 DEF GridIndex, Least
<1>6. i * cell <= (amount \div cell) * cell
  BY <1>3, <1>4, <1>5, Scale
<1>7. BankAt(s, i) * parts = i * cell
  BY <1>1, <1>5, Regroup DEF BankAt
<1> HIDE DEF i
<1>8. i \in GridPoints(s)
  BY <1>2, <1>5 DEF GridPoints
<1>9. i * cell \in Int /\ (amount \div cell) * cell \in Int
  BY <1>3, <1>4, <1>5
<1>10. QED
  BY <1>2, <1>4, <1>6, <1>7, <1>8, <1>9 DEF i

\* The banks of the grid, the poorer first.
LEMMA BanksGrow ==
    ASSUME NEW s, WellFormed(s), NEW i \in Nat, NEW j \in Nat, i <= j
    PROVE  BankAt(s, i) \in Nat /\ BankAt(s, i) <= BankAt(s, j)
<1>1. s.grid \in Nat
  BY SpecFields
<1>2. QED
  BY <1>1, Scale DEF BankAt

\* What an action is made of.
LEMMA ActionParts ==
    ASSUME NEW s, WellFormed(s), NEW a \in Actions(s)
    PROVE  /\ a[1] \in DOMAIN s.bands /\ a[2] \in DOMAIN s.counts /\ a[3] \in DOMAIN s.rules
           /\ s.counts[a[2]] \in Nat \ {0}
           /\ s.bands[a[1]].odds \in Nat \ {0, 1} /\ s.bands[a[1]].hit \in Nat
BY SpecFields DEF Actions

\* A stake is whole units, and never negative.
LEMMA WantedIsUnits ==
    ASSUME NEW s, WellFormed(s), NEW a \in Actions(s), NEW held \in Nat
    PROVE  \E u \in Nat : WantedStake(s, a, held) = u * s.unit
<1> DEFINE rule == s.rules[a[3]]
           k == s.counts[a[2]]
           odds == s.bands[a[1]].odds
<1>1. /\ rule.kind \in {"gap", "bank"} /\ rule.num \in Nat /\ rule.den \in Nat \ {0}
      /\ k \in Nat \ {0} /\ odds \in Nat \ {0, 1} /\ s.unit \in Nat \ {0} /\ s.goal \in Nat
  BY ActionParts, SpecFields
<1> HIDE DEF rule, k, odds
<1>2. ASSUME NEW m \in Nat, NEW n \in Nat \ {0} PROVE CeilDiv(m, n) \in Nat
  <2>1. m + n - 1 \in Nat
    OBVIOUS
  <2>2. QED
    BY <2>1, QuotientIsNat DEF CeilDiv
<1>3. CASE rule.kind = "bank"
  <2>1. held * rule.num \in Nat /\ rule.den * k * s.unit \in Nat \ {0}
    <3>1. rule.den * k \in Nat \ {0}
      BY <1>1
    <3>2. QED
      BY <1>1, <3>1
  <2>2. WantedStake(s, a, held) = CeilDiv(held * rule.num, rule.den * k * s.unit) * s.unit
    BY <1>3 DEF WantedStake, rule, k
  <2>3. QED
    BY <1>2, <2>1, <2>2
<1>4. CASE rule.kind = "gap" /\ held < s.goal
  <2>1. (s.goal - held) * rule.num \in Nat /\ (odds - 1) * rule.den * s.unit \in Nat \ {0}
    <3>1. odds - 1 \in Nat \ {0} /\ s.goal - held \in Nat
      BY <1>1, <1>4
    <3>2. (odds - 1) * rule.den \in Nat \ {0}
      BY <1>1, <3>1
    <3>3. QED
      BY <1>1, <3>1, <3>2
  <2>2. WantedStake(s, a, held) =
            CeilDiv((s.goal - held) * rule.num, (odds - 1) * rule.den * s.unit) * s.unit
    BY <1>4 DEF WantedStake, rule, odds
  <2>3. QED
    BY <1>2, <2>1, <2>2
<1>5. CASE rule.kind = "gap" /\ ~(held < s.goal)
  <2>1. WantedStake(s, a, held) = 0
    BY <1>5 DEF WantedStake, rule
  <2>2. 0 = 0 * s.unit
    BY <1>1
  <2>3. QED
    BY <2>1, <2>2
<1>6. QED
  BY <1>1, <1>3, <1>4, <1>5

\* The cap splits into whole units for every number of tickets.
CapSplits(s) == \A i \in DOMAIN s.counts : s.cap % (s.counts[i] * s.unit) = 0

\* An action never costs more than the bank; the tickets of a cap that splits cost
\* whole units.
LEMMA SpendFits ==
    ASSUME NEW s, WellFormed(s), NEW a \in Actions(s), NEW held \in Nat
    PROVE  /\ Spend(s, a, held) \in 0..held
           /\ CapSplits(s) => \E u \in Nat : Spend(s, a, held) = (u * s.unit) * s.counts[a[2]]
<1> DEFINE k == s.counts[a[2]]
           want == WantedStake(s, a, held)
           cell == k * s.unit
           capped == Least(k * want, s.cap)
           rounded == (held \div cell) * s.unit * k
           affordable == IF capped > held THEN rounded ELSE capped
           whole(m) == \E u \in Nat : m = (u * s.unit) * k
<1>1. k \in Nat \ {0} /\ s.unit \in Nat \ {0} /\ s.cap \in Nat /\ a[2] \in DOMAIN s.counts
  BY ActionParts, SpecFields
<1>2. PICK v \in Nat : want = v * s.unit
  BY WantedIsUnits
<1>3. Spend(s, a, held) = IF affordable < cell THEN 0 ELSE affordable
  BY DEF Spend
<1> HIDE DEF k, want
<1>4. cell \in Nat \ {0}
  BY <1>1
<1>5. want \in Nat /\ k * want \in Nat
  <2>1. v * s.unit \in Nat
    BY <1>1
  <2>2. QED
    BY <1>1, <1>2, <2>1
<1>6. capped \in Nat /\ (capped = k * want \/ capped = s.cap)
  BY <1>1, <1>5 DEF Least
<1>7. held \div cell \in Nat /\ (held \div cell) * cell <= held
  BY <1>4, Quotient, QuotientIsNat
<1>8. rounded \in Nat /\ rounded = (held \div cell) * cell
  <2> DEFINE q == held \div cell
  <2>1. q \in Nat
    BY <1>7
  <2> HIDE DEF q
  <2>2. (q * s.unit) * k \in Nat /\ (q * s.unit) * k = q * (k * s.unit)
    BY <1>1, <2>1, Regroup
  <2>3. QED
    BY <2>2 DEF q
<1>9. affordable \in 0..held
  <2>1. CASE capped > held
    BY <1>7, <1>8, <2>1
  <2>2. CASE ~(capped > held)
    BY <1>6, <2>2
  <2>3. QED
    BY <2>1, <2>2
<1>10. ASSUME CapSplits(s) PROVE whole(affordable)
  <2>1. whole(rounded)
    BY <1>7
  <2>2. whole(k * want)
    <3>1. k * (v * s.unit) = (v * s.unit) * k
      BY <1>1
    <3>2. QED
      BY <1>2, <3>1
  <2>3. whole(s.cap)
    <3>1. s.cap % cell = 0
      BY <1>1, <1>10 DEF CapSplits, k
    <3>2. (s.cap \div cell) * cell = s.cap /\ s.cap \div cell \in Nat
      <4> HIDE DEF cell
      <4>1. QED
        BY <1>1, <1>4, <3>1, Multiples, QuotientIsNat, SMTT(30)
    <3> DEFINE q == s.cap \div cell
    <3>3. q \in Nat /\ s.cap = q * (k * s.unit)
      BY <3>2
    <3> HIDE DEF q
    <3>4. q * (k * s.unit) = (q * s.unit) * k
      BY <1>1, <3>3, Regroup
    <3>5. QED
      BY <3>3, <3>4
  <2> HIDE DEF whole
  <2>4. whole(capped)
    BY <1>6, <2>2, <2>3
  <2>5. QED
    BY <2>1, <2>4
<1>11. whole(0)
  <2>1. (0 * s.unit) * k = 0
    BY <1>1
  <2>2. QED
    BY <2>1
<1>12. Spend(s, a, held) = 0 \/ Spend(s, a, held) = affordable
  BY <1>3
<1> HIDE DEF affordable, whole
<1>13. Spend(s, a, held) \in 0..held
  BY <1>9, <1>12
<1>14. CapSplits(s) => whole(Spend(s, a, held))
  BY <1>10, <1>11, <1>12
<1>15. QED
  BY <1>13, <1>14 DEF whole, k

\* A row that costs no more than a bank.
RowFits(s, row, held) ==
    /\ row.tickets \in Nat /\ row.stake_each \in Nat /\ row.odds \in Nat
    /\ row.stake_each * row.tickets <= held
    /\ CapSplits(s) => row.stake_each % s.unit = 0

\* A richer bank can afford it too.
LEMMA FitsRicher ==
    ASSUME NEW s, NEW row, NEW held \in Nat, NEW richer \in Nat, held <= richer,
           RowFits(s, row, held)
    PROVE  RowFits(s, row, richer)
<1>1. row.stake_each * row.tickets \in Int
  BY DEF RowFits
<1>2. row.stake_each * row.tickets <= held
  BY DEF RowFits
<1>3. row.stake_each * row.tickets <= richer
  BY <1>1, <1>2
<1>4. QED
  BY <1>3 DEF RowFits

\* The row of an action, or of none, fits the bank it is sized for.
LEMMA BetFits ==
    ASSUME NEW s, WellFormed(s), NEW held \in Nat
    PROVE  /\ RowFits(s, Pass, held)
           /\ \A a \in Actions(s) : RowFits(s, Bet(s, a, held), held)
<1>1. s.unit \in Nat \ {0}
  BY SpecFields
<1>2. RowFits(s, Pass, held)
  <2>1. 0 % s.unit = 0
    <3>1. (0 * s.unit) % s.unit = 0
      BY <1>1, Multiples
    <3>2. QED
      BY <1>1, <3>1
  <2>2. QED
    BY <2>1 DEF RowFits, Pass
<1>3. ASSUME NEW a \in Actions(s) PROVE RowFits(s, Bet(s, a, held), held)
  <2> DEFINE k == s.counts[a[2]]
             spend == Spend(s, a, held)
             row == Bet(s, a, held)
  <2>1. k \in Nat \ {0} /\ s.bands[a[1]].odds \in Nat
    BY <1>3, ActionParts
  <2>2. spend \in 0..held /\ (CapSplits(s) => \E u \in Nat : spend = (u * s.unit) * k)
    BY <1>3, SpendFits
  <2>3. row.tickets = k /\ row.stake_each = spend \div k /\ row.odds = s.bands[a[1]].odds
    BY DEF Bet
  <2> HIDE DEF k, spend, row
  <2>4. spend \div k \in Nat /\ (spend \div k) * k <= spend
    BY <2>1, <2>2, Quotient, QuotientIsNat
  <2>5. ASSUME CapSplits(s) PROVE (spend \div k) % s.unit = 0
    <3>1. PICK u \in Nat : spend = (u * s.unit) * k
      BY <2>2, <2>5
    <3> DEFINE each == u * s.unit
    <3>2. each \in Int
      BY <1>1
    <3>3. each % s.unit = 0
      BY <1>1, Multiples
    <3> HIDE DEF each
    <3>4. (each * k) \div k = each
      BY <2>1, <3>2, Multiples
    <3>5. QED
      BY <3>1, <3>3, <3>4 DEF each
  <2>6. (spend \div k) * k \in Int /\ (spend \div k) * k <= held
    BY <2>1, <2>2, <2>4
  <2>7. RowFits(s, row, held)
    BY <2>1, <2>3, <2>4, <2>5, <2>6 DEF RowFits
  <2>8. QED
    BY <2>7 DEF row
<1>4. QED
  BY <1>2, <1>3

-----------------------------------------------------------------------------
(* A stage of the table. *)

\* There are finitely many actions.
LEMMA FiniteActions ==
    ASSUME NEW s, WellFormed(s)
    PROVE  IsFiniteSet(Actions(s))
<1> DEFINE B == DOMAIN s.bands
           C == DOMAIN s.counts
           R == DOMAIN s.rules
           triple == [p \in (B \X C) \X R |-> <<p[1][1], p[1][2], p[2]>>]
<1>1. IsFiniteSet(B) /\ IsFiniteSet(C) /\ IsFiniteSet(R)
  <2>1. /\ s.bands \in Seq([odds : Nat \ {0, 1}, hit : Nat, most : Nat])
        /\ s.counts \in Seq(Nat \ {0})
        /\ s.rules \in Seq([kind : {"gap", "bank"}, num : Nat, den : Nat \ {0}])
    BY DEF WellFormed
  <2>2. /\ B = 1..Len(s.bands) /\ Len(s.bands) \in Nat
        /\ C = 1..Len(s.counts) /\ Len(s.counts) \in Nat
        /\ R = 1..Len(s.rules) /\ Len(s.rules) \in Nat
    BY <2>1, SeqParts
  <2>3. \A n \in Nat : IsFiniteSet(1..n)
    BY FS_Interval
  <2>4. QED
    BY <2>2, <2>3
<1> HIDE DEF B, C, R
<1>2. IsFiniteSet((B \X C) \X R)
  <2>1. IsFiniteSet(B \X C)
    BY <1>1, FS_Product
  <2>2. QED
    BY <1>1, <2>1, FS_Product
<1>3. triple \in Surjection((B \X C) \X R, B \X C \X R)
  <2>1. triple \in [(B \X C) \X R -> B \X C \X R]
    OBVIOUS
  <2>2. \A t \in B \X C \X R : \E p \in (B \X C) \X R : triple[p] = t
    <3>1. SUFFICES ASSUME NEW t \in B \X C \X R
                   PROVE  \E p \in (B \X C) \X R : triple[p] = t
      OBVIOUS
    <3>2. <<<<t[1], t[2]>>, t[3]>> \in (B \X C) \X R /\ triple[<<<<t[1], t[2]>>, t[3]>>] = t
      OBVIOUS
    <3>3. QED
      BY <3>2
  <2>3. QED
    BY <2>1, <2>2 DEF Surjection
<1>4. IsFiniteSet(B \X C \X R)
  BY <1>2, <1>3, FS_Surjection
<1>5. Actions(s) \in SUBSET (B \X C \X R)
  BY DEF Actions, B, C, R
<1>6. QED
  BY <1>4, <1>5, FS_Subset

\* Of some actions, one comes first in the order of the code's loops.
LEMMA FirstAction ==
    ASSUME NEW s, WellFormed(s), NEW E, E \subseteq Actions(s), E # {}
    PROVE  \E a \in E : \A b \in E : ~Earlier(b, a)
<1> DEFINE later == {p \in E \X E : Earlier(p[2], p[1])}
<1>1. IsFiniteSet(E)
  BY FiniteActions, FS_Subset
<1>2. \A a, b \in E : <<a, b>> \in later <=> Earlier(b, a)
  OBVIOUS
<1>3. \A a \in E : a[1] \in Int /\ a[2] \in Int /\ a[3] \in Int /\ a = <<a[1], a[2], a[3]>>
  <2>1. /\ s.bands \in Seq([odds : Nat \ {0, 1}, hit : Nat, most : Nat])
        /\ s.counts \in Seq(Nat \ {0})
        /\ s.rules \in Seq([kind : {"gap", "bank"}, num : Nat, den : Nat \ {0}])
    BY DEF WellFormed
  <2>2. /\ DOMAIN s.bands \subseteq Int /\ DOMAIN s.counts \subseteq Int
        /\ DOMAIN s.rules \subseteq Int
    BY <2>1, SeqParts
  <2>3. \A a \in E : a \in (DOMAIN s.bands) \X (DOMAIN s.counts) \X (DOMAIN s.rules)
    BY DEF Actions
  <2>4. QED
    BY <2>2, <2>3
<1>4. \A a \in E : ~Earlier(a, a)
  BY <1>3 DEF Earlier
<1>5. \A a, b, c \in E : Earlier(b, a) /\ Earlier(c, b) => Earlier(c, a)
  BY <1>3 DEF Earlier
<1>6. \A a, b \in E : a # b => Earlier(a, b) \/ Earlier(b, a)
  <2>1. SUFFICES ASSUME NEW a \in E, NEW b \in E, ~Earlier(a, b), ~Earlier(b, a) PROVE a = b
    OBVIOUS
  <2>2. a[1] = b[1] /\ a[2] = b[2] /\ a[3] = b[3]
    BY <1>3, <2>1 DEF Earlier
  <2>3. QED
    BY <1>3, <2>2
<1> HIDE DEF later
<1>7. Orders(later, E)
  BY <1>2, <1>4, <1>5, <1>6 DEF Orders
<1>8. PICK a \in E : \A b \in E : <<a, b>> \notin later
  BY <1>1, <1>7, LastInOrder
<1>9. QED
  BY <1>2, <1>8

\* The values of a stage.
Values(s) == [GridPoints(s) -> Nat]

\* What an action is worth.
LEMMA WorthIsNat ==
    ASSUME NEW s, WellFormed(s), NEW next \in Values(s), NEW i \in GridPoints(s),
           NEW a \in Actions(s)
    PROVE  /\ UpIndex(s, a, BankAt(s, i)) \in GridPoints(s)
           /\ DownIndex(s, a, BankAt(s, i)) \in GridPoints(s)
           /\ Hits(s, a) \in 0..(s.draws - 1)
           /\ ActionValue(s, next, a, i) \in Nat
<1> DEFINE k == s.counts[a[2]]
           held == BankAt(s, i)
           spend == Spend(s, a, held)
           odds == s.bands[a[1]].odds
<1>1. /\ k \in Nat \ {0} /\ odds \in Nat /\ s.bands[a[1]].hit \in Nat
      /\ s.draws \in Nat \ {0} /\ s.grid \in Nat
  BY ActionParts, SpecFields
<1>2. held \in Nat
  BY <1>1 DEF BankAt, GridPoints
<1>3. spend \in 0..held
  BY <1>2, SpendFits
<1>4. Hits(s, a) \in 0..(s.draws - 1)
  <2>1. s.counts[a[2]] * s.bands[a[1]].hit \in Nat
    BY <1>1
  <2>2. QED
    BY <1>1, <2>1 DEF Hits, Least
<1>5. UpIndex(s, a, held) \in GridPoints(s)
  <2>1. UpIndex(s, a, held) = GridIndex(s, k * (held - spend) + spend * odds, k)
    BY DEF UpIndex
  <2> HIDE DEF k, held, spend, odds
  <2>2. k * (held - spend) \in Nat /\ spend * odds \in Nat
    BY <1>1, <1>2, <1>3
  <2>3. k * (held - spend) + spend * odds \in Nat
    BY <2>2
  <2>4. QED
    BY <1>1, <2>1, <2>3, GridBelow
<1>6. DownIndex(s, a, held) \in GridPoints(s)
  <2>1. DownIndex(s, a, held) = GridIndex(s, held - spend, 1)
    BY DEF DownIndex
  <2> HIDE DEF held, spend
  <2>2. held - spend \in Nat
    BY <1>2, <1>3
  <2>3. QED
    BY <2>1, <2>2, GridBelow
<1>7. ActionValue(s, next, a, i) =
          Hits(s, a) * next[UpIndex(s, a, held)]
          + (s.draws - Hits(s, a)) * next[DownIndex(s, a, held)]
  BY DEF ActionValue
<1> HIDE DEF held
<1>8. next[UpIndex(s, a, held)] \in Nat /\ next[DownIndex(s, a, held)] \in Nat
  BY <1>5, <1>6 DEF Values
<1>9. ActionValue(s, next, a, i) \in Nat
  <2> DEFINE h == Hits(s, a)
             up == next[UpIndex(s, a, held)]
             down == next[DownIndex(s, a, held)]
  <2>1. h \in Nat /\ s.draws - h \in Nat /\ up \in Nat /\ down \in Nat
    BY <1>1, <1>4, <1>8
  <2> HIDE DEF h, up, down
  <2>2. h * up \in Nat /\ (s.draws - h) * down \in Nat
    BY <2>1
  <2>3. h * up + (s.draws - h) * down \in Nat
    BY <2>2
  <2>4. QED
    BY <1>7, <2>3 DEF h, up, down
<1>10. QED
  BY <1>4, <1>5, <1>6, <1>9 DEF held

\* A row of the table file.
Rows == [tickets : Nat, odds : Nat, hit : Nat, stake_each : Nat, total_spend : Nat]

\* What one state is worth, and a row that fits its bank: none, or an action's.
LEMMA DecisionFits ==
    ASSUME NEW s, WellFormed(s), NEW next \in Values(s), NEW i \in GridPoints(s)
    PROVE  /\ Decision(s, next, i) \in [value : Nat, row : Rows]
           /\ RowFits(s, Decision(s, next, i).row, BankAt(s, i))
           /\ \/ Decision(s, next, i) = [value |-> s.draws * next[i], row |-> Pass]
              \/ \E a \in Actions(s) :
                    Decision(s, next, i) = [value |-> ActionValue(s, next, a, i),
                                            row |-> Bet(s, a, BankAt(s, i))]
<1> DEFINE held == BankAt(s, i)
           pass == s.draws * next[i]
           valid == {a \in Actions(s) : Spend(s, a, held) > 0}
           worth == [a \in valid |-> ActionValue(s, next, a, i)]
           best == Max({pass} \union {ActionValue(s, next, a, i) : a \in valid})
           first == CHOOSE a \in valid :
                        /\ ActionValue(s, next, a, i) = best
                        /\ \A b \in valid : Earlier(b, a) => ActionValue(s, next, b, i) < best
           row == IF best > pass THEN Bet(s, first, held) ELSE Pass
<1>1. Decision(s, next, i) = [value |-> best, row |-> row]
  BY DEF Decision
<1>2. s.draws \in Nat /\ held \in Nat
  BY SpecFields DEF BankAt, GridPoints
<1>3. pass \in Nat
  BY <1>2 DEF Values
<1>4. IsFiniteSet(valid) /\ valid \subseteq Actions(s)
  BY FiniteActions, FS_Subset
<1>5. \A a \in valid : worth[a] \in Int /\ worth[a] = ActionValue(s, next, a, i)
  BY <1>4, WorthIsNat
<1>6. {ActionValue(s, next, a, i) : a \in valid} = {worth[a] : a \in valid}
  OBVIOUS
<1>7. best = Max({pass} \union {worth[a] : a \in valid})
  BY <1>6
<1> HIDE DEF worth, pass, held, valid, best
<1>8. /\ best \in Int /\ best >= pass
      /\ best # pass => \E a \in valid : worth[a] = best
      /\ \A a \in valid : worth[a] <= best
  <2>1. /\ IsFiniteSet(valid) /\ (\A a \in valid : worth[a] \in Int) /\ pass \in Int
    BY <1>3, <1>4, <1>5
  <2>2. best = MostOf(worth, valid, pass)
    BY <1>7 DEF MostOf
  <2>3. QED
    BY <2>1, <2>2, GreatestValue
<1>9. best \in Nat
  BY <1>3, <1>8
<1>10. ASSUME best > pass PROVE first \in valid /\ ActionValue(s, next, first, i) = best
  <2> DEFINE E == {a \in valid : worth[a] = best}
  <2>1. E # {} /\ E \subseteq Actions(s)
    BY <1>3, <1>4, <1>8, <1>10
  <2>2. PICK a \in E : \A b \in E : ~Earlier(b, a)
    BY <2>1, FirstAction
  <2>3. ASSUME NEW b \in valid, Earlier(b, a) PROVE ActionValue(s, next, b, i) < best
    <3>1. worth[b] # best /\ worth[b] <= best /\ worth[b] \in Int
      BY <1>5, <1>8, <2>2, <2>3
    <3>2. QED
      BY <1>5, <1>8, <3>1
  <2>4. ActionValue(s, next, a, i) = best
    BY <1>5
  <2>5. QED
    BY <2>3, <2>4
<1>11. row \in Rows /\ RowFits(s, row, held)
  <2>1. CASE best > pass
    <3>1. first \in Actions(s)
      BY <1>4, <1>10, <2>1
    <3> HIDE DEF first
    <3>2. PICK a \in Actions(s) : a = first
      BY <3>1
    <3>3. RowFits(s, Bet(s, a, held), held) /\ Spend(s, a, held) \in Nat
      BY <1>2, BetFits, SpendFits
    <3>4. Hits(s, a) \in Nat /\ s.counts[a[2]] \in Nat /\ s.bands[a[1]].odds \in Nat
      <4>1. Hits(s, a) \in 0..(s.draws - 1)
        BY WorthIsNat
      <4>2. QED
        BY <1>2, <4>1, ActionParts
    <3>5. Bet(s, a, held).stake_each \in Nat
      BY <3>3 DEF RowFits
    <3>6. Bet(s, a, held) \in Rows
      BY <3>3, <3>4, <3>5 DEF Bet, Rows
    <3>7. QED
      BY <2>1, <3>2, <3>3, <3>6
  <2>2. CASE ~(best > pass)
    <3>1. RowFits(s, Pass, held) /\ Pass \in Rows
      BY <1>2, BetFits DEF Pass, Rows
    <3>2. QED
      BY <2>2, <3>1
  <2>3. QED
    BY <2>1, <2>2
<1>12. \/ Decision(s, next, i) = [value |-> pass, row |-> Pass]
       \/ \E a \in Actions(s) :
             Decision(s, next, i) = [value |-> ActionValue(s, next, a, i), row |-> Bet(s, a, held)]
  <2>1. CASE best > pass
    <3>1. first \in Actions(s) /\ ActionValue(s, next, first, i) = best
      BY <1>4, <1>10, <2>1
    <3>2. row = Bet(s, first, held)
      BY <2>1
    <3> HIDE DEF first, row
    <3>3. QED
      BY <1>1, <3>1, <3>2
  <2>2. CASE ~(best > pass)
    <3>1. best = pass /\ row = Pass
      BY <1>3, <1>8, <2>2
    <3>2. QED
      BY <1>1, <3>1
  <2>3. QED
    BY <2>1, <2>2
<1> HIDE DEF row
<1>13. QED
  BY <1>1, <1>9, <1>11, <1>12 DEF held, pass

\* The stages a table may have.
Stages(s) ==
    {stage \in [GridPoints(s) -> [value : Nat, row : Rows]] :
        \A i \in GridPoints(s) : RowFits(s, stage[i].row, BankAt(s, i))}

\* Where the grid breaks monotonicity a state takes over the next poorer one's.
TakesOver(stage, i) ==
    IF stage[i - 1].value > stage[i].value THEN [stage EXCEPT ![i] = stage[i - 1]] ELSE stage

\* Every row still fits its bank, whichever poorer state it is taken over from.
LEMMA TakeoverFits ==
    ASSUME NEW s, WellFormed(s), NEW i \in 1..TopIndex(s), NEW stage \in Stages(s)
    PROVE  TakesOver(stage, i) \in Stages(s)
<1> DEFINE new == [stage EXCEPT ![i] = stage[i - 1]]
<1>1. i \in GridPoints(s) /\ i - 1 \in GridPoints(s) /\ i \in Nat /\ i - 1 \in Nat
  BY GridBelow DEF GridPoints
<1>2. stage \in [GridPoints(s) -> [value : Nat, row : Rows]]
  BY DEF Stages
<1>3. new \in [GridPoints(s) -> [value : Nat, row : Rows]]
  BY <1>1, <1>2
<1>4. RowFits(s, stage[i - 1].row, BankAt(s, i))
  <2>1. RowFits(s, stage[i - 1].row, BankAt(s, i - 1))
    BY <1>1 DEF Stages
  <2>2. /\ BankAt(s, i - 1) \in Nat /\ BankAt(s, i) \in Nat
        /\ BankAt(s, i - 1) <= BankAt(s, i)
    BY <1>1, BanksGrow
  <2>3. QED
    BY <2>1, <2>2, FitsRicher
<1>5. \A j \in GridPoints(s) : RowFits(s, new[j].row, BankAt(s, j))
  <2>1. SUFFICES ASSUME NEW j \in GridPoints(s) PROVE RowFits(s, new[j].row, BankAt(s, j))
    OBVIOUS
  <2>2. CASE j = i
    BY <1>1, <1>2, <1>4, <2>2
  <2>3. CASE j # i
    <3>1. new[j] = stage[j]
      BY <1>2, <2>3
    <3>2. QED
      BY <3>1 DEF Stages
  <2>4. QED
    BY <2>2, <2>3
<1> HIDE DEF new
<1>6. new \in Stages(s)
  BY <1>3, <1>5 DEF Stages
<1>7. QED
  BY <1>6 DEF new, TakesOver

\* A stage is solved state by state, from the poorest up.
LEMMA StageRuns ==
    ASSUME NEW s, WellFormed(s), NEW next \in Values(s)
    PROVE  \E f \in [0..TopIndex(s) -> Stages(s)] :
              /\ f[0] = [i \in GridPoints(s) |-> Decision(s, next, i)]
              /\ f[TopIndex(s)] = Stage(s, next)
              /\ \A k \in 1..TopIndex(s) : f[k] = TakesOver(f[k - 1], k)
<1> DEFINE n == TopIndex(s)
           A == Stages(s)
           base == [i \in GridPoints(s) |-> Decision(s, next, i)]
           indices == [i \in 1..n |-> i]
           folds(g) == g = [S \in SUBSET (DOMAIN indices) |->
                               IF S = {} THEN base
                               ELSE TakesOver(g[S \ {Max(S)}], indices[Max(S)])]
           step == [p \in A \X (1..n) |-> TakesOver(p[1], p[2])]
<1>1. Stage(s, next) = (CHOOSE g : folds(g))[DOMAIN indices]
  BY DEF Stage, FoldLeft, MapThenFoldSet, TakesOver
<1>2. n \in Nat
  BY GridBelow
<1>3. base \in A
  BY DecisionFits DEF Stages
<1>4. \A stage \in A, i \in 1..n : TakesOver(stage, i) \in A
  BY TakeoverFits
<1> HIDE DEF base, A, n
<1>5. step \in [A \X (1..n) -> A]
  BY <1>4
<1>6. DOMAIN indices = 1..n /\ \A i \in 1..n : indices[i] = i
  OBVIOUS
<1> HIDE DEF indices
<1>7. \A S \in SUBSET (1..n) : S # {} => Max(S) \in S /\ Max(S) \in 1..n
  BY <1>2, LastIndex
<1>8. PICK g \in [SUBSET (1..n) -> A] : Folding(g, base, step, n)
  <2> HIDE DEF step
  <2>1. QED
    BY <1>2, <1>3, <1>5, FoldExists
<1>9. \A S \in SUBSET (1..n) :
          g[S] = IF S = {} THEN base ELSE TakesOver(g[S \ {Max(S)}], indices[Max(S)])
  <2>1. SUFFICES ASSUME NEW S \in SUBSET (1..n), S # {}
                 PROVE  g[S] = TakesOver(g[S \ {Max(S)}], indices[Max(S)])
    BY <1>8 DEF Folding
  <2>2. g[S] = step[<<g[S \ {Max(S)}], Max(S)>>]
    BY <1>8, <2>1 DEF Folding
  <2>3. g[S \ {Max(S)}] \in A /\ Max(S) \in 1..n /\ indices[Max(S)] = Max(S)
    BY <1>6, <1>7, <2>1
  <2>4. QED
    BY <2>2, <2>3
<1>10. folds(g)
  BY <1>6, <1>9
<1> DEFINE h == CHOOSE f : folds(f)
           f == [k \in 0..n |-> h[1..k]]
           T == {k \in 0..n : f[k] \in A}
<1>11. folds(h)
  BY <1>10
<1> HIDE DEF h
<1>12. f[0] = base
  <2>1. 1..0 = {}
    OBVIOUS
  <2>2. QED
    BY <1>2, <1>6, <1>11, <2>1
<1>13. ASSUME NEW k \in 1..n PROVE f[k] = TakesOver(f[k - 1], k)
  <2>1. 1..k \in SUBSET (1..n) /\ 1..k # {} /\ Max(1..k) = k /\ (1..k) \ {Max(1..k)} = 1..(k - 1)
    BY <1>2, Prefix
  <2>2. h[1..k] = TakesOver(h[(1..k) \ {Max(1..k)}], indices[Max(1..k)])
    <3>1. \A S \in SUBSET (1..n) :
             S # {} => h[S] = TakesOver(h[S \ {Max(S)}], indices[Max(S)])
      BY <1>6, <1>11
    <3>2. QED
      BY <2>1, <3>1, Zenon
  <2>3. indices[Max(1..k)] = k
    BY <1>6, <2>1
  <2>4. h[1..k] = TakesOver(h[1..(k - 1)], k)
    BY <2>1, <2>2, <2>3, Zenon
  <2>5. QED
    BY <1>2, <2>4
<1>14. f[n] = Stage(s, next)
  BY <1>1, <1>2, <1>6 DEF h
<1>15. f = [k \in 0..n |-> f[k]]
  OBVIOUS
<1> HIDE DEF f
<1>16. \A k \in 0..n : k \in T
  <2>1. 0 \in T
    BY <1>2, <1>3, <1>12
  <2>2. \A k \in 1..n : k - 1 \in T => k \in T
    BY <1>2, <1>4, <1>13
  <2> HIDE DEF T
  <2>3. QED
    BY <1>2, <2>1, <2>2, UpTo
<1>17. f \in [0..n -> A]
  BY <1>15, <1>16
<1>18. QED
  BY <1>12, <1>13, <1>14, <1>17 DEF n, A, base

\* A solved stage is a stage.
LEMMA StageFits ==
    ASSUME NEW s, WellFormed(s), NEW next \in Values(s)
    PROVE  Stage(s, next) \in Stages(s)
<1>1. TopIndex(s) \in 0..TopIndex(s)
  BY GridBelow
<1>2. PICK f \in [0..TopIndex(s) -> Stages(s)] : f[TopIndex(s)] = Stage(s, next)
  BY StageRuns
<1>3. QED
  BY <1>1, <1>2

\* The values the next stage is solved from.
LEMMA LastValuesFit ==
    ASSUME NEW s, WellFormed(s), NEW stages \in Seq(Stages(s))
    PROVE  LastValues(s, stages) \in Values(s)
<1>1. s.goal \in Nat /\ s.grid \in Nat
  BY SpecFields
<1>2. ASSUME NEW i \in GridPoints(s) PROVE TerminalValue(s, BankAt(s, i)) \in Nat
  <2>1. BankAt(s, i) \in Nat
    BY <1>1 DEF BankAt, GridPoints
  <2>2. QED
    BY <1>1, <2>1 DEF TerminalValue, Least
<1>3. ASSUME stages # <<>>, NEW i \in GridPoints(s)
      PROVE  stages[Len(stages)][i].value \in Nat
  <2>1. stages[Len(stages)] \in Stages(s)
    BY <1>3
  <2>2. stages[Len(stages)] \in [GridPoints(s) -> [value : Nat, row : Rows]]
    BY <2>1 DEF Stages
  <2>3. QED
    BY <1>3, <2>2
<1>4. QED
  BY <1>2, <1>3 DEF LastValues, Values

\* The row that is followed never costs more than the bank it is followed with.
LEMMA RowIsAffordable ==
    ASSUME NEW s, WellFormed(s), NEW stages \in Seq(Stages(s)),
           NEW remaining \in 1..Len(stages), NEW held \in Nat
    PROVE  RowFits(s, RowFor(s, stages, remaining, held), held)
<1> DEFINE i == GridIndex(s, held, 1)
<1>1. i \in GridPoints(s) /\ BankAt(s, i) * 1 <= held
  BY GridBelow
<1>2. BankAt(s, i) \in Nat /\ BankAt(s, i) <= held
  <2>1. s.grid \in Nat /\ i \in Nat
    BY <1>1, SpecFields DEF GridPoints
  <2> HIDE DEF i
  <2>2. BankAt(s, i) \in Nat
    BY <2>1 DEF BankAt
  <2>3. QED
    BY <1>1, <2>2
<1>3. stages[remaining] \in Stages(s)
  BY SeqParts
<1>4. RowFits(s, stages[remaining][i].row, BankAt(s, i))
  BY <1>1, <1>3 DEF Stages
<1>5. RowFits(s, stages[remaining][i].row, held)
  <2> HIDE DEF i
  <2>1. QED
    BY <1>2, <1>4, FitsRicher
<1>6. RowFits(s, Pass, held)
  BY BetFits
<1>7. QED
  BY <1>5, <1>6 DEF RowFor

-----------------------------------------------------------------------------
(* What following a table delivers. *)

\* A solved stage: each state has its own decision or a poorer state's, and a richer
\* state is never worth less.
LEMMA StageParts ==
    ASSUME NEW s, WellFormed(s), NEW next \in Values(s)
    PROVE  /\ \A i \in GridPoints(s) : \E j \in GridPoints(s) :
                 j <= i /\ Stage(s, next)[i] = Decision(s, next, j)
           /\ \A i \in 1..TopIndex(s) : Stage(s, next)[i - 1].value <= Stage(s, next)[i].value
<1> DEFINE n == TopIndex(s)
           own(stage) == \A i \in GridPoints(s) : \E j \in GridPoints(s) :
                            j <= i /\ stage[i] = Decision(s, next, j)
           grows(stage, k) == \A i \in 1..k : stage[i - 1].value <= stage[i].value
<1>1. n \in Nat /\ GridPoints(s) = 0..n
  BY GridBelow DEF GridPoints
<1>2. PICK f \in [0..n -> Stages(s)] :
        /\ f[0] = [i \in GridPoints(s) |-> Decision(s, next, i)] /\ f[n] = Stage(s, next)
        /\ \A k \in 1..n : f[k] = TakesOver(f[k - 1], k)
  BY StageRuns
<1> HIDE DEF n
<1> DEFINE T == {k \in 0..n : own(f[k]) /\ grows(f[k], k)}
<1>3. 0 \in T
  <2>1. own(f[0])
    BY <1>1, <1>2
  <2>2. grows(f[0], 0)
    OBVIOUS
  <2> HIDE DEF own, grows
  <2>3. QED
    BY <1>1, <2>1, <2>2
<1>4. ASSUME NEW k \in 1..n, k - 1 \in T PROVE k \in T
  <2>1. k - 1 \in 0..n /\ k \in 0..n /\ k \in Nat \ {0} /\ own(f[k - 1]) /\ grows(f[k - 1], k - 1)
    BY <1>1, <1>4
  <2> DEFINE old == f[k - 1]
             new == f[k]
  <2>2. old \in [GridPoints(s) -> [value : Nat, row : Rows]] /\ new = TakesOver(old, k)
    BY <1>2, <2>1 DEF Stages
  <2>3. own(old) /\ grows(old, k - 1)
    BY <2>1
  <2> HIDE DEF old
  <2>4. \A i \in 0..n : old[i].value \in Nat
    BY <1>1, <2>2
  <2>5. CASE old[k - 1].value > old[k].value
    <3>1. /\ new[k] = old[k - 1] /\ \A i \in 0..n : i # k => new[i] = old[i]
      BY <1>1, <2>1, <2>2, <2>5 DEF TakesOver
    <3> HIDE DEF new
    <3>2. own(new)
      <4>1. SUFFICES ASSUME NEW i \in GridPoints(s)
                     PROVE  \E j \in GridPoints(s) : j <= i /\ new[i] = Decision(s, next, j)
        OBVIOUS
      <4>2. CASE i = k
        <5>1. PICK j \in GridPoints(s) : j <= k - 1 /\ old[k - 1] = Decision(s, next, j)
          BY <1>1, <2>1, <2>3
        <5>2. j <= k
          BY <1>1, <2>1, <5>1
        <5>3. QED
          BY <3>1, <4>2, <5>1, <5>2
      <4>3. CASE i # k
        BY <1>1, <2>3, <3>1, <4>3
      <4>4. QED
        BY <4>2, <4>3
    <3>3. grows(new, k)
      <4>1. SUFFICES ASSUME NEW i \in 1..k PROVE new[i - 1].value <= new[i].value
        OBVIOUS
      <4>2. CASE i = k
        <5>1. new[k - 1] = old[k - 1] /\ k - 1 # k
          BY <2>1, <3>1
        <5>2. QED
          BY <2>1, <2>4, <3>1, <4>2, <5>1
      <4>3. CASE i # k
        <5>1. i \in 1..(k - 1) /\ i - 1 # k /\ i \in 0..n /\ i - 1 \in 0..n
          BY <1>1, <2>1, <4>3
        <5>2. QED
          BY <2>3, <3>1, <4>3, <5>1
      <4>4. QED
        BY <4>2, <4>3
    <3> HIDE DEF own, grows
    <3>4. QED
      BY <2>1, <3>2, <3>3 DEF new
  <2>6. CASE ~(old[k - 1].value > old[k].value)
    <3>1. new = old
      BY <2>2, <2>6 DEF TakesOver
    <3> HIDE DEF new
    <3>2. grows(new, k)
      <4>1. SUFFICES ASSUME NEW i \in 1..k PROVE old[i - 1].value <= old[i].value
        BY <3>1
      <4>2. CASE i = k
        <5>1. old[k - 1].value \in Nat /\ old[k].value \in Nat
          BY <2>1, <2>4
        <5>2. QED
          BY <2>6, <4>2, <5>1
      <4>3. CASE i # k
        <5>1. i \in 1..(k - 1)
          BY <2>1, <4>3
        <5>2. QED
          BY <2>3, <5>1
      <4>4. QED
        BY <4>2, <4>3
    <3> HIDE DEF own, grows
    <3>3. QED
      BY <2>1, <2>3, <3>1, <3>2 DEF new
  <2>7. QED
    BY <2>5, <2>6
<1>5. n \in T
  <2> HIDE DEF T
  <2>1. \A k \in 0..n : k \in T
    BY <1>1, <1>3, <1>4, UpTo
  <2>2. QED
    BY <1>1, <2>1
<1>6. QED
  BY <1>2, <1>5 DEF n

\* Values that never fall from a state to the next richer one never fall.
LEMMA ValuesGrow ==
    ASSUME NEW n \in Nat, NEW v, \A i \in 0..n : v[i] \in Int, \A i \in 1..n : v[i - 1] <= v[i],
           NEW i \in 0..n, NEW j \in 0..n, i <= j
    PROVE  v[i] <= v[j]
<1> DEFINE T == {k \in 0..n : i <= k => v[i] <= v[k]}
<1>1. 0 \in T
  BY DEF T
<1>2. ASSUME NEW k \in 1..n, k - 1 \in T PROVE k \in T
  <2>1. CASE i <= k - 1
    <3>1. k - 1 \in 0..n /\ k \in 0..n /\ v[i] <= v[k - 1] /\ v[k - 1] <= v[k]
      BY <1>2, <2>1
    <3>2. v[i] \in Int /\ v[k - 1] \in Int /\ v[k] \in Int
      BY <3>1
    <3>3. QED
      BY <3>1, <3>2
  <2>2. CASE ~(i <= k - 1)
    <3>1. i <= k => i = k
      BY <2>2
    <3>2. QED
      BY <3>1
  <2>3. QED
    BY <2>1, <2>2
<1> HIDE DEF T
<1>3. \A k \in 0..n : k \in T
  BY <1>1, <1>2, UpTo
<1>4. QED
  BY <1>3 DEF T

\* The grid point of a richer bank is no poorer.
LEMMA GridGrows ==
    ASSUME NEW s, WellFormed(s), NEW amount \in Nat, NEW more \in Nat, amount <= more
    PROVE  GridIndex(s, amount, 1) <= GridIndex(s, more, 1)
<1>1. s.grid \in Nat \ {0} /\ 1 * s.grid = s.grid
  BY SpecFields
<1> DEFINE g == s.grid
           p == amount \div g
           q == more \div g
<1>2. /\ p \in Int /\ p * g <= amount /\ q \in Int /\ more < q * g + g
  <2>1. g \in Nat \ {0}
    BY <1>1
  <2> HIDE DEF g
  <2>2. amount \in Int /\ more \in Int
    OBVIOUS
  <2>3. QED
    BY <2>1, <2>2, Quotient
<1>3. p <= q
  <2>1. g \in Nat \ {0}
    BY <1>1
  <2> HIDE DEF g, p, q
  <2>2. SUFFICES ASSUME p >= q + 1 PROVE FALSE
    BY <1>2
  <2>3. (q + 1) * g <= p * g
    BY <1>2, <2>1, <2>2, Scale
  <2>4. (q + 1) * g = q * g + g /\ q * g \in Int /\ p * g \in Int
    BY <1>2, <2>1
  <2>5. QED
    BY <1>2, <2>1, <2>3, <2>4
<1>4. GridIndex(s, amount, 1) = Least(TopIndex(s), p) /\ GridIndex(s, more, 1) = Least(TopIndex(s), q)
  BY <1>1 DEF GridIndex
<1>5. TopIndex(s) \in Nat
  BY GridBelow
<1> HIDE DEF p, q
<1>6. QED
  BY <1>2, <1>3, <1>4, <1>5 DEF Least

\* The same amount in parts of a point.
LEMMA GridOfParts ==
    ASSUME NEW s, WellFormed(s), NEW amount \in Nat, NEW parts \in Nat \ {0}
    PROVE  GridIndex(s, parts * amount, parts) = GridIndex(s, amount, 1)
<1>1. s.grid \in Nat \ {0} /\ 1 * s.grid = s.grid
  BY SpecFields
<1> DEFINE g == s.grid
           cell == parts * g
           p == (parts * amount) \div cell
           q == amount \div g
<1>2. g \in Nat \ {0}
  BY <1>1
<1> HIDE DEF g
<1>3. cell \in Nat \ {0} /\ parts * amount \in Nat
  BY <1>2
<1>4. p \in Int /\ p * cell <= parts * amount /\ parts * amount < p * cell + cell
  BY <1>3, Quotient
<1>5. q \in Int /\ q * g <= amount /\ amount < q * g + g
  BY <1>2, Quotient
<1> HIDE DEF p, q
<1>6. p * cell = parts * (p * g) /\ p * g \in Int /\ q * g \in Int
  BY <1>2, <1>4, <1>5
<1>7. p * g <= amount
  <2>1. SUFFICES ASSUME p * g >= amount + 1 PROVE FALSE
    BY <1>6
  <2>2. (amount + 1) * parts <= (p * g) * parts
    BY <1>6, <2>1, Scale
  <2>3. (amount + 1) * parts = parts * amount + parts /\ (p * g) * parts = parts * (p * g)
    BY <1>6
  <2>4. parts * (p * g) \in Int /\ parts * amount \in Int
    BY <1>3, <1>6
  <2>5. QED
    BY <1>4, <1>6, <2>2, <2>3, <2>4
<1>8. amount < p * g + g
  <2>1. SUFFICES ASSUME p * g + g <= amount PROVE FALSE
    BY <1>2, <1>6
  <2>2. p * g + g \in Int
    BY <1>2, <1>6
  <2>3. (p * g + g) * parts <= amount * parts
    BY <2>1, <2>2, Scale
  <2>4. (p * g + g) * parts = parts * (p * g) + cell /\ amount * parts = parts * amount
    BY <1>2, <1>6
  <2>5. parts * (p * g) \in Int
    BY <1>6
  <2>6. QED
    BY <1>3, <1>4, <1>6, <2>3, <2>4, <2>5
<1>9. p = q
  <2>1. p <= q
    <3>1. SUFFICES ASSUME q + 1 <= p PROVE FALSE
      BY <1>4, <1>5
    <3>2. (q + 1) * g <= p * g
      BY <1>2, <1>4, <1>5, <3>1, Scale
    <3>3. (q + 1) * g = q * g + g
      BY <1>2, <1>5
    <3>4. QED
      BY <1>2, <1>5, <1>6, <1>7, <3>2, <3>3
  <2>2. q <= p
    <3>1. SUFFICES ASSUME p + 1 <= q PROVE FALSE
      BY <1>4, <1>5
    <3>2. (p + 1) * g <= q * g
      BY <1>2, <1>4, <1>5, <3>1, Scale
    <3>3. (p + 1) * g = p * g + g
      BY <1>2, <1>4
    <3>4. QED
      BY <1>2, <1>5, <1>6, <1>8, <3>2, <3>3
  <2>3. QED
    BY <1>4, <1>5, <2>1, <2>2
<1>10. QED
  BY <1>1, <1>9 DEF GridIndex, p, q, cell, g

\* Following the table with this bank in this race; rest is what the later races bring.
Follow(s, stages, remaining, held, rest) ==
    LET row == RowFor(s, stages, remaining, held)
        kept == held - row.stake_each * row.tickets
    IN  IF held >= s.goal \/ row.tickets = 0 \/ kept < 0 THEN s.draws * rest[held]
        ELSE row.hit * rest[Least(s.goal, kept + row.stake_each * row.odds)]
             + (s.draws - row.hit) * rest[kept]

\* What following a stage brings is a number.
LEMMA FollowIsInt ==
    ASSUME NEW s, WellFormed(s), NEW stages \in Seq(Stages(s)),
           NEW remaining \in 1..Len(stages), NEW held \in 0..s.goal,
           NEW rest \in [0..s.goal -> Int]
    PROVE  Follow(s, stages, remaining, held, rest) \in Int
<1> DEFINE row == RowFor(s, stages, remaining, held)
           cost == row.stake_each * row.tickets
           kept == held - cost
           won == row.stake_each * row.odds
           up == Least(s.goal, kept + won)
<1>1. s.goal \in Nat /\ s.draws \in Nat /\ held \in Nat
  BY SpecFields
<1>2. row.tickets \in Nat /\ row.stake_each \in Nat /\ row.odds \in Nat /\ row.hit \in Nat
  <2>1. RowFits(s, row, held)
    BY <1>1, RowIsAffordable
  <2>2. row.hit \in Nat
    <3>1. GridIndex(s, held, 1) \in GridPoints(s)
      BY <1>1, GridBelow
    <3>2. stages[remaining] \in [GridPoints(s) -> [value : Nat, row : Rows]]
      <4>1. stages[remaining] \in Stages(s)
        BY SeqParts
      <4>2. QED
        BY <4>1 DEF Stages
    <3>3. stages[remaining][GridIndex(s, held, 1)].row \in Rows
      BY <3>1, <3>2
    <3>4. Pass.hit \in Nat
      BY DEF Pass
    <3>5. QED
      BY <3>3, <3>4 DEF RowFor, Rows
  <2> HIDE DEF row
  <2>3. QED
    BY <2>1, <2>2 DEF RowFits
<1>3. Follow(s, stages, remaining, held, rest) =
        IF held >= s.goal \/ row.tickets = 0 \/ kept < 0 THEN s.draws * rest[held]
        ELSE row.hit * rest[up] + (s.draws - row.hit) * rest[kept]
  BY DEF Follow
<1> HIDE DEF row
<1>4. cost \in Nat /\ won \in Nat
  BY <1>2
<1> HIDE DEF cost, won
<1>5. CASE held >= s.goal \/ row.tickets = 0 \/ kept < 0
  <2>1. rest[held] \in Int
    OBVIOUS
  <2>2. s.draws * rest[held] \in Int
    BY <1>1, <2>1
  <2>3. QED
    BY <1>3, <1>5, <2>2
<1>6. CASE ~(held >= s.goal \/ row.tickets = 0 \/ kept < 0)
  <2>1. kept \in 0..s.goal /\ up \in 0..s.goal
    BY <1>1, <1>4, <1>6 DEF Least
  <2> HIDE DEF kept, up
  <2>2. rest[up] \in Int /\ rest[kept] \in Int
    BY <2>1
  <2> DEFINE x == rest[up]
             y == rest[kept]
             h == row.hit
  <2>3. h * x + (s.draws - h) * y \in Int
    <3>1. h \in Int /\ x \in Int /\ y \in Int /\ s.draws - h \in Int
      BY <1>1, <1>2, <2>2
    <3> HIDE DEF h, x, y
    <3>2. h * x \in Int /\ (s.draws - h) * y \in Int
      BY <3>1
    <3>3. QED
      BY <3>2
  <2>4. QED
    BY <1>3, <1>6, <2>3
<1>7. QED
  BY <1>5, <1>6

\* Delivered is what its recursion says: race by race, the last one first.
LEMMA DeliveredRuns ==
    ASSUME NEW s, WellFormed(s), NEW stages \in Seq(Stages(s)), Len(stages) = s.races
    PROVE  /\ Delivered(s, stages) \in [0..s.races -> [0..s.goal -> Int]]
           /\ \A held \in 0..s.goal : Delivered(s, stages)[0][held] = TerminalValue(s, held)
           /\ \A r \in 1..s.races, held \in 0..s.goal :
                 Delivered(s, stages)[r][held]
                    = Follow(s, stages, r, held, Delivered(s, stages)[r - 1])
<1> DEFINE n == s.races
           A == [0..s.goal -> Int]
           base == [held \in 0..s.goal |-> TerminalValue(s, held)]
           after(r, rest) == [held \in 0..s.goal |-> Follow(s, stages, r, held, rest)]
           step == [p \in A \X (1..n) |-> after(p[2], p[1])]
           solves(f) == f = [r \in 0..n |-> [held \in 0..s.goal |->
                                IF r = 0 THEN TerminalValue(s, held)
                                ELSE Follow(s, stages, r, held, f[r - 1])]]
<1>1. n \in Nat /\ s.goal \in Nat
  BY SpecFields
<1>2. base \in A
  BY <1>1 DEF TerminalValue, Least
<1>3. \A r \in 1..n, rest \in A : after(r, rest) \in A
  BY FollowIsInt
<1>4. step \in [A \X (1..n) -> A]
  <2> HIDE DEF A, after
  <2>1. QED
    BY <1>3
<1>5. Delivered(s, stages) = CHOOSE f : solves(f)
  BY DEF Delivered, Follow
<1> HIDE DEF base, step, A, n
<1>6. PICK g : Folding(g, base, step, n)
  BY <1>1, <1>2, <1>4, FoldExists
<1>7. PICK f \in [0..n -> A] : Runs(f, g, base, step, n)
  BY <1>1, <1>2, <1>4, <1>6, FoldRuns
<1>8. f[0] = base /\ \A r \in 1..n : f[r] = after(r, f[r - 1])
  <2>1. ASSUME NEW r \in 1..n PROVE f[r] = after(r, f[r - 1])
    <3>1. f[r] = step[<<f[r - 1], r>>] /\ r - 1 \in 0..n
      BY <1>1, <1>7 DEF Runs
    <3>2. f[r - 1] \in A
      BY <3>1
    <3> HIDE DEF after
    <3>3. QED
      BY <3>1, <3>2 DEF step
  <2>2. QED
    BY <1>7, <2>1 DEF Runs
<1>9. solves(f)
  <2>1. f = [r \in 0..n |-> f[r]]
    OBVIOUS
  <2>2. ASSUME NEW r \in 0..n
        PROVE  f[r] = [held \in 0..s.goal |-> IF r = 0 THEN TerminalValue(s, held)
                                              ELSE Follow(s, stages, r, held, f[r - 1])]
    <3>1. CASE r = 0
      BY <1>8, <3>1 DEF base
    <3>2. CASE r # 0
      <4>1. r \in 1..n
        BY <1>1, <3>2
      <4>2. QED
        BY <1>8, <3>2, <4>1
    <3>3. QED
      BY <3>1, <3>2
  <2>3. QED
    BY <2>1, <2>2
<1> DEFINE D == CHOOSE h : solves(h)
<1>10. solves(D)
  BY <1>9
<1> HIDE DEF D
<1>11. D[0] = base /\ \A r \in 1..n : D[r] = after(r, D[r - 1])
  <2> DEFINE whole(r) == [held \in 0..s.goal |-> IF r = 0 THEN TerminalValue(s, held)
                                                 ELSE Follow(s, stages, r, held, D[r - 1])]
  <2>1. D = [r \in 0..n |-> whole(r)]
    BY <1>10
  <2>2. \A r \in 0..n : D[r] = whole(r)
    <3> HIDE DEF whole
    <3>1. QED
      BY <2>1, Zenon
  <2>3. whole(0) = base
    BY DEF base
  <2>4. ASSUME NEW r \in 1..n PROVE whole(r) = after(r, D[r - 1])
    <3>1. r # 0
      BY <1>1
    <3>2. QED
      BY <3>1
  <2>5. 0 \in 0..n /\ \A r \in 1..n : r \in 0..n
    BY <1>1
  <2> HIDE DEF whole, after
  <2>6. QED
    BY <2>2, <2>3, <2>4, <2>5, Zenon
<1> DEFINE T == {r \in 0..n : D[r] \in A}
<1>12. \A r \in 0..n : r \in T
  <2>1. 0 \in T
    BY <1>1, <1>2, <1>11
  <2>2. ASSUME NEW r \in 1..n, r - 1 \in T PROVE r \in T
    <3>1. D[r] = after(r, D[r - 1]) /\ D[r - 1] \in A
      BY <1>11, <2>2
    <3> HIDE DEF after
    <3>2. QED
      BY <1>1, <1>3, <3>1
  <2> HIDE DEF T
  <2>3. QED
    BY <1>1, <2>1, <2>2, UpTo
<1>13. D \in [0..n -> A]
  <2>1. D = [r \in 0..n |-> D[r]]
    BY <1>10
  <2>2. QED
    BY <1>12, <2>1
<1>14. /\ \A held \in 0..s.goal : D[0][held] = TerminalValue(s, held)
       /\ \A r \in 1..n, held \in 0..s.goal : D[r][held] = Follow(s, stages, r, held, D[r - 1])
  <2>1. \A held \in 0..s.goal : base[held] = TerminalValue(s, held)
    BY DEF base
  <2>2. ASSUME NEW r \in 1..n, NEW held \in 0..s.goal
        PROVE  D[r][held] = Follow(s, stages, r, held, D[r - 1])
    <3>1. after(r, D[r - 1])[held] = Follow(s, stages, r, held, D[r - 1])
      OBVIOUS
    <3>2. D[r] = after(r, D[r - 1])
      BY <1>11
    <3> HIDE DEF after
    <3>3. QED
      BY <3>1, <3>2
  <2>3. QED
    BY <1>11, <2>1, <2>2
<1>15. QED
  BY <1>5, <1>13, <1>14 DEF D, n, A

\* What the states are worth with so many races left.
ValuesOf(s, stages, remaining) ==
    [i \in GridPoints(s) |-> IF remaining = 0 THEN TerminalValue(s, BankAt(s, i))
                             ELSE stages[remaining][i].value]

\* The table is solved backwards, each stage from the one after it.
IsSolved(s, stages) ==
    \A r \in DOMAIN stages : stages[r] = Stage(s, ValuesOf(s, stages, r - 1))

\* The values of a stage never fall as the bank grows.
LEMMA ValuesParts ==
    ASSUME NEW s, WellFormed(s), NEW stages \in Seq(Stages(s)), IsSolved(s, stages),
           NEW remaining \in 0..Len(stages),
           NEW v, v = ValuesOf(s, stages, remaining)
    PROVE  /\ v \in Values(s)
           /\ \A i, j \in GridPoints(s) : i <= j => v[i] <= v[j]
<1>1. s.goal \in Nat /\ s.grid \in Nat /\ TopIndex(s) \in Nat /\ GridPoints(s) = 0..TopIndex(s)
  BY SpecFields, GridBelow DEF GridPoints
<1>2. \A r \in 0..Len(stages) : ValuesOf(s, stages, r) \in Values(s)
  <2>1. SUFFICES ASSUME NEW r \in 0..Len(stages), NEW i \in GridPoints(s)
                 PROVE  ValuesOf(s, stages, r)[i] \in Nat
    BY DEF Values, ValuesOf
  <2>2. CASE r = 0
    <3>1. BankAt(s, i) \in Nat
      BY <1>1 DEF BankAt
    <3>2. TerminalValue(s, BankAt(s, i)) \in Nat
      BY <1>1, <3>1 DEF TerminalValue, Least
    <3>3. QED
      BY <2>2, <3>2 DEF ValuesOf
  <2>3. CASE r # 0
    <3>1. stages[r] \in Stages(s)
      BY <2>3, SeqParts
    <3>2. stages[r][i].value \in Nat
      BY <3>1 DEF Stages
    <3>3. QED
      BY <2>3, <3>2 DEF ValuesOf
  <2>4. QED
    BY <2>2, <2>3
<1>3. v \in Values(s)
  BY <1>2
<1>4. \A i \in 1..TopIndex(s) : v[i - 1] <= v[i]
  <2>1. SUFFICES ASSUME NEW i \in 1..TopIndex(s) PROVE v[i - 1] <= v[i]
    OBVIOUS
  <2>2. i \in GridPoints(s) /\ i - 1 \in GridPoints(s) /\ i \in Nat /\ i - 1 \in Nat
    BY <1>1
  <2>3. CASE remaining = 0
    <3>1. /\ BankAt(s, i - 1) <= BankAt(s, i) /\ BankAt(s, i - 1) \in Nat /\ BankAt(s, i) \in Nat
      BY <2>2, BanksGrow
    <3>2. TerminalValue(s, BankAt(s, i - 1)) <= TerminalValue(s, BankAt(s, i))
      BY <1>1, <3>1 DEF TerminalValue, Least
    <3>3. QED
      BY <2>2, <2>3, <3>2 DEF ValuesOf
  <2>4. CASE remaining # 0
    <3> DEFINE next == ValuesOf(s, stages, remaining - 1)
    <3>1. remaining \in DOMAIN stages /\ remaining - 1 \in 0..Len(stages)
      BY <2>4
    <3>2. stages[remaining] = Stage(s, next) /\ next \in Values(s)
      BY <1>2, <3>1 DEF IsSolved
    <3> HIDE DEF next
    <3>3. stages[remaining][i - 1].value <= stages[remaining][i].value
      BY <3>2, StageParts
    <3>4. QED
      BY <2>2, <2>4, <3>3 DEF ValuesOf
  <2>5. QED
    BY <2>3, <2>4
<1>5. ASSUME NEW i \in GridPoints(s), NEW j \in GridPoints(s), i <= j PROVE v[i] <= v[j]
  <2> DEFINE n == TopIndex(s)
  <2>1. n \in Nat /\ i \in 0..n /\ j \in 0..n
    BY <1>1
  <2>2. (\A m \in 0..n : v[m] \in Int) /\ (\A m \in 1..n : v[m - 1] <= v[m])
    BY <1>1, <1>3, <1>4 DEF Values
  <2> HIDE DEF n
  <2>3. QED
    BY <1>5, <2>1, <2>2, ValuesGrow
<1>6. QED
  BY <1>3, <1>5

\* Weights that are not negative keep an order.
LEMMA Weigh ==
    ASSUME NEW h \in Nat, NEW m \in Nat, NEW x \in Int, NEW y \in Int, NEW a \in Int, NEW b \in Int,
           x <= a, y <= b
    PROVE  h * x + m * y <= h * a + m * b
<1>1. x * h <= a * h /\ y * m <= b * m
  BY Scale
<1>2. h * x = x * h /\ h * a = a * h /\ m * y = y * m /\ m * b = b * m
  OBVIOUS
<1>3. x * h \in Int /\ a * h \in Int /\ y * m \in Int /\ b * m \in Int
  OBVIOUS
<1>4. QED
  BY <1>1, <1>2, <1>3

\* No state is worth more than all draws at the most a later state is worth.
LEMMA WorthIsBounded ==
    ASSUME NEW s, WellFormed(s), NEW next \in Values(s), NEW i \in GridPoints(s),
           NEW most \in Int, \A j \in GridPoints(s) : next[j] <= most
    PROVE  Decision(s, next, i).value <= s.draws * most
<1>1. s.draws \in Nat
  BY SpecFields
<1>2. \A j \in GridPoints(s) : next[j] \in Nat
  BY DEF Values
<1>3. s.draws * next[i] <= s.draws * most
  <2> DEFINE x == next[i]
  <2>1. x \in Int /\ x <= most
    BY <1>2
  <2> HIDE DEF x
  <2>2. x * s.draws <= most * s.draws
    BY <1>1, <2>1, Scale
  <2>3. x * s.draws = s.draws * x /\ most * s.draws = s.draws * most
    BY <1>1, <2>1
  <2>4. QED
    BY <2>2, <2>3 DEF x
<1>4. ASSUME NEW a \in Actions(s) PROVE ActionValue(s, next, a, i) <= s.draws * most
  <2> DEFINE h == Hits(s, a)
             m == s.draws - h
             x == next[UpIndex(s, a, BankAt(s, i))]
             y == next[DownIndex(s, a, BankAt(s, i))]
  <2>1. h \in 0..(s.draws - 1) /\ x \in Nat /\ y \in Nat /\ x <= most /\ y <= most
    <3>1. /\ UpIndex(s, a, BankAt(s, i)) \in GridPoints(s)
          /\ DownIndex(s, a, BankAt(s, i)) \in GridPoints(s) /\ h \in 0..(s.draws - 1)
      BY WorthIsNat
    <3>2. QED
      BY <1>2, <3>1
  <2>2. ActionValue(s, next, a, i) = h * x + m * y
    BY DEF ActionValue
  <2>3. h \in Nat /\ m \in Nat /\ s.draws = h + m
    BY <1>1, <2>1
  <2> HIDE DEF h, m, x, y
  <2>4. h * x + m * y <= h * most + m * most
    BY <2>1, <2>3, Weigh
  <2>5. h * most + m * most = (h + m) * most
    BY <2>3
  <2>6. QED
    BY <2>2, <2>3, <2>4, <2>5
<1>5. QED
  BY <1>3, <1>4, DecisionFits

\* So many races left, following the table brings what the stage says at every bank:
\* below the goal the value of the grid point below, at the goal any value.
Brings(s, v, rest) ==
    /\ \A held \in 0..(s.goal - 1) : v[GridIndex(s, held, 1)] <= rest[held]
    /\ \A i \in GridPoints(s) : v[i] <= rest[s.goal]

\* More points bring no less, cut at the goal.
LEMMA BringsMore ==
    ASSUME NEW s, WellFormed(s), NEW v \in Values(s),
           \A i, j \in GridPoints(s) : i <= j => v[i] <= v[j],
           NEW rest \in [0..s.goal -> Int], Brings(s, v, rest),
           NEW amount \in Nat, NEW more \in Nat, amount <= more
    PROVE  /\ GridIndex(s, amount, 1) \in GridPoints(s) /\ Least(s.goal, more) \in 0..s.goal
           /\ v[GridIndex(s, amount, 1)] <= rest[Least(s.goal, more)]
<1>1. s.goal \in Nat \ {0}
  BY SpecFields
<1>2. /\ GridIndex(s, amount, 1) \in GridPoints(s) /\ GridIndex(s, more, 1) \in GridPoints(s)
      /\ GridIndex(s, amount, 1) <= GridIndex(s, more, 1)
  BY GridBelow, GridGrows
<1>3. Least(s.goal, more) \in 0..s.goal
  BY <1>1 DEF Least
<1>4. CASE more < s.goal
  <2>1. Least(s.goal, more) = more /\ more \in 0..(s.goal - 1)
    BY <1>1, <1>4 DEF Least
  <2>2. v[GridIndex(s, more, 1)] <= rest[more]
    BY <2>1 DEF Brings
  <2>3. v[GridIndex(s, amount, 1)] <= v[GridIndex(s, more, 1)]
    BY <1>2
  <2>4. /\ v[GridIndex(s, amount, 1)] \in Int /\ v[GridIndex(s, more, 1)] \in Int
        /\ rest[more] \in Int
    BY <1>2, <1>3, <2>1 DEF Values
  <2>5. v[GridIndex(s, amount, 1)] <= rest[more]
    BY <2>2, <2>3, <2>4
  <2>6. QED
    BY <1>2, <1>3, <2>1, <2>5
<1>5. CASE ~(more < s.goal)
  <2>1. Least(s.goal, more) = s.goal
    BY <1>1, <1>5 DEF Least
  <2>2. QED
    BY <1>2, <1>3, <2>1 DEF Brings
<1>6. QED
  BY <1>4, <1>5

\* What an action costs and wins, when no stake lost a fraction of a point.
LEMMA BetWins ==
    ASSUME NEW s, WellFormed(s), NEW a \in Actions(s), NEW held \in Nat,
           NEW row, row = Bet(s, a, held), row.total_spend = row.stake_each * row.tickets
    PROVE  /\ row.tickets \in Nat \ {0} /\ row.stake_each * row.tickets \in 0..held
           /\ row.stake_each * row.odds \in Nat
           /\ UpIndex(s, a, held)
                 = GridIndex(s, (held - row.stake_each * row.tickets) + row.stake_each * row.odds, 1)
           /\ DownIndex(s, a, held) = GridIndex(s, held - row.stake_each * row.tickets, 1)
<1> DEFINE k == s.counts[a[2]]
           spend == Spend(s, a, held)
           each == spend \div k
           odds == s.bands[a[1]].odds
<1>1. k \in Nat \ {0} /\ odds \in Nat /\ spend \in 0..held
  BY ActionParts, SpendFits
<1>2. /\ row.tickets = k /\ row.odds = odds /\ row.stake_each = each /\ row.total_spend = spend
  BY DEF Bet
<1>3. /\ UpIndex(s, a, held) = GridIndex(s, k * (held - spend) + spend * odds, k)
      /\ DownIndex(s, a, held) = GridIndex(s, held - spend, 1)
  BY DEF UpIndex, DownIndex
<1> HIDE DEF k, spend, odds
<1>4. each \in Nat /\ spend = each * k
  BY <1>1, <1>2, QuotientIsNat
<1> HIDE DEF each
<1>5. each * odds \in Nat /\ held - spend \in Nat
  BY <1>1, <1>4
<1> DEFINE won == each * odds
           amount == (held - spend) + won
<1>6. k * (held - spend) + spend * odds = k * amount
  <2>1. spend * odds = k * won
    BY <1>1, <1>4
  <2> HIDE DEF won
  <2> DEFINE kept == held - spend
  <2>2. kept \in Int /\ won \in Int
    BY <1>1, <1>5 DEF won
  <2> HIDE DEF kept
  <2>3. k * kept + k * won = k * (kept + won)
    BY <1>1, <2>2
  <2>4. QED
    BY <2>1, <2>3 DEF kept
<1>7. amount \in Nat
  BY <1>5
<1> HIDE DEF amount
<1>8. GridIndex(s, k * amount, k) = GridIndex(s, amount, 1)
  BY <1>1, <1>7, GridOfParts
<1>9. QED
  BY <1>1, <1>2, <1>3, <1>4, <1>5, <1>6, <1>8 DEF amount, won

\* A stage whose successor brings what it says brings it too.
LEMMA StageBrings ==
    ASSUME NEW s, WellFormed(s), NEW stages \in Seq(Stages(s)), IsSolved(s, stages),
           NEW r \in 1..Len(stages), NEW rest \in [0..s.goal -> Int],
           NEW next, next = ValuesOf(s, stages, r - 1), Brings(s, next, rest),
           \A i \in GridPoints(s) :
               LET row == stages[r][i].row IN row.total_spend = row.stake_each * row.tickets
    PROVE  Brings(s, ValuesOf(s, stages, r),
                  [held \in 0..s.goal |-> Follow(s, stages, r, held, rest)])
<1>1. s.goal \in Nat \ {0} /\ s.draws \in Nat \ {0}
  BY SpecFields
<1>2. r \in DOMAIN stages /\ r - 1 \in 0..Len(stages) /\ r # 0
  OBVIOUS
<1>3. next \in Values(s) /\ \A i, j \in GridPoints(s) : i <= j => next[i] <= next[j]
  BY <1>2, ValuesParts
<1>4. stages[r] = Stage(s, next)
  BY <1>2 DEF IsSolved
<1>5. \A i \in GridPoints(s) : \E j \in GridPoints(s) :
          j <= i /\ stages[r][i] = Decision(s, next, j)
  BY <1>3, <1>4, StageParts
<1>6. \A i \in GridPoints(s) : ValuesOf(s, stages, r)[i] = stages[r][i].value
  BY <1>2 DEF ValuesOf
<1>7. ASSUME NEW i \in GridPoints(s)
      PROVE  stages[r][i].value <= Follow(s, stages, r, s.goal, rest)
  <2>1. PICK j \in GridPoints(s) : stages[r][i] = Decision(s, next, j)
    BY <1>5
  <2>2. Follow(s, stages, r, s.goal, rest) = s.draws * rest[s.goal]
    BY <1>1 DEF Follow
  <2>3. rest[s.goal] \in Int /\ \A m \in GridPoints(s) : next[m] <= rest[s.goal]
    BY <1>1 DEF Brings
  <2>4. QED
    BY <1>3, <2>1, <2>2, <2>3, WorthIsBounded
<1>8. ASSUME NEW held \in 0..(s.goal - 1)
      PROVE  stages[r][GridIndex(s, held, 1)].value <= Follow(s, stages, r, held, rest)
  <2> DEFINE i == GridIndex(s, held, 1)
             row == stages[r][i].row
  <2>1. held \in Nat /\ held < s.goal /\ held \in 0..s.goal
    BY <1>1
  <2>2. i \in GridPoints(s) /\ BankAt(s, i) <= held /\ BankAt(s, i) \in Nat
    <3>1. i \in GridPoints(s) /\ BankAt(s, i) * 1 <= held
      BY <2>1, GridBelow
    <3> HIDE DEF i
    <3>2. BankAt(s, i) \in Nat
      BY <3>1, SpecFields DEF BankAt, GridPoints
    <3>3. QED
      BY <3>1, <3>2
  <2>3. RowFor(s, stages, r, held) = row
    <3>1. ~(BankAt(s, i) >= s.goal)
      BY <1>1, <2>1, <2>2
    <3>2. QED
      BY <3>1 DEF RowFor
  <2>4. next[i] <= rest[held] /\ rest[held] \in Int
    BY <2>1 DEF Brings
  <2>5. PICK j \in GridPoints(s) : j <= i /\ stages[r][i] = Decision(s, next, j)
    BY <1>5, <2>2
  <2>6. row.total_spend = row.stake_each * row.tickets
    BY <2>2
  <2> HIDE DEF i
  <2> DEFINE low == BankAt(s, j)
             cost == row.stake_each * row.tickets
             kept == held - cost
             won == row.stake_each * row.odds
             up == Least(s.goal, kept + won)
  <2>7. low \in Nat /\ low <= held
    <3>1. j \in Nat /\ i \in Nat
      BY <2>2 DEF GridPoints
    <3>2. BankAt(s, j) \in Nat /\ BankAt(s, j) <= BankAt(s, i)
      BY <2>5, <3>1, BanksGrow
    <3>3. QED
      BY <2>1, <2>2, <3>2
  <2>8. Follow(s, stages, r, held, rest) =
          IF held >= s.goal \/ row.tickets = 0 \/ kept < 0 THEN s.draws * rest[held]
          ELSE row.hit * rest[up] + (s.draws - row.hit) * rest[kept]
    BY <2>3 DEF Follow
  <2> HIDE DEF row, low
  <2>9. CASE Decision(s, next, j) = [value |-> s.draws * next[j], row |-> Pass]
    <3>1. row.tickets = 0 /\ stages[r][i].value = s.draws * next[j]
      BY <2>5, <2>9 DEF row, Pass
    <3>2. next[j] <= rest[held] /\ next[j] \in Int
      <4>1. next[j] <= next[i] /\ next[j] \in Int /\ next[i] \in Int
        BY <1>3, <2>2, <2>5 DEF Values
      <4>2. QED
        BY <2>4, <4>1
    <3>3. s.draws * next[j] <= s.draws * rest[held]
      <4> DEFINE x == next[j]
                 y == rest[held]
      <4>1. x \in Int /\ y \in Int /\ x <= y /\ s.draws \in Nat
        BY <1>1, <2>4, <3>2
      <4> HIDE DEF x, y
      <4>2. x * s.draws <= y * s.draws
        BY <4>1, Scale
      <4>3. x * s.draws = s.draws * x /\ y * s.draws = s.draws * y
        BY <4>1
      <4>4. QED
        BY <4>2, <4>3 DEF x, y
    <3>4. QED
      BY <2>8, <3>1, <3>3 DEF i
  <2>10. ASSUME NEW a \in Actions(s),
                Decision(s, next, j) = [value |-> ActionValue(s, next, a, j), row |-> Bet(s, a, low)]
         PROVE  stages[r][i].value <= Follow(s, stages, r, held, rest)
    <3>1. row = Bet(s, a, low) /\ stages[r][i].value = ActionValue(s, next, a, j)
      BY <2>5, <2>10 DEF row
    <3>2. /\ row.tickets \in Nat \ {0} /\ cost \in 0..low /\ won \in Nat
          /\ UpIndex(s, a, low) = GridIndex(s, (low - cost) + won, 1)
          /\ DownIndex(s, a, low) = GridIndex(s, low - cost, 1)
      BY <2>6, <2>7, <3>1, BetWins
    <3>3. row.hit = Hits(s, a) /\ Hits(s, a) \in 0..(s.draws - 1)
      <4>1. row.hit = Hits(s, a)
        BY <3>1 DEF Bet
      <4>2. QED
        BY <1>3, <4>1, WorthIsNat
    <3> HIDE DEF cost, won
    <3>4. /\ kept \in Nat /\ kept <= held /\ low - cost \in Nat /\ low - cost <= kept
          /\ kept + won \in Nat /\ (low - cost) + won \in Nat /\ (low - cost) + won <= kept + won
      <4>1. cost \in Nat /\ cost <= low /\ won \in Nat /\ low \in Nat /\ low <= held /\ held \in Nat
        BY <2>1, <2>7, <3>2
      <4>2. QED
        BY <4>1
    <3>5. /\ UpIndex(s, a, low) \in GridPoints(s) /\ up \in 0..s.goal
          /\ next[UpIndex(s, a, low)] <= rest[up]
      <4> HIDE DEF kept
      <4>1. PICK amount \in Nat, more \in Nat :
              amount = (low - cost) + won /\ more = kept + won
        BY <3>4
      <4>2. amount <= more
        BY <3>4, <4>1
      <4>3. QED
        BY <1>3, <3>2, <4>1, <4>2, BringsMore
    <3>6. /\ DownIndex(s, a, low) \in GridPoints(s) /\ next[DownIndex(s, a, low)] <= rest[kept]
      <4>1. Least(s.goal, kept) = kept
        BY <1>1, <2>1, <3>4 DEF Least
      <4> HIDE DEF kept
      <4>2. PICK amount \in Nat : amount = low - cost
        BY <3>4
      <4>3. QED
        BY <1>3, <3>2, <3>4, <4>1, <4>2, BringsMore
    <3> DEFINE h == Hits(s, a)
               m == s.draws - h
               x == next[UpIndex(s, a, low)]
               y == next[DownIndex(s, a, low)]
    <3>7. ActionValue(s, next, a, j) = h * x + m * y
      BY DEF ActionValue, low
    <3>8. kept \in 0..s.goal /\ ~(held >= s.goal) /\ ~(kept < 0)
      <4>1. kept \in Nat /\ kept <= held /\ held \in Nat /\ held < s.goal /\ s.goal \in Nat
        BY <1>1, <2>1, <3>4
      <4> HIDE DEF kept
      <4>2. QED
        BY <4>1
    <3>9. Follow(s, stages, r, held, rest) = h * rest[up] + m * rest[kept]
      <4>1. row.tickets # 0
        BY <3>2
      <4> HIDE DEF kept, up
      <4>2. QED
        BY <2>8, <3>3, <3>8, <4>1
    <3>10. h * x + m * y <= h * rest[up] + m * rest[kept]
      <4> DEFINE p == rest[up]
                 q == rest[kept]
      <4>1. p \in Int /\ q \in Int /\ x \in Int /\ y \in Int /\ x <= p /\ y <= q
        BY <1>3, <3>5, <3>6, <3>8 DEF Values
      <4>2. h \in Nat /\ m \in Nat
        BY <1>1, <3>3
      <4> HIDE DEF p, q, x, y, h, m
      <4>3. h * x + m * y <= h * p + m * q
        BY <4>1, <4>2, Weigh
      <4>4. QED
        BY <4>3 DEF p, q
    <3>11. QED
      BY <3>1, <3>7, <3>9, <3>10
  <2>11. QED
    BY <1>3, <2>9, <2>10, DecisionFits DEF i, low
<1>9. \A held \in 0..(s.goal - 1) :
          held \in 0..s.goal /\ GridIndex(s, held, 1) \in GridPoints(s)
  <2>1. SUFFICES ASSUME NEW held \in 0..(s.goal - 1)
                 PROVE  held \in 0..s.goal /\ GridIndex(s, held, 1) \in GridPoints(s)
    OBVIOUS
  <2>2. held \in Nat /\ held \in 0..s.goal
    BY <1>1
  <2>3. PICK parts \in Nat \ {0} : parts = 1
    OBVIOUS
  <2>4. GridIndex(s, held, parts) \in GridPoints(s)
    BY <2>2, GridBelow
  <2>5. QED
    BY <2>2, <2>3, <2>4
<1>10. s.goal \in 0..s.goal
  BY <1>1
<1>11. QED
  BY <1>6, <1>7, <1>8, <1>9, <1>10 DEF Brings

\* dp.py, simulate_table: following a solved table whose stakes are whole points brings,
\* with any number of races left and from any bank, at least the value of the state.
LEMMA TableBrings ==
    ASSUME NEW s, WellFormed(s), NEW stages \in Seq(Stages(s)), Len(stages) = s.races,
           IsSolved(s, stages),
           \A r \in DOMAIN stages : \A i \in GridPoints(s) :
               LET row == stages[r][i].row IN row.total_spend = row.stake_each * row.tickets
    PROVE  \A r \in 0..s.races : Brings(s, ValuesOf(s, stages, r), Delivered(s, stages)[r])
<1> DEFINE D == Delivered(s, stages)
           n == s.races
           T == {r \in 0..n : Brings(s, ValuesOf(s, stages, r), D[r])}
<1>1. s.goal \in Nat \ {0} /\ s.grid \in Nat /\ n \in Nat
  BY SpecFields
<1>2. /\ D \in [0..n -> [0..s.goal -> Int]]
      /\ \A held \in 0..s.goal : D[0][held] = TerminalValue(s, held)
      /\ \A r \in 1..n, held \in 0..s.goal : D[r][held] = Follow(s, stages, r, held, D[r - 1])
  BY DeliveredRuns
<1> HIDE DEF D
<1>3. Brings(s, ValuesOf(s, stages, 0), D[0])
  <2>1. \A i \in GridPoints(s) : ValuesOf(s, stages, 0)[i] = TerminalValue(s, BankAt(s, i))
    BY DEF ValuesOf
  <2>2. ASSUME NEW held \in 0..(s.goal - 1)
        PROVE  ValuesOf(s, stages, 0)[GridIndex(s, held, 1)] <= D[0][held]
    <3>1. held \in Nat /\ held \in 0..s.goal
      BY <1>1
    <3>2. PICK parts \in Nat \ {0} : parts = 1
      OBVIOUS
    <3>3. /\ GridIndex(s, held, parts) \in GridPoints(s)
          /\ BankAt(s, GridIndex(s, held, parts)) * parts <= held
      BY <3>1, GridBelow
    <3>4. PICK i : i = GridIndex(s, held, 1)
      OBVIOUS
    <3>5. i \in GridPoints(s) /\ BankAt(s, i) * 1 <= held
      BY <3>2, <3>3, <3>4
    <3>6. BankAt(s, i) \in Nat
      BY <1>1, <3>5 DEF BankAt, GridPoints
    <3>7. TerminalValue(s, BankAt(s, i)) <= TerminalValue(s, held)
      BY <1>1, <3>1, <3>5, <3>6 DEF TerminalValue, Least
    <3>8. QED
      BY <1>2, <2>1, <3>1, <3>4, <3>5, <3>7
  <2>3. ASSUME NEW i \in GridPoints(s) PROVE ValuesOf(s, stages, 0)[i] <= D[0][s.goal]
    <3>1. BankAt(s, i) \in Nat /\ s.goal \in 0..s.goal
      BY <1>1 DEF BankAt, GridPoints
    <3>2. TerminalValue(s, BankAt(s, i)) <= TerminalValue(s, s.goal)
      BY <1>1, <3>1 DEF TerminalValue, Least
    <3>3. QED
      BY <1>2, <2>1, <3>1, <3>2
  <2>4. QED
    BY <2>2, <2>3 DEF Brings
<1>4. ASSUME NEW r \in 1..n, r - 1 \in T PROVE r \in T
  <2>1. r \in 1..Len(stages) /\ r - 1 \in 0..n /\ r \in 0..n /\ DOMAIN stages = 1..Len(stages)
    BY <1>1
  <2>2. PICK rest \in [0..s.goal -> Int] : rest = D[r - 1]
    BY <1>2, <2>1
  <2>3. PICK next : next = ValuesOf(s, stages, r - 1)
    OBVIOUS
  <2>4. Brings(s, next, rest)
    BY <1>4, <2>2, <2>3
  <2>5. Brings(s, ValuesOf(s, stages, r), [held \in 0..s.goal |-> Follow(s, stages, r, held, rest)])
    BY <2>1, <2>3, <2>4, StageBrings
  <2>6. D[r] = [held \in 0..s.goal |-> Follow(s, stages, r, held, rest)]
    <3>1. D[r] \in [0..s.goal -> Int]
      BY <1>2, <2>1
    <3>2. \A held \in 0..s.goal : D[r][held] = Follow(s, stages, r, held, rest)
      BY <1>2, <2>2
    <3>3. QED
      BY <3>1, <3>2
  <2>7. QED
    BY <2>1, <2>5, <2>6
<1>5. 0 \in T
  BY <1>1, <1>3
<1> HIDE DEF T
<1>6. \A r \in 0..n : r \in T
  BY <1>1, <1>4, <1>5, UpTo
<1>7. QED
  BY <1>6 DEF T, D

\* solve: one stage more.
LEMMA StageAdded ==
    ASSUME NEW s, WellFormed(s), NEW stages \in Seq(Stages(s)), IsSolved(s, stages),
           NEW longer, longer = Append(stages, Stage(s, LastValues(s, stages)))
    PROVE  IsSolved(s, longer)
<1> DEFINE n == Len(stages)
           stage == Stage(s, LastValues(s, stages))
<1>1. /\ n \in Nat /\ DOMAIN stages = 1..n /\ DOMAIN longer = 1..(n + 1) /\ longer[n + 1] = stage
      /\ \A r \in 1..n : longer[r] = stages[r]
  OBVIOUS
<1>2. \A r \in 0..n : ValuesOf(s, longer, r) = ValuesOf(s, stages, r)
  BY <1>1 DEF ValuesOf
<1>3. LastValues(s, stages) = ValuesOf(s, stages, n)
  BY DEF LastValues, ValuesOf
<1>4. ASSUME NEW r \in DOMAIN longer PROVE longer[r] = Stage(s, ValuesOf(s, longer, r - 1))
  <2>1. CASE r = n + 1
    <3>1. r - 1 = n /\ n \in 0..n
      BY <1>1, <2>1
    <3>2. QED
      BY <1>1, <1>2, <1>3, <2>1, <3>1
  <2>2. CASE r # n + 1
    <3>1. r \in 1..n /\ r - 1 \in 0..n
      BY <1>1, <2>2
    <3>2. stages[r] = Stage(s, ValuesOf(s, stages, r - 1))
      BY <1>1, <3>1 DEF IsSolved
    <3>3. QED
      BY <1>1, <1>2, <3>1, <3>2
  <2>3. QED
    BY <2>1, <2>2
<1>5. QED
  BY <1>4 DEF IsSolved

-----------------------------------------------------------------------------
(* The planner's invariant. *)

\* The table holds solved stages, all of them once the solver has ended.
SolvedInv ==
    /\ spec \in Specs /\ budget \in Budgets /\ created_now \in BOOLEAN /\ phase \in Phases
    /\ \E R \in Panels : panel = LoadPanel(R)
    /\ table \in Seq(Stages(spec)) /\ Len(table) <= spec.races
    /\ phase # "solving" => Len(table) = spec.races

\* The planner's position, and what is left of its bank.
CountInv == index \in 0..Len(panel) /\ bank \in Nat /\ clock \in 0..MaxClock

\* The plans are in the order of the panel, each of another race.
Contracts == {p \in Documents : Contract(p)}

\* An earlier plan is of another race, which the panel lists before.
PlanBefore(p, q) ==
    /\ p.race_id # q.race_id
    /\ p.post < q.post \/ (p.post = q.post /\ p.race_id < q.race_id)

\* A plan is of a race before one that is still to come.
Behind(p, race) ==
    /\ p.race_id # race.id
    /\ p.post < race.post \/ (p.post = race.post /\ p.race_id < race.id)

\* The plans are contracts in the order of the panel, and behind what is to come.
PlansInv ==
    /\ plans \in Seq(Contracts) /\ Len(plans) <= index
    /\ \A i, j \in 1..Len(plans) : i < j => PlanBefore(plans[i], plans[j])
    /\ \A i \in 1..Len(plans) : \A k \in (index + 1)..Len(panel) : Behind(plans[i], panel[k])
    /\ TotalStake(plans) = budget - bank

\* The file holds the plans.
BundleInv ==
    phase \in {"written", "refused", "admitted"} =>
        plans # <<>> /\ bundle.plans = plans /\ bundle.race_date = plans[1].race_date

\* The planner: its table, the bank it counts with, its plans and its bundle.
PlannerInv ==
    /\ SolvedInv /\ CountInv /\ PlansInv /\ BundleInv
    /\ PlannerCompletes /\ RefusedIsExplained

\* What the invariant says of the specification, the panel and its races.
LEMMA PanelParts ==
    ASSUME SolvedInv
    PROVE  /\ WellFormed(spec) /\ spec.unit = StakeUnit /\ spec.races \in Nat \ {0}
           /\ panel # <<>> /\ Len(panel) \in Nat
           /\ \E R \in Panels : \A k \in 1..Len(panel) : panel[k] \in R
           /\ \A k \in 1..Len(panel) :
                 panel[k].id \in Nat /\ panel[k].post \in Nat
           /\ \A k, l \in 1..Len(panel) : k < l =>
                 RaceBefore(panel[k], panel[l]) /\ panel[k].id # panel[l].id
<1>1. WellFormed(spec) /\ spec.unit = StakeUnit
  BY DayAssumption DEF SolvedInv
<1>2. spec.races \in Nat \ {0}
  BY <1>1, SpecFields
<1>3. PICK R \in Panels : panel = LoadPanel(R)
  BY DEF SolvedInv
<1>4. /\ panel \in Seq(R) /\ panel # <<>>
      /\ \A k, l \in 1..Len(panel) : k < l =>
            RaceBefore(panel[k], panel[l]) /\ panel[k].id # panel[l].id
  BY <1>3, PanelSorted
<1>5. Len(panel) \in Nat /\ \A k \in 1..Len(panel) : panel[k] \in R
  BY <1>4, SeqParts
<1>6. \A r \in R : r.id \in Nat /\ r.post \in Nat
  BY DayAssumption
<1>7. QED
  BY <1>1, <1>2, <1>4, <1>5, <1>6

\* The row that is followed fits the bank that is left.
LEMMA PlannerRowFits ==
    ASSUME SolvedInv, CountInv, phase = "planning"
    PROVE  RowFits(spec, Row, bank)
<1>1. WellFormed(spec) /\ spec.races \in Nat \ {0} /\ Len(panel) \in Nat
  BY PanelParts
<1>2. table \in Seq(Stages(spec)) /\ Len(table) = spec.races /\ bank \in Nat
  BY DEF SolvedInv, CountInv
<1>3. Remaining \in 1..Len(table)
  BY <1>1, <1>2 DEF Remaining, CountInv
<1>4. RowFits(spec, RowFor(spec, table, Remaining, bank), bank)
  BY <1>1, <1>2, <1>3, RowIsAffordable
<1>5. QED
  BY <1>4 DEF Row

\* No plan, no cost.
LEMMA NoPlans == TotalStake(<<>>) = 0
<1> DEFINE q == <<>>
           f == [i \in DOMAIN q |-> PayloadStake(q[i])]
<1>1. q \in Seq({}) /\ Len(q) = 0 /\ DOMAIN q = {} /\ 1..Len(q) = {}
  OBVIOUS
<1>2. \A i \in DOMAIN q : PayloadStake(q[i]) \in Int
  BY <1>1
<1> HIDE DEF q
<1>3. TotalStake(q) = SumOn(f, 1..Len(q))
  BY <1>1, <1>2, TotalIsSum
<1>4. SumOn(f, {}) = 0
  BY SumUnrolls, FS_EmptySet
<1>5. QED
  BY <1>1, <1>3, <1>4 DEF q

\* The planner starts with no plan.
LEMMA PlannerStarts == Init => PlannerInv
<1> SUFFICES ASSUME Init PROVE PlannerInv
  OBVIOUS
<1> USE DEF Init
<1>1. SolvedInv
  <2>1. PICK R \in Panels : panel = LoadPanel(R)
    OBVIOUS
  <2>2. spec.races \in Nat \ {0}
    BY DayAssumption, SpecFields
  <2>3. <<>> \in Seq(Stages(spec)) /\ Len(<<>>) = 0
    OBVIOUS
  <2>4. QED
    BY <2>1, <2>2, <2>3 DEF SolvedInv, Phases
<1>2. CountInv
  <2>1. Len(panel) \in Nat
    BY <1>1, PanelParts
  <2>2. budget \in Nat /\ MaxClock \in Nat
    BY DayAssumption
  <2>3. QED
    BY <2>1, <2>2 DEF CountInv
<1>3. PlansInv
  <2>1. <<>> \in Seq(Contracts) /\ Len(<<>>) = 0
    OBVIOUS
  <2>2. TotalStake(plans) = budget - bank
    BY NoPlans, <1>2 DEF CountInv
  <2>3. QED
    BY <2>1, <2>2 DEF PlansInv
<1>4. BundleInv /\ PlannerCompletes /\ RefusedIsExplained
  BY DEF BundleInv, PlannerCompletes, RefusedIsExplained
<1>5. QED
  BY <1>1, <1>2, <1>3, <1>4 DEF PlannerInv

\* A race that is planned: the bank pays for it, and the plan comes last.
LEMMA PlanRaceStep ==
    ASSUME PlannerInv, PlanRace
    PROVE  CountInv' /\ PlansInv'
<1> DEFINE race == panel[index + 1]
           stake == Row.stake_each
           p == BuildPlan(race, Picks, stake, CreatedAt)
<1>1. SolvedInv /\ CountInv /\ PlansInv
  BY DEF PlannerInv
<1>2. /\ phase = "planning" /\ index < Len(panel) /\ Row.tickets # 0
      /\ race.quotes # <<>> /\ Nameable(race, Picks) /\ Buildable(race, stake, CreatedAt)
      /\ plans' = Append(plans, p) /\ bank' = bank - Cost /\ index' = index + 1
      /\ UNCHANGED <<panel, budget, clock>>
  BY DEF PlanRace, Planning, NoBet, NextRace, Writable, Card
<1>3. /\ Len(panel) \in Nat /\ index \in Nat /\ index + 1 \in 1..Len(panel) /\ bank \in Nat
      /\ budget \in Nat
  BY <1>1, <1>2, PanelParts, DayAssumption DEF CountInv, SolvedInv
<1>4. PICK R \in Panels : \A k \in 1..Len(panel) : panel[k] \in R
  BY <1>1, PanelParts
<1>5. race \in R /\ race.post \in Nat
  BY <1>1, <1>3, <1>4, PanelParts
<1>6. /\ Row.tickets \in Nat /\ stake \in Nat /\ stake * Row.tickets <= bank
  BY <1>1, <1>2, PlannerRowFits DEF RowFits
<1>7. CreatedAt \in Int
  <2>1. clock \in Int /\ TargetOffset \in Int /\ Lead \in Int
    BY <1>1, ContractAssumption DEF CountInv
  <2>2. QED
    BY <1>5, <2>1 DEF CreatedAt, Target, Card
<1>8. /\ p \in Contracts /\ p.race_id = race.id /\ p.post = race.post
      /\ PayloadStake(p) = stake * Len(Picks) /\ Len(Picks) \in 1..Row.tickets
  <2> DEFINE count == Row.tickets
             created == CreatedAt
  <2>1. Picks = PickNearOdds(race, count)
    BY DEF Picks, Card
  <2>2. /\ p = BuildPlan(race, PickNearOdds(race, count), stake, created)
        /\ race.quotes # <<>> /\ count > 0 /\ Nameable(race, PickNearOdds(race, count))
    BY <1>2, <1>6, <2>1
  <2>3. count \in Nat /\ stake \in Nat /\ created \in Int /\ Buildable(race, stake, created)
    BY <1>2, <1>6, <1>7
  <2> HIDE DEF p, count, stake, created, race
  <2>4. /\ p \in Documents /\ Contract(p) /\ p.race_id = race.id /\ p.post = race.post
        /\ PayloadStake(p) = stake * Len(Picks) /\ Len(Picks) \in 1..count
    BY <1>5, <2>1, <2>2, <2>3, BuiltIsValid, ZenonT(60)
  <2>5. QED
    BY <2>4 DEF Contracts, count
<1> HIDE DEF p, race, stake
<1>9. Cost = stake * Len(Picks) /\ Cost \in 0..bank
  <2>1. Cost = stake * Len(Picks)
    BY DEF Cost, stake
  <2>2. PICK n \in 1..Row.tickets : n = Len(Picks)
    BY <1>8
  <2>3. stake * n \in Nat /\ stake * n <= stake * Row.tickets
    <3>1. n <= Row.tickets /\ n \in Nat
      BY <1>6
    <3>2. n * stake <= Row.tickets * stake
      BY <1>6, <3>1, Scale
    <3>3. QED
      BY <1>6, <3>1, <3>2
  <2>4. QED
    BY <1>3, <1>6, <2>1, <2>2, <2>3
<1>10. CountInv'
  BY <1>1, <1>2, <1>3, <1>9 DEF CountInv
<1>11. /\ plans \in Seq(Contracts) /\ Len(plans) \in Nat
       /\ plans' \in Seq(Contracts) /\ Len(plans') = Len(plans) + 1
       /\ plans'[Len(plans) + 1] = p /\ \A i \in 1..Len(plans) : plans'[i] = plans[i]
  BY <1>1, <1>2, <1>8 DEF PlansInv
<1>12. TotalStake(plans') = budget' - bank'
  <2>1. \A q \in Contracts : PayloadStake(q) \in Int
    BY DEF Contracts, Contract
  <2>2. TotalStake(plans') = TotalStake(plans) + PayloadStake(p)
    BY <1>2, <1>8, <1>11, <2>1, TotalGrows
  <2>3. TotalStake(plans) = budget - bank
    BY <1>1 DEF PlansInv
  <2>4. QED
    BY <1>2, <1>3, <1>8, <1>9, <2>2, <2>3
<1>13. ASSUME NEW i \in 1..Len(plans'), NEW j \in 1..Len(plans'), i < j
       PROVE  PlanBefore(plans'[i], plans'[j])
  <2>1. i \in 1..Len(plans) /\ plans'[i] = plans[i]
    BY <1>11, <1>13
  <2>2. CASE j \in 1..Len(plans)
    BY <1>1, <1>11, <1>13, <2>1, <2>2 DEF PlansInv
  <2>3. CASE j = Len(plans) + 1
    <3>1. index + 1 \in (index + 1)..Len(panel)
      BY <1>3
    <3>2. Behind(plans[i], race)
      BY <1>1, <2>1, <3>1 DEF PlansInv, race
    <3>3. QED
      BY <1>8, <1>11, <2>1, <2>3, <3>2 DEF Behind, PlanBefore
  <2>4. QED
    BY <1>11, <2>2, <2>3
<1>14. ASSUME NEW i \in 1..Len(plans'), NEW k \in (index' + 1)..Len(panel')
       PROVE  Behind(plans'[i], panel'[k])
  <2>1. /\ k \in 1..Len(panel) /\ k \in (index + 1)..Len(panel) /\ index + 1 < k
        /\ panel'[k] = panel[k]
    BY <1>2, <1>3, <1>14
  <2>2. CASE i \in 1..Len(plans)
    BY <1>1, <1>11, <2>1, <2>2 DEF PlansInv
  <2>3. CASE i = Len(plans) + 1
    <3>1. RaceBefore(race, panel[k]) /\ race.id # panel[k].id
      BY <1>1, <1>3, <2>1, PanelParts DEF race
    <3>2. QED
      BY <1>8, <1>11, <2>1, <2>3, <3>1 DEF RaceBefore, Behind
  <2>4. QED
    BY <1>11, <2>2, <2>3
<1>15. Len(plans') <= index'
  BY <1>1, <1>2, <1>3, <1>11 DEF PlansInv
<1>16. QED
  BY <1>10, <1>11, <1>12, <1>13, <1>14, <1>15 DEF PlansInv

\* With the default creation times only a cap that does not split is refused, a market
\* that was not captured, or a horse that has no name.
LEMMA PlanFailsStep ==
    ASSUME PlannerInv, PlanFails
    PROVE  PlannerCompletes'
<1>1. SolvedInv /\ CountInv
  BY DEF PlannerInv
<1>2. /\ phase = "planning" /\ index < Len(panel)
      /\ Card.quotes # <<>> => ~(Row.stake_each < StakeUnit)
      /\ Card.quotes # <<>> /\ Nameable(Card, Picks) =>
            ~Buildable(Card, Row.stake_each, CreatedAt)
      /\ UNCHANGED <<created_now, spec, table, panel, index, bank>>
  BY DEF PlanFails, Planning, NoBet, Writable
<1>3. SUFFICES ASSUME ~created_now, CapDivides, Card.quotes # <<>>, Nameable(Card, Picks)
               PROVE  FALSE
  BY <1>2 DEF PlannerCompletes, CapDivides, Card, Picks, Row, Remaining
<1>4. /\ Row.stake_each \in Nat
      /\ CapSplits(spec) => Row.stake_each % spec.unit = 0
  BY <1>1, <1>2, PlannerRowFits DEF RowFits
<1>5. spec.unit = StakeUnit /\ StakeUnit \in Nat \ {0}
  BY <1>1, PanelParts, ContractAssumption
<1>6. CapSplits(spec)
  BY <1>3, <1>5 DEF CapDivides, CapSplits
<1>7. Row.stake_each > 0 /\ Row.stake_each % StakeUnit = 0
  BY <1>2, <1>3, <1>4, <1>5, <1>6
<1>8. CreatedAt < Deadline(Card)
  <2>1. /\ TargetOffset \in Nat \ {0} /\ CutoffOffset \in Nat \ {0} /\ Lead \in Nat \ {0}
        /\ CutoffOffset < TargetOffset
    BY ContractAssumption
  <2>2. index + 1 \in 1..Len(panel)
    BY <1>1, <1>2, PanelParts DEF CountInv
  <2>3. Card.post \in Nat
    BY <1>1, <2>2, PanelParts DEF Card
  <2>4. CreatedAt = Card.post - TargetOffset - Lead
    BY <1>3 DEF CreatedAt, Target
  <2>5. QED
    BY <2>1, <2>3, <2>4 DEF Deadline
<1>9. QED
  BY <1>2, <1>3, <1>7, <1>8 DEF Buildable

\* The daemon refuses only what the planner does not look at.
LEMMA ImportStep ==
    ASSUME PlannerInv, Import
    PROVE  RefusedIsExplained'
<1>1. PlansInv /\ plans # <<>> /\ bundle.plans = plans /\ bundle.race_date = plans[1].race_date
  BY DEF PlannerInv, BundleInv, Import
<1>2. /\ UNCHANGED <<plans, bundle>>
      /\ phase' = "refused" => ~ValidateBundle(bundle)
  BY DEF Import
<1>3. SUFFICES ASSUME \A i \in DOMAIN plans : plans[i].created = bundle.created,
                      \A i \in DOMAIN plans : plans[i].race_date = ConnectionDate,
                      ~LimitsExceeded, "sanrentan" \in AllowedPools,
                      \A i \in DOMAIN plans : DOMAIN plans[i].mark \subseteq Horses
               PROVE  ValidateBundle(bundle)
  BY <1>2 DEF RefusedIsExplained, LimitsExceeded
<1>4. /\ Len(plans) \in Nat /\ DOMAIN plans = 1..Len(plans)
      /\ \A i \in DOMAIN plans : plans[i] \in Contracts
  BY <1>1, SeqParts DEF PlansInv
<1>5. 1 \in DOMAIN plans
  BY <1>1, <1>4 DEF PlansInv
<1>6. WithinDayLimits(plans) /\ \A i \in DOMAIN plans : WithinRaceLimits(plans[i])
  BY <1>3 DEF LimitsExceeded
<1>7. \A i \in DOMAIN plans : ValidatePlan(plans[i])
  BY <1>3, <1>4, <1>6 DEF Contracts, Contract, ValidatePlan
<1>8. ASSUME NEW i \in DOMAIN plans, NEW j \in DOMAIN plans,
             plans[i].race_id = plans[j].race_id
      PROVE  i = j
  <2>1. i \in 1..Len(plans) /\ j \in 1..Len(plans) /\ i \in Int /\ j \in Int
    BY <1>4
  <2>2. ~(i < j) /\ ~(j < i)
    BY <1>1, <1>8, <2>1 DEF PlansInv, PlanBefore
  <2>3. QED
    BY <2>1, <2>2
<1>9. Sorted(plans)
  <2>1. SUFFICES ASSUME NEW i \in 2..Len(plans)
                 PROVE  \/ plans[i - 1].target < plans[i].target
                        \/ /\ plans[i - 1].target = plans[i].target
                           /\ plans[i - 1].race_id <= plans[i].race_id
    BY DEF Sorted
  <2>2. i - 1 \in 1..Len(plans) /\ i \in 1..Len(plans) /\ i - 1 < i
    BY <1>4
  <2>3. PlanBefore(plans[i - 1], plans[i])
    BY <1>1, <2>2 DEF PlansInv
  <2>4. \A j \in 1..Len(plans) :
            /\ plans[j].post \in Nat /\ plans[j].race_id \in Nat
            /\ plans[j].target = plans[j].post - TargetOffset
    BY <1>4 DEF Contracts, Contract, ValidTimes
  <2>5. TargetOffset \in Int
    BY ContractAssumption
  <2>6. PICK a \in Nat, b \in Nat, c \in Nat, d \in Nat :
           /\ a = plans[i - 1].post /\ b = plans[i].post
           /\ c = plans[i - 1].race_id /\ d = plans[i].race_id
    BY <2>2, <2>4
  <2>7. /\ plans[i - 1].target = a - TargetOffset /\ plans[i].target = b - TargetOffset
        /\ a < b \/ (a = b /\ c < d)
    BY <2>2, <2>3, <2>4, <2>6 DEF PlanBefore
  <2>8. a - TargetOffset < b - TargetOffset \/ (a - TargetOffset = b - TargetOffset /\ c <= d)
    BY <2>5, <2>7
  <2>9. QED
    BY <2>6, <2>7, <2>8
<1>10. QED
  BY <1>1, <1>3, <1>5, <1>6, <1>7, <1>8, <1>9 DEF ValidateBundle

\* Every step of the solver, the planner, the daemon, the contest and the back test.
LEMMA PlannerSteps == PlannerInv /\ [PipelineNext]_<<vars, replay>> => PlannerInv'
<1> SUFFICES ASSUME PlannerInv, [PipelineNext]_<<vars, replay>> PROVE PlannerInv'
  OBVIOUS
<1>1. /\ SolvedInv /\ CountInv /\ PlansInv /\ BundleInv /\ PlannerCompletes
      /\ RefusedIsExplained
  BY DEF PlannerInv
<1>2. ASSUME UNCHANGED planner PROVE PlannerInv'
  BY <1>1, <1>2
     DEF planner, PlannerInv, SolvedInv, CountInv, PlansInv, BundleInv, PlannerCompletes,
         RefusedIsExplained, LimitsExceeded, CapDivides, Card, Picks, Row, Remaining
<1>3. CASE SolveStage
  <2> DEFINE stage == Stage(spec, LastValues(spec, table))
  <2>1. /\ phase = "solving" /\ Len(table) < spec.races /\ table' = Append(table, stage)
        /\ UNCHANGED <<spec, panel, budget, created_now, phase, index, bank, clock, plans, bundle>>
    BY <1>3 DEF SolveStage
  <2>2. WellFormed(spec) /\ table \in Seq(Stages(spec)) /\ spec.races \in Nat
    BY <1>1, PanelParts DEF SolvedInv
  <2>3. stage \in Stages(spec)
    BY <2>2, LastValuesFit, StageFits
  <2> HIDE DEF stage
  <2>4. table' \in Seq(Stages(spec)) /\ Len(table') <= spec.races
    BY <2>1, <2>2, <2>3
  <2>5. SolvedInv'
    BY <1>1, <2>1, <2>4 DEF SolvedInv
  <2>6. QED
    BY <1>1, <2>1, <2>5
       DEF PlannerInv, CountInv, PlansInv, BundleInv, PlannerCompletes, RefusedIsExplained,
           LimitsExceeded, CapDivides
<1>4. CASE WriteTable
  <2>1. /\ phase = "solving" /\ Len(table) = spec.races /\ phase' \in {"no table", "planning"}
        /\ UNCHANGED <<spec, table, panel, budget, created_now, index, bank, clock, plans, bundle>>
    BY <1>4 DEF WriteTable
  <2>2. SolvedInv'
    BY <1>1, <2>1 DEF SolvedInv, Phases
  <2>3. CountInv' /\ PlansInv'
    BY <1>1, <2>1 DEF CountInv, PlansInv
  <2>4. BundleInv' /\ PlannerCompletes' /\ RefusedIsExplained'
    BY <1>1, <2>1 DEF BundleInv, PlannerCompletes, RefusedIsExplained
  <2>5. QED
    BY <2>2, <2>3, <2>4 DEF PlannerInv
<1>5. CASE SkipRace
  <2>1. /\ phase = "planning" /\ index < Len(panel) /\ index' = index + 1
        /\ UNCHANGED <<spec, table, panel, budget, created_now, phase, bank, clock, plans, bundle>>
    BY <1>5 DEF SkipRace, Planning, NextRace
  <2>2. Len(panel) \in Nat /\ index \in Nat
    BY <1>1, PanelParts DEF CountInv
  <2>3. SolvedInv' /\ CountInv'
    BY <1>1, <2>1, <2>2 DEF SolvedInv, CountInv
  <2>4. PlansInv'
    <3>1. \A k \in (index' + 1)..Len(panel') : k \in (index + 1)..Len(panel)
      BY <2>1, <2>2
    <3>2. Len(plans) \in Nat /\ Len(plans) <= index'
      BY <1>1, <2>1, <2>2 DEF PlansInv
    <3>3. QED
      BY <1>1, <2>1, <3>1, <3>2 DEF PlansInv
  <2>5. BundleInv' /\ PlannerCompletes' /\ RefusedIsExplained'
    BY <1>1, <2>1 DEF BundleInv, PlannerCompletes, RefusedIsExplained
  <2>6. QED
    BY <2>3, <2>4, <2>5 DEF PlannerInv
<1>6. CASE PlanRace
  <2>1. /\ phase = "planning"
        /\ UNCHANGED <<spec, table, panel, budget, created_now, phase, bundle>>
    BY <1>6 DEF PlanRace, Planning
  <2>2. SolvedInv'
    BY <1>1, <2>1 DEF SolvedInv
  <2>3. CountInv' /\ PlansInv'
    BY <1>6, PlanRaceStep
  <2>4. BundleInv' /\ PlannerCompletes' /\ RefusedIsExplained'
    BY <1>1, <2>1 DEF BundleInv, PlannerCompletes, RefusedIsExplained
  <2>5. QED
    BY <2>2, <2>3, <2>4 DEF PlannerInv
<1>7. CASE PlanFails
  <2>1. /\ phase = "planning" /\ phase' = "failed"
        /\ UNCHANGED <<spec, table, panel, budget, created_now, index, bank, clock, plans, bundle>>
    BY <1>7 DEF PlanFails, Planning
  <2>2. SolvedInv' /\ CountInv' /\ PlansInv'
    BY <1>1, <2>1 DEF SolvedInv, CountInv, PlansInv, Phases
  <2>3. BundleInv' /\ RefusedIsExplained'
    BY <1>1, <2>1 DEF BundleInv, RefusedIsExplained
  <2>4. QED
    BY <1>7, <2>2, <2>3, PlanFailsStep DEF PlannerInv
<1>8. CASE WriteBundle
  <2>1. /\ phase = "planning" /\ phase' \in {"no bet", "written"}
        /\ phase' = "written" => plans # <<>> /\ bundle' = BuildBundle(plans, clock)
        /\ UNCHANGED <<spec, table, panel, budget, created_now, index, bank, clock, plans>>
    BY <1>8 DEF WriteBundle
  <2>2. SolvedInv' /\ CountInv' /\ PlansInv'
    BY <1>1, <2>1 DEF SolvedInv, CountInv, PlansInv, Phases
  <2>3. BundleInv'
    <3>1. SUFFICES ASSUME phase' \in {"written", "refused", "admitted"}
                   PROVE  /\ plans' # <<>> /\ bundle'.plans = plans'
                          /\ bundle'.race_date = plans'[1].race_date
      BY DEF BundleInv
    <3>2. plans' = plans /\ plans # <<>> /\ bundle' = BuildBundle(plans, clock)
      BY <2>1, <3>1
    <3>3. /\ BuildBundle(plans, clock).plans = plans
          /\ BuildBundle(plans, clock).race_date = plans[1].race_date
      BY DEF BuildBundle
    <3>4. QED
      BY <3>2, <3>3
  <2>4. PlannerCompletes' /\ RefusedIsExplained'
    BY <1>1, <2>1 DEF PlannerCompletes, RefusedIsExplained
  <2>5. QED
    BY <2>2, <2>3, <2>4 DEF PlannerInv
<1>9. CASE Tick
  <2>1. /\ phase = "planning" /\ clock < MaxClock /\ clock' = clock + 1
        /\ UNCHANGED <<spec, table, panel, budget, created_now, phase, index, bank, plans, bundle>>
    BY <1>9 DEF Tick
  <2>2. CountInv'
    BY <1>1, <2>1, DayAssumption DEF CountInv
  <2>3. SolvedInv' /\ PlansInv'
    BY <1>1, <2>1 DEF SolvedInv, PlansInv
  <2>4. BundleInv' /\ PlannerCompletes' /\ RefusedIsExplained'
    BY <1>1, <2>1 DEF BundleInv, PlannerCompletes, RefusedIsExplained
  <2>5. QED
    BY <2>2, <2>3, <2>4 DEF PlannerInv
<1>10. CASE Import
  <2>1. /\ phase = "written" /\ phase' \in {"admitted", "refused"}
        /\ UNCHANGED <<spec, table, panel, budget, created_now, index, bank, clock, plans, bundle>>
    BY <1>10 DEF Import
  <2>2. SolvedInv' /\ CountInv' /\ PlansInv'
    BY <1>1, <2>1 DEF SolvedInv, CountInv, PlansInv, Phases
  <2>3. BundleInv' /\ PlannerCompletes'
    BY <1>1, <2>1 DEF BundleInv, PlannerCompletes
  <2>4. QED
    BY <1>10, <2>2, <2>3, ImportStep DEF PlannerInv
<1>11. CASE StartReplay
  <2>1. /\ phase = "planning" /\ phase' = "replaying"
        /\ UNCHANGED <<spec, table, panel, budget, created_now, index, bank, clock, plans, bundle>>
    BY <1>11 DEF StartReplay
  <2>2. SolvedInv' /\ CountInv' /\ PlansInv'
    BY <1>1, <2>1 DEF SolvedInv, CountInv, PlansInv, Phases
  <2>3. BundleInv' /\ PlannerCompletes' /\ RefusedIsExplained'
    BY <1>1, <2>1 DEF BundleInv, PlannerCompletes, RefusedIsExplained
  <2>4. QED
    BY <2>2, <2>3 DEF PlannerInv
<1>12. CASE \/ Submit \/ StartPaper \/ StopPaper \/ ReplaySkip \/ ReplayBet
            \/ UNCHANGED <<vars, replay>>
  <2>1. UNCHANGED planner
    BY <1>12 DEF Submit, StartPaper, StopPaper, ReplaySkip, ReplayBet, vars
  <2>2. QED
    BY <1>2, <2>1
<1>13. QED
  BY <1>3, <1>4, <1>5, <1>6, <1>7, <1>8, <1>9, <1>10, <1>11, <1>12 DEF PipelineNext, Next

-----------------------------------------------------------------------------
(* The paper contest. *)

\* What the votes of a record cost, as a sum over its races.
Charges(record) == [race \in DOMAIN record |-> PayloadStake(record[race])]

\* The model folds over the votes; the sum does not depend on the order.
LEMMA VotedIsSum ==
    ASSUME NEW record
    PROVE  Voted(record) = SumOn(Charges(record), DOMAIN record)
<1> DEFINE f == [race \in DOMAIN record |-> PayloadStake(record[race])]
<1>1. Voted(record) = SumOn(f, DOMAIN f)
  BY DEF Voted, FoldFunction, SumOn
<1>2. DOMAIN f = DOMAIN record
  OBVIOUS
<1>3. QED
  BY <1>1, <1>2 DEF Charges

\* A vote that is recorded adds its cost.
LEMMA VoteAdds ==
    ASSUME IsFiniteSet(DOMAIN votes),
           \A race \in DOMAIN votes : PayloadStake(votes[race]) \in Int,
           NEW race, race \notin DOMAIN votes, NEW plan, PayloadStake(plan) \in Int
    PROVE  Voted(Recorded(race, plan)) = Voted(votes) + PayloadStake(plan)
<1> DEFINE new == Recorded(race, plan)
           D == DOMAIN votes
           R == D \union {race}
           f == Charges(votes)
           g == Charges(new)
<1>1. DOMAIN new = R /\ new[race] = plan /\ \A r \in D : new[r] = votes[r]
  BY DEF Recorded
<1>2. IsFiniteSet(R)
  BY FS_AddElement
<1>3. /\ g[race] = PayloadStake(plan) /\ \A r \in D : g[r] = f[r]
      /\ \A r \in R : g[r] \in Int
  BY <1>1 DEF Charges
<1>4. Voted(new) = SumOn(g, R) /\ Voted(votes) = SumOn(f, D)
  <2>1. Voted(new) = SumOn(g, DOMAIN new)
    BY VotedIsSum
  <2>2. QED
    BY <1>1, <2>1, VotedIsSum
<1> HIDE DEF new, f, g, R
<1>5. D \in SUBSET R /\ race \in R /\ race \notin D /\ R = D \union {race}
  BY DEF R
<1> HIDE DEF D
<1>6. SumOn(g, D \union {race}) = g[race] + SumOn(g, D)
  BY <1>2, <1>3, <1>5, SumInsert
<1>7. SumOn(g, D) = SumOn(f, D)
  BY <1>3, SumSame DEF D
<1>8. SumOn(g, D) \in Int
  BY <1>2, <1>3, <1>5, SumType DEF D
<1>9. QED
  BY <1>3, <1>4, <1>5, <1>6, <1>7, <1>8 DEF new

\* The plans that are voted, and what each costs.
Taken == {i \in DOMAIN plans : plans[i].race_id \in DOMAIN votes}

\* What each plan costs.
PlanCosts == [i \in DOMAIN plans |-> PayloadStake(plans[i])]

\* The driver's memory balances, each vote is the plan of its race, and the file is
\* the memory, on which no step but the first start can differ.
PaperInv ==
    /\ IsFiniteSet(DOMAIN votes)
    /\ votes \in [DOMAIN votes -> {plans[i] : i \in DOMAIN plans}]
    /\ balance \in Nat /\ balance + Voted(votes) = OpeningBalance
    /\ Voted(votes) = SumOn(PlanCosts, Taken)
    /\ open \in BOOLEAN /\ paperFaults \in 0..MaxPaperFaults
    /\ \/ file = [balance |-> balance, votes |-> votes]
       \/ file = NoFile /\ ~open /\ votes = <<>> /\ balance = OpeningBalance
    /\ AdmittedIsAffordable
    /\ phase # "admitted" => votes = <<>>

\* Nothing voted, nothing spent.
LEMMA NoVotes ==
    ASSUME votes = <<>>
    PROVE  /\ DOMAIN votes = {} /\ IsFiniteSet(DOMAIN votes)
           /\ votes \in [DOMAIN votes -> {plans[i] : i \in DOMAIN plans}]
           /\ Voted(votes) = 0 /\ Taken = {} /\ Voted(votes) = SumOn(PlanCosts, Taken)
<1>1. DOMAIN votes = {} /\ votes = [r \in {} |-> r]
  OBVIOUS
<1>2. IsFiniteSet({}) /\ Taken = {}
  BY <1>1, FS_EmptySet DEF Taken
<1>3. Voted(votes) = 0 /\ SumOn(PlanCosts, {}) = 0
  BY <1>1, <1>2, VotedIsSum, SumUnrolls
<1>4. QED
  BY <1>1, <1>2, <1>3

\* The driver starts with nothing voted.
LEMMA PaperStarts == Init => PaperInv
<1> SUFFICES ASSUME Init PROVE PaperInv
  OBVIOUS
<1>1. /\ votes = <<>> /\ balance = OpeningBalance /\ file = NoFile /\ open = FALSE
      /\ reply = "none" /\ paperFaults = 0
  BY DEF Init, PaperInit
<1>2. OpeningBalance \in Nat /\ MaxPaperFaults \in Nat
  BY PaperAssumption
<1>3. /\ IsFiniteSet(DOMAIN votes)
      /\ votes \in [DOMAIN votes -> {plans[i] : i \in DOMAIN plans}]
      /\ Voted(votes) = 0 /\ Voted(votes) = SumOn(PlanCosts, Taken)
  BY <1>1, NoVotes
<1>4. AdmittedIsAffordable
  BY <1>1 DEF AdmittedIsAffordable
<1>5. 0 \in 0..MaxPaperFaults /\ balance + 0 = OpeningBalance
  BY <1>1, <1>2
<1>6. QED
  BY <1>1, <1>2, <1>3, <1>4, <1>5 DEF PaperInv

\* What the planner's invariant says of the plans the driver is given.
LEMMA PlanParts ==
    ASSUME PlannerInv
    PROVE  /\ Len(plans) \in Nat /\ DOMAIN plans = 1..Len(plans) /\ IsFiniteSet(DOMAIN plans)
           /\ \A i \in DOMAIN plans : PayloadStake(plans[i]) \in Nat
           /\ \A i, j \in DOMAIN plans : plans[i].race_id = plans[j].race_id => i = j
           /\ TotalStake(plans) = SumOn(PlanCosts, DOMAIN plans)
           /\ TotalStake(plans) <= budget
           /\ budget \in Nat
<1>1. plans \in Seq(Contracts) /\ TotalStake(plans) = budget - bank /\ bank \in Nat
  BY DEF PlannerInv, PlansInv, CountInv
<1>2. budget \in Nat
  BY DayAssumption DEF PlannerInv, SolvedInv
<1>3. /\ Len(plans) \in Nat /\ DOMAIN plans = 1..Len(plans)
      /\ \A i \in DOMAIN plans : plans[i] \in Contracts
  BY <1>1, SeqParts
<1>4. IsFiniteSet(DOMAIN plans)
  BY <1>3, FS_Interval
<1>5. \A i \in DOMAIN plans : PayloadStake(plans[i]) \in Nat
  BY <1>3 DEF Contracts, Contract
<1>6. ASSUME NEW i \in DOMAIN plans, NEW j \in DOMAIN plans,
             plans[i].race_id = plans[j].race_id
      PROVE  i = j
  <2>1. i \in 1..Len(plans) /\ j \in 1..Len(plans) /\ i \in Int /\ j \in Int
    BY <1>3
  <2>2. ~(i < j) /\ ~(j < i)
    BY <1>6, <2>1 DEF PlannerInv, PlansInv, PlanBefore
  <2>3. QED
    BY <2>1, <2>2
<1>7. TotalStake(plans) = SumOn(PlanCosts, 1..Len(plans))
  <2>1. \A i \in DOMAIN plans : PayloadStake(plans[i]) \in Int
    BY <1>5
  <2>2. QED
    BY <1>1, <2>1, TotalIsSum DEF PlanCosts
<1>8. TotalStake(plans) <= budget
  BY <1>1, <1>2
<1>9. QED
  BY <1>2, <1>3, <1>4, <1>5, <1>6, <1>7, <1>8

\* The votes of an invariant state have whole costs.
LEMMA VotesHaveCosts ==
    ASSUME PlannerInv, PaperInv
    PROVE  /\ \A race \in DOMAIN votes : PayloadStake(votes[race]) \in Int
           /\ Voted(votes) \in Nat
<1>1. \A race \in DOMAIN votes : \E i \in DOMAIN plans : votes[race] = plans[i]
  BY DEF PaperInv
<1>2. \A race \in DOMAIN votes : PayloadStake(votes[race]) \in Nat
  BY <1>1, PlanParts
<1>3. Voted(votes) = SumOn(Charges(votes), DOMAIN votes)
  BY VotedIsSum
<1>4. /\ IsFiniteSet(DOMAIN votes)
      /\ \A race \in DOMAIN votes : Charges(votes)[race] \in Nat
  BY <1>2 DEF Charges, PaperInv
<1>5. SumOn(Charges(votes), DOMAIN votes) \in Nat
  BY <1>4, SumGrows
<1>6. QED
  BY <1>2, <1>3, <1>5

\* The cost of a race that is not voted fits what the votes leave of the budget.
LEMMA OpenRaceIsAffordable ==
    ASSUME PlannerInv, PaperInv, NEW i \in DOMAIN plans, i \notin Taken
    PROVE  Voted(votes) + PayloadStake(plans[i]) <= budget
<1> DEFINE D == DOMAIN plans
           f == PlanCosts
<1>1. /\ IsFiniteSet(D) /\ (\A j \in D : f[j] \in Nat) /\ f[i] = PayloadStake(plans[i])
  BY PlanParts DEF PlanCosts
<1>2. SumOn(f, D) <= budget /\ SumOn(f, D) \in Nat /\ budget \in Nat
  <2>1. SumOn(f, D) <= budget /\ budget \in Nat
    BY PlanParts
  <2>2. SumOn(f, D) \in Nat
    BY <1>1, SumGrows
  <2>3. QED
    BY <2>1, <2>2
<1>3. Taken \in SUBSET D /\ Taken \union {i} \in SUBSET D /\ \A j \in D : f[j] \in Int
  BY <1>1 DEF Taken
<1>4. Voted(votes) = SumOn(f, Taken)
  BY DEF PaperInv
<1> HIDE DEF D, f
<1>5. SumOn(f, Taken \union {i}) = f[i] + SumOn(f, Taken)
  <2>1. i \in D
    BY DEF D
  <2>2. QED
    BY <1>1, <1>3, <2>1, SumInsert
<1>6. SumOn(f, Taken \union {i}) <= SumOn(f, D) /\ SumOn(f, Taken \union {i}) \in Nat
  BY <1>1, <1>3, SumGrows
<1>7. f[i] \in Int /\ Voted(votes) \in Int
  BY VotesHaveCosts, PlanParts DEF f, PlanCosts
<1>8. QED
  BY <1>1, <1>2, <1>4, <1>5, <1>6, <1>7

\* A vote that is accepted: memory and file change together.
LEMMA AcceptedStep ==
    ASSUME PlannerInv, PaperInv, phase = "admitted", UNCHANGED planner,
           NEW i \in DOMAIN plans,
           SubmitAccepted(plans[i].race_id, plans[i], PayloadStake(plans[i]))
    PROVE  PaperInv'
<1> DEFINE race == plans[i].race_id
           stake == PayloadStake(plans[i])
           D == DOMAIN plans
           new == Recorded(race, plans[i])
<1>1. /\ race \notin DOMAIN votes /\ stake <= balance /\ open
      /\ votes' = new /\ balance' = balance - stake
      /\ file' = [balance |-> balance', votes |-> votes'] /\ reply' = "ok"
      /\ open' = open /\ paperFaults' = paperFaults
  BY DEF SubmitAccepted
<1>2. plans' = plans /\ budget' = budget /\ phase' = phase
  BY DEF planner
<1>3. stake \in Nat /\ balance \in Nat /\ balance + Voted(votes) = OpeningBalance
  BY PlanParts DEF PaperInv
<1>4. Voted(new) = Voted(votes) + stake
  <2> HIDE DEF race, stake
  <2>1. /\ IsFiniteSet(DOMAIN votes) /\ race \notin DOMAIN votes
        /\ \A r \in DOMAIN votes : PayloadStake(votes[r]) \in Int
    BY <1>1, VotesHaveCosts DEF PaperInv
  <2>2. PayloadStake(plans[i]) \in Int
    BY <1>3 DEF stake
  <2>3. Voted(Recorded(race, plans[i])) = Voted(votes) + PayloadStake(plans[i])
    BY <2>1, <2>2, VoteAdds
  <2>4. QED
    BY <2>3 DEF stake
<1>5. /\ IsFiniteSet(DOMAIN new) /\ DOMAIN new = DOMAIN votes \union {race}
      /\ new \in [DOMAIN new -> {plans[j] : j \in D}]
  <2>1. DOMAIN new = DOMAIN votes \union {race}
    BY DEF Recorded
  <2>2. IsFiniteSet(DOMAIN votes \union {race})
    BY FS_AddElement DEF PaperInv
  <2>3. \A r \in DOMAIN votes : votes[r] \in {plans[j] : j \in D}
    BY DEF PaperInv
  <2>4. \A r \in DOMAIN votes \union {race} :
            (IF r = race THEN plans[i] ELSE votes[r]) \in {plans[j] : j \in D}
    BY <2>3
  <2>5. new \in [DOMAIN votes \union {race} -> {plans[j] : j \in D}]
    BY <2>4 DEF Recorded
  <2>6. QED
    BY <2>1, <2>2, <2>5
<1> HIDE DEF new
<1>6. Taken' = Taken \union {i} /\ i \notin Taken
  <2>1. \A j \in D : plans[j].race_id = race => j = i
    BY PlanParts
  <2>2. Taken' = {j \in D : plans[j].race_id \in DOMAIN votes \union {race}}
    BY <1>1, <1>2, <1>5 DEF Taken
  <2>3. QED
    BY <1>1, <2>1, <2>2 DEF Taken
<1>7. PlanCosts' = PlanCosts
  BY <1>2 DEF PlanCosts
<1>8. SumOn(PlanCosts, Taken \union {i}) = stake + SumOn(PlanCosts, Taken)
  <2> DEFINE f == PlanCosts
  <2>1. IsFiniteSet(D) /\ (\A j \in D : f[j] \in Int) /\ f[i] = stake
    BY PlanParts DEF PlanCosts
  <2>2. Taken \in SUBSET D /\ i \in D
    BY DEF Taken
  <2> HIDE DEF f, D
  <2>3. SumOn(f, Taken \union {i}) = f[i] + SumOn(f, Taken)
    BY <1>6, <2>1, <2>2, SumInsert
  <2>4. QED
    BY <2>1, <2>3 DEF f
<1>9. Voted(votes) \in Int /\ Voted(votes) = SumOn(PlanCosts, Taken)
  BY VotesHaveCosts DEF PaperInv
<1> HIDE DEF race, stake
<1>10. /\ balance' \in Nat /\ balance' + Voted(votes') = OpeningBalance
       /\ Voted(votes') = SumOn(PlanCosts', Taken')
  <2>1. Voted(votes') = Voted(votes) + stake
    BY <1>1, <1>4
  <2>2. SumOn(PlanCosts', Taken') = stake + SumOn(PlanCosts, Taken)
    BY <1>6, <1>7, <1>8
  <2>3. QED
    BY <1>1, <1>3, <1>9, <2>1, <2>2
<1>11. AdmittedIsAffordable'
  BY <1>1 DEF AdmittedIsAffordable
<1>12. /\ IsFiniteSet(DOMAIN votes')
       /\ votes' \in [DOMAIN votes' -> {plans'[j] : j \in DOMAIN plans'}]
  BY <1>1, <1>2, <1>5
<1>13. /\ open' \in BOOLEAN /\ paperFaults' \in 0..MaxPaperFaults
  BY <1>1 DEF PaperInv
<1>14. QED
  BY <1>1, <1>2, <1>10, <1>11, <1>12, <1>13 DEF PaperInv

\* What a step that keeps the driver's votes and balance must see to.
LEMMA KeptStep ==
    ASSUME PaperInv, UNCHANGED <<votes, balance, plans, budget, phase>>,
           open' \in BOOLEAN, paperFaults' \in 0..MaxPaperFaults,
           \/ file' = [balance |-> balance, votes |-> votes]
           \/ file' = NoFile /\ ~open' /\ votes = <<>> /\ balance = OpeningBalance,
           AdmittedIsAffordable'
    PROVE  PaperInv'
<1>1. Voted(votes') = Voted(votes) /\ Taken' = Taken /\ PlanCosts' = PlanCosts
  BY DEF Taken, PlanCosts
<1>2. QED
  BY <1>1 DEF PaperInv

\* A day that fits the opening balance is never refused for funds.
LEMMA RefusedStep ==
    ASSUME PlannerInv, PaperInv, UNCHANGED planner, NEW i \in DOMAIN plans,
           SubmitRefused(plans[i].race_id, PayloadStake(plans[i]))
    PROVE  PaperInv'
<1>1. /\ UNCHANGED <<votes, balance, file, open, paperFaults, plans, budget, phase>>
      /\ reply' = "insufficient balance" =>
             plans[i].race_id \notin DOMAIN votes /\ PayloadStake(plans[i]) > balance
  BY DEF SubmitRefused, Refuse, planner
<1>2. AdmittedIsAffordable'
  <2>1. SUFFICES ASSUME reply' = "insufficient balance", budget <= OpeningBalance PROVE FALSE
    BY <1>1 DEF AdmittedIsAffordable
  <2>2. i \notin Taken
    BY <1>1, <2>1 DEF Taken
  <2>3. Voted(votes) + PayloadStake(plans[i]) <= budget
    BY <2>2, OpenRaceIsAffordable
  <2>4. /\ balance \in Nat /\ balance + Voted(votes) = OpeningBalance /\ Voted(votes) \in Nat
        /\ PayloadStake(plans[i]) \in Nat /\ budget \in Nat
    BY PlanParts, VotesHaveCosts DEF PaperInv
  <2>5. PayloadStake(plans[i]) > balance /\ budget <= OpeningBalance /\ OpeningBalance \in Nat
    BY <1>1, <2>1, PaperAssumption
  <2> DEFINE cost == PayloadStake(plans[i])
             spent == Voted(votes)
  <2>6. /\ cost \in Nat /\ spent \in Nat /\ cost > balance /\ spent + cost <= budget
        /\ balance + spent = OpeningBalance
    BY <2>3, <2>4, <2>5
  <2> HIDE DEF cost, spent
  <2>7. QED
    BY <2>4, <2>5, <2>6
<1>3. QED
  BY <1>1, <1>2, KeptStep DEF PaperInv

\* A vote whose file is not written is taken back.
LEMMA UnsavedStep ==
    ASSUME PlannerInv, PaperInv, UNCHANGED planner, NEW i \in DOMAIN plans,
           SubmitUnsaved(plans[i].race_id, plans[i], PayloadStake(plans[i]))
    PROVE  PaperInv'
<1> DEFINE race == plans[i].race_id
           stake == PayloadStake(plans[i])
           new == Recorded(race, plans[i])
<1>1. /\ race \notin DOMAIN votes /\ paperFaults < MaxPaperFaults
      /\ paperFaults' = paperFaults + 1 /\ reply' = "error"
      /\ votes' = Restrict(new, DOMAIN new \ {race})
      /\ balance' = balance - stake + stake
      /\ UNCHANGED <<file, open, plans, budget, phase>>
  BY DEF SubmitUnsaved, planner
<1>2. stake \in Nat /\ balance \in Nat
  BY PlanParts DEF PaperInv
<1>3. balance' = balance
  <2> HIDE DEF stake
  <2>1. QED
    BY <1>1, <1>2
<1>4. votes' = votes
  <2>1. /\ DOMAIN new = DOMAIN votes \union {race} /\ \A r \in DOMAIN votes : new[r] = votes[r]
    BY <1>1 DEF Recorded
  <2>2. (DOMAIN new) \ {race} = DOMAIN votes
    BY <1>1, <2>1
  <2> HIDE DEF new, race
  <2>3. votes' = [r \in DOMAIN votes |-> new[r]]
    BY <1>1, <2>2 DEF Restrict
  <2>4. votes = [r \in DOMAIN votes |-> votes[r]]
    BY DEF PaperInv
  <2>5. QED
    BY <2>1, <2>3, <2>4
<1>5. AdmittedIsAffordable'
  BY <1>1 DEF AdmittedIsAffordable
<1>6. paperFaults' \in 0..MaxPaperFaults
  BY <1>1, PaperAssumption DEF PaperInv
<1>7. QED
  BY <1>1, <1>3, <1>4, <1>5, <1>6, KeptStep DEF PaperInv

\* A step that leaves the driver alone.
LEMMA QuietStep ==
    ASSUME PaperInv, UNCHANGED paperVars, budget' = budget,
           \/ phase # "admitted"
           \/ phase' = phase /\ plans' = plans
    PROVE  PaperInv'
<1>1. UNCHANGED <<votes, balance, file, open, reply, paperFaults>>
  BY DEF paperVars
<1>2. AdmittedIsAffordable'
  BY <1>1 DEF PaperInv, AdmittedIsAffordable
<1>3. CASE phase' = phase /\ plans' = plans
  BY <1>1, <1>2, <1>3, KeptStep DEF PaperInv
<1>4. CASE phase # "admitted"
  <2>1. votes = <<>>
    BY <1>4 DEF PaperInv
  <2>2. /\ DOMAIN votes = {} /\ IsFiniteSet(DOMAIN votes) /\ Voted(votes) = 0
        /\ votes \in [DOMAIN votes -> {plans[i] : i \in DOMAIN plans}]
    BY <2>1, NoVotes
  <2>3. Taken' = {}
    BY <1>1, <2>2 DEF Taken
  <2>4. SumOn(PlanCosts', {}) = 0
    BY SumUnrolls, FS_EmptySet
  <2>5. Voted(votes') = 0
    BY <1>1, <2>2
  <2>6. votes' \in [DOMAIN votes' -> {plans'[i] : i \in DOMAIN plans'}]
    BY <1>1, <2>2
  <2>7. /\ balance' \in Nat /\ balance' + Voted(votes') = OpeningBalance
        /\ Voted(votes') = SumOn(PlanCosts', Taken')
    BY <1>1, <2>2, <2>3, <2>4, <2>5 DEF PaperInv
  <2>8. /\ IsFiniteSet(DOMAIN votes') /\ open' \in BOOLEAN /\ paperFaults' \in 0..MaxPaperFaults
        /\ \/ file' = [balance |-> balance', votes |-> votes']
           \/ file' = NoFile /\ ~open' /\ votes' = <<>> /\ balance' = OpeningBalance
    BY <1>1, <2>2 DEF PaperInv
  <2>9. QED
    BY <1>1, <1>2, <2>1, <2>6, <2>7, <2>8 DEF PaperInv
<1>5. QED
  BY <1>3, <1>4

\* Every step of the pipeline keeps the driver's invariant.
LEMMA PaperSteps ==
    PlannerInv /\ PaperInv /\ [PipelineNext]_<<vars, replay>> => PaperInv'
<1> SUFFICES ASSUME PlannerInv, PaperInv, [PipelineNext]_<<vars, replay>> PROVE PaperInv'
  OBVIOUS
<1>1. CASE Submit
  <2>1. phase = "admitted" /\ UNCHANGED planner /\ bundle.plans = plans
    BY <1>1 DEF Submit, PlannerInv, BundleInv
  <2>2. PICK i \in DOMAIN plans :
           \/ SubmitRefused(plans[i].race_id, PayloadStake(plans[i]))
           \/ SubmitAccepted(plans[i].race_id, plans[i], PayloadStake(plans[i]))
           \/ SubmitUnsaved(plans[i].race_id, plans[i], PayloadStake(plans[i]))
    BY <1>1, <2>1 DEF Submit
  <2>3. QED
    BY <2>1, <2>2, AcceptedStep, RefusedStep, UnsavedStep
<1>2. CASE StartPaper
  <2>1. UNCHANGED <<plans, budget, phase>> /\ Open
    BY <1>2 DEF StartPaper, planner
  <2>2. /\ open' = TRUE /\ paperFaults' = paperFaults /\ reply' = "none"
        /\ votes' = votes /\ balance' = balance
        /\ file' = [balance |-> balance, votes |-> votes]
    <3>1. CASE file = NoFile
      <4>1. balance # -1
        BY DEF PaperInv
      <4>2. votes = <<>> /\ balance = OpeningBalance
        BY <3>1, <4>1 DEF PaperInv, NoFile
      <4>3. QED
        BY <2>1, <3>1, <4>2 DEF Open
    <3>2. CASE file # NoFile
      <4>1. file = [balance |-> balance, votes |-> votes]
        BY <3>2 DEF PaperInv
      <4>2. QED
        BY <2>1, <3>2, <4>1 DEF Open
    <3>3. QED
      BY <3>1, <3>2
  <2>3. AdmittedIsAffordable'
    BY <2>2 DEF AdmittedIsAffordable
  <2>4. QED
    BY <2>1, <2>2, <2>3, KeptStep DEF PaperInv
<1>3. CASE StopPaper
  <2>1. /\ UNCHANGED <<plans, budget, phase>> /\ UNCHANGED <<votes, balance, file>>
        /\ open' = FALSE /\ reply' = "none"
        /\ paperFaults < MaxPaperFaults /\ paperFaults' = paperFaults + 1
    BY <1>3 DEF StopPaper, Close, planner
  <2>2. AdmittedIsAffordable'
    BY <2>1 DEF AdmittedIsAffordable
  <2>3. paperFaults' \in 0..MaxPaperFaults
    BY <2>1, PaperAssumption DEF PaperInv
  <2>4. QED
    BY <2>1, <2>2, <2>3, KeptStep DEF PaperInv
<1>4. CASE ReplaySkip \/ ReplayBet \/ UNCHANGED <<vars, replay>>
  <2>1. UNCHANGED planner /\ UNCHANGED paperVars
    BY <1>4 DEF ReplaySkip, ReplayBet, vars
  <2>2. QED
    BY <2>1, QuietStep DEF planner
<1>5. CASE SolveStage \/ WriteTable \/ SkipRace \/ PlanRace \/ PlanFails \/ WriteBundle
           \/ Tick \/ Import \/ StartReplay
  <2>1. UNCHANGED paperVars /\ budget' = budget
    BY <1>5 DEF SolveStage, WriteTable, SkipRace, PlanRace, PlanFails, WriteBundle, Tick, Import,
                StartReplay
  <2>2. phase # "admitted"
    BY <1>5 DEF SolveStage, WriteTable, SkipRace, PlanRace, PlanFails, WriteBundle, Tick, Import,
                StartReplay, Planning
  <2>3. QED
    BY <2>1, <2>2, QuietStep
<1>6. QED
  BY <1>1, <1>2, <1>3, <1>4, <1>5 DEF PipelineNext, Next

-----------------------------------------------------------------------------
(* What always holds of the pipeline. *)

\* The planner and the paper driver.
PipelineInv == PlannerInv /\ PaperInv

\* The inductive invariant: the solved table, the plans and the bank, and the paper
\* driver's memory and file.
THEOREM PipelineInvariant == PipelineSpec => []PipelineInv
<1>1. PipelineInit => PipelineInv
  BY PlannerStarts, PaperStarts DEF PipelineInit, PipelineInv
<1>2. PipelineInv /\ [PipelineNext]_<<vars, replay>> => PipelineInv'
  BY PlannerSteps, PaperSteps DEF PipelineInv
<1>3. QED
  BY <1>1, <1>2, PTL DEF PipelineSpec

\* The state is well formed, and the table never has more stages than races.
THEOREM PipelineTypes == PipelineSpec => []TypeOK
<1>1. PipelineInv => TypeOK
  <2> SUFFICES ASSUME PipelineInv PROVE TypeOK
    OBVIOUS
  <2>1. /\ spec \in Specs /\ budget \in Budgets /\ created_now \in BOOLEAN
        /\ Len(table) <= spec.races /\ index \in 0..Len(panel) /\ bank \in Nat
        /\ phase \in Phases /\ clock \in 0..MaxClock /\ Len(plans) <= index
    BY DEF PipelineInv, PlannerInv, SolvedInv, CountInv, PlansInv
  <2>2. /\ votes \in [DOMAIN votes -> {plans[i] : i \in DOMAIN plans}]
        /\ balance \in Nat /\ open \in BOOLEAN /\ paperFaults \in 0..MaxPaperFaults
    BY DEF PipelineInv, PaperInv
  <2>3. QED
    BY <2>1, <2>2 DEF TypeOK
<1>2. QED
  BY <1>1, PipelineInvariant, PTL

\* command_plan: the plans of the day never cost more than --bank.
THEOREM PlansFitBank == PipelineSpec => []PlannedFitsBank
<1>1. PipelineInv => PlannedFitsBank
  BY DEF PipelineInv, PlannerInv, CountInv, PlansInv, PlannedFitsBank
<1>2. QED
  BY <1>1, PipelineInvariant, PTL

\* command_plan: with the default creation times and a cap that splits into whole
\* units, only a race without a trifecta market or a picked horse above 18 ends the
\* command without a bundle.
THEOREM PlannerSucceeds == PipelineSpec => []PlannerCompletes
<1>1. PipelineInv => PlannerCompletes
  BY DEF PipelineInv, PlannerInv
<1>2. QED
  BY <1>1, PipelineInvariant, PTL

\* ValidateBundle: the daemon refuses a bundle of the planner only for its creation
\* times, its date, the policy's limits and patterns, or the mark of a horse above 18.
THEOREM RefusalsAreExplained == PipelineSpec => []RefusedIsExplained
<1>1. PipelineInv => RefusedIsExplained
  BY DEF PipelineInv, PlannerInv
<1>2. QED
  BY <1>1, PipelineInvariant, PTL

\* PaperDriver: the ledger conserves points, in memory and on disk, across failed
\* writes and restarts.
THEOREM LedgerConserves == PipelineSpec => []PaperConserves
<1>1. PipelineInv => PaperConserves
  BY DEF PipelineInv, PaperInv, PaperConserves
<1>2. QED
  BY <1>1, PipelineInvariant, PTL

\* A day planned with no more than the opening balance is never refused for funds.
THEOREM DayIsAffordable == PipelineSpec => []AdmittedIsAffordable
<1>1. PipelineInv => AdmittedIsAffordable
  BY DEF PipelineInv, PaperInv
<1>2. QED
  BY <1>1, PipelineInvariant, PTL

\* PaperDriver: a vote in the driver's file is never lost or replaced, by a failed
\* write, by a restart or by another submission.
THEOREM VotesAreFinal == PipelineSpec => VoteIsFinal
<1> DEFINE Keeps == \A race \in DOMAIN file.votes :
                        race \in DOMAIN file'.votes /\ file'.votes[race] = file.votes[race]
<1>1. PipelineInv /\ [PipelineNext]_<<vars, replay>> => [Keeps]_vars
  <2> SUFFICES ASSUME PipelineInv, [PipelineNext]_<<vars, replay>> PROVE Keeps
    OBVIOUS
  <2>1. \/ file = [balance |-> balance, votes |-> votes]
        \/ file = NoFile
    BY DEF PipelineInv, PaperInv
  <2>2. CASE file' = file
    BY <2>2
  <2>3. CASE file = NoFile
    <3>1. DOMAIN file.votes = {}
      BY <2>3 DEF NoFile
    <3>2. QED
      BY <3>1
  <2>4. CASE file = [balance |-> balance, votes |-> votes] /\ file' # file
    <3>1. CASE Submit
      <4>1. PICK i \in DOMAIN bundle.plans :
               SubmitAccepted(bundle.plans[i].race_id, bundle.plans[i],
                              PayloadStake(bundle.plans[i]))
        BY <2>4, <3>1 DEF Submit, SubmitRefused, Refuse, SubmitUnsaved
      <4> DEFINE race == bundle.plans[i].race_id
      <4>2. /\ race \notin DOMAIN votes /\ file'.votes = Recorded(race, bundle.plans[i])
        BY <4>1 DEF SubmitAccepted
      <4> HIDE DEF race
      <4>3. \A r \in DOMAIN votes :
                r \in DOMAIN file'.votes /\ file'.votes[r] = votes[r]
        BY <4>2 DEF Recorded
      <4>4. QED
        BY <2>4, <4>3
    <3>2. CASE StartPaper
      <4>1. file = NoFile
        BY <2>4, <3>2 DEF StartPaper, Open
      <4>2. QED
        BY <2>3, <4>1
    <3>3. ASSUME ~Submit, ~StartPaper PROVE FALSE
      BY <2>4, <3>3
         DEF PipelineNext, Next, SolveStage, WriteTable, SkipRace, PlanRace, PlanFails,
             WriteBundle, Tick, Import, StartReplay, StopPaper, Close, ReplaySkip, ReplayBet,
             vars, paperVars
    <3>4. QED
      BY <3>1, <3>2, <3>3
  <2>5. QED
    BY <2>1, <2>2, <2>3, <2>4
<1>2. QED
  BY <1>1, PipelineInvariant, PTL DEF PipelineSpec, VoteIsFinal

\* pykeiba policy-table: at every bank, following the rows of the solved table delivers
\* at least the value the table reports.
THEOREM SolvedDelivers == PipelineSpec => []SolvedIsDelivered
<1> DEFINE Solved == IsSolved(spec, table)
<1>1. PipelineInit => Solved
  BY DEF PipelineInit, Init, IsSolved
<1>2. PipelineInv /\ Solved /\ [PipelineNext]_<<vars, replay>> => Solved'
  <2> SUFFICES ASSUME PipelineInv, Solved, [PipelineNext]_<<vars, replay>> PROVE Solved'
    OBVIOUS
  <2>1. SolvedInv
    BY DEF PipelineInv, PlannerInv
  <2>2. WellFormed(spec) /\ table \in Seq(Stages(spec))
    BY <2>1, PanelParts DEF SolvedInv
  <2>3. CASE SolveStage
    <3>1. spec' = spec /\ table' = Append(table, Stage(spec, LastValues(spec, table)))
      BY <2>3 DEF SolveStage
    <3>2. PICK longer : longer = Append(table, Stage(spec, LastValues(spec, table)))
      OBVIOUS
    <3>3. IsSolved(spec, longer)
      BY <2>2, <3>2, StageAdded
    <3>4. QED
      BY <3>1, <3>2, <3>3
  <2>4. CASE ~SolveStage
    <3>1. UNCHANGED <<spec, table>>
      BY <2>4 DEF PipelineNext, Next, WriteTable, SkipRace, PlanRace, PlanFails, WriteBundle, Tick,
                  Import, Submit, StartPaper, StopPaper, StartReplay, ReplaySkip, ReplayBet,
                  vars, planner
    <3>2. QED
      BY <3>1 DEF IsSolved
  <2>5. QED
    BY <2>3, <2>4
<1>3. PipelineInv /\ Solved => SolvedIsDelivered
  <2> SUFFICES ASSUME PipelineInv, Solved, Len(table) = spec.races, WholePoints,
                      NEW held \in 0..(spec.goal - 1)
               PROVE  table[spec.races][GridIndex(spec, held, 1)].value
                         <= Delivered(spec, table)[spec.races][held]
    BY DEF SolvedIsDelivered
  <2>1. SolvedInv
    BY DEF PipelineInv, PlannerInv
  <2>2. WellFormed(spec) /\ table \in Seq(Stages(spec)) /\ spec.races \in Nat \ {0}
    BY <2>1, PanelParts DEF SolvedInv
  <2>3. \A r \in 0..spec.races :
            Brings(spec, ValuesOf(spec, table, r), Delivered(spec, table)[r])
    BY <2>2, TableBrings DEF WholePoints
  <2>4. PICK r : r = spec.races
    OBVIOUS
  <2>5. Brings(spec, ValuesOf(spec, table, r), Delivered(spec, table)[r])
    BY <2>2, <2>3, <2>4
  <2>6. GridIndex(spec, held, 1) \in GridPoints(spec)
    <3>1. held \in Nat
      BY <2>2, SpecFields
    <3>2. PICK parts \in Nat \ {0} : parts = 1
      OBVIOUS
    <3>3. GridIndex(spec, held, parts) \in GridPoints(spec)
      BY <2>2, <3>1, GridBelow
    <3>4. QED
      BY <3>2, <3>3
  <2>7. ValuesOf(spec, table, r)[GridIndex(spec, held, 1)]
           = table[r][GridIndex(spec, held, 1)].value
    BY <2>2, <2>4, <2>6 DEF ValuesOf
  <2>8. ValuesOf(spec, table, r)[GridIndex(spec, held, 1)] <= Delivered(spec, table)[r][held]
    BY <2>5 DEF Brings
  <2>9. QED
    BY <2>4, <2>7, <2>8
<1> HIDE DEF Solved
<1>4. PipelineSpec => []Solved
  BY <1>1, <1>2, PipelineInvariant, PTL DEF PipelineSpec
<1>5. QED
  BY <1>3, <1>4, PipelineInvariant, PTL
=============================================================================
