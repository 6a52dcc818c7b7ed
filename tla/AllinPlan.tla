----------------------------- MODULE AllinPlan ------------------------------
(***************************************************************************)
(* The contest's last weekend: allin_plan.py, which spreads a class of     *)
(* tickets over price bands, and phase2/optimizer.py, which buys towards a *)
(* target with the knapsack that pykeiba's allocate.py took over.          *)
(***************************************************************************)
EXTENDS VotePlan

CONSTANTS
    ClassSpecs,             \* CLASS_SPECS: tickets, boost, tickets per band
    CutoffA, CutoffC,       \* QUALITY_CUTOFF_A, QUALITY_CUTOFF_C
    QualityTickets,         \* how many candidates the quality sums up
    BandLimits,             \* the odds where the second and the third band begin
    AllinMoney,             \* 1,000 points
    DynamicTarget, DynamicSlots     \* TARGET, the races of the day

Classes == {"A", "B", "C"}

ASSUME AllinAssumption ==
    /\ ClassSpecs \in [Classes -> [tickets : Nat \ {0}, boost : Nat, bands : [1..3 -> Nat]]]
    /\ \A class \in Classes :
          LET spec == ClassSpecs[class]
          IN  /\ spec.bands[1] + spec.bands[2] + spec.bands[3] <= spec.tickets
              /\ spec.tickets <= ClassSpecs["A"].tickets
              /\ WholeUnits(spec.boost)
    /\ BandLimits \in [1..2 -> Nat]
    /\ CutoffC < CutoffA
    /\ {QualityTickets, DynamicTarget} \subseteq Nat
    /\ {AllinMoney, DynamicSlots} \subseteq Nat \ {0} /\ WholeUnits(AllinMoney)

-----------------------------------------------------------------------------
(* Scoring. *)

Band(odds) == 1 + Cardinality({i \in DOMAIN BandLimits : odds >= BandLimits[i]})

\* The first row of each combination.
Distinct(rows) ==
    Subsequence(rows, {i \in DOMAIN rows : \A j \in 1..(i - 1) : rows[j].horses # rows[i].horses})

Different(horses) == Cardinality(Range(horses))

\* By score, then by odds; <<>> when the win market is missing.  A horse without a win
\* price ranks behind the field.
Scored(snapshot) ==
    LET rows == Distinct(LoadSurface(snapshot.rows["sanrentan"]))
        eligible == {i \in DOMAIN rows :
                        /\ Len(rows[i].horses) = 3 /\ Different(rows[i].horses) = 3
                        /\ Longshot(snapshot.win, rows[i], Different(snapshot.win) + 1)}
        before(i, j) == \/ rows[i].draws > rows[j].draws
                        \/ rows[i].draws = rows[j].draws /\ rows[i].odds < rows[j].odds
                        \/ rows[i].draws = rows[j].draws /\ rows[i].odds = rows[j].odds /\ i < j
        order == Ordered(eligible, before)
    IN  IF snapshot.win = <<>> THEN <<>> ELSE [n \in DOMAIN order |-> rows[order[n]]]

Quality(scored) ==
    FoldLeft(LAMBDA sum, q : sum + q.draws, 0,
             SubSeq(scored, 1, Lesser(QualityTickets, Len(scored))))

ProposedClass(quality) ==
    IF quality >= CutoffA THEN "A" ELSE IF quality <= CutoffC THEN "C" ELSE "B"

\* The best of each band, filled up with the best of the rest.
SelectCandidates(scored, class) ==
    LET spec == ClassSpecs[class]
        better(S, i) == Cardinality({j \in S : j < i})
        peers(i) == {j \in DOMAIN scored : Band(scored[j].odds) = Band(scored[i].odds)}
        banded == {i \in DOMAIN scored :
                      better(peers(i), i) < spec.bands[Band(scored[i].odds)]}
        rest == DOMAIN scored \ banded
        chosen == banded \union
                  {i \in rest : better(rest, i) < spec.tickets - Cardinality(banded)}
    IN  Subsequence(scored, chosen)

ExpectedStake(class) == ClassSpecs[class].tickets * AllinMoney + ClassSpecs[class].boost

\* The best ticket carries the boost.
BuildAllin(race, snapshot, now) ==
    LET scored == Scored(snapshot)
        class == ProposedClass(Quality(scored))
        tickets == Tickets(SelectCandidates(scored, class), AllinMoney)
    IN  IF \/ ~Captured(snapshot) \/ Len(scored) < ClassSpecs["A"].tickets
           \/ now >= Deadline(race)
        THEN NoPlan
        ELSE Envelope(race, snapshot, now, "sanrentan",
                      [tickets EXCEPT ![1].money = @ + ClassSpecs[class].boost])

-----------------------------------------------------------------------------
(* The dynamic day. *)

\* features raises on an incomplete market and on a repeated combination; candidates asks
\* for three different horses, not for three numbers.
DynamicCandidates(snapshot) ==
    LET rows == LoadSurface(snapshot.rows["sanrentan"])
    IN  IF snapshot.win = <<>> \/ rows # Distinct(rows) THEN {}
        ELSE {Offer(rows, i) :
                i \in {j \in DOMAIN rows : /\ Different(rows[j].horses) = 3
                                           /\ Longshot(snapshot.win, rows[j], 99)}}

\* The weights of the slots are those of RaceAllowance.
DynamicAllowance(bank, slots) == RaceAllowance(bank, slots, DynamicSlots)

DynamicTickets(snapshot, bank, slots) ==
    Allocate(DynamicCandidates(snapshot), bank, DynamicAllowance(bank, slots),
             DynamicTarget, slots = 1).tickets

BuildDynamic(race, snapshot, now, bank, slots) ==
    LET tickets == DynamicTickets(snapshot, bank, slots)
        horses(t) == LoadSurface(snapshot.rows["sanrentan"])[t.combination].horses
    IN  IF \/ ~Captured(snapshot) \/ slots \notin 1..DynamicSlots
           \/ tickets = <<>> \/ now >= Deadline(race)
        THEN NoPlan
        ELSE Envelope(race, snapshot, now, "sanrentan",
                      [i \in DOMAIN tickets |->
                          [bet |-> horses(tickets[i]), money |-> tickets[i].stake]])
=============================================================================
