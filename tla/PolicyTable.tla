---------------------------- MODULE PolicyTable ----------------------------
(***************************************************************************)
(* pykeiba/dp.py: backward induction over (races remaining, bank), and the *)
(* exact value of following the solved table.                              *)
(*                                                                         *)
(* Points are whole numbers.  A probability is a number of draws out of    *)
(* s.draws, so a value with r races left is a whole number of outcomes out *)
(* of s.draws^r and nothing is rounded: the code's floats stand for these  *)
(* numbers.  A stake may be a fraction of a point (per_race_cap / tickets) *)
(* and is represented by what all tickets of the race cost.                *)
(*                                                                         *)
(* s is a PolicySpec: goal, races, initial, grid, cap, most, unit, draws,  *)
(* objective; bands (odds, hit, most), counts and rules are sequences, in  *)
(* the order the code enumerates them.  The floor schedule is empty, as in *)
(* every table the command line builds.                                    *)
(***************************************************************************)
EXTENDS Integers, SequencesExt

Least(m, n) == IF m <= n THEN m ELSE n

CeilDiv(m, n) == (m + n - 1) \div n

\* What PolicySpec and PriceBand hold.
WellFormed(s) ==
    /\ {s.goal, s.races, s.grid, s.unit, s.draws} \subseteq Nat \ {0}
    /\ {s.initial, s.cap, s.most} \subseteq Nat
    /\ s.objective \in {"reach", "bank"}
    /\ s.bands \in Seq([odds : Nat \ {0, 1}, hit : Nat, most : Nat]) /\ s.bands # <<>>
    /\ s.counts \in Seq(Nat \ {0})
    /\ s.rules \in Seq([kind : {"gap", "bank"}, num : Nat, den : Nat \ {0}])

-----------------------------------------------------------------------------
(* The grid of banks. *)

TopIndex(s) == (5 * s.goal) \div (4 * s.grid)

GridPoints(s) == 0..TopIndex(s)

BankAt(s, i) == i * s.grid

\* Mutant: the nearest grid point.
BadGridIndex(s, amount, parts) ==
    Least(TopIndex(s), (2 * amount + parts * s.grid) \div (2 * parts * s.grid))

\* The grid point at or below a bank of amount / parts points.
GridIndex(s, amount, parts) == Least(TopIndex(s), amount \div (parts * s.grid))

-----------------------------------------------------------------------------
(* The actions of one stage: a band, a number of tickets, a sizing rule. *)

Actions(s) ==
    {a \in (DOMAIN s.bands) \X (DOMAIN s.counts) \X (DOMAIN s.rules) :
        s.counts[a[2]] <= Least(s.bands[a[1]].most, s.most)}

Earlier(a, b) ==
    \/ a[1] < b[1]
    \/ a[1] = b[1] /\ a[2] < b[2]
    \/ a[1] = b[1] /\ a[2] = b[2] /\ a[3] < b[3]

\* Mutant: the stake is not rounded up to whole units.
BadWantedStake(s, a, bank) ==
    LET rule == s.rules[a[3]]
    IN  IF rule.kind = "bank" THEN CeilDiv(bank * rule.num, rule.den * s.counts[a[2]])
        ELSE CeilDiv((s.goal - Least(bank, s.goal)) * rule.num,
                     (s.bands[a[1]].odds - 1) * rule.den)

\* One ticket's stake before the caps.  "gap": a hit closes num / den of the gap
\* to the goal; "bank": all tickets cost num / den of the bank.
WantedStake(s, a, bank) ==
    LET rule == s.rules[a[3]]
    IN  CASE rule.kind = "bank" ->
               CeilDiv(bank * rule.num, rule.den * s.counts[a[2]] * s.unit) * s.unit
          [] rule.kind = "gap" /\ bank < s.goal ->
               CeilDiv((s.goal - bank) * rule.num,
                       (s.bands[a[1]].odds - 1) * rule.den * s.unit) * s.unit
          [] OTHER -> 0

\* What the action's tickets cost together; 0 when the action is not valid.
Spend(s, a, bank) ==
    LET k == s.counts[a[2]]
        capped == Least(k * WantedStake(s, a, bank), s.cap)
        affordable == IF capped > bank THEN (bank \div (k * s.unit)) * s.unit * k
                                       ELSE capped
    IN  IF affordable < k * s.unit THEN 0 ELSE affordable

Hits(s, a) == Least(s.draws - 1, s.counts[a[2]] * s.bands[a[1]].hit)

UpIndex(s, a, bank) ==
    LET k == s.counts[a[2]] spend == Spend(s, a, bank)
    IN  GridIndex(s, k * (bank - spend) + spend * s.bands[a[1]].odds, k)

DownIndex(s, a, bank) == GridIndex(s, bank - Spend(s, a, bank), 1)

-----------------------------------------------------------------------------
(* The induction. *)

TerminalValue(s, bank) ==
    IF s.objective = "reach" THEN IF bank >= s.goal THEN 1 ELSE 0
                             ELSE Least(bank, s.goal)

Pass == [tickets |-> 0, odds |-> 0, hit |-> 0, stake_each |-> 0, total_spend |-> 0]

\* A row of the table: the action as it is sized for the given bank.
Bet(s, a, bank) ==
    [tickets |-> s.counts[a[2]], odds |-> s.bands[a[1]].odds, hit |-> Hits(s, a),
     stake_each |-> Spend(s, a, bank) \div s.counts[a[2]],
     total_spend |-> Spend(s, a, bank)]

ActionValue(s, next, a, i) ==
    LET bank == BankAt(s, i)
    IN  Hits(s, a) * next[UpIndex(s, a, bank)]
        + (s.draws - Hits(s, a)) * next[DownIndex(s, a, bank)]

\* What one state is worth before smoothing, and the first of the best actions
\* if one of them beats passing.
Decision(s, next, i) ==
    LET bank == BankAt(s, i)
        pass == s.draws * next[i]
        valid == {a \in Actions(s) : Spend(s, a, bank) > 0}
        best == Max({pass} \union {ActionValue(s, next, a, i) : a \in valid})
        first == CHOOSE a \in valid :
                    /\ ActionValue(s, next, a, i) = best
                    /\ \A b \in valid : Earlier(b, a) => ActionValue(s, next, b, i) < best
    IN  [value |-> best, row |-> IF best > pass THEN Bet(s, first, bank) ELSE Pass]

\* The stage before one whose values are next.  Where the grid breaks monotonicity
\* a state takes over the next poorer one's value and row, from the poorest up.
Stage(s, next) ==
    LET accumulate(stage, i) ==
            IF stage[i - 1].value > stage[i].value THEN [stage EXCEPT ![i] = stage[i - 1]]
                                                   ELSE stage
    IN  FoldLeft(accumulate, [i \in GridPoints(s) |-> Decision(s, next, i)],
                 [i \in 1..TopIndex(s) |-> i])

\* The values with no race left, or after the stages solved so far.
LastValues(s, stages) ==
    [i \in GridPoints(s) |-> IF stages = <<>> THEN TerminalValue(s, BankAt(s, i))
                             ELSE stages[Len(stages)][i].value]

\* A table is the sequence of solved stages, one race remaining first.
SolvedValue(s, table) == table[s.races][GridIndex(s, s.initial, 1)].value

\* solve refuses a table worth more than R_max * initial / goal.
ExceedsBound(s, table) ==
    LET best_return == Max({s.bands[b].hit * s.bands[b].odds : b \in DOMAIN s.bands})
    IN  SolvedValue(s, table) * s.goal > best_return * s.initial * s.draws ^ (s.races - 1)

\* The row that is followed with this bank; banks at or above the goal have none.
RowFor(s, table, remaining, bank) ==
    LET i == GridIndex(s, bank, 1)
    IN  IF BankAt(s, i) >= s.goal THEN Pass ELSE table[remaining][i].row

-----------------------------------------------------------------------------
(* What following the table is worth: simulate_table over every outcome,   *)
(* with the whole-point stakes the table gives.  A bank at the goal rests. *)

Delivered(s, table) ==
    LET kept(bank, row) == bank - row.stake_each * row.tickets
        value[r \in 0..s.races] ==
            [bank \in 0..s.goal |->
                IF r = 0 THEN TerminalValue(s, bank)
                ELSE LET row == RowFor(s, table, r, bank)
                     IN  IF bank >= s.goal \/ row.tickets = 0 \/ kept(bank, row) < 0
                         THEN s.draws * value[r - 1][bank]
                         ELSE row.hit * value[r - 1][Least(s.goal,
                                   kept(bank, row) + row.stake_each * row.odds)]
                              + (s.draws - row.hit) * value[r - 1][kept(bank, row)]]
    IN  value
=============================================================================
