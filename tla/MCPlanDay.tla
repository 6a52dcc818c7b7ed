----------------------------- MODULE MCPlanDay -----------------------------
(* Values of PlanDay's constants for TLC: points come in units of two, a    *)
(* day has twenty instants.                                                 *)
EXTENDS Backtest

CONSTANT SpecNames      \* which of the specifications below a run solves

Gap == [kind |-> "gap", num |-> 1, den |-> 1]
FifthOfBank == [kind |-> "bank", num |-> 1, den |-> 5]
LongerGap == [kind |-> "gap", num |-> 3, den |-> 2]

Even == [odds |-> 2, hit |-> 8, most |-> 2]
Edge == [odds |-> 2, hit |-> 12, most |-> 2]
Long == [odds |-> 6, hit |-> 2, most |-> 3]
Middle == [odds |-> 5, hit |-> 3, most |-> 3]

Basic == [goal |-> 24, races |-> 2, initial |-> 12, grid |-> 4, cap |-> 8, most |-> 2,
          unit |-> 2, draws |-> 20, objective |-> "reach",
          bands |-> <<Even, Long>>, counts |-> <<1, 2>>, rules |-> <<Gap, FifthOfBank>>]

SpecOf ==
    [basic  |-> Basic,
     uneven |-> [Basic EXCEPT !.goal = 17, !.grid = 3, !.races = 3],
     bank   |-> [Basic EXCEPT !.objective = "bank", !.bands = <<Edge>>],
     thirds |-> [Basic EXCEPT !.goal = 20, !.grid = 2, !.cap = 10, !.most = 3,
                              !.bands = <<Long>>, !.counts = <<1, 3>>, !.rules = <<LongerGap>>],
     near   |-> [Basic EXCEPT !.goal = 16],
     poorer |-> [Basic EXCEPT !.goal = 17, !.grid = 2, !.cap = 10, !.initial = 8,
                              !.bands = <<Middle>>, !.counts = <<2>>, !.rules = <<Gap>>]]

MCSpecs == {SpecOf[name] : name \in SpecNames}

Quote(horses, odds, draws) == [horses |-> horses, odds |-> odds, draws |-> draws]

Quotes ==
    <<Quote(<<2, 3, 4>>, 9, 3), Quote(<<4, 1, 5>>, 6, 5), Quote(<<3, 5, 2>>, 15, 3),
      Quote(<<2, 4, 1>>, 4, 7), Quote(<<1, 5, 4>>, 20, 4), Quote(<<3, 2, 1>>, 20, 4)>>

Beyond == <<Quote(<<2, 19, 4>>, 9, 3)>>

\* The win market by price: by number, or the highest number first.
Field(runners) == [rank \in 1..runners |-> rank]
Turned(runners) == [rank \in 1..runners |-> runners + 1 - rank]

RaceFile(id, post, win, quotes) == [id |-> id, post |-> post, win |-> win, quotes |-> quotes]

Quoted(count) == SubSeq(Quotes, 1, count)

\* Races without combinations, and fields above 18: the last in the market, the
\* favourite, in a combination.
MCPanels ==
    {{RaceFile(1, 12, Field(4), Quoted(3)), RaceFile(2, 10, Field(5), Quoted(6))},
     {RaceFile(1, 6, Turned(5), Quoted(5)), RaceFile(2, 6, Field(5), Quoted(1)),
      RaceFile(3, 8, Field(6), Quoted(4))},
     {RaceFile(1, 4, Field(4), Quoted(2)), RaceFile(2, 11, Field(5), <<>>),
      RaceFile(16, 9, Field(19), Quoted(3))},
     {RaceFile(1, 18, Field(4), Quoted(3)), RaceFile(2, 21, Field(5), Quoted(3))},
     {RaceFile(1, 7, Turned(19), Quoted(3)), RaceFile(2, 9, Field(19), Beyond)}}
=============================================================================
