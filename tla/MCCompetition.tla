--------------------------- MODULE MCCompetition ----------------------------
(* Values of Competition's constants for TLC: points come one by one, a day *)
(* has twenty instants, the all-in classes have two to four tickets.        *)
EXTENDS Competition

Planned(tickets, stake) == [pool |-> "umatan", tickets |-> tickets, stake |-> stake]

MCTable ==
    (<<4, 0>> :> Planned(0, 0)) @@ (<<4, 20>> :> Planned(1, 3))
    @@ (<<3, 0>> :> Planned(1, 2)) @@ (<<3, 10>> :> Planned(2, 2)) @@ (<<3, 20>> :> Planned(2, 3))
    @@ (<<2, 0>> :> Planned(1, 5)) @@ (<<2, 15>> :> Planned(2, 1))
    @@ (<<1, 0>> :> Planned(0, 0)) @@ (<<1, 10>> :> Planned(2, 4))

MCTailPolicy ==
    [pool |-> "umatan", odds |-> 5, tickets |-> 1, turnover |-> 6, races |-> 4, stake |-> 8,
     base |-> 30, most |-> 38, buffer |-> 3, age |-> 2, future |-> 1]

MCClassSpecs ==
    [A |-> [tickets |-> 4, boost |-> 1, bands |-> <<2, 1, 1>>],
     B |-> [tickets |-> 3, boost |-> 2, bands |-> <<1, 1, 1>>],
     C |-> [tickets |-> 2, boost |-> 3, bands |-> <<1, 1, 0>>]]

MCBandLimits == <<6, 10>>

RaceAt(id, post, script) == [id |-> id, post |-> post, script |-> script]

MCCalendars ==
    {<<RaceAt(1, 8, "v17"), RaceAt(2, 9, "v17"), RaceAt(3, 11, "v17"), RaceAt(4, 12, "v17")>>,
     <<RaceAt(1, 8, "v17"), RaceAt(2, 28, "v17"), RaceAt(3, 29, "v17"), RaceAt(4, 31, "v17")>>,
     <<RaceAt(1, 48, "sanrentan3"), RaceAt(2, 50, "allin"), RaceAt(3, 51, "allin")>>,
     <<RaceAt(1, 68, "dynamic"), RaceAt(2, 69, "dynamic")>>}

Quote(horses, odds, draws) == [horses |-> horses, odds |-> odds, draws |-> draws]

Exactas == <<Quote(<<1, 2>>, 5, 1), Quote(<<>>, 5, 1), Quote(<<2, 1>>, 6, 1),
             Quote(<<3, 1>>, 6, 1), Quote(<<1, 3>>, 9, 1), Quote(<<2, 3>>, 9, 1),
             Quote(<<3, 2>>, 9, 1)>>

Trifectas == <<Quote(<<1, 2, 4>>, 5, 6), Quote(<<1, 2, 3>>, 5, 6), Quote(<<2, 1, 5>>, 5, 5),
               Quote(<<4, 2, 1>>, 8, 4), Quote(<<5, 4, 2>>, 12, 3), Quote(<<1, 4, 5>>, 5, 2),
               Quote(<<3, 4, 5>>, 4, 9)>>

\* One number twice, one number too many.
Malformed == [umatan |-> Quote(<<3, 3>>, 6, 1), sanrentan |-> Quote(<<2, 1, 5, 5>>, 5, 7)]

Market ==
    [win |-> <<3, 1, 2, 4, 5>>, complete |-> TRUE, offered |-> {"sanrentan"},
     rows |-> [place |-> <<Quote(<<1>>, 2, 1), Quote(<<2>>, 2, 1)>>, umatan |-> Exactas,
               sanrentan |-> Trifectas]]

\* Fewer chances in the best tickets, so another class.
Weaker == [Market EXCEPT !.rows["sanrentan"][1].draws = 1]

MCComplete == {Market, Weaker}

MCSnapshots ==
    MCComplete \union
    {[Market EXCEPT !.complete = FALSE], [Market EXCEPT !.win = <<>>],
     [Market EXCEPT !.win = <<3, 1, 1, 4, 5>>],
     [Market EXCEPT !.rows["umatan"] = <<Exactas[1], Exactas[1], Exactas[3]>>,
                    !.rows["sanrentan"] = <<Trifectas[1]>> \o Trifectas],
     [Market EXCEPT !.rows["umatan"] = <<Malformed.umatan>> \o Exactas,
                    !.rows["sanrentan"] = <<Malformed.sanrentan>> \o Trifectas],
     [Market EXCEPT !.rows["umatan"] = <<Exactas[1]>>, !.rows["sanrentan"] = SubSeq(Trifectas, 1, 3)]}

Ranking(readable, captured) ==
    [readable |-> readable, date |-> 1, captured |-> captured, leader |-> 31, goal |-> 20]

\* Fresh for some races and not yet written or too old for others; unreadable.
MCRankings == {Ranking(TRUE, 22), Ranking(TRUE, 25), Ranking(FALSE, 22)}
=============================================================================
