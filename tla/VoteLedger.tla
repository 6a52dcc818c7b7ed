----------------------------- MODULE VoteLedger -----------------------------
(***************************************************************************)
(* tools/build_ledger.py: the contest's ledger, put together afterwards    *)
(* from the daemons' snapshots and the histories of the day ledgers.       *)
(***************************************************************************)
EXTENDS Integers, SequencesExt

SumOver(f(_), S) == FoldFunctionOnSet(+, 0, [x \in S |-> f(x)], S)

\* Mutant: a race in several snapshots is taken from the last.
BadEntries(snapshots) ==
    LET last(race) == CHOOSE i \in DOMAIN snapshots :
                          /\ race \in DOMAIN snapshots[i]
                          /\ \A j \in DOMAIN snapshots : race \in DOMAIN snapshots[j] => j <= i
    IN  [race \in UNION {DOMAIN snapshots[i] : i \in DOMAIN snapshots} |->
            snapshots[last(race)][race]]

\* A race in several snapshots is taken from the first.
Entries(snapshots) ==
    LET first(race) == CHOOSE i \in DOMAIN snapshots :
                           /\ race \in DOMAIN snapshots[i]
                           /\ \A j \in 1..(i - 1) : race \notin DOMAIN snapshots[j]
    IN  [race \in UNION {DOMAIN snapshots[i] : i \in DOMAIN snapshots} |->
            snapshots[first(race)][race]]

\* The rows of a race add up, whichever ledgers they are in.
Payouts(history) ==
    LET bet == {i \in DOMAIN history : history[i].stake > 0}
    IN  [race \in {history[i].race : i \in bet} |->
            SumOver(LAMBDA i : history[i].payout, {i \in bet : history[i].race = race})]

Confirmed(entries) == {race \in DOMAIN entries : entries[race].state = "CONFIRMED"}

NotConfirmed(entries) == DOMAIN entries \ Confirmed(entries)

UnknownPayout(entries, payouts) == Confirmed(entries) \ DOMAIN payouts

KnownPayout(entries, payouts) == Confirmed(entries) \intersect DOMAIN payouts

ImpliedBank(initial, entries, payouts, stakes) ==
    initial - SumOver(LAMBDA race : stakes[race], Confirmed(entries))
            + SumOver(LAMBDA race : payouts[race], KnownPayout(entries, payouts))

UnexplainedCredit(official, implied) == official - implied
=============================================================================
