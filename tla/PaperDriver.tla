----------------------------- MODULE PaperDriver -----------------------------
(***************************************************************************)
(* internal/voting/paper.go: the offline contest.  Votes and balance are   *)
(* kept in memory and in a file replaced by rename; the mutex makes a      *)
(* submission one step, and a death inside it is a death before or after   *)
(* the rename.                                                             *)
(***************************************************************************)
EXTENDS Integers, Functions, SequencesExt

CONSTANTS
    OpeningBalance,
    MaxPaperFaults      \* bound: failed writes and process deaths

ASSUME PaperAssumption == OpeningBalance \in Nat /\ MaxPaperFaults \in Nat

VARIABLES
    votes, balance,     \* the driver's memory: race id -> the plan voted
    file,               \* the state file, NoFile before the first start
    open,               \* the process runs
    reply,              \* the last answer of Submit
    paperFaults

paperVars == <<votes, balance, file, open, reply, paperFaults>>

NoFile == [balance |-> -1, votes |-> <<>>]

PaperInit ==
    /\ votes = <<>> /\ balance = OpeningBalance
    /\ file = NoFile /\ open = FALSE
    /\ reply = "none" /\ paperFaults = 0

\* Mutant: every start begins a new file.
BadOpen ==
    /\ ~open /\ open' = TRUE
    /\ votes' = <<>> /\ balance' = OpeningBalance
    /\ file' = [balance |-> OpeningBalance, votes |-> <<>>]
    /\ reply' = "none"
    /\ UNCHANGED paperFaults

\* NewPaperDriver: the file if there is one, else a new file.
Open ==
    /\ ~open /\ open' = TRUE
    /\ IF file = NoFile
          THEN /\ votes' = <<>> /\ balance' = OpeningBalance
               /\ file' = [balance |-> OpeningBalance, votes |-> <<>>]
          ELSE votes' = file.votes /\ balance' = file.balance /\ file' = file
    /\ reply' = "none"
    /\ UNCHANGED paperFaults

Refuse(answer) ==
    /\ reply' = answer
    /\ UNCHANGED <<votes, balance, file, open, paperFaults>>

SubmitRefused(race, stake) ==
    /\ open
    /\ \/ race \in DOMAIN votes /\ Refuse("duplicate race")
       \/ /\ race \notin DOMAIN votes /\ stake > balance
          /\ Refuse("insufficient balance")

\* The map of votes with one more entry.
Recorded(race, plan) ==
    [r \in DOMAIN votes \union {race} |-> IF r = race THEN plan ELSE votes[r]]

\* Mutant: the balance is not looked at.
BadSubmitAccepted(race, plan, stake) ==
    /\ open /\ race \notin DOMAIN votes
    /\ votes' = Recorded(race, plan)
    /\ balance' = balance - stake
    /\ file' = [balance |-> balance', votes |-> votes']
    /\ reply' = "ok"
    /\ UNCHANGED <<open, paperFaults>>

SubmitAccepted(race, plan, stake) ==
    /\ open /\ race \notin DOMAIN votes /\ stake <= balance
    /\ votes' = Recorded(race, plan)
    /\ balance' = balance - stake
    /\ file' = [balance |-> balance', votes |-> votes']
    /\ reply' = "ok"
    /\ UNCHANGED <<open, paperFaults>>

\* Mutant: the vote is put back, the balance is not.
BadSubmitUnsaved(race, plan, stake) ==
    /\ open /\ race \notin DOMAIN votes /\ stake <= balance
    /\ paperFaults < MaxPaperFaults /\ paperFaults' = paperFaults + 1
    /\ balance' = balance - stake
    /\ reply' = "error"
    /\ UNCHANGED <<votes, file, open>>

\* persistLocked fails: vote and balance are put back.
SubmitUnsaved(race, plan, stake) ==
    /\ open /\ race \notin DOMAIN votes /\ stake <= balance
    /\ paperFaults < MaxPaperFaults /\ paperFaults' = paperFaults + 1
    /\ LET taken == [balance |-> balance - stake, votes |-> Recorded(race, plan)]
       IN  /\ votes' = Restrict(taken.votes, DOMAIN taken.votes \ {race})
           /\ balance' = taken.balance + stake
    /\ reply' = "error"
    /\ UNCHANGED <<file, open>>

Close ==
    /\ open /\ open' = FALSE
    /\ paperFaults < MaxPaperFaults /\ paperFaults' = paperFaults + 1
    /\ reply' = "none"
    /\ UNCHANGED <<votes, balance, file>>
=============================================================================
