-------------------------- MODULE MCVotingService --------------------------
(* Values of VotingService's constants for TLC: a day of two races, with   *)
(* two rival plans for the first one.                                      *)
EXTENDS VotingService

CONSTANTS
    Window,     \* how long after its target time a plan may be sent
    Gap         \* how long after the first target time the second one is

MCRaceOf == [p \in Plans |-> IF p = 3 THEN "second" ELSE "first"]
MCTarget == [p \in Plans |-> IF p = 3 THEN 1 + Gap ELSE 1]
MCDeadline == [p \in Plans |-> MCTarget[p] + Window]
MCStake == [p \in Plans |-> IF p = 2 THEN 3 ELSE 2]
MCBundles == {{1, 3}}
=============================================================================
