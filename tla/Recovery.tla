------------------------------ MODULE Recovery ------------------------------
(***************************************************************************)
(* recover_allin.py: one race is voted by a second daemon with a policy of *)
(* its own, after the day's original daemon was killed.  prepare is run    *)
(* once by hand; tick is run again and again by a scheduler and may die    *)
(* between any two of its steps.                                           *)
(*                                                                         *)
(* A daemon is what its snapshot shows: the races it knows, with their     *)
(* plan and state, and, for the original one, whether it was killed.  A    *)
(* kill is final (VotingService, KillIsFinal), and an import is not        *)
(* guarded by it.                                                          *)
(***************************************************************************)
EXTENDS AllinPlan

CONSTANTS
    RecoveryRace,       \* RACE_KEY
    RecoveryCap,        \* max_total_stake of the recovery's policy
    TurnoverLimit       \* what prepare allows the day to have spent

VARIABLES
    journals,           \* daemon -> race -> [state, plan]
    killed,             \* the original daemon's
    prepared, planFile, \* POLICY_PATH and PLAN_PATH
    tick                \* where the running tick is

recoveryVars == <<journals, killed, prepared, planFile, tick>>

Daemons == {"original", "recovery"}

RecoveryInit ==
    /\ journals = [daemon \in Daemons |-> <<>>] /\ killed = FALSE
    /\ prepared = FALSE /\ planFile = NoPlan /\ tick = "idle"

Knows(daemon, race) == race \in DOMAIN journals[daemon]

InState(daemon, race, state) == Knows(daemon, race) /\ journals[daemon][race].state = state

Admitted(plan) ==
    ValidTimes(plan) /\ ValidMark(plan) /\ ValidBets(plan) /\ WithinRaceLimits(plan)

Journaled(daemon, race, state, plan) ==
    [journals EXCEPT ![daemon] =
        [r \in DOMAIN @ \union {race} |->
            IF r = race THEN [state |-> state, plan |-> plan] ELSE @[r]]]

Moved(daemon, race, state) == [journals EXCEPT ![daemon][race].state = state]

\* The day's own script, or its operator, imports into the original daemon.
ImportPlan(daemon, plan) ==
    /\ ~Knows(daemon, plan.race_id) /\ Admitted(plan)
    /\ journals' = Journaled(daemon, plan.race_id, "VALIDATED", plan)

Kill == ~killed /\ killed' = TRUE /\ UNCHANGED <<journals, prepared, planFile, tick>>

-----------------------------------------------------------------------------

\* Mutant: a killed daemon is taken for one that never posted the race.
BadRaceIsFree == killed

RaceIsFree == killed /\ ~Knows("original", RecoveryRace)

Prepare(turnover) ==
    /\ ~prepared /\ turnover <= TurnoverLimit /\ RaceIsFree
    /\ prepared' = TRUE
    /\ UNCHANGED <<journals, killed, planFile, tick>>

TickOpens ==
    /\ tick = "idle" /\ prepared /\ RaceIsFree /\ journals["recovery"] = <<>>
    /\ tick' = "building"
    /\ UNCHANGED <<journals, killed, prepared, planFile>>

\* The file of an earlier tick is used as it is.
TickWrites(plan) ==
    /\ tick = "building"
    /\ planFile = NoPlan => (plan # NoPlan /\ Admitted(plan))
    /\ planFile' = IF planFile = NoPlan THEN plan ELSE planFile
    /\ tick' = "importing"
    /\ UNCHANGED <<journals, killed, prepared>>

TickImports ==
    /\ tick = "importing" /\ PayloadStake(planFile) <= RecoveryCap
    /\ ImportPlan("recovery", planFile)
    /\ tick' = "arming"
    /\ UNCHANGED <<killed, prepared, planFile>>

TickArms ==
    /\ tick = "arming" /\ InState("recovery", RecoveryRace, "VALIDATED")
    /\ journals' = Moved("recovery", RecoveryRace, "ARMED")
    /\ tick' = "idle"
    /\ UNCHANGED <<killed, prepared, planFile>>

\* Returns, refusals, the deadline's margin, and death.
TickEnds ==
    /\ tick # "idle" /\ tick' = "idle"
    /\ UNCHANGED <<journals, killed, prepared, planFile>>
=============================================================================
