--------------------------- MODULE VotingService ---------------------------
(***************************************************************************)
(* One day of votingd (internal/voting/service.go) against the contest's   *)
(* voting API: import, arm, the ticker's submission and reconciliation,    *)
(* kill and halt, process crash and restart, the STOP file, the clock.     *)
(*                                                                         *)
(* controlMu is held by every handler from its first read of the store to  *)
(* its last write, network calls included, so one handler runs at a time:  *)
(* pc names the point it has reached and "idle" means the mutex is free.   *)
(* A step ends wherever something outside the process can come between:    *)
(* at every durable write (the process may die after it) and at every      *)
(* network exchange.  race and killed are the journal and the equal        *)
(* in-memory state; only the daemon's position is lost in a crash.         *)
(***************************************************************************)
EXTENDS VoteRecord, FiniteSets, Functions

CONSTANTS
    Plans,                  \* plan ids; numbers, because ties are broken by id
    Bundles,                \* the sets of plans a day's bundle may hold
    RaceOf, Target, Deadline, Stake,   \* functions on Plans, see below
    NoPlan, NoVote, OtherVote,
    AutomaticRecovery,      \* policy automatic_recovery
    MaxRaces, MaxArms, MaxPOSTRequests, MaxDailyStake,
    InitialWait, Interval, RetryDelay,
    DayEnd,                 \* the first instant after the connection date
    Horizon,                \* bound: the clock stops at this late instant
    MaxFaults,              \* bound: failed journal or snapshot writes
    MaxCrashes,             \* bound: process deaths
    MaxMishaps              \* bound: both together

ASSUME PlansAssumption ==
    /\ Plans \subseteq Nat \ {0} /\ IsFiniteSet(Plans)
    /\ NoPlan \notin Plans
    /\ NoVote \notin Plans /\ OtherVote \notin Plans /\ NoVote # OtherVote

\* ValidatePlan orders target < deadline; ValidatePayload makes stakes positive.
ASSUME ScheduleAssumption ==
    /\ DOMAIN RaceOf = Plans
    /\ Target \in [Plans -> Nat] /\ Deadline \in [Plans -> Nat]
    /\ \A p \in Plans : Target[p] < Deadline[p]
    /\ Stake \in [Plans -> Nat \ {0}]

\* ValidateBundle: a bundle is not empty and holds one plan per race.
ASSUME BundlesAssumption ==
    /\ Bundles \subseteq SUBSET Plans /\ {} \notin Bundles
    /\ \A B \in Bundles : \A p, q \in B : RaceOf[p] = RaceOf[q] => p = q

\* ValidatePolicy: the arm and POST limits cover the races.
ASSUME PolicyAssumption ==
    /\ AutomaticRecovery \in BOOLEAN
    /\ {MaxRaces, MaxArms, MaxPOSTRequests, MaxDailyStake} \subseteq Nat
    /\ MaxRaces <= MaxArms /\ MaxRaces <= MaxPOSTRequests
    /\ {InitialWait, Interval, RetryDelay, DayEnd, Horizon} \subseteq Nat
    /\ {MaxFaults, MaxCrashes, MaxMishaps} \subseteq Nat

Races == {RaceOf[p] : p \in Plans}

\* ValidatePolicy accepts only http.post_max_attempts = 1.
POSTMaxAttempts == 1

VARIABLES
    race, killed,                 \* the store: a record per plan, the kill flag
    pc, cur, todo, cont,          \* the handler in progress
    recovered,                    \* Recover has finished in this process
    wire, vote,                   \* the contest: fate of each POST, recorded votes
    sent,                         \* history: POST requests that left the daemon
    stop,                         \* the STOP file, or FREEZE.json, exists
    now, faults, crashes          \* the clock and the two fault counters

store == <<race, killed>>
handler == <<pc, cur, todo, cont>>
daemon == <<handler, recovered>>
contest == <<wire, vote>>
vars == <<store, daemon, contest, sent, stop, now, faults, crashes>>

Labels == {"down", "idle", "recovering", "importing", "arming", "armFailed",
           "killing", "expiring", "select", "read", "guard", "commit", "post",
           "wait", "reread", "defer", "halt", "halting"}

Init ==
    /\ race = [p \in Plans |-> Unknown] /\ killed = FALSE
    /\ pc = "idle" /\ cur = NoPlan /\ todo = {} /\ cont = "idle"
    /\ recovered = FALSE
    /\ wire = [p \in Plans |-> "none"] /\ vote = [r \in Races |-> NoVote]
    /\ sent = [p \in Plans |-> 0]
    /\ stop = FALSE /\ now = 0 /\ faults = 0 /\ crashes = 0

-----------------------------------------------------------------------------
(* Durable writes, and where a handler goes next. *)

\* "unwritten": the append failed and nothing changed; "unsaved": the journal
\* took the event, the snapshot write failed.  Both return an error.
Outcomes == {"ok", "unwritten", "unsaved"}

Charge(o) ==
    /\ o # "ok" => faults < MaxFaults /\ faults + crashes < MaxMishaps
    /\ faults' = IF o = "ok" THEN faults ELSE faults + 1

Write(p, r, o) ==
    /\ Charge(o)
    /\ race' = IF o = "unwritten" THEN race ELSE [race EXCEPT ![p] = r]
    /\ UNCHANGED killed

WriteKill(o) ==
    /\ Charge(o)
    /\ killed' = (killed \/ o # "unwritten")
    /\ UNCHANGED race

NoWrite == UNCHANGED <<race, killed, faults>>

Go(label, p, S, c) == pc' = label /\ cur' = p /\ todo' = S /\ cont' = c

Return == Go("idle", NoPlan, {}, "idle")

\* The loop label over S, or the end of the handler when S is empty.
Loop(label, S) == IF S = {} THEN Return ELSE Go(label, NoPlan, S, "idle")

\* haltFuturePlans, after which the handler resumes at c.
Halt(c) == Go("halt", cur, {}, c)

\* A handler step touches neither the contest nor the world outside.
InProcess == UNCHANGED <<recovered, contest, sent, stop, now, crashes>>

\* Time saturates at the horizon, which stands for every later instant.
Later(d) == IF now + d > Horizon THEN Horizon ELSE now + d

-----------------------------------------------------------------------------
(* Queries on the store. *)

Imported == {p \in Plans : race[p].state # "DISCOVERED"}

Total(f, S) == FoldFunctionOnSet(+, 0, f, S)

TotalArms == Total([p \in Plans |-> race[p].armCount], Plans)

\* The kill flag of an earlier process is not consulted.
BadGuard(p) ==
    IF stop THEN {"KILLED", "REJECTED"}
    ELSE IF now >= DayEnd THEN {"REJECTED"}
    ELSE IF now >= Deadline[p] THEN {"EXPIRED", "REJECTED"}
    ELSE {"PASS", "REJECTED"}

\* Results of Service.guard: the terminal state a failure leads to, or PASS.
\* An unreadable marker file or an environment variable that does not match
\* may fail the guard at any time.
Guard(p) ==
    IF stop \/ killed THEN {"KILLED", "REJECTED"}
    ELSE IF now >= DayEnd THEN {"REJECTED"}
    ELSE IF now >= Deadline[p] THEN {"EXPIRED", "REJECTED"}
    ELSE {"PASS", "REJECTED"}

\* The stake a plan keeps reserved in validateAdditionalPlans.
Reserved ==
    {p \in Imported :
        ~(AutomaticRecovery /\ race[p].posts = 0 /\ race[p].state \in Terminal)}

\* The stakes already reserved are not added up.
BadMayImport(S) ==
    LET new == S \ Imported
    IN  /\ \A p \in new, q \in Imported \union new : RaceOf[p] = RaceOf[q] => p = q
        /\ Cardinality(Imported \union new) <= MaxRaces
        /\ Total(Stake, new) <= MaxDailyStake

\* validateAdditionalPlans.
MayImport(S) ==
    LET new == S \ Imported
    IN  /\ \A p \in new, q \in Imported \union new : RaceOf[p] = RaceOf[q] => p = q
        /\ Cardinality(Imported \union new) <= MaxRaces
        /\ Total(Stake, Reserved \union new) <= MaxDailyStake

\* Unresolved POSTs of other plans do not hold a submission back.
BadWithinBudget(p) ==
    LET posted == {q \in Plans : race[q].posts > 0}
    IN  /\ Total([q \in Plans |-> race[q].posts], Plans) < MaxPOSTRequests
        /\ Total(Stake, posted \union {p}) <= MaxDailyStake

\* guardSubmissionBudget.
WithinBudget(p) ==
    LET posted == {q \in Plans : race[q].posts > 0}
    IN  /\ AutomaticRecovery => \A q \in Plans \ {p} : ~Unresolved(race[q])
        /\ race[p].posts = 0
              => Total([q \in Plans |-> race[q].posts], Plans) < MaxPOSTRequests
        /\ Total(Stake, posted \union {p}) <= MaxDailyStake

\* Order of a bundle: by target time, then by race.
EarliestOf(p, S) ==
    \A q \in S : Target[p] < Target[q] \/ (Target[p] = Target[q] /\ p <= q)

Armable(p) == race[p].state = "VALIDATED" /\ "PASS" \in Guard(p)

HaltSet == {p \in Plans : Haltable(race[p])}

Expirable ==
    {p \in Plans : /\ AutomaticRecovery /\ race[p].state = "VALIDATED"
                   /\ now >= Deadline[p]}

-----------------------------------------------------------------------------
(* Operator commands on the control socket. *)

\* Store.ImportPlan looks for the plan and for its race once more.
Known(p) == \E q \in Imported : RaceOf[q] = RaceOf[p]

ImportPlan(p) ==
    /\ pc = "idle" /\ ~Known(p) /\ MayImport({p})
    /\ \E o \in Outcomes : Write(p, ImportedRecord, o)
    /\ UNCHANGED handler /\ InProcess

ImportBundle(B) ==
    /\ pc = "idle" /\ MayImport(B) /\ B \ Imported # {}
    /\ Go("importing", NoPlan, B \ Imported, "idle")
    /\ NoWrite /\ InProcess

ImportNext ==
    /\ pc = "importing"
    /\ \E p \in todo :
          /\ EarliestOf(p, todo)
          /\ IF Known(p)
             THEN NoWrite /\ Return
             ELSE \E o \in Outcomes :
                     /\ Write(p, ImportedRecord, o)
                     /\ IF o = "ok" THEN Loop("importing", todo \ {p}) ELSE Return
    /\ InProcess

Arm(p) ==
    /\ pc = "idle" /\ ~killed /\ Armable(p)
    /\ \A q \in Plans : ~race[q].armed
    /\ AutomaticRecovery => \A q \in Plans : ~Unresolved(race[q])
    /\ TotalArms < MaxArms
    /\ \E o \in Outcomes : Write(p, Armed(race[p], Target[p]), o)
    /\ UNCHANGED handler /\ InProcess

ArmBundle(B) ==
    /\ pc = "idle" /\ ~killed
    /\ \A p \in B : Armable(p)
    /\ \A q \in Plans : ~race[q].armed
    /\ TotalArms + Cardinality(B) <= MaxArms
    /\ Go("arming", NoPlan, B, "idle")
    /\ NoWrite /\ InProcess

ArmNext ==
    /\ pc = "arming"
    /\ \E p \in todo, o \in Outcomes :
          /\ EarliestOf(p, todo)
          /\ Write(p, Armed(race[p], Target[p]), o)
          /\ IF o = "ok" THEN Loop("arming", todo \ {p})
                         ELSE Go("armFailed", NoPlan, {}, "idle")
    /\ InProcess

\* The kill that follows a partial arm; its own failure is ignored.
ArmFailed ==
    /\ pc = "armFailed"
    /\ \E o \in Outcomes : WriteKill(o)
    /\ Return /\ InProcess

Kill ==
    /\ pc = "idle"
    /\ \E o \in Outcomes :
          /\ WriteKill(o)
          /\ IF o = "ok" THEN Loop("killing", HaltSet) ELSE Return
    /\ InProcess

KillNext ==
    /\ pc = "killing"
    /\ \E p \in todo, o \in Outcomes :
          /\ Write(p, To(race[p], "KILLED"), o)
          /\ IF o = "ok" THEN Loop("killing", todo \ {p}) ELSE Return
    /\ InProcess

CancelUnposted(p) ==
    /\ pc = "idle" /\ AutomaticRecovery
    /\ race[p].posts = 0
    /\ race[p].state \in {"VALIDATED", "ARMED", "PRECHECKED_EMPTY"}
    /\ \E o \in Outcomes : Write(p, To(race[p], "KILLED"), o)
    /\ UNCHANGED handler /\ InProcess

-----------------------------------------------------------------------------
(* The ticker: Tick picks the first due record. *)

Due(p) == race[p].next # NoTime /\ race[p].next <= now

First(p) ==
    /\ Due(p)
    /\ \A q \in Plans : Due(q) =>
          \/ race[p].next < race[q].next
          \/ race[p].next = race[q].next /\ p <= q

Selecting == recovered /\ (pc = "select" \/ (pc = "idle" /\ Expirable = {}))

TickExpire ==
    /\ pc = "idle" /\ recovered /\ Expirable # {}
    /\ Go("expiring", NoPlan, Expirable, "idle")
    /\ NoWrite /\ InProcess

ExpireNext ==
    /\ pc = "expiring"
    /\ \E p \in todo, o \in Outcomes :
          /\ Write(p, To(race[p], "EXPIRED"), o)
          /\ IF todo = {p} THEN Go("select", NoPlan, {}, "idle")
                           ELSE Go("expiring", NoPlan, todo \ {p}, "idle")
    /\ InProcess

\* Nothing is due, or the first due record is in a state Tick has no case for.
TickNothing ==
    /\ pc = "select"
    /\ \A p \in Plans : First(p) => race[p].state = "PRECHECKED_EMPTY"
    /\ Return /\ NoWrite /\ InProcess

-----------------------------------------------------------------------------
(* executeSubmission *)

Submit(p) ==
    /\ Selecting /\ First(p) /\ race[p].state = "ARMED" /\ race[p].armed
    /\ \E g \in Guard(p) :
          IF g = "PASS"
          THEN IF AutomaticRecovery
               THEN \E o \in Outcomes :
                       /\ Write(p, Prechecking(race[p]), o)
                       /\ IF o = "ok" THEN Go("read", p, {}, "idle") ELSE Return
               ELSE NoWrite /\ Go("read", p, {}, "idle")
          ELSE /\ \E o \in Outcomes : Write(p, To(race[p], g), o)
               /\ Return
    /\ InProcess

\* The login or the read before the POST fails.
ReadFails ==
    /\ pc = "read"
    /\ IF AutomaticRecovery
       THEN /\ \E o \in Outcomes :
                  Write(cur, Retried(race[cur], Later(RetryDelay), Deadline[cur]), o)
            /\ Return
       ELSE /\ \E o \in Outcomes : Write(cur, To(race[cur], "REJECTED"), o)
            /\ Halt("idle")
    /\ InProcess

PrecheckState(v) ==
    IF v = cur THEN "CONFIRMED_EXISTING"
    ELSE IF v = NoVote THEN "PRECHECKED_EMPTY" ELSE "CONFLICT"

ReadAnswers ==
    /\ pc = "read"
    /\ LET s == PrecheckState(vote[RaceOf[cur]])
       IN  \E o \in Outcomes :
              /\ Write(cur, To(race[cur], s), o)
              /\ IF s = "CONFLICT" THEN Halt("idle")
                 ELSE IF s = "PRECHECKED_EMPTY" /\ o = "ok"
                      THEN Go("guard", cur, {}, "idle")
                      ELSE Return
    /\ InProcess

\* The verdict from before the read is still trusted.
BadPostGuard == {"PASS"}

\* The second guard, after the read.
PostGuard == Guard(cur)

BeforePost ==
    /\ pc = "guard"
    /\ \E g \in PostGuard :
          IF g # "PASS"
          THEN (\E o \in Outcomes : Write(cur, To(race[cur], g), o)) /\ Return
          ELSE IF WithinBudget(cur)
               THEN NoWrite /\ Go("commit", cur, {}, "idle")
               ELSE /\ \E o \in Outcomes : Write(cur, To(race[cur], "REJECTED"), o)
                    /\ Halt("idle")
    /\ InProcess

\* The attempt made durable before the POST: an append, a sync and a snapshot,
\* and time, the STOP file or death may come before any of them.
Commit ==
    /\ pc = "commit"
    /\ IF race[cur].posts >= POSTMaxAttempts
       THEN NoWrite /\ Return
       ELSE \E o \in Outcomes :
               /\ Write(cur, Posting(race[cur]), o)
               /\ IF o = "ok" THEN Go("post", cur, {}, "idle") ELSE Return
    /\ InProcess

Send ==
    /\ pc = "post"
    /\ sent' = [sent EXCEPT ![cur] = @ + 1]
    /\ wire' = [wire EXCEPT ![cur] = "inflight"]
    /\ Go("wait", cur, {}, "idle")
    /\ NoWrite /\ UNCHANGED <<recovered, vote, stop, now, crashes>>

PostAccepted ==
    /\ pc = "wait" /\ wire[cur] = "accepted"
    /\ \E o \in Outcomes :
          Write(cur, Awaiting(race[cur], "PENDING_CONFIRMATION", Later(InitialWait)), o)
    /\ Return /\ InProcess

\* A POST without an answer counts as refused.
BadUnknownState == "REJECTED"

\* A definite refusal is final, except under automatic recovery.
RefusedState == IF AutomaticRecovery THEN "AMBIGUOUS" ELSE "REJECTED"

\* Timeout, broken connection or an answer that cannot be understood.
UnknownState == "AMBIGUOUS"

PostFails(s) ==
    /\ \E o \in Outcomes :
          Write(cur, IF s = "AMBIGUOUS"
                     THEN Awaiting(race[cur], s, Later(InitialWait))
                     ELSE To(race[cur], s), o)
    /\ IF AutomaticRecovery THEN Return ELSE Halt("idle")
    /\ InProcess

PostRefused == pc = "wait" /\ wire[cur] = "refused" /\ PostFails(RefusedState)

PostUnknown == pc = "wait" /\ PostFails(UnknownState)

-----------------------------------------------------------------------------
(* reconcile and deferReconciliation *)

Reconcile(p) ==
    /\ Selecting /\ First(p)
    /\ race[p].state \in {"POSTING", "PENDING_CONFIRMATION", "AMBIGUOUS"}
    /\ race[p].posts > 0
    /\ Go(IF now >= DayEnd THEN "defer" ELSE "reread", p, {}, "idle")
    /\ NoWrite /\ InProcess

RereadFails ==
    /\ pc = "reread"
    /\ IF AutomaticRecovery THEN Go("defer", cur, {}, "idle") ELSE Halt("defer")
    /\ NoWrite /\ InProcess

\* Any vote found for the race is taken for ours.
BadRereadState(v) == "CONFIRMED"

RereadState(v) == IF v = cur THEN "CONFIRMED" ELSE "CONFLICT"

RereadAnswers ==
    /\ pc = "reread"
    /\ LET v == vote[RaceOf[cur]]
       IN  IF v = NoVote
           THEN NoWrite /\ Go("defer", cur, {}, "idle")
           ELSE \E o \in Outcomes :
                   /\ Write(cur, Verified(race[cur], RereadState(v)), o)
                   /\ IF RereadState(v) = "CONFLICT" THEN Halt("idle") ELSE Return
    /\ InProcess

Defer ==
    /\ pc = "defer"
    /\ LET r == Deferred(race[cur], Later(Interval))
       IN  \E o \in Outcomes :
              /\ Write(cur, r, o)
              /\ IF o = "ok" /\ r.gets >= VerificationMaxGETAttempts
                 THEN Halt("idle") ELSE Return
    /\ InProcess

-----------------------------------------------------------------------------
(* haltFuturePlans *)

Resume ==
    IF cont = "defer" THEN Go("defer", cur, {}, "idle") ELSE Return

\* The loop over the armed records is entered with nothing to do.
BadHaltOver(S) == Go("halting", cur, S, cont)

HaltOver(S) == IF S = {} THEN Resume ELSE Go("halting", cur, S, cont)

\* The armed plans are closed, but the kill flag is not set.
BadHaltDay == pc = "halt" /\ NoWrite /\ HaltOver(HaltSet) /\ InProcess

HaltDay ==
    /\ pc = "halt"
    /\ IF killed
       THEN NoWrite /\ HaltOver(HaltSet)
       ELSE \E o \in Outcomes :
               /\ WriteKill(o)
               /\ IF o = "ok" THEN HaltOver(HaltSet) ELSE Resume
    /\ InProcess

\* A failed write is logged and the loop goes on.
HaltNext ==
    /\ pc = "halting"
    /\ \E p \in todo, o \in Outcomes :
          /\ Write(p, To(race[p], "KILLED"), o)
          /\ HaltOver(todo \ {p})
    /\ InProcess

-----------------------------------------------------------------------------
(* Process death and restart *)

Crash ==
    /\ pc # "down" /\ crashes < MaxCrashes /\ faults + crashes < MaxMishaps
    /\ crashes' = crashes + 1
    /\ Go("down", NoPlan, {}, "idle") /\ recovered' = FALSE
    /\ NoWrite /\ UNCHANGED <<contest, sent, stop, now>>

\* The control server may serve commands before Recover gets the mutex.
Start ==
    /\ pc = "down"
    /\ Return
    /\ NoWrite /\ InProcess

RecoverSet == {p \in Plans : NeedsRecovery(race[p])}

RecoverOver(S) ==
    IF S = {} THEN Return /\ recovered' = TRUE
              ELSE Go("recovering", NoPlan, S, "idle") /\ UNCHANGED recovered

Recover ==
    /\ pc = "idle" /\ ~recovered
    /\ RecoverOver(RecoverSet)
    /\ NoWrite /\ UNCHANGED <<contest, sent, stop, now, crashes>>

\* An error ends Run, and with it the process.
RecoverNext ==
    /\ pc = "recovering"
    /\ \E p \in todo, o \in Outcomes :
          /\ Write(p, Recovered(race[p], now), o)
          /\ IF o = "ok" THEN RecoverOver(todo \ {p})
             ELSE Go("down", NoPlan, {}, "idle") /\ UNCHANGED recovered
    /\ UNCHANGED <<contest, sent, stop, now, crashes>>

-----------------------------------------------------------------------------
(* The contest, the operator's hands, the clock *)

OnlyContest == UNCHANGED <<store, daemon, sent, stop, now, faults, crashes>>

\* The contest holds or will hold a vote for the race: it takes one per race.
Taken(r) ==
    \/ vote[r] # NoVote
    \/ \E p \in Plans : RaceOf[p] = r /\ wire[p] = "accepted"

Accept(p) ==
    /\ wire[p] = "inflight" /\ ~Taken(RaceOf[p])
    /\ wire' = [wire EXCEPT ![p] = "accepted"]
    /\ UNCHANGED vote /\ OnlyContest

Refuse(p) ==
    /\ wire[p] = "inflight"
    /\ wire' = [wire EXCEPT ![p] = "refused"]
    /\ UNCHANGED vote /\ OnlyContest

\* An accepted vote becomes readable, possibly not as it was sent.
Publish(p) ==
    /\ wire[p] = "accepted" /\ vote[RaceOf[p]] = NoVote
    /\ \E v \in {p, OtherVote} : vote' = [vote EXCEPT ![RaceOf[p]] = v]
    /\ UNCHANGED wire /\ OnlyContest

\* Someone votes on the contest's site: a plan's content, or something else.
VoteByHand(r) ==
    /\ ~Taken(r)
    /\ \E v \in {p \in Plans : RaceOf[p] = r} \union {OtherVote} :
          vote' = [vote EXCEPT ![r] = v]
    /\ UNCHANGED wire /\ OnlyContest

ToggleStop ==
    /\ stop' = ~stop
    /\ UNCHANGED <<store, daemon, contest, sent, now, faults, crashes>>

PassTime ==
    /\ now < Horizon /\ now' = now + 1
    /\ UNCHANGED <<store, daemon, contest, sent, stop, faults, crashes>>

-----------------------------------------------------------------------------
Command ==
    \/ \E p \in Plans : ImportPlan(p) \/ Arm(p) \/ CancelUnposted(p)
    \/ \E B \in Bundles : ImportBundle(B) \/ ArmBundle(B)
    \/ Kill

Tick == TickExpire \/ \E p \in Plans : Submit(p) \/ Reconcile(p)

Continue ==
    \/ ImportNext \/ ArmNext \/ ArmFailed \/ KillNext
    \/ ExpireNext \/ TickNothing
    \/ ReadFails \/ ReadAnswers \/ BeforePost \/ Commit
    \/ Send \/ PostAccepted \/ PostRefused \/ PostUnknown
    \/ RereadFails \/ RereadAnswers \/ Defer
    \/ HaltDay \/ HaltNext \/ RecoverNext

Contest ==
    \/ \E p \in Plans : Accept(p) \/ Refuse(p) \/ Publish(p)
    \/ \E r \in Races : VoteByHand(r)

Next ==
    \/ Command \/ Tick \/ Continue
    \/ Crash \/ Start \/ Recover
    \/ Contest \/ ToggleStop \/ PassTime

Spec == Init /\ [][Next]_vars

\* votingd's ticker fires every second, launchd restarts a dead process, and
\* time passes; nothing is assumed of the operator, the disk or the contest.
FairSpec ==
    /\ Spec
    /\ WF_vars(Tick) /\ WF_vars(Continue)
    /\ WF_vars(Start) /\ WF_vars(Recover)
    /\ WF_vars(PassTime)

-----------------------------------------------------------------------------
(* Types *)

LoopLabels == {"importing", "arming", "killing", "expiring", "halting", "recovering"}

PlanLabels ==
    {"read", "guard", "commit", "post", "wait", "reread", "defer", "halt", "halting"}

StoreTypeOK == race \in [Plans -> Record] /\ killed \in BOOLEAN

HandlerTypeOK ==
    /\ pc \in Labels /\ cur \in Plans \union {NoPlan}
    /\ todo \subseteq Plans /\ cont \in {"idle", "defer"}
    /\ pc \in LoopLabels => todo # {}
    /\ pc \in PlanLabels => cur \in Plans

WorldTypeOK ==
    /\ recovered \in BOOLEAN
    /\ wire \in [Plans -> {"none", "inflight", "accepted", "refused"}]
    /\ vote \in [Races -> Plans \union {NoVote, OtherVote}]
    /\ sent \in [Plans -> Nat]
    /\ stop \in BOOLEAN /\ now \in Nat /\ faults \in Nat /\ crashes \in Nat

\* Every variable keeps its type, and a handler that acts on one plan, or
\* loops over a set of them, has a plan, or plans, to act on.
TypeOK == StoreTypeOK /\ HandlerTypeOK /\ WorldTypeOK

-----------------------------------------------------------------------------
(* The inductive invariant behind the safety properties *)

\* The states of a race whose POST may be sent and whose outcome is open.
InDoubt == {"POSTING", "PENDING_CONFIRMATION", "AMBIGUOUS"}

\* What a record's state says of its POST and of its arming.
RecordOK(r) ==
    /\ r.posts \in {0, 1}
    /\ r.state \in InDoubt => r.posts = 1
    /\ r.posts = 1 => r.state \in InDoubt \union {"CONFIRMED", "CONFLICT", "REJECTED"}
    /\ r.armed => r.state \in {"ARMED", "PRECHECKED_EMPTY"}

RecordInv == \A p \in Plans : RecordOK(race[p])

\* No request without its durable attempt, no request open behind a refusal.
WireInv ==
    \A p \in Plans :
        /\ sent[p] <= race[p].posts
        /\ wire[p] # "none" => sent[p] = 1
        /\ race[p].state = "REJECTED" => wire[p] \in {"none", "refused"}

\* The store never holds two plans of a race.
RivalsInv == \A p, q \in Imported : RaceOf[p] = RaceOf[q] => p = q

\* What a handler read before its last step still holds: the mutex pays off.
HandlerInv ==
    /\ pc = "read" => race[cur].state = "ARMED"
    /\ pc \in {"guard", "commit"} => race[cur].state = "PRECHECKED_EMPTY"
    /\ pc = "commit" => ~killed /\ WithinBudget(cur)
    /\ pc = "post" => race[cur].state = "POSTING" /\ sent[cur] = 0 /\ ~killed
    /\ pc = "wait" => race[cur].state = "POSTING" /\ sent[cur] = 1
    /\ pc \in {"reread", "defer"} \/ (pc \in {"halt", "halting"} /\ cont = "defer")
          => race[cur].state \in InDoubt
    /\ \A p \in todo :
          /\ pc \in {"arming", "expiring"} => race[p].state = "VALIDATED"
          /\ pc \in {"killing", "halting"} => Haltable(race[p])
          /\ pc = "recovering" => NeedsRecovery(race[p])

\* A POST leaves only behind its own durable record, whatever the handler was
\* doing when the process died or a write failed.
SendInv == RecordInv /\ WireInv /\ RivalsInv /\ HandlerInv

-----------------------------------------------------------------------------
(* Safety *)

\* One race gets at most one POST in its life, whatever plan carries it and
\* however often the process dies or the disk fails (docs/06-safety.md).
AtMostOnePostPerRace ==
    \A p, q \in Plans : RaceOf[p] = RaceOf[q] /\ sent[p] > 0 /\ sent[q] > 0
                          => p = q /\ sent[p] = 1

\* A race the daemon has given up without a recorded POST outcome, or not yet
\* sent, has no request of ours that the contest has taken or may still take:
\* KILLED, EXPIRED, REJECTED and CONFIRMED_EXISTING never hide our vote.
NoHiddenVote ==
    \A p \in Plans :
        race[p].state \in {"DISCOVERED", "VALIDATED", "ARMED", "PRECHECKED_EMPTY",
                           "CONFIRMED_EXISTING", "REJECTED", "EXPIRED", "KILLED"}
        => wire[p] \in {"none", "refused"}

\* A confirmed race is one whose recorded vote is the plan's, and no other.
ConfirmedIsRecorded ==
    \A p \in Plans :
        race[p].state \in {"CONFIRMED", "CONFIRMED_EXISTING"} => vote[RaceOf[p]] = p

\* A plan that import admitted is never turned down for the daily limits at
\* submission time, so a day is never sent in part for lack of budget.
AdmittedFitsBudget == pc = "guard" => WithinBudget(cur)

\* Automatic recovery never has two POSTs of unknown outcome at a time.
OneUnresolvedPost ==
    \A p, q \in Plans : Unresolved(race[p]) /\ Unresolved(race[q]) => p = q

\* The read before a POST is repeated at most PrecheckLimit times; only a
\* process death or a failed write can add an attempt each.
ReadRetriesBounded ==
    \A p \in Plans : race[p].prechecks <= PrecheckLimit + crashes + faults

KillKept == killed => killed' /\ sent' = sent

\* Once the day is killed it stays killed and no request leaves any more,
\* in this process or in a later one.
KillIsFinal == [][KillKept]_vars

TerminalKept ==
    \A p \in Plans : race[p].state \in Terminal => race'[p].state = race[p].state

\* A terminal state is the last one of a race.
TerminalIsFinal == [][TerminalKept]_vars

\* A race whose result contradicts the plan, was refused, is unknown after a
\* failed POST, or is still unknown when the reads are used up.
Troubled(r) ==
    \/ r.state = "CONFLICT"
    \/ r.state = "REJECTED" /\ r.posts > 0
    \/ r.state = "AMBIGUOUS" /\ (r.gets = 0 \/ r.gets >= VerificationMaxGETAttempts)

\* Without automatic recovery nothing is sent after such a result, as long as
\* no process death and no failed write came between the result and the halt.
TroubleStopsDay ==
    [][sent' # sent /\ crashes + faults = 0
       => \A p \in Plans : ~Troubled(race[p])]_vars

-----------------------------------------------------------------------------
(* The inductive invariant behind the outcome of a day *)

\* Between the read before a POST and its durable attempt.
Reading == {"read", "guard", "commit"}

\* A record that can still be read before a POST has an attempt left, unless
\* the handler holds the answer to the last one.
ReadsInv ==
    \A p \in Plans :
        LET limit == PrecheckLimit + crashes + faults
        IN  /\ race[p].prechecks <= limit
            /\ /\ race[p].state \in {"DISCOVERED", "VALIDATED", "ARMED", "PRECHECKED_EMPTY"}
               /\ ~(pc \in Reading /\ cur = p)
               => race[p].prechecks < limit

\* The first process has sent nothing before it has recovered.
FreshInv ==
    /\ pc = "recovering" => ~recovered
    /\ crashes + faults = 0 /\ ~recovered
          => pc \notin Reading /\ \A p \in Plans : race[p].posts = 0

\* A halt follows at once on trouble.
TroubleInv ==
    ~AutomaticRecovery /\ crashes + faults = 0 /\ (\E p \in Plans : Troubled(race[p]))
       => killed \/ pc = "halt"

\* The plans in the store and those a bundle is about to add keep the limits.
Admitted == Imported \union (IF pc = "importing" THEN todo ELSE {})

BudgetInv ==
    ~AutomaticRecovery
       => Cardinality(Admitted) <= MaxRaces /\ Total(Stake, Admitted) <= MaxDailyStake

DayInv == SendInv /\ ReadsInv /\ FreshInv /\ TroubleInv /\ BudgetInv

-----------------------------------------------------------------------------
(* Liveness *)

\* An armed plan does not stay armed: it is sent, or closed with a reason.
ArmedIsDecided ==
    \A p \in Plans : race[p].armed ~> ~race[p].armed

\* A due plan is taken up in its turn: "handle at most one due action per tick,
\* then re-evaluate persisted state on the next tick" (service.go, Tick).
ArmedIsTakenUp ==
    \A p \in Plans : race[p].state = "ARMED" ~> race[p].state # "ARMED"

\* A POST is read back until its outcome is final or the reads are used up.
PostIsSettled ==
    \A p \in Plans :
        race[p].posts > 0 ~> \/ race[p].state \in Terminal
                            \/ race[p].gets >= VerificationMaxGETAttempts
=============================================================================
