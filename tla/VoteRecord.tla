----------------------------- MODULE VoteRecord -----------------------------
(***************************************************************************)
(* The per-race checkpoint of votingd (RaceRecord in                       *)
(* internal/voting/store.go) and the record updates that the handlers of   *)
(* internal/voting/service.go hand to Store.UpdateRecord.  Everything here *)
(* is a pure function of records and times; VotingService composes it.     *)
(*                                                                         *)
(* Definitions whose name starts with Bad are wrong variants of the        *)
(* definition below them.  No specification uses them: they document which *)
(* slip in the code each property would notice.                            *)
(***************************************************************************)
EXTENDS Integers

CONSTANTS
    NoTime,                      \* a nil NextActionAt
    VerificationMaxGETAttempts,  \* policy timing.verification_max_get_attempts
    PrecheckLimit                \* the 4 of retryUnpostedRead

ASSUME NoTimeAssumption == NoTime \notin Nat

ASSUME LimitsAssumption ==
    {VerificationMaxGETAttempts, PrecheckLimit} \subseteq Nat \ {0}

-----------------------------------------------------------------------------
Terminal == {"CONFIRMED", "CONFIRMED_EXISTING", "CONFLICT", "REJECTED",
             "EXPIRED", "KILLED"}

States == Terminal \union
    {"DISCOVERED", "VALIDATED", "ARMED", "PRECHECKED_EMPTY", "POSTING",
     "PENDING_CONFIRMATION", "AMBIGUOUS"}

Time == Nat \union {NoTime}

Record == [state: States, armed: BOOLEAN, armCount: Nat, posts: Nat,
           prechecks: Nat, gets: Nat, next: Time]

\* A plan the store does not hold: validateEvent calls its state DISCOVERED.
Unknown == [state |-> "DISCOVERED", armed |-> FALSE, armCount |-> 0, posts |-> 0,
            prechecks |-> 0, gets |-> 0, next |-> NoTime]

ImportedRecord == [Unknown EXCEPT !.state = "VALIDATED"]

-----------------------------------------------------------------------------
\* UpdateRecord forgets to disarm a record that reaches a terminal state.
BadTo(r, s) == [r EXCEPT !.state = s]

\* The part of Store.UpdateRecord after the caller's mutation of the record.
To(r, s) ==
    IF s \in Terminal
    THEN [r EXCEPT !.state = s, !.armed = FALSE, !.next = NoTime]
    ELSE [r EXCEPT !.state = s]

Armed(r, target) ==
    To([r EXCEPT !.armed = TRUE, !.armCount = @ + 1, !.next = target], "ARMED")

Prechecking(r) == To([r EXCEPT !.prechecks = @ + 1], "ARMED")

\* The read is retried without counting the attempts or looking at the deadline.
BadRetried(r, when, deadline) == To([r EXCEPT !.next = when], "ARMED")

Retried(r, when, deadline) ==
    To([r EXCEPT !.next = when],
       IF r.prechecks >= PrecheckLimit \/ when >= deadline
       THEN "REJECTED" ELSE "ARMED")

\* The attempt is not counted before the request leaves.
BadPosting(r) == To([r EXCEPT !.armed = FALSE, !.next = NoTime], "POSTING")

Posting(r) ==
    To([r EXCEPT !.posts = @ + 1, !.armed = FALSE, !.next = NoTime], "POSTING")

\* The schedule of the next read is left at nil after a POST.
BadAwaiting(r, s, when) == To(r, s)

\* Both outcomes of a POST that leave its effect to be read back.
Awaiting(r, s, when) == To([r EXCEPT !.next = when], s)

Deferred(r, when) ==
    LET n == r.gets + 1
    IN  To([r EXCEPT !.gets = n,
                     !.next = IF n < VerificationMaxGETAttempts
                              THEN when ELSE NoTime],
           "AMBIGUOUS")

Verified(r, s) == To([r EXCEPT !.gets = @ + 1], s)

-----------------------------------------------------------------------------
\* Only interrupted POSTs are looked at after a restart.
BadNeedsRecovery(r) == r.state \in {"POSTING", "PENDING_CONFIRMATION"}

NeedsRecovery(r) ==
    \/ r.state = "PRECHECKED_EMPTY" /\ r.posts = 0
    \/ r.state \in {"POSTING", "PENDING_CONFIRMATION"}

\* An interrupted POST starts over as a fresh attempt.
BadRecovered(r, when) ==
    To([r EXCEPT !.armed = TRUE, !.posts = 0, !.next = when], "ARMED")

Recovered(r, when) ==
    IF r.state = "PRECHECKED_EMPTY"
    THEN To([r EXCEPT !.armed = TRUE, !.next = when], "ARMED")
    ELSE To([r EXCEPT !.next = when], "AMBIGUOUS")

\* The records a kill or a global halt turns into KILLED.
Haltable(r) == r.armed /\ r.posts = 0

Unresolved(r) ==
    r.posts > 0 /\ r.state \notin {"CONFIRMED", "CONFIRMED_EXISTING"}
=============================================================================
