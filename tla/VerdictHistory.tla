-------------------------- MODULE VerdictHistory --------------------------
(***************************************************************************)
(* VotingService with a history variable: whether the plan whose POST is   *)
(* being prepared could be sent at some moment since the read before the   *)
(* POST was answered.  It changes nothing of the service.  The guards of   *)
(* executeSubmission are looked at once each and acted on later; what may  *)
(* be said of the POST is how old the verdict is that it rests on.         *)
(***************************************************************************)
EXTENDS VotingService

VARIABLE fresh   \* history: the plan could be sent since its read was answered

\* The conditions under which Service.guard may pass.
MaySend(p) == ~stop /\ ~killed /\ now < Deadline[p] /\ now < DayEnd

Watch ==
    fresh' = (pc' \in {"guard", "commit", "post"} /\ (fresh \/ MaySend(cur)'))

WatchedInit == Init /\ fresh = FALSE

WatchedNext == Next /\ Watch

WatchedSpec == WatchedInit /\ [][WatchedNext]_<<vars, fresh>>

FreshOK == fresh \in BOOLEAN

\* The handler commits to a POST, and sends it, on the second guard's verdict.
VerdictInv == FreshOK /\ (pc \in {"commit", "post"} => fresh)

Sends(p) == race'[p].posts > race[p].posts \/ sent'[p] > sent[p]

RestsOnFreshVerdict == \A p \in Plans : Sends(p) => fresh

\* An attempt becomes durable, and its request leaves, only if the plan could
\* be sent at some moment after the read before the POST was answered: before
\* its deadline and the end of the day, without a STOP file, not killed.  That
\* read may take as long as the request timeout, and the first guard's verdict
\* is stale by then.  How long the two writes after the second guard take is
\* not bounded by the code, and so not by this property either.
SentOnFreshVerdict == [][RestsOnFreshVerdict]_<<vars, fresh>>
=============================================================================
