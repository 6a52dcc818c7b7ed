----------------------------- MODULE AtomicStore -----------------------------
(***************************************************************************)
(* What the handlers of votingd may rely on: a store whose updates are     *)
(* atomic and survive the death of the process and the loss of power.  An  *)
(* update that failed, or was under way at a death, may show up at the     *)
(* next start, but only if no later update has succeeded.                  *)
(***************************************************************************)
EXTENDS StoreEvents

VARIABLES
    value,      \* the contents the living process sees, or the last one saw
    alive,
    tried       \* the updates begun since the last one that took effect

Init == value = Empty /\ alive = FALSE /\ tried = {}

Try(e) ==
    /\ alive /\ ValidEvent(value, e)
    /\ tried' = tried \union {e}
    /\ UNCHANGED <<value, alive>>

Commit ==
    /\ alive
    /\ \E e \in tried : value' = ApplyEvent(value, e)
    /\ tried' = {}
    /\ UNCHANGED alive

Die == alive /\ alive' = FALSE /\ UNCHANGED <<value, tried>>

Reopen ==
    /\ ~alive /\ alive' = TRUE
    /\ value' \in {value} \union {ApplyEvent(value, e) : e \in tried}
    /\ tried' = {}

Next == (\E e \in Event : Try(e)) \/ Commit \/ Die \/ Reopen

Spec == Init /\ [][Next]_<<value, alive, tried>>
=============================================================================
