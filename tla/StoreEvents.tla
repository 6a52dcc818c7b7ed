----------------------------- MODULE StoreEvents -----------------------------
(***************************************************************************)
(* What votingd's store keeps (Snapshot in internal/voting/store.go) and   *)
(* the events that change it.  A record is abstracted to its state: the    *)
(* store hands the rest of it through and looks at nothing else.           *)
(***************************************************************************)
EXTENDS Naturals

CONSTANTS
    Plans,
    States,         \* the states of a record that the store may hold
    Discovered,     \* the state of a plan it does not hold
    KillEvent       \* the event of SetKilled

ASSUME StatesAssumption == Discovered \notin States

\* The events of ImportPlan (from Discovered) and of UpdateRecord.
RecordEvent == [plan: Plans, from: States \union {Discovered}, to: States]

ASSUME KillAssumption == KillEvent \notin RecordEvent

Event == RecordEvent \union {KillEvent}

Contents == [seq: Nat, state: [Plans -> States \union {Discovered}], killed: BOOLEAN]

Empty == [seq |-> 0, state |-> [p \in Plans |-> Discovered], killed |-> FALSE]

\* validateEvent: the record's transition starts where the store is.
ValidEvent(m, e) == e # KillEvent => e.from = m.state[e.plan]

\* applyEventMemory.
ApplyEvent(m, e) ==
    [seq |-> m.seq + 1,
     state |-> IF e = KillEvent THEN m.state ELSE [m.state EXCEPT ![e.plan] = e.to],
     killed |-> m.killed \/ e = KillEvent]
=============================================================================
