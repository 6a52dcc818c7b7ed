---------------------------- MODULE JournalStore ----------------------------
(***************************************************************************)
(* The store of votingd on disk (internal/voting/store.go): a journal of   *)
(* events, appended and synced one by one, and a snapshot replaced after   *)
(* each of them.  OpenStore replays the journal, refuses anything it does  *)
(* not understand and rewrites the snapshot.                               *)
(*                                                                         *)
(* The disk's own failures are part of the model: a write or a sync that   *)
(* fails and leaves nothing, a part of a line or a whole line behind, the  *)
(* death of the process between any two system calls, and a loss of power  *)
(* that takes what was not synced.                                         *)
(***************************************************************************)
EXTENDS StoreEvents, Sequences, FiniteSets, FiniteSetsExt

CONSTANTS
    Torn,               \* a line that does not parse
    NoSnapshot,
    MaxEvents,          \* bound: updates that take effect
    MaxFaults,          \* bound: writes that fail and leave nothing
    MaxSplits,          \* bound: writes that fail and leave something
    MaxDeaths,          \* bound: deaths of the process
    MaxOutages          \* bound: losses of power

VARIABLES
    created, journal,   \* events.jsonl: it exists, and its lines
    synced,             \* how many of its lines a loss of power leaves
    snap,               \* snapshot.json
    pc, event,          \* the append in progress
    mem,                \* Store.state; a dead process leaves it as history
    tried,              \* history: updates begun since the last one applied
    faults, splits, deaths, outages

disk == <<created, journal, synced, snap>>
counters == <<faults, splits, deaths, outages>>
vars == <<disk, pc, event, mem, tried, counters>>

Line == [seq: Nat, event: Event]

ASSUME FilesAssumption == Torn \notin Line /\ NoSnapshot \notin Contents

Init ==
    /\ created = FALSE /\ journal = <<>> /\ synced = 0 /\ snap = NoSnapshot
    /\ pc = "down" /\ event = KillEvent /\ mem = Empty /\ tried = {}
    /\ faults = 0 /\ splits = 0 /\ deaths = 0 /\ outages = 0

-----------------------------------------------------------------------------
(* Reading the files *)

LinesOf(j, p) == {i \in DOMAIN j : j[i].event # KillEvent /\ j[i].event.plan = p}

\* The contents after every line of an intact journal: an event holds the whole
\* record, so the last one of a plan decides.
Replay(j) ==
    [seq |-> Len(j),
     state |-> [p \in Plans |-> IF LinesOf(j, p) = {} THEN Discovered
                                ELSE j[Max(LinesOf(j, p))].event.to],
     killed |-> \E i \in DOMAIN j : j[i].event = KillEvent]

Before(j, i) == SubSeq(j, 1, i - 1)

\* Every line parses, continues the sequence and starts from the state it finds.
Intact(j) ==
    \A i \in DOMAIN j :
        /\ j[i] # Torn
        /\ j[i].seq = i
        /\ ValidEvent(Replay(Before(j, i)), j[i].event)

\* The snapshot is not ahead of the journal, and equal to its replay if it is as
\* old.  Without an event the replay carries the time of this start, which no
\* snapshot of an earlier one can equal.
SnapshotFits ==
    \/ snap = NoSnapshot
    \/ snap.seq < Len(journal)
    \/ journal # <<>> /\ snap = Replay(journal)

\* load succeeds.
Opens ==
    IF created THEN Intact(journal) /\ SnapshotFits
               ELSE snap \in {NoSnapshot, Empty}

Fault == faults < MaxFaults /\ faults' = faults + 1

Split == splits < MaxSplits /\ splits' = splits + 1

\* OpenStore; a start that is refused ends the process and changes nothing.
OpenStore ==
    /\ pc = "down" /\ Opens
    /\ \/ /\ mem' = Replay(journal) /\ snap' = mem' /\ tried' = {}
          /\ pc' = "idle" /\ UNCHANGED faults
       \/ Fault /\ UNCHANGED <<snap, pc, mem, tried>>
    /\ UNCHANGED <<created, journal, synced, event, splits, deaths, outages>>

-----------------------------------------------------------------------------
(* appendLocked *)

\* The counter is not advanced past the event in memory.
BadNextSeq == mem.seq

NextSeq == mem.seq + 1

\* The event is valid; the journal is opened, and created if need be.
Begin(e) ==
    /\ pc = "idle" /\ mem.seq < MaxEvents /\ ValidEvent(mem, e)
    /\ event' = e /\ tried' = tried \union {e}
    /\ created' = TRUE /\ pc' = "opened"
    /\ UNCHANGED <<journal, synced, snap, mem, counters>>

\* What follows a part of a line becomes a part of the same line.
Add(line) ==
    journal' = IF journal # <<>> /\ journal[Len(journal)] = Torn
               THEN journal ELSE Append(journal, line)

WriteLine ==
    /\ pc = "opened"
    /\ \/ Add([seq |-> NextSeq, event |-> event]) /\ pc' = "written"
          /\ UNCHANGED <<faults, splits>>
       \/ Fault /\ pc' = "idle" /\ UNCHANGED <<journal, splits>>
       \/ Split /\ Add(Torn) /\ pc' = "idle" /\ UNCHANGED faults
    /\ UNCHANGED <<created, synced, snap, event, mem, tried, deaths, outages>>

\* The line is reported as written before it is safe.
BadSyncLine ==
    /\ pc = "written" /\ pc' = "synced"
    /\ UNCHANGED <<disk, event, mem, tried, counters>>

\* A failed sync or close leaves the whole line in the file.
SyncLine ==
    /\ pc = "written"
    /\ \/ synced' = Len(journal) /\ pc' = "synced" /\ UNCHANGED splits
       \/ Split /\ pc' = "idle" /\ UNCHANGED synced
    /\ UNCHANGED <<created, journal, snap, event, mem, tried,
                   faults, deaths, outages>>

\* A snapshot that cannot be written is tried again from the beginning.
BadFinish ==
    /\ pc = "synced"
    /\ mem' = ApplyEvent(mem, event) /\ tried' = {}
    /\ \/ snap' = mem' /\ pc' = "idle" /\ UNCHANGED faults
       \/ Fault /\ UNCHANGED <<pc, snap>>
    /\ UNCHANGED <<created, journal, synced, event, splits, deaths, outages>>

\* The event reaches memory; the snapshot is replaced by a rename, or not at all.
Finish ==
    /\ pc = "synced"
    /\ mem' = ApplyEvent(mem, event) /\ tried' = {}
    /\ \/ snap' = mem' /\ UNCHANGED faults
       \/ Fault /\ UNCHANGED snap
    /\ pc' = "idle"
    /\ UNCHANGED <<created, journal, synced, event, splits, deaths, outages>>

-----------------------------------------------------------------------------
Die ==
    /\ pc # "down" /\ deaths < MaxDeaths
    /\ deaths' = deaths + 1 /\ pc' = "down"
    /\ UNCHANGED <<disk, event, mem, tried, faults, splits, outages>>

\* What was not synced is lost from some point on, the line at that point in part.
LosePower ==
    /\ outages < MaxOutages /\ outages' = outages + 1
    /\ \E n \in synced..Len(journal) :
          \/ journal' = SubSeq(journal, 1, n)
          \/ n < Len(journal) /\ journal' = Append(SubSeq(journal, 1, n), Torn)
    /\ synced' = Len(journal') /\ pc' = "down"
    /\ UNCHANGED <<created, snap, event, mem, tried, faults, splits, deaths>>

Next ==
    \/ OpenStore
    \/ \E p \in Plans, s \in States :
          Begin([plan |-> p, from |-> mem.state[p], to |-> s])
    \/ Begin(KillEvent)
    \/ WriteLine \/ SyncLine \/ Finish
    \/ Die \/ LosePower

Spec == Init /\ [][Next]_vars

-----------------------------------------------------------------------------
(* Properties *)

\* Types, and what an append in progress has behind it.
TypeOK ==
    /\ created \in BOOLEAN
    /\ journal \in Seq(Line \union {Torn}) /\ synced \in 0..Len(journal)
    /\ snap \in Contents \union {NoSnapshot}
    /\ pc \in {"down", "idle", "opened", "written", "synced"}
    /\ event \in Event /\ mem \in Contents /\ tried \subseteq Event
    /\ {faults, splits, deaths, outages} \subseteq Nat
    /\ journal # <<>> => created
    /\ pc \in {"opened", "written", "synced"}
          => created /\ event \in tried /\ ValidEvent(mem, event)

Abstract == INSTANCE AtomicStore WITH value <- mem, alive <- pc # "down"

\* Under every failure of the model a start that succeeds finds exactly what the
\* last process saw, with at most the update that was under way or had failed:
\* a journal that could say anything else is refused (docs/02-voting-runtime.md:
\* after a restart the daemon knows what may have been sent).
ImplementsAtomicStore == Abstract!Spec

\* The death of the process alone never makes a journal with an event unreadable,
\* whatever it interrupts, and neither does a write that fails and leaves nothing.
RestorableAfterDeath ==
    splits = 0 /\ outages = 0 /\ journal # <<>> => Opens

\* docs/glossary.md of the journal: even if the process stops, the state is
\* restored from it.
Restorable == pc = "down" => Opens

\* The same, once an update has taken effect, with writes that fail.
AcknowledgedIsRestorable == pc = "down" /\ mem.seq > 0 => Opens
=============================================================================
