--------------------------- MODULE JournalStoreProof ---------------------------
(***************************************************************************)
(* The journal implements the atomic store: for any plans and states, any  *)
(* number of events, failed writes, deaths and losses of power.            *)
(***************************************************************************)
EXTENDS JournalStore, SequenceTheorems, WellFoundedInduction, TLAPS

Lines == Line \union {Torn}

-----------------------------------------------------------------------------
(* Sequences of lines *)

Smaller == {ss \in Nat \X Nat : ss[1] < ss[2]}

\* A set of natural numbers that is not empty has a least one.
LEMMA LeastOf ==
    ASSUME NEW T, T \subseteq Nat, T # {}
    PROVE  \E x \in T : \A y \in T : x <= y
<1>1. OpToRel(<, Nat) = Smaller
  BY Zenon DEF OpToRel, Smaller
<1>2. IsWellFoundedOn(Smaller, Nat)
  BY <1>1, NatLessThanWellFounded, Zenon
<1>3. PICK x \in T : \A y \in T : ~ (<<y, x>> \in Smaller)
  BY <1>2, WFMin, Zenon
<1>4. \A y \in T : <<y, x>> \in Smaller <=> y < x
  BY DEF Smaller
<1>5. \A y \in T : ~ (y < x)
  BY <1>3, <1>4, Zenon
<1>6. \A y \in T : x <= y
  BY <1>5
<1> QED
  BY <1>6

\* A set of line numbers that is not empty has a largest one.
LEMMA MaxOf ==
    ASSUME NEW n \in Nat, NEW S, S \subseteq 1..n, S # {}
    PROVE  Max(S) \in S /\ \A y \in S : y <= Max(S)
<1> DEFINE T == {n - i : i \in S}
<1>1. \A i \in S : i \in Nat /\ n - i \in Nat
  OBVIOUS
<1>2. T \subseteq Nat /\ T # {}
  BY <1>1
<1>3. PICK m \in T : \A k \in T : m <= k
  BY <1>2, LeastOf
<1>4. PICK x \in S : m = n - x
  OBVIOUS
<1>5. \A y \in S : m <= n - y
  BY <1>3
<1>6. \A y \in S : x >= y
  BY <1>1, <1>4, <1>5
<1>7. Max(S) \in S /\ \A y \in S : Max(S) >= y
  BY <1>6 DEF Max
<1> QED
  BY <1>1, <1>7

\* A prefix of a longer journal is the same prefix.
LEMMA PrefixOfAppend ==
    ASSUME NEW j \in Seq(Lines), NEW l \in Lines
    PROVE  /\ Append(j, l) \in Seq(Lines) /\ Len(Append(j, l)) = Len(j) + 1
           /\ \A n \in 0..Len(j) : SubSeq(Append(j, l), 1, n) = SubSeq(j, 1, n)
           /\ SubSeq(j, 1, Len(j)) = j
           /\ SubSeq(Append(j, l), 1, Len(j) + 1) = Append(j, l)
<1>1. Append(j, l) \in Seq(Lines) /\ Len(Append(j, l)) = Len(j) + 1
  OBVIOUS
<1>2. ASSUME NEW n \in 0..Len(j)
      PROVE  SubSeq(Append(j, l), 1, n) = SubSeq(j, 1, n)
  OBVIOUS
<1> QED
  BY <1>1, <1>2, SubSeqFull

\* A prefix of a journal is a sequence of lines, and its lines are the journal's.
LEMMA PrefixType ==
    ASSUME NEW j \in Seq(Lines), NEW n \in 0..Len(j)
    PROVE  /\ SubSeq(j, 1, n) \in Seq(Lines) /\ Len(SubSeq(j, 1, n)) = n
           /\ \A i \in 1..n : SubSeq(j, 1, n)[i] = j[i]
  OBVIOUS

\* What is intact up to its last line is intact before it, and the last line
\* continues the sequence from the state it finds; and the other way round.
LEMMA IntactAppend ==
    ASSUME NEW j \in Seq(Lines), NEW l \in Lines
    PROVE  Intact(Append(j, l)) <=>
             /\ Intact(j) /\ l # Torn
             /\ l.seq = Len(j) + 1 /\ ValidEvent(Replay(j), l.event)
<1> DEFINE k == Append(j, l)
           Good(q, i) == /\ q[i] # Torn /\ q[i].seq = i
                         /\ ValidEvent(Replay(Before(q, i)), q[i].event)
<1>1. DOMAIN j = 1..Len(j) /\ DOMAIN k = 1..(Len(j) + 1) /\ Len(j) \in Nat
  OBVIOUS
<1>2. \A i \in 1..Len(j) : k[i] = j[i]
  OBVIOUS
<1>3. k[Len(j) + 1] = l
  OBVIOUS
<1>4. \A i \in 1..Len(j) : Before(k, i) = Before(j, i)
  BY PrefixOfAppend DEF Before
<1>5. Before(k, Len(j) + 1) = j
  <2>1. (Len(j) + 1) - 1 = Len(j)
    BY <1>1
  <2> QED
    BY <2>1, <1>1, PrefixOfAppend DEF Before
<1>6. \A i \in 1..Len(j) : Good(k, i) <=> Good(j, i)
  BY <1>2, <1>4
<1>7. Good(k, Len(j) + 1) <=> /\ l # Torn /\ l.seq = Len(j) + 1
                               /\ ValidEvent(Replay(j), l.event)
  BY <1>3, <1>5
<1>8. Intact(j) <=> \A i \in 1..Len(j) : Good(j, i)
  BY <1>1 DEF Intact
<1>9. Intact(k) <=> \A i \in 1..(Len(j) + 1) : Good(k, i)
  BY <1>1 DEF Intact
<1> HIDE DEF Good, k
<1>10. (\A i \in 1..(Len(j) + 1) : Good(k, i))
        <=> (\A i \in 1..Len(j) : Good(k, i)) /\ Good(k, Len(j) + 1)
  BY <1>1
<1> QED
  BY <1>6, <1>7, <1>8, <1>9, <1>10 DEF k

\* The replay of an intact journal is what a store may contain.
LEMMA ReplayType ==
    ASSUME NEW j \in Seq(Lines), Intact(j)
    PROVE  Replay(j) \in Contents /\ Replay(j).seq = Len(j)
<1>1. ASSUME NEW p \in Plans, LinesOf(j, p) # {}
      PROVE  j[Max(LinesOf(j, p))].event.to \in States
  <2>1. LinesOf(j, p) \subseteq 1..Len(j) /\ Len(j) \in Nat
    BY DEF LinesOf
  <2>2. Max(LinesOf(j, p)) \in LinesOf(j, p)
    BY <1>1, <2>1, MaxOf
  <2> DEFINE i == Max(LinesOf(j, p))
  <2>3. i \in 1..Len(j) /\ j[i].event # KillEvent
    BY <2>1, <2>2 DEF LinesOf
  <2>4. j[i] \in Line
    BY <2>3 DEF Intact, Lines
  <2>5. j[i].event \in RecordEvent
    BY <2>3, <2>4 DEF Line, Event
  <2> QED
    BY <2>5 DEF RecordEvent
<1>2. [p \in Plans |-> IF LinesOf(j, p) = {} THEN Discovered
                       ELSE j[Max(LinesOf(j, p))].event.to]
        \in [Plans -> States \union {Discovered}]
  BY <1>1
<1>3. Len(j) \in Nat
  OBVIOUS
<1> QED
  BY <1>2, <1>3 DEF Replay, Contents

\* One more line changes the replay as its event changes the contents.
LEMMA ReplayAppend ==
    ASSUME NEW j \in Seq(Lines), Intact(j), NEW l \in Line
    PROVE  Replay(Append(j, l)) = ApplyEvent(Replay(j), l.event)
<1> DEFINE k == Append(j, l)
           n == Len(j)
           killedIn(q, i) == \E h \in 1..i : q[h].event = KillEvent
           StateAt(q, p) == IF LinesOf(q, p) = {} THEN Discovered
                            ELSE q[Max(LinesOf(q, p))].event.to
<1>1. n \in Nat /\ DOMAIN j = 1..n /\ DOMAIN k = 1..(n + 1) /\ Len(k) = n + 1
  BY DEF Lines
<1>2. (\A i \in 1..n : k[i] = j[i]) /\ k[n + 1] = l
  BY DEF Lines
<1>3. \A i \in 1..n : j[i] \in Line
  BY DEF Intact, Lines
<1>4. l.event \in Event
  BY DEF Line
<1>5. Replay(k) = [seq |-> n + 1, state |-> [p \in Plans |-> StateAt(k, p)],
                   killed |-> killedIn(k, n + 1)]
  BY <1>1 DEF Replay
<1>6. Replay(j) = [seq |-> n, state |-> [p \in Plans |-> StateAt(j, p)],
                   killed |-> killedIn(j, n)]
  BY <1>1 DEF Replay
<1>7. /\ killedIn(k, n + 1) = (killedIn(j, n) \/ l.event = KillEvent)
      /\ killedIn(j, n) \in BOOLEAN
  <2>1. killedIn(k, n + 1) <=> killedIn(j, n) \/ l.event = KillEvent
    BY <1>1, <1>2
  <2>2. killedIn(k, n + 1) \in BOOLEAN /\ killedIn(j, n) \in BOOLEAN
    BY Zenon
  <2> HIDE DEF killedIn, k, n
  <2> QED
    BY <2>1, <2>2, Zenon
<1>8. ASSUME NEW p \in Plans, l.event = KillEvent \/ l.event.plan # p
      PROVE  StateAt(k, p) = StateAt(j, p)
  <2>1. LinesOf(k, p) = LinesOf(j, p)
    BY <1>1, <1>2, <1>8 DEF LinesOf
  <2>2. CASE LinesOf(j, p) = {}
    BY <2>1, <2>2
  <2>3. CASE LinesOf(j, p) # {}
    <3>1. LinesOf(j, p) \subseteq 1..n
      BY <1>1 DEF LinesOf
    <3>2. Max(LinesOf(j, p)) \in 1..n
      BY <1>1, <2>3, <3>1, MaxOf
    <3> QED
      BY <1>2, <2>1, <2>3, <3>2
  <2> QED
    BY <2>2, <2>3
<1>9. ASSUME NEW p \in Plans, l.event # KillEvent, l.event.plan = p
      PROVE  StateAt(k, p) = l.event.to
  <2>1. n + 1 \in LinesOf(k, p) /\ LinesOf(k, p) \subseteq 1..(n + 1)
    BY <1>1, <1>2, <1>9 DEF LinesOf
  <2>2. Max(LinesOf(k, p)) \in LinesOf(k, p) /\ n + 1 <= Max(LinesOf(k, p))
    BY <1>1, <2>1, MaxOf
  <2>3. Max(LinesOf(k, p)) = n + 1
    BY <1>1, <2>1, <2>2
  <2> QED
    BY <1>2, <2>1, <2>3
<1> HIDE DEF k, n, StateAt, killedIn
<1>10. Replay(k) = [seq |-> n + 1, state |-> [p \in Plans |-> StateAt(k, p)],
                    killed |-> killedIn(j, n) \/ l.event = KillEvent]
  BY <1>5, <1>7, Zenon
<1>11. /\ Replay(j).seq = n /\ Replay(j).killed = killedIn(j, n)
       /\ Replay(j).state = [p \in Plans |-> StateAt(j, p)]
  BY <1>6
<1>12. ApplyEvent(Replay(j), l.event) =
        [seq |-> n + 1,
         state |-> IF l.event = KillEvent THEN [p \in Plans |-> StateAt(j, p)]
                   ELSE [[p \in Plans |-> StateAt(j, p)]
                            EXCEPT ![l.event.plan] = l.event.to],
         killed |-> killedIn(j, n) \/ l.event = KillEvent]
  BY <1>11, Zenon DEF ApplyEvent
<1>13. [p \in Plans |-> StateAt(k, p)]
        = IF l.event = KillEvent THEN [p \in Plans |-> StateAt(j, p)]
          ELSE [[p \in Plans |-> StateAt(j, p)] EXCEPT ![l.event.plan] = l.event.to]
  <2>1. CASE l.event = KillEvent
    <3>1. \A p \in Plans : StateAt(k, p) = StateAt(j, p)
      BY <1>8, <2>1
    <3> QED
      BY <2>1, <3>1
  <2>2. CASE l.event # KillEvent
    <3>1. l.event.plan \in Plans
      BY <1>4, <2>2 DEF Event, RecordEvent
    <3>2. [p \in Plans |-> StateAt(k, p)]
            = [[p \in Plans |-> StateAt(j, p)] EXCEPT ![l.event.plan] = l.event.to]
      BY <1>8, <1>9, <2>2, <3>1
    <3> QED
      BY <2>2, <3>2
  <2> QED
    BY <2>1, <2>2
<1> QED
  BY <1>10, <1>12, <1>13, Zenon DEF k

\* An event leads from contents to contents, one event further.
LEMMA ApplyType ==
    ASSUME NEW m \in Contents, NEW e \in Event
    PROVE  ApplyEvent(m, e) \in Contents /\ ApplyEvent(m, e).seq = m.seq + 1
<1>1. CASE e = KillEvent
  BY <1>1 DEF ApplyEvent, Contents
<1>2. CASE e # KillEvent
  <2>1. e \in RecordEvent
    BY <1>2 DEF Event
  <2> QED
    BY <1>2, <2>1 DEF ApplyEvent, Contents, RecordEvent
<1> QED
  BY <1>1, <1>2

-----------------------------------------------------------------------------
(* Types *)

\* Nothing has been written yet.
LEMMA InitType == Init => TypeOK
<1>1. Empty \in Contents
  BY DEF Empty, Contents
<1>2. KillEvent \in Event
  BY DEF Event
<1>3. <<>> \in Seq(Line \union {Torn}) /\ 0 \in 0..Len(<<>>)
  BY EmptySeq
<1> SUFFICES ASSUME Init PROVE TypeOK
  OBVIOUS
<1>4. journal \in Seq(Line \union {Torn}) /\ synced \in 0..Len(journal)
  BY <1>3 DEF Init
<1>5. {faults, splits, deaths, outages} \subseteq Nat
  BY DEF Init
<1> QED
  BY <1>1, <1>2, <1>4, <1>5 DEF Init, TypeOK

\* What is appended to a journal is a line of it.
LEMMA AddType ==
    ASSUME TypeOK, NEW l \in Lines, Add(l)
    PROVE  /\ journal' \in Seq(Lines)
           /\ Len(journal') \in {Len(journal), Len(journal) + 1}
           /\ journal' = journal \/ journal' = Append(journal, l)
<1>1. journal \in Seq(Lines) /\ Append(journal, l) \in Seq(Lines)
  BY DEF TypeOK, Lines
<1>2. journal' = journal \/ journal' = Append(journal, l)
  BY DEF Add
<1>3. Len(Append(journal, l)) = Len(journal) + 1
  BY <1>1, PrefixOfAppend
<1>4. CASE journal' = journal
  BY <1>1, <1>4
<1>5. CASE journal' = Append(journal, l)
  BY <1>1, <1>3, <1>5
<1> QED
  BY <1>2, <1>4, <1>5

\* An append in progress has an event to append.
LEMMA EventLine ==
    ASSUME TypeOK PROVE [seq |-> NextSeq, event |-> event] \in Line
  BY DEF TypeOK, NextSeq, Line, Contents

\* Every step keeps the types.
LEMMA StepType ==
    ASSUME TypeOK, [Next]_vars
    PROVE  TypeOK'
<1>0. journal \in Seq(Lines) /\ Len(journal) \in Nat /\ synced \in 0..Len(journal)
  BY DEF TypeOK, Lines
<1>1. CASE OpenStore
  <2>1. Intact(journal)
    BY <1>1, <1>0 DEF OpenStore, Opens, Intact, TypeOK
  <2>2. Replay(journal) \in Contents
    BY <2>1, <1>0, ReplayType
  <2> QED
    BY <1>1, <2>2 DEF OpenStore, Fault, TypeOK
<1>2. ASSUME NEW e \in Event, Begin(e)
      PROVE  TypeOK'
  BY <1>2 DEF Begin, TypeOK, counters
<1>3. CASE WriteLine
  <2>1. journal' = journal \/ \E l \in Lines : Add(l)
    BY <1>3, EventLine DEF WriteLine, Lines
  <2>2. journal' \in Seq(Lines) /\ Len(journal') \in Nat /\ Len(journal') >= Len(journal)
    BY <1>0, <2>1, AddType
  <2>3. created' /\ synced' \in 0..Len(journal')
    BY <1>0, <1>3, <2>2 DEF WriteLine, TypeOK
  <2>4. {faults', splits', deaths', outages'} \subseteq Nat
    BY <1>3 DEF WriteLine, Fault, Split, TypeOK
  <2> QED
    BY <1>3, <2>2, <2>3, <2>4 DEF WriteLine, TypeOK, Lines, ValidEvent
<1>4. CASE SyncLine
  BY <1>0, <1>4 DEF SyncLine, Split, TypeOK
<1>5. CASE Finish
  <2>1. ApplyEvent(mem, event) \in Contents
    BY ApplyType DEF TypeOK
  <2> QED
    BY <1>5, <2>1 DEF Finish, Fault, TypeOK
<1>6. CASE Die
  BY <1>6 DEF Die, disk, TypeOK
<1>7. CASE LosePower
  <2>1. PICK n \in synced..Len(journal) :
          \/ journal' = SubSeq(journal, 1, n)
          \/ n < Len(journal) /\ journal' = Append(SubSeq(journal, 1, n), Torn)
    BY <1>7 DEF LosePower
  <2>2. n \in 0..Len(journal)
    BY <1>0
  <2>3. journal' \in Seq(Lines)
    BY <2>1, <2>2, <1>0, PrefixType DEF Lines
  <2>4. journal' # <<>> => journal # <<>>
    BY <2>1, <2>2, <1>0, PrefixType
  <2>5. synced' \in 0..Len(journal')
    BY <1>7, <2>3 DEF LosePower
  <2> QED
    BY <1>7, <2>3, <2>4, <2>5 DEF LosePower, TypeOK, Lines
<1>8. CASE UNCHANGED vars
  BY <1>8 DEF vars, disk, counters, TypeOK
<1>9. ASSUME TypeOK, NEW p \in Plans, NEW s \in States
      PROVE  [plan |-> p, from |-> mem.state[p], to |-> s] \in Event
  BY <1>9 DEF TypeOK, Contents, Event, RecordEvent
<1>10. KillEvent \in Event
  BY DEF Event
<1> QED
  BY <1>1, <1>2, <1>3, <1>4, <1>5, <1>6, <1>7, <1>8, <1>9, <1>10 DEF Next

\* The files, the memory and the append in progress keep their types.
THEOREM JournalTypeCorrect == Spec => []TypeOK
<1>1. TypeOK /\ [Next]_vars => TypeOK'
  BY StepType
<1> QED
  BY <1>1, InitType, PTL DEF Spec

-----------------------------------------------------------------------------
(* The refinement *)

Prefix(n) == SubSeq(journal, 1, n)

\* What the next start may find: what the last process saw, or one of the
\* updates tried since.
Possible == {mem} \union {ApplyEvent(mem, e) : e \in tried}

SnapshotBehind(n) == snap = NoSnapshot \/ snap.seq <= n

\* Whatever part of the journal a loss of power leaves, if it would be accepted
\* then it says what is possible.
Recoverable ==
    \A n \in synced..Len(journal) :
        Intact(Prefix(n)) /\ SnapshotBehind(n) => Replay(Prefix(n)) \in Possible

\* Behind an event that has been written an accepted journal ends with it, and
\* one that has been synced cannot be lost.
Written ==
    /\ pc \in {"written", "synced"} /\ Intact(journal)
          => Replay(journal) = ApplyEvent(mem, event)
    /\ pc = "synced" => synced = Len(journal)

StoreInv ==
    /\ TypeOK
    /\ ~created => mem = Empty
    /\ snap = NoSnapshot \/ snap.seq <= mem.seq
    /\ Recoverable
    /\ Written

\* An empty store is what an empty journal says.
LEMMA ReplayEmpty == Replay(<<>>) = Empty
<1>1. \A p \in Plans : LinesOf(<<>>, p) = {}
  BY DEF LinesOf
<1>2. (\E i \in DOMAIN <<>> : <<>>[i].event = KillEvent) = FALSE
  OBVIOUS
<1> QED
  BY <1>1, <1>2 DEF Replay, Empty

\* Nothing has been written, and nothing can be found.
LEMMA InitStore == Init => StoreInv
<1> SUFFICES ASSUME Init PROVE StoreInv
  OBVIOUS
<1>1. TypeOK
  BY InitType
<1>2. ASSUME NEW n \in synced..Len(journal)
      PROVE  Replay(Prefix(n)) \in Possible
  <2>1. n = 0
    BY DEF Init
  <2>2. Prefix(n) = <<>>
    BY <2>1, SubSeqEmpty DEF Prefix
  <2> QED
    BY <2>2, ReplayEmpty DEF Init, Possible
<1> QED
  BY <1>1, <1>2 DEF Init, StoreInv, Recoverable, Written

\* The whole journal is one of its prefixes.
LEMMA WholeJournal ==
    ASSUME StoreInv
    PROVE  /\ journal \in Seq(Lines) /\ Len(journal) \in Nat
           /\ synced \in 0..Len(journal) /\ Prefix(Len(journal)) = journal
           /\ Intact(journal) /\ SnapshotBehind(Len(journal))
                 => Replay(journal) \in Possible
<1>1. journal \in Seq(Lines) /\ Len(journal) \in Nat /\ synced \in 0..Len(journal)
  BY DEF StoreInv, TypeOK, Lines
<1>2. Prefix(Len(journal)) = journal
  BY <1>1, SubSeqFull DEF Prefix
<1>3. Len(journal) \in synced..Len(journal)
  BY <1>1
<1> QED
  BY <1>1, <1>2, <1>3 DEF StoreInv, Recoverable

\* A start that succeeds sees what is possible.
LEMMA OpensPossible ==
    ASSUME StoreInv, Opens
    PROVE  Intact(journal) /\ Replay(journal) \in Possible
<1>1. CASE created
  <2>1. Intact(journal) /\ SnapshotFits
    BY <1>1 DEF Opens
  <2>2. SnapshotBehind(Len(journal))
    <3>1. Len(journal) \in Nat
      BY WholeJournal
    <3>2. snap # NoSnapshot => snap.seq \in Nat
      BY DEF StoreInv, TypeOK, Contents
    <3>3. Replay(journal).seq = Len(journal)
      BY DEF Replay
    <3> QED
      BY <2>1, <3>1, <3>2, <3>3 DEF SnapshotFits, SnapshotBehind
  <2> QED
    BY <2>1, <2>2, WholeJournal
<1>2. CASE ~created
  <2>1. journal = <<>> /\ mem = Empty
    BY <1>2 DEF StoreInv, TypeOK
  <2> QED
    BY <2>1, ReplayEmpty DEF Possible, Intact
<1> QED
  BY <1>1, <1>2

\* What is written behind an accepted journal is accepted only if the journal
\* says what the process sees; the result then is the event applied to that.
LEMMA AppendedEvent ==
    ASSUME StoreInv,
           Intact(Append(journal, [seq |-> NextSeq, event |-> event]))
    PROVE  Replay(Append(journal, [seq |-> NextSeq, event |-> event]))
             = ApplyEvent(mem, event)
<1> DEFINE l == [seq |-> NextSeq, event |-> event]
<1>1. l \in Line /\ l \in Lines /\ l.seq = mem.seq + 1 /\ l.event = event
  BY EventLine DEF StoreInv, Lines, NextSeq
<1>2. journal \in Seq(Lines) /\ Len(journal) \in Nat
  BY WholeJournal
<1>3. Intact(journal) /\ l.seq = Len(journal) + 1
  BY <1>1, <1>2, IntactAppend
<1>4. mem \in Contents /\ mem.seq \in Nat /\ tried \subseteq Event
  BY DEF StoreInv, TypeOK, Contents
<1>5. Len(journal) = mem.seq
  BY <1>1, <1>2, <1>3, <1>4
<1>6. Replay(journal) \in Possible
  <2>1. SnapshotBehind(Len(journal))
    BY <1>5 DEF StoreInv, SnapshotBehind
  <2> QED
    BY <1>3, <2>1, WholeJournal
<1>7. Replay(journal).seq = mem.seq
  BY <1>2, <1>3, <1>5, ReplayType
<1>8. \A e \in tried : ApplyEvent(mem, e).seq = mem.seq + 1
  BY <1>4, ApplyType
<1>9. Replay(journal) = mem
  <2>1. ASSUME NEW e \in tried, Replay(journal) = ApplyEvent(mem, e)
        PROVE  FALSE
    BY <1>4, <1>7, <1>8, <2>1
  <2> QED
    BY <1>6, <2>1 DEF Possible
<1>10. Replay(Append(journal, l)) = ApplyEvent(Replay(journal), l.event)
  BY <1>1, <1>2, <1>3, ReplayAppend
<1> QED
  BY <1>1, <1>9, <1>10

\* A line added to the journal keeps its prefixes; the longer journal, if it is
\* accepted, ends with the line's event.
LEMMA AddRecoverable ==
    ASSUME StoreInv, NEW l \in Lines, Add(l), UNCHANGED <<synced, snap, mem, tried>>,
           Intact(Append(journal, l))
             => Replay(Append(journal, l)) \in Possible
    PROVE  Recoverable'
<1>1. journal \in Seq(Lines) /\ Len(journal) \in Nat /\ synced \in 0..Len(journal)
  BY WholeJournal
<1>2. Possible' = Possible
  BY DEF Possible
<1>3. CASE journal' = journal
  BY <1>2, <1>3 DEF StoreInv, Recoverable, SnapshotBehind, Prefix
<1>4. CASE journal' = Append(journal, l)
  <2> SUFFICES ASSUME NEW n \in synced..Len(journal'),
                      Intact(Prefix(n)'), SnapshotBehind(n)'
               PROVE  Replay(Prefix(n)') \in Possible
    BY <1>2 DEF Recoverable
  <2>1. Len(journal') = Len(journal) + 1
    BY <1>1, <1>4, PrefixOfAppend
  <2>2. CASE n = Len(journal) + 1
    <3>1. Prefix(n)' = Append(journal, l)
      BY <1>1, <1>4, <2>2, PrefixOfAppend DEF Prefix
    <3> QED
      BY <3>1
  <2>3. CASE n # Len(journal) + 1
    <3>1. n \in 0..Len(journal) /\ n \in synced..Len(journal)
      BY <1>1, <2>1, <2>3
    <3>2. Prefix(n)' = Prefix(n)
      BY <1>1, <1>4, <3>1, PrefixOfAppend DEF Prefix
    <3> QED
      BY <3>1, <3>2 DEF StoreInv, Recoverable, SnapshotBehind
  <2> QED
    BY <2>2, <2>3
<1> QED
  BY <1>3, <1>4 DEF Add

\* A torn line at the end makes the whole journal unacceptable.
LEMMA TornLast ==
    ASSUME NEW j \in Seq(Lines), j # <<>>, j[Len(j)] = Torn
    PROVE  ~Intact(j)
<1>1. Len(j) \in DOMAIN j
  BY EmptySeq
<1> QED
  BY <1>1 DEF Intact

\* Every step keeps the invariant of the store.
LEMMA StoreStep ==
    ASSUME StoreInv, [Next]_vars
    PROVE  StoreInv'
<1>0. TypeOK /\ TypeOK'
  BY StepType DEF StoreInv
<1>1. /\ journal \in Seq(Lines) /\ Len(journal) \in Nat
      /\ synced \in 0..Len(journal) /\ mem \in Contents /\ mem.seq \in Nat
  BY <1>0, WholeJournal DEF TypeOK, Contents
<1>2. CASE OpenStore
  <2>1. UNCHANGED <<created, journal, synced, event>>
    BY <1>2 DEF OpenStore
  <2>2. CASE UNCHANGED <<snap, pc, mem, tried>>
    BY <1>0, <2>1, <2>2 DEF StoreInv, Recoverable, Written, SnapshotBehind, Possible, Prefix
  <2>3. CASE mem' = Replay(journal) /\ snap' = mem' /\ tried' = {} /\ pc' = "idle"
    <3>1. Intact(journal) /\ Replay(journal) \in Possible
      BY <1>2, OpensPossible DEF OpenStore
    <3>2. mem'.seq = Len(journal) /\ mem' \in Contents
      BY <1>1, <2>3, <3>1, ReplayType
    <3>3. ~created' => mem' = Empty
      <4>1. ~created => journal = <<>>
        BY <1>0 DEF TypeOK
      <4> QED
        BY <2>1, <2>3, <4>1, ReplayEmpty
    <3>4. Recoverable'
      <4> SUFFICES ASSUME NEW n \in synced..Len(journal), snap' = NoSnapshot \/ snap'.seq <= n
                   PROVE  Replay(Prefix(n)) = mem'
        BY <2>1, <2>3 DEF Recoverable, SnapshotBehind, Possible, Prefix
      <4>1. CASE n = Len(journal)
        BY <2>3, <4>1, WholeJournal
      <4>2. CASE n < Len(journal)
        <5>1. snap' # NoSnapshot
          BY <2>3, <3>2, FilesAssumption
        <5> QED
          BY <1>1, <2>3, <3>2, <4>2, <5>1
      <4> QED
        BY <1>1, <4>1, <4>2
    <3> QED
      BY <1>0, <1>1, <2>3, <3>2, <3>3, <3>4 DEF StoreInv, Written
  <2> QED
    BY <1>2, <2>2, <2>3 DEF OpenStore
<1>3. ASSUME NEW e, Begin(e)
      PROVE  StoreInv'
  <2>1. UNCHANGED <<journal, synced, snap, mem>> /\ tried \subseteq tried'
        /\ pc' = "opened" /\ created'
    BY <1>3 DEF Begin
  <2>2. Possible \subseteq Possible'
    BY <2>1 DEF Possible
  <2>3. Recoverable'
    BY <2>1, <2>2 DEF StoreInv, Recoverable, SnapshotBehind, Prefix
  <2> QED
    BY <1>0, <2>1, <2>3 DEF StoreInv, Written
<1>4. CASE WriteLine
  <2>1. UNCHANGED <<created, synced, snap, event, mem, tried>> /\ pc = "opened"
    BY <1>4 DEF WriteLine
  <2>2. CASE Add([seq |-> NextSeq, event |-> event]) /\ pc' = "written"
    <3> DEFINE l == [seq |-> NextSeq, event |-> event]
    <3>1. l \in Lines
      BY <1>0, EventLine DEF Lines
    <3>2. Intact(Append(journal, l))
            => Replay(Append(journal, l)) = ApplyEvent(mem, event)
      BY AppendedEvent
    <3>3. event \in tried
      BY <1>0, <2>1 DEF TypeOK
    <3>4. Recoverable'
      BY <2>1, <2>2, <3>1, <3>2, <3>3, AddRecoverable DEF Possible
    <3>5. Intact(journal') => journal' = Append(journal, l)
      BY <1>1, <2>2, TornLast DEF Add
    <3> QED
      BY <1>0, <2>1, <2>2, <3>2, <3>4, <3>5 DEF StoreInv, Written
  <2>3. CASE UNCHANGED journal /\ pc' = "idle"
    BY <1>0, <2>1, <2>3 DEF StoreInv, Recoverable, Written, SnapshotBehind, Possible, Prefix
  <2>4. CASE Add(Torn) /\ pc' = "idle"
    <3>1. Torn \in Lines
      BY DEF Lines
    <3>2. ~Intact(Append(journal, Torn))
      BY <1>1, <3>1, IntactAppend
    <3>3. Recoverable'
      BY <2>1, <2>4, <3>1, <3>2, AddRecoverable
    <3> QED
      BY <1>0, <2>1, <2>4, <3>3 DEF StoreInv, Written
  <2> QED
    BY <1>4, <2>2, <2>3, <2>4 DEF WriteLine
<1>5. CASE SyncLine
  <2>1. /\ UNCHANGED <<created, journal, snap, event, mem, tried>> /\ pc = "written"
        /\ \/ synced' = Len(journal) /\ pc' = "synced"
           \/ synced' = synced /\ pc' = "idle"
    BY <1>5 DEF SyncLine
  <2>2. \A n \in synced'..Len(journal) : n \in synced..Len(journal)
    BY <1>1, <2>1
  <2>3. Recoverable'
    BY <2>1, <2>2 DEF StoreInv, Recoverable, SnapshotBehind, Possible, Prefix
  <2> QED
    BY <1>0, <2>1, <2>3 DEF StoreInv, Written
<1>6. CASE Finish
  <2>1. /\ UNCHANGED <<created, journal, synced, event>> /\ pc = "synced" /\ pc' = "idle"
        /\ mem' = ApplyEvent(mem, event) /\ tried' = {} /\ (snap' = mem' \/ snap' = snap)
    BY <1>6 DEF Finish
  <2>2. created /\ synced = Len(journal) /\ event \in Event
    BY <1>0, <2>1 DEF StoreInv, Written, TypeOK
  <2>3. mem'.seq = mem.seq + 1
    BY <1>1, <2>1, <2>2, ApplyType
  <2>4. snap' = NoSnapshot \/ snap'.seq <= mem'.seq
    <3>1. snap # NoSnapshot => snap.seq \in Nat
      BY <1>0 DEF TypeOK, Contents
    <3> QED
      BY <1>1, <2>1, <2>3, <3>1 DEF StoreInv
  <2>5. Intact(journal) => Replay(journal) = mem'
    BY <2>1 DEF StoreInv, Written
  <2>6. \A n \in synced'..Len(journal) : Prefix(n) = journal
    BY <1>1, <2>1, <2>2, WholeJournal
  <2>7. Recoverable'
    BY <2>1, <2>5, <2>6 DEF Recoverable, Possible, Prefix
  <2> QED
    BY <1>0, <2>1, <2>2, <2>4, <2>7 DEF StoreInv, Written
<1>7. CASE Die
  BY <1>0, <1>7 DEF Die, disk, StoreInv, Recoverable, Written, SnapshotBehind, Possible, Prefix
<1>8. CASE LosePower
  <2>1. UNCHANGED <<created, snap, event, mem, tried>> /\ pc' = "down"
        /\ synced' = Len(journal')
    BY <1>8 DEF LosePower
  <2>2. PICK n \in synced..Len(journal) :
          \/ journal' = Prefix(n)
          \/ n < Len(journal) /\ journal' = Append(Prefix(n), Torn)
    BY <1>8 DEF LosePower, Prefix
  <2>3. n \in 0..Len(journal) /\ Prefix(n) \in Seq(Lines) /\ Len(Prefix(n)) = n
    BY <1>1, PrefixType DEF Prefix
  <2>4. journal' \in Seq(Lines) /\ Len(journal') \in Nat
    BY <1>0 DEF TypeOK, Lines
  <2>5. \A k \in synced'..Len(journal') : k = Len(journal') /\ Prefix(k)' = journal'
    BY <2>1, <2>4, SubSeqFull DEF Prefix
  <2>6. ASSUME Intact(journal'), snap = NoSnapshot \/ snap.seq <= Len(journal')
        PROVE  Replay(journal') \in Possible
    <3>1. journal' = Prefix(n)
      BY <2>2, <2>3, <2>6, IntactAppend DEF Lines
    <3>2. SnapshotBehind(n)
      BY <2>1, <2>3, <2>6, <3>1 DEF SnapshotBehind
    <3> QED
      BY <2>6, <3>1, <3>2 DEF StoreInv, Recoverable
  <2>7. Recoverable'
    <3> SUFFICES ASSUME NEW k \in synced'..Len(journal'), Intact(Prefix(k)'),
                        snap = NoSnapshot \/ snap.seq <= k
                 PROVE  Replay(Prefix(k)') \in Possible
      BY <2>1 DEF Recoverable, SnapshotBehind, Possible
    <3> QED
      BY <2>5, <2>6
  <2> QED
    BY <1>0, <2>1, <2>7 DEF StoreInv, Written
<1>9. CASE UNCHANGED vars
  BY <1>0, <1>9 DEF vars, disk, StoreInv, Recoverable, Written, SnapshotBehind, Possible, Prefix
<1> QED
  BY <1>2, <1>3, <1>4, <1>5, <1>6, <1>7, <1>8, <1>9 DEF Next

\* Every step of the journal is a step of the atomic store, or none.
LEMMA StepRefines ==
    ASSUME StoreInv, [Next]_vars
    PROVE  [Abstract!Next]_<<mem, pc # "down", tried>>
<1> USE DEF Abstract!Next, Abstract!Try, Abstract!Commit, Abstract!Die, Abstract!Reopen,
            Abstract!ApplyEvent, Abstract!ValidEvent, Abstract!Event, Abstract!RecordEvent
<1>0. TypeOK
  BY DEF StoreInv
<1>1. CASE OpenStore
  <2>1. pc = "down" /\ Opens
    BY <1>1 DEF OpenStore
  <2>2. Replay(journal) \in Possible
    BY <2>1, OpensPossible
  <2>3. CASE UNCHANGED <<pc, mem, tried>>
    BY <2>3
  <2>4. CASE mem' = Replay(journal) /\ tried' = {} /\ pc' = "idle"
    <3>1. mem' \in {mem} \union {ApplyEvent(mem, e) : e \in tried}
      BY <2>2, <2>4 DEF Possible
    <3>2. Abstract!Reopen
      BY <2>1, <2>4, <3>1 DEF ApplyEvent
    <3> QED
      BY <3>2
  <2> QED
    BY <1>1, <2>3, <2>4 DEF OpenStore
<1>2. ASSUME NEW e \in Event, Begin(e)
      PROVE  Abstract!Next
  BY <1>2 DEF Begin, ValidEvent, Event, RecordEvent
<1>3. CASE WriteLine
  BY <1>3 DEF WriteLine
<1>4. CASE SyncLine
  BY <1>4 DEF SyncLine
<1>5. CASE Finish
  <2>1. event \in tried
    BY <1>0, <1>5 DEF Finish, TypeOK
  <2> QED
    BY <1>5, <2>1 DEF Finish, ApplyEvent
<1>6. CASE Die
  BY <1>6 DEF Die
<1>7. CASE LosePower
  BY <1>7 DEF LosePower
<1>8. CASE UNCHANGED vars
  BY <1>8 DEF vars
<1>9. ASSUME NEW p \in Plans, NEW s \in States
      PROVE  [plan |-> p, from |-> mem.state[p], to |-> s] \in Event
  BY <1>0, <1>9 DEF TypeOK, Contents, Event, RecordEvent
<1>10. KillEvent \in Event
  BY DEF Event
<1> QED
  BY <1>1, <1>2, <1>3, <1>4, <1>5, <1>6, <1>7, <1>8, <1>9, <1>10 DEF Next

\* The journal implements the atomic store.
THEOREM JournalImplements == Spec => ImplementsAtomicStore
<1>1. StoreInv /\ [Next]_vars => StoreInv'
  BY StoreStep
<1>2. StoreInv /\ [Next]_vars => [Abstract!Next]_<<mem, pc # "down", tried>>
  BY StepRefines
<1>3. Init => Abstract!Init
  BY DEF Init, Abstract!Init, Abstract!Empty, Empty
<1> QED
  BY <1>1, <1>2, <1>3, InitStore, PTL DEF Spec, ImplementsAtomicStore, Abstract!Spec

-----------------------------------------------------------------------------
(* Starts after a death *)

\* Without a write that failed half way and without a loss of power the journal
\* is intact, says what the process sees and what it is writing, and the snapshot
\* is older or equal.
CalmInv ==
    splits = 0 /\ outages = 0 =>
        /\ Intact(journal)
        /\ pc \in {"idle", "opened"} => Replay(journal) = mem
        /\ pc \in {"written", "synced"} => Replay(journal) = ApplyEvent(mem, event)
        /\ snap = NoSnapshot \/ snap.seq < Len(journal) \/ snap = Replay(journal)

LEMMA CalmStep ==
    ASSUME TypeOK, CalmInv, [Next]_vars
    PROVE  CalmInv'
<1>1. /\ journal \in Seq(Lines) /\ Len(journal) \in Nat
      /\ splits \in Nat /\ outages \in Nat
  BY DEF TypeOK, Lines
<1>2. CASE OpenStore
  <2>1. Intact(journal)
    BY <1>2 DEF OpenStore, Opens, Intact, TypeOK
  <2> QED
    BY <1>2, <2>1 DEF OpenStore, CalmInv
<1>3. ASSUME NEW e, Begin(e)
      PROVE  CalmInv'
  BY <1>3 DEF Begin, counters, CalmInv
<1>4. CASE WriteLine
  <2> SUFFICES ASSUME splits' = 0, outages' = 0
               PROVE  CalmInv'
    BY DEF CalmInv
  <2>1. /\ UNCHANGED <<snap, event, mem, outages>> /\ pc = "opened"
        /\ splits = 0 /\ outages = 0
    BY <1>1, <1>4 DEF WriteLine, Split
  <2>2. Intact(journal) /\ Replay(journal) = mem
        /\ (snap = NoSnapshot \/ snap.seq < Len(journal) \/ snap = Replay(journal))
    BY <2>1 DEF CalmInv
  <2>3. CASE Add([seq |-> NextSeq, event |-> event]) /\ pc' = "written"
    <3> DEFINE l == [seq |-> NextSeq, event |-> event]
    <3>1. l \in Line /\ l \in Lines /\ l # Torn
      BY EventLine, FilesAssumption DEF Lines
    <3>2. journal' = Append(journal, l)
      BY <1>1, <2>2, <2>3, TornLast DEF Add
    <3>3. l.seq = Len(journal) + 1 /\ ValidEvent(Replay(journal), l.event)
      BY <2>1, <2>2 DEF NextSeq, Replay, TypeOK
    <3>4. Intact(journal')
      BY <1>1, <2>2, <3>1, <3>2, <3>3, IntactAppend
    <3>5. Replay(journal') = ApplyEvent(mem, event)
      BY <1>1, <2>2, <3>1, <3>2, ReplayAppend
    <3>6. snap = NoSnapshot \/ snap.seq < Len(journal')
      <4>1. Len(journal') = Len(journal) + 1
        BY <1>1, <3>1, <3>2, PrefixOfAppend
      <4>2. Replay(journal).seq = Len(journal)
        BY DEF Replay
      <4>3. snap # NoSnapshot => snap.seq \in Nat
        BY DEF TypeOK, Contents
      <4> QED
        BY <1>1, <2>2, <4>1, <4>2, <4>3
    <3> QED
      BY <2>1, <2>3, <3>4, <3>5, <3>6 DEF CalmInv
  <2>4. CASE UNCHANGED journal /\ pc' = "idle"
    BY <2>1, <2>2, <2>4 DEF CalmInv
  <2> QED
    BY <1>1, <1>4, <2>1, <2>3, <2>4 DEF WriteLine, Split
<1>5. CASE SyncLine
  BY <1>1, <1>5 DEF SyncLine, Split, CalmInv
<1>6. CASE Finish
  BY <1>6 DEF Finish, CalmInv
<1>7. CASE Die
  BY <1>7 DEF Die, disk, CalmInv
<1>8. CASE LosePower
  BY <1>1, <1>8 DEF LosePower, CalmInv
<1>9. CASE UNCHANGED vars
  BY <1>9 DEF vars, disk, counters, CalmInv
<1> QED
  BY <1>2, <1>3, <1>4, <1>5, <1>6, <1>7, <1>8, <1>9 DEF Next

\* After any number of deaths, at any point, a journal that holds an event is
\* accepted by the next start.
THEOREM DeathIsRestorable == Spec => []RestorableAfterDeath
<1>1. TypeOK /\ CalmInv /\ [Next]_vars => CalmInv'
  BY CalmStep
<1>2. Init => CalmInv
  BY DEF Init, CalmInv, Intact
<1>3. TypeOK /\ CalmInv => RestorableAfterDeath
  BY DEF TypeOK, CalmInv, RestorableAfterDeath, Opens, SnapshotFits
<1> QED
  BY <1>1, <1>2, <1>3, JournalTypeCorrect, PTL DEF Spec
=============================================================================
