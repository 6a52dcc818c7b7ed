-------------------------- MODULE ControlSocketProof --------------------------
(***************************************************************************)
(* While starts and stops of different processes do not overlap, as under  *)
(* launchd, the control socket is the lock that votingd takes it for: for  *)
(* any number of processes and deaths.                                     *)
(***************************************************************************)
EXTENDS ControlSocket, TLAPS

\* Labels of a process that is neither running nor off.
Busy(p) == pc[p] \notin {"off", "running"}

\* Labels between the bind and the closing of the listener.
Bound(p) == pc[p] \in {"listen", "chmod", "open", "running", "closing", "failing"}

\* One process at a time is busy; the path belongs to whoever has bound it; and a
\* process that starts beside a running one has not got past the dial.
LockInv ==
    /\ \A p, q \in Procs : Busy(p) /\ Busy(q) => p = q
    /\ \A p \in Procs : Bound(p) => file = p
    /\ \A p, q \in Procs :
          pc[p] = "running" /\ q # p => pc[q] \in {"off", "probe", "dial"}

Inv == TypeOK /\ LockInv

\* Nobody has started yet.
LEMMA InitInv == Init => Inv
  BY ProcsAssumption DEF Init, Inv, TypeOK, LockInv, Labels, Busy, Bound

\* A step of one process keeps the types, and the owner of the socket file is
\* between its bind and its exit.
LEMMA StepType ==
    ASSUME TypeOK, NEW p \in Procs,
           Start(p) \/ StartStep(p) \/ Stop(p) \/ StopStep(p) \/ Die(p)
    PROVE  TypeOK'
<1> USE ProcsAssumption DEF TypeOK, At, To, Labels
<1>1. CASE Start(p)
  BY <1>1 DEF Start
<1>2. CASE Probe(p)
  BY <1>2 DEF Probe
<1>3. CASE Dial(p)
  BY <1>3 DEF Dial, Dialed
<1>4. CASE Remove(p)
  BY <1>4 DEF Remove
<1>5. CASE Bind(p)
  BY <1>5 DEF Bind
<1>6. CASE Listen(p)
  BY <1>6 DEF Listen
<1>7. CASE Chmod(p)
  BY <1>7 DEF Chmod
<1>8. CASE OpenStore(p)
  BY <1>8 DEF OpenStore
<1>9. CASE Stop(p)
  BY <1>9 DEF Stop
<1>10. CASE CloseListener(p)
  BY <1>10 DEF CloseListener
<1>11. CASE Exit(p)
  BY <1>11 DEF Exit
<1>12. CASE Die(p)
  BY <1>12 DEF Die, Gone
<1> QED
  BY <1>1, <1>2, <1>3, <1>4, <1>5, <1>6, <1>7, <1>8, <1>9, <1>10, <1>11, <1>12
     DEF StartStep, StopStep

\* One step of one process keeps the lock: a busy process is the only one, and
\* beside a running one it can only find out that somebody answers.
LEMMA StepLock ==
    ASSUME OneAtATime, Inv, NEW p \in Procs,
           Start(p) \/ StartStep(p) \/ Stop(p) \/ StopStep(p) \/ Die(p)
    PROVE  LockInv'
<1> USE ProcsAssumption DEF Inv, TypeOK, LockInv, At, To, Labels, Busy, Bound
<1>1. CASE Start(p)
  BY <1>1 DEF Start, Alone
<1>2. CASE Probe(p)
  BY <1>2 DEF Probe
<1>3. CASE Dial(p)
  <2>1. \A q \in Procs : q # p /\ pc[q] = "running" => file \in Answering
    BY DEF Answering
  <2> QED
    BY <1>3, <2>1 DEF Dial, Dialed
<1>4. CASE Remove(p)
  BY <1>4 DEF Remove
<1>5. CASE Bind(p)
  BY <1>5 DEF Bind
<1>6. CASE Listen(p)
  BY <1>6 DEF Listen
<1>7. CASE Chmod(p)
  BY <1>7 DEF Chmod
<1>8. CASE OpenStore(p)
  BY <1>8 DEF OpenStore
<1>9. CASE Stop(p)
  BY <1>9 DEF Stop, Alone
<1>10. CASE CloseListener(p)
  BY <1>10 DEF CloseListener
<1>11. CASE Exit(p)
  BY <1>11 DEF Exit
<1>12. CASE Die(p)
  BY <1>12 DEF Die, Gone
<1> QED
  BY <1>1, <1>2, <1>3, <1>4, <1>5, <1>6, <1>7, <1>8, <1>9, <1>10, <1>11, <1>12
     DEF StartStep, StopStep

\* The strengthened invariant of every behaviour.
THEOREM LockInvariant ==
    ASSUME OneAtATime PROVE Spec => []Inv
<1>1. Inv /\ [Next]_vars => Inv'
  <2> SUFFICES ASSUME Inv, [Next]_vars PROVE Inv'
    OBVIOUS
  <2>1. CASE Next
    BY <2>1, StepType, StepLock DEF Next, Inv
  <2>2. CASE UNCHANGED vars
    BY <2>2 DEF vars, Inv, TypeOK, LockInv, Busy, Bound
  <2> QED
    BY <2>1, <2>2
<1> QED
  BY InitInv, <1>1, PTL DEF Spec

\* The types of the processes and of the socket path hold even when starts and
\* stops overlap.
THEOREM SocketTypeCorrect == Spec => []TypeOK
<1>1. TypeOK /\ [Next]_vars => TypeOK'
  <2> SUFFICES ASSUME TypeOK, [Next]_vars PROVE TypeOK'
    OBVIOUS
  <2>1. CASE Next
    BY <2>1, StepType DEF Next
  <2>2. CASE UNCHANGED vars
    BY <2>2 DEF vars, TypeOK
  <2> QED
    BY <2>1, <2>2
<1>2. Init => TypeOK
  BY InitInv DEF Inv
<1> QED
  BY <1>1, <1>2, PTL DEF Spec

\* From the opening of the store to the exit of the process there is one writer
\* of the journal (cmd/votingd/main.go).
THEOREM OneWriter ==
    ASSUME OneAtATime PROVE Spec => []SingleWriter
<1>1. Inv => SingleWriter
  BY DEF Inv, LockInv, SingleWriter, Writers, Busy, Bound
<1> QED
  BY <1>1, LockInvariant, PTL

\* votectl reaches the running daemon: its socket is never taken from it.
THEOREM RunningIsReachable ==
    ASSUME OneAtATime PROVE Spec => []Reachable
<1>1. Inv => Reachable
  BY DEF Inv, LockInv, Reachable, Bound
<1> QED
  BY <1>1, LockInvariant, PTL
=============================================================================
