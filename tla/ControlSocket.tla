---------------------------- MODULE ControlSocket ----------------------------
(***************************************************************************)
(* Start and stop of votingd (cmd/votingd/main.go, ListenControlSocket in  *)
(* internal/voting/http.go).  The control socket is also the lock that     *)
(* shall keep a second daemon from the same state directory: a process     *)
(* that finds the socket file asks whether someone answers there, removes  *)
(* the file if not, and binds its own.                                     *)
(*                                                                         *)
(* Every system call on the path is a step of its own, so that two         *)
(* processes starting or stopping at the same time interleave.             *)
(***************************************************************************)
EXTENDS Naturals, FiniteSets

CONSTANTS
    Procs,
    NoFile, Dead,       \* no socket file; one whose listener is gone
    OneAtATime,         \* starts and stops of different processes do not overlap
    MaxDeaths           \* bound: processes that die

ASSUME ProcsAssumption == {NoFile, Dead} \cap Procs = {} /\ NoFile # Dead

ASSUME LaunchdAssumption == OneAtATime \in BOOLEAN

VARIABLES
    file,       \* the socket path: NoFile, Dead, or the process whose listener it is
    pc,         \* where each process has got
    deaths

vars == <<file, pc, deaths>>

Labels == {"off", "probe", "dial", "remove", "bind", "listen", "chmod", "open",
           "running", "closing", "exit", "failing", "failed"}

\* Processes whose listener accepts connections.
Answering == {p \in Procs : pc[p] \in {"chmod", "open", "running"}}

\* Processes that may write the journal: from OpenStore to the exit, because a
\* tick or a command under way outlives the listener.
Writers == {p \in Procs : pc[p] \in {"running", "closing", "exit"}}

Init == file = NoFile /\ pc = [p \in Procs |-> "off"] /\ deaths = 0

At(p, label) == pc[p] = label

To(p, label) == pc' = [pc EXCEPT ![p] = label] /\ UNCHANGED deaths

-----------------------------------------------------------------------------
(* ListenControlSocket *)

\* No process but p is between its start and the serving, or between that and its
\* end: what launchd sees to when nobody else starts or stops a daemon.
Alone(p) == \A q \in Procs \ {p} : pc[q] \in {"off", "running"}

Start(p) ==
    /\ At(p, "off") /\ (OneAtATime => Alone(p))
    /\ To(p, "probe") /\ UNCHANGED file

Probe(p) ==
    /\ At(p, "probe")
    /\ To(p, IF file = NoFile THEN "bind" ELSE "dial")
    /\ UNCHANGED file

\* The file is taken for stale without asking.
BadDialed(p) == "remove"

\* An answer ends the start; a file that is gone by now fails the removal.
Dialed(p) == IF file \in Answering THEN "off" ELSE "remove"

Dial(p) == At(p, "dial") /\ To(p, Dialed(p)) /\ UNCHANGED file

\* A socket file without a listener is left for the operator to remove.
BadRemove(p) == At(p, "remove") /\ To(p, "off") /\ UNCHANGED file

Remove(p) ==
    /\ At(p, "remove")
    /\ To(p, IF file = NoFile THEN "off" ELSE "bind")
    /\ file' = NoFile

\* bind takes the path only if nothing is there.
Bind(p) ==
    /\ At(p, "bind")
    /\ IF file = NoFile
       THEN file' = p /\ To(p, "listen")
       ELSE UNCHANGED file /\ To(p, "off")

Listen(p) == At(p, "listen") /\ To(p, "chmod") /\ UNCHANGED file

\* Someone else may have removed the path: the start fails and closes the listener.
Chmod(p) ==
    /\ At(p, "chmod")
    /\ To(p, IF file = NoFile THEN "off" ELSE "open")
    /\ UNCHANGED file

-----------------------------------------------------------------------------
(* run *)

\* The process has left: its listener is gone with it.
Gone(p) == IF file = p THEN Dead ELSE file

\* The store opens, or the deferred clean-up ends the start.
OpenStore(p) ==
    /\ At(p, "open")
    /\ \E label \in {"running", "failing"} : To(p, label)
    /\ UNCHANGED file

\* A signal, a server that fails or a Run that fails: the servers are shut down.
Stop(p) ==
    /\ At(p, "running") /\ (OneAtATime => Alone(p))
    /\ To(p, "closing") /\ UNCHANGED file

\* The listener is closed and its file stays until the end.
BadCloseListener(p) ==
    /\ \/ At(p, "closing") /\ To(p, "exit")
       \/ At(p, "failing") /\ To(p, "failed")
    /\ UNCHANGED file

\* Closing the listener unlinks its path, whoever owns the file by now.
CloseListener(p) ==
    /\ \/ At(p, "closing") /\ To(p, "exit")
       \/ At(p, "failing") /\ To(p, "failed")
    /\ file' = NoFile

\* The deferred os.Remove(config.Socket), after the servers have drained.
Exit(p) == pc[p] \in {"exit", "failed"} /\ To(p, "off") /\ file' = NoFile

Die(p) ==
    /\ pc[p] # "off" /\ deaths < MaxDeaths
    /\ deaths' = deaths + 1
    /\ pc' = [pc EXCEPT ![p] = "off"] /\ file' = Gone(p)

StartStep(p) ==
    Probe(p) \/ Dial(p) \/ Remove(p) \/ Bind(p) \/ Listen(p) \/ Chmod(p) \/ OpenStore(p)

StopStep(p) == CloseListener(p) \/ Exit(p)

Next == \E p \in Procs : Start(p) \/ StartStep(p) \/ Stop(p) \/ StopStep(p) \/ Die(p)

Spec == Init /\ [][Next]_vars

\* launchd starts a daemon that is not there (KeepAlive), and a process runs.
FairSpec ==
    /\ Spec
    /\ WF_vars(\E p \in Procs : Answering = {} /\ Start(p))
    /\ \A p \in Procs : WF_vars(StartStep(p)) /\ WF_vars(StopStep(p))

-----------------------------------------------------------------------------
(* Properties *)

\* Types; and a listener's file, as long as it is there, belongs to a process
\* that is between its bind and its exit.
TypeOK ==
    /\ file \in Procs \union {NoFile, Dead}
    /\ pc \in [Procs -> Labels] /\ deaths \in Nat
    /\ file \in Procs => pc[file] \in {"listen", "chmod", "open", "running",
                                        "closing", "failing"}

\* The control socket is the process-wide single-writer lock of the journal
\* (cmd/votingd/main.go), from the opening of the store to the exit.
SingleWriter == \A p, q \in Writers : p = q

\* docs/02-voting-runtime.md: a second daemon cannot be started for the same state
\* directory, whenever it is tried.
SecondIsRefused ==
    \A p, q \in Procs : pc[p] = "running" /\ pc[q] = "running" => p = q

\* votectl reaches the running daemon: nobody has taken its socket away.
Reachable == \A p \in Procs : pc[p] = "running" => file = p

\* A socket file left by a dead daemon does not keep the next one from starting:
\* a daemon is up again and again, unless it is stopped or its store does not
\* open again and again.
ComesBack ==
    \/ []<>(\E p \in Procs : pc[p] = "running")
    \/ []<>(\E p \in Procs : pc[p] \in {"closing", "failing"})
=============================================================================
