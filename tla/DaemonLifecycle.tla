---------------------------- MODULE DaemonLifecycle ----------------------------
(***************************************************************************)
(* The life of nginx-admind processes on one host (main.rs): the instance   *)
(* lock, the socket file, the reconcile loop started in between, signals,   *)
(* failures of any step, and faults.  The lock belongs to run(): it is     *)
(* released when run() returns, and only then is the runtime dropped, which *)
(* waits for the code a worker thread is in the middle of.                  *)
(***************************************************************************)
EXTENDS Naturals, FiniteSets

CONSTANTS
    Processes,   \* processes started by systemd or by hand
    MaxStarts,   \* bound on the starts
    MaxFaults,   \* bound on faults and on files that cannot be removed
    None

ASSUME LifecycleAssumption ==
    MaxStarts \in Nat /\ MaxFaults \in Nat /\ None \notin Processes

VARIABLES
    pc,       \* where run() of each process is
    lock,     \* the process holding /run/nginx-admind.lock, or None
    socket,   \* the process whose socket is at the socket path, or None
    applying, \* the processes in the middle of reconcile_once
    orphan,   \* the socket at the path was left by a fault
    starts, faults

vars == <<pc, lock, socket, applying, orphan, starts, faults>>

(* The steps of run() after which the loop is running. *)
LoopRuns ==
    {"prepare", "bind", "permissions", "serve", "cleanup", "cleanup_error", "return", "drop"}

(* Every variable keeps its type; only a process that is running applies. *)
TypeOK ==
    /\ pc \in [Processes -> {"off", "lock", "load", "failed"} \cup LoopRuns]
    /\ lock \in Processes \cup {None} /\ socket \in Processes \cup {None}
    /\ applying \subseteq {p \in Processes : pc[p] \in LoopRuns \cup {"failed"}}
    /\ orphan \in BOOLEAN
    /\ starts \in 0..MaxStarts /\ faults \in 0..MaxFaults

Init ==
    /\ pc = [p \in Processes |-> "off"]
    /\ lock = None /\ socket = None
    /\ applying = {} /\ orphan = FALSE
    /\ starts = 0 /\ faults = 0

Goto(p, from, to) == pc[p] = from /\ pc' = [pc EXCEPT ![p] = to]

(* run() returns an error, which releases the lock. *)
Fails(p) ==
    /\ pc' = [pc EXCEPT ![p] = "failed"]
    /\ lock' = IF lock = p THEN None ELSE lock
    /\ UNCHANGED applying

(* The process ends, and with it its threads and its lock. *)
Ends(p) ==
    /\ pc' = [pc EXCEPT ![p] = "off"]
    /\ lock' = IF lock = p THEN None ELSE lock
    /\ applying' = applying \ {p}

Start(p) ==
    /\ starts < MaxStarts
    /\ starts' = starts + 1
    /\ Goto(p, "off", "lock")
    /\ UNCHANGED <<lock, socket, applying, orphan, faults>>

(* acquire_instance_lock does not wait: a second instance exits. *)
AcquireInstanceLock(p) ==
    /\ \/ lock = None /\ lock' = p /\ Goto(p, "lock", "load") /\ UNCHANGED applying
       \/ lock # None /\ pc[p] = "lock" /\ Fails(p)
    /\ UNCHANGED <<socket, orphan, starts, faults>>

(* The state is loaded and the reconcile loop spawned. *)
SpawnLoop(p) ==
    /\ Goto(p, "load", "prepare")
    /\ UNCHANGED <<lock, socket, applying, orphan, starts, faults>>

PrepareUnixSocketPath(p) ==
    /\ Goto(p, "prepare", "bind")
    /\ socket' = None
    /\ orphan' = FALSE
    /\ UNCHANGED <<lock, applying, starts, faults>>

(* UnixListener::bind needs a free path; StepFails is its failure. *)
Bind(p) ==
    /\ Goto(p, "bind", "permissions")
    /\ socket = None /\ socket' = p
    /\ UNCHANGED <<lock, applying, orphan, starts, faults>>

(* It only warns when it cannot remove the file, which then stays. *)
CleanupUnixSocketPath ==
    \/ socket' = None /\ orphan' = FALSE /\ UNCHANGED faults
    \/ /\ faults < MaxFaults /\ faults' = faults + 1
       /\ orphan' = TRUE /\ UNCHANGED socket

(* configure_unix_socket_permissions; when it fails the file is removed, if *)
(* that works, and the error returned.                                      *)
Permissions(p) ==
    /\ \/ /\ Goto(p, "permissions", "serve")
          /\ UNCHANGED <<lock, socket, applying, orphan, faults>>
       \/ pc[p] = "permissions" /\ Fails(p) /\ CleanupUnixSocketPath
    /\ UNCHANGED starts

(* A signal, or an error of accept, ends serve_unix. *)
ServeEnds(p) ==
    /\ Goto(p, "serve", "cleanup") \/ Goto(p, "serve", "cleanup_error")
    /\ UNCHANGED <<lock, socket, applying, orphan, starts, faults>>

(* Fault: the lock is given up first. *)
CleanupAfterUnlock(p) ==
    /\ pc[p] = "cleanup"
    /\ \/ /\ lock = p /\ lock' = None
          /\ UNCHANGED <<pc, socket, orphan>>
       \/ /\ lock # p
          /\ pc' = [pc EXCEPT ![p] = "drop"]
          /\ socket' = None /\ orphan' = FALSE
          /\ UNCHANGED lock
    /\ UNCHANGED <<applying, starts, faults>>

(* The socket file is removed, if that works; then the error of accept, if  *)
(* any, is returned.                                                        *)
Cleanup(p) ==
    /\ \/ Goto(p, "cleanup", "return") /\ UNCHANGED <<lock, applying>>
       \/ pc[p] = "cleanup_error" /\ Fails(p)
    /\ CleanupUnixSocketPath
    /\ UNCHANGED starts

(* Fault: run() waits for the loop it has spawned. *)
ReturnJoinsLoop(p) ==
    /\ Goto(p, "return", "drop")
    /\ pc[p] \notin LoopRuns
    /\ lock' = None
    /\ UNCHANGED <<socket, applying, orphan, starts, faults>>

(* run() returns: its lock file is closed. *)
Return(p) ==
    /\ Goto(p, "return", "drop")
    /\ lock' = None
    /\ UNCHANGED <<socket, applying, orphan, starts, faults>>

(* The runtime is dropped once its workers have left their code. *)
DropRuntime(p) ==
    /\ pc[p] = "drop" /\ p \notin applying
    /\ Ends(p)
    /\ UNCHANGED <<socket, orphan, starts, faults>>

(* The state does not load, the old socket is not removed, or bind fails. *)
StepFails(p) ==
    /\ pc[p] \in {"load", "prepare", "bind"}
    /\ Fails(p)
    /\ UNCHANGED <<socket, orphan, starts, faults>>

(* main exits at once when run() has failed. *)
Exit(p) ==
    /\ pc[p] = "failed"
    /\ Ends(p)
    /\ UNCHANGED <<socket, orphan, starts, faults>>

(* The loop enters and leaves reconcile_once, on a worker thread; a runtime *)
(* being dropped starts nothing new.                                        *)
ReconcileOnce(p) ==
    /\ \/ /\ pc[p] \in LoopRuns \ {"drop"} /\ p \notin applying
          /\ applying' = applying \cup {p}
       \/ /\ p \in applying
          /\ applying' = applying \ {p}
    /\ UNCHANGED <<pc, lock, socket, orphan, starts, faults>>

Crash(p) ==
    /\ faults < MaxFaults
    /\ faults' = faults + 1
    /\ pc[p] # "off"
    /\ Ends(p)
    /\ orphan' = (orphan \/ socket = p)
    /\ UNCHANGED <<socket, starts>>

Next ==
    \E p \in Processes :
        \/ Start(p) \/ AcquireInstanceLock(p) \/ SpawnLoop(p) \/ PrepareUnixSocketPath(p)
        \/ Bind(p) \/ Permissions(p) \/ ServeEnds(p) \/ Cleanup(p) \/ Return(p)
        \/ DropRuntime(p) \/ StepFails(p) \/ Exit(p) \/ ReconcileOnce(p) \/ Crash(p)

Spec == Init /\ [][Next]_vars

(* A process that is running goes on; its pipeline ends. *)
FairSpec ==
    /\ Spec
    /\ \A p \in Processes :
          /\ WF_vars(AcquireInstanceLock(p)) /\ WF_vars(SpawnLoop(p))
          /\ WF_vars(PrepareUnixSocketPath(p)) /\ WF_vars(Bind(p)) /\ WF_vars(Permissions(p))
          /\ WF_vars(Cleanup(p)) /\ WF_vars(Return(p)) /\ WF_vars(Exit(p))
          /\ WF_vars(DropRuntime(p)) /\ WF_vars(p \in applying /\ ReconcileOnce(p))

-------------------------------------------------------------------------------
(* A serving daemon is reachable: the socket at the path is its own, and no *)
(* other process has removed or replaced it (prepare_unix_socket_path,      *)
(* cleanup_unix_socket_path).                                               *)
ServedIsReachable == \A p \in Processes : pc[p] = "serve" => socket = p

(* A process that ends by itself leaves no socket behind: a file without    *)
(* its process is the work of a fault.                                      *)
LeavesNoSocket ==
    socket # None /\ ~orphan => pc[socket] \in {"permissions", "serve", "cleanup", "cleanup_error"}

(* A start that gets the lock comes to serve or ends: it is never stopped   *)
(* by the socket file of an earlier process (bind after                     *)
(* prepare_unix_socket_path).                                               *)
BindFindsFreePath == \A p \in Processes : pc[p] = "bind" => socket = None

(* Every process that was told to stop ends, and the lock with it. *)
StopsEnd == \A p \in Processes : pc[p] \in {"cleanup", "cleanup_error"} ~> pc[p] = "off"

(* The instance lock keeps a second process off the directories: never two  *)
(* of them in reconcile_once.                                               *)
OneApplies == Cardinality(applying) <= 1
===============================================================================
