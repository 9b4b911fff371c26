------------------------- MODULE DaemonLifecycleProofs -------------------------
(* Proofs about DaemonLifecycle, for any number of processes, starts and       *)
(* faults: the instance lock makes the socket path private to its holder.      *)
EXTENDS DaemonLifecycle, TLAPS

(* Every variable of the process lifecycle keeps its type; only a live process *)
(* is in reconcile_once.                                                       *)
LEMMA TypeStep == TypeOK /\ [Next]_vars => TypeOK'
<1> SUFFICES ASSUME TypeOK, [Next]_vars PROVE TypeOK'
    OBVIOUS
<1> USE DEF TypeOK, LoopRuns
<1>1. CASE UNCHANGED vars
    BY <1>1 DEF vars
<1> SUFFICES ASSUME NEW p \in Processes,
        \/ Start(p) \/ AcquireInstanceLock(p) \/ SpawnLoop(p) \/ PrepareUnixSocketPath(p)
        \/ Bind(p) \/ Permissions(p) \/ ServeEnds(p) \/ Cleanup(p) \/ Return(p)
        \/ DropRuntime(p) \/ StepFails(p) \/ Exit(p) \/ ReconcileOnce(p) \/ Crash(p)
             PROVE  TypeOK'
    BY <1>1 DEF Next
<1>2. CASE Start(p)
    BY <1>2, LifecycleAssumption DEF Start, Goto
<1>3. CASE AcquireInstanceLock(p)
    BY <1>3 DEF AcquireInstanceLock, Goto, Fails
<1>4. CASE SpawnLoop(p)
    BY <1>4 DEF SpawnLoop, Goto
<1>5. CASE PrepareUnixSocketPath(p)
    BY <1>5 DEF PrepareUnixSocketPath, Goto
<1>6. CASE Bind(p)
    BY <1>6 DEF Bind, Goto
<1>7. CASE Permissions(p)
  <2>1. socket' \in Processes \cup {None} /\ orphan' \in BOOLEAN
    BY <1>7 DEF Permissions, CleanupUnixSocketPath
  <2>2. starts' \in 0..MaxStarts /\ faults' \in 0..MaxFaults
    BY <1>7, LifecycleAssumption DEF Permissions, CleanupUnixSocketPath
  <2>3. /\ pc' \in [Processes -> {"off", "lock", "load", "failed"} \cup LoopRuns]
        /\ lock' \in Processes \cup {None}
        /\ applying' \subseteq {q \in Processes : pc'[q] \in LoopRuns \cup {"failed"}}
    BY <1>7 DEF Permissions, Goto, Fails
  <2> QED
    BY <2>1, <2>2, <2>3
<1>8. CASE ServeEnds(p)
    BY <1>8 DEF ServeEnds, Goto
<1>9. CASE Cleanup(p)
  <2>1. socket' \in Processes \cup {None} /\ orphan' \in BOOLEAN
    BY <1>9 DEF Cleanup, CleanupUnixSocketPath
  <2>2. starts' \in 0..MaxStarts /\ faults' \in 0..MaxFaults
    BY <1>9, LifecycleAssumption DEF Cleanup, CleanupUnixSocketPath
  <2>3. /\ pc' \in [Processes -> {"off", "lock", "load", "failed"} \cup LoopRuns]
        /\ lock' \in Processes \cup {None}
        /\ applying' \subseteq {q \in Processes : pc'[q] \in LoopRuns \cup {"failed"}}
    BY <1>9 DEF Cleanup, CleanupUnixSocketPath, Goto, Fails
  <2> QED
    BY <2>1, <2>2, <2>3
<1>10. CASE Return(p)
    BY <1>10 DEF Return, Goto
<1>11. CASE DropRuntime(p)
    BY <1>11 DEF DropRuntime, Ends
<1>12. CASE StepFails(p)
    BY <1>12 DEF StepFails, Fails
<1>13. CASE Exit(p)
    BY <1>13 DEF Exit, Ends
<1>14. CASE ReconcileOnce(p)
    BY <1>14 DEF ReconcileOnce
<1>15. CASE Crash(p)
    BY <1>15, LifecycleAssumption DEF Crash, Ends
<1> QED
    BY <1>2, <1>3, <1>4, <1>5, <1>6, <1>7, <1>8, <1>9, <1>10, <1>11, <1>12, <1>13,
       <1>14, <1>15

(* No daemon runs at first, and the types hold. *)
LEMMA TypeInit == Init => TypeOK
<1> SUFFICES ASSUME Init PROVE TypeOK
    OBVIOUS
<1>1. starts \in 0..MaxStarts /\ faults \in 0..MaxFaults
    BY LifecycleAssumption DEF Init
<1>2. orphan \in BOOLEAN
    BY DEF Init
<1> QED
    BY <1>1, <1>2 DEF Init, TypeOK

(* Every variable of the process lifecycle keeps its type; only a live process *)
(* is in reconcile_once.                                                       *)
THEOREM LifecycleTypeCorrect == Spec => []TypeOK
BY TypeInit, TypeStep, PTL DEF Spec

-------------------------------------------------------------------------------
(* The steps of run() between taking and giving back the instance lock.        *)
Holding ==
    {"load", "prepare", "bind", "permissions", "serve", "cleanup", "cleanup_error", "return"}

(* The steps of run() with a socket of its own.                                *)
Bound == {"permissions", "serve", "cleanup", "cleanup_error"}

(* Whoever is between lock and return is the holder, and what is at the path   *)
(* follows from where the holder is.                                           *)
PathInv ==
    /\ \A p \in Processes : pc[p] \in Holding => lock = p
    /\ \A p \in Processes : pc[p] \in Bound => socket = p
    /\ \A p \in Processes : pc[p] = "bind" => socket = None
    /\ LeavesNoSocket

(* Every step of run, of a crash and of systemd keeps PathInv. *)
LEMMA PathStep == TypeOK /\ PathInv /\ [Next]_vars => PathInv'
<1> SUFFICES ASSUME TypeOK, PathInv, [Next]_vars PROVE PathInv'
    OBVIOUS
<1> USE DEF TypeOK, PathInv, LeavesNoSocket, Holding, Bound, LoopRuns
<1>1. CASE UNCHANGED vars
    BY <1>1 DEF vars
<1> SUFFICES ASSUME NEW p \in Processes,
        \/ Start(p) \/ AcquireInstanceLock(p) \/ SpawnLoop(p) \/ PrepareUnixSocketPath(p)
        \/ Bind(p) \/ Permissions(p) \/ ServeEnds(p) \/ Cleanup(p) \/ Return(p)
        \/ DropRuntime(p) \/ StepFails(p) \/ Exit(p) \/ ReconcileOnce(p) \/ Crash(p)
             PROVE  PathInv'
    BY <1>1 DEF Next
<1>2. CASE Start(p)
    BY <1>2 DEF Start, Goto
<1>3. CASE AcquireInstanceLock(p)
  <2>1. CASE lock = None
    BY <1>3, <2>1, LifecycleAssumption DEF AcquireInstanceLock, Goto
  <2>2. CASE lock # None
    BY <1>3, <2>2 DEF AcquireInstanceLock, Fails
  <2> QED
    BY <2>1, <2>2
<1>4. CASE SpawnLoop(p)
    BY <1>4 DEF SpawnLoop, Goto
<1>5. CASE PrepareUnixSocketPath(p)
    BY <1>5 DEF PrepareUnixSocketPath, Goto
<1>6. CASE Bind(p)
    BY <1>6 DEF Bind, Goto
<1>7. CASE Permissions(p)
    BY <1>7 DEF Permissions, CleanupUnixSocketPath, Goto, Fails
<1>8. CASE ServeEnds(p)
    BY <1>8 DEF ServeEnds, Goto
<1>9. CASE Cleanup(p)
    BY <1>9 DEF Cleanup, CleanupUnixSocketPath, Goto, Fails
<1>10. CASE Return(p)
    BY <1>10 DEF Return, Goto
<1>11. CASE DropRuntime(p)
    BY <1>11 DEF DropRuntime, Ends
<1>12. CASE StepFails(p)
    BY <1>12 DEF StepFails, Fails
<1>13. CASE Exit(p)
    BY <1>13 DEF Exit, Ends
<1>14. CASE ReconcileOnce(p)
    BY <1>14 DEF ReconcileOnce
<1>15. CASE Crash(p)
    BY <1>15, LifecycleAssumption DEF Crash, Ends
<1> QED
    BY <1>2, <1>3, <1>4, <1>5, <1>6, <1>7, <1>8, <1>9, <1>10, <1>11, <1>12, <1>13,
       <1>14, <1>15

(* PathInv holds of every number of daemon processes. *)
LEMMA PathAlways == Spec => [](TypeOK /\ PathInv)
<1>1. Init => PathInv
    BY DEF Init, PathInv, LeavesNoSocket, Holding, Bound
<1> QED
    BY <1>1, TypeInit, TypeStep, PathStep, PTL DEF Spec

(* A serving daemon always has its own socket at the path, whatever other      *)
(* processes start, fail, stop and crash.                                      *)
THEOREM ServingIsReachable == Spec => []ServedIsReachable
<1>1. PathInv => ServedIsReachable
    BY DEF PathInv, ServedIsReachable, Bound
<1> QED
    BY <1>1, PathAlways, PTL

(* The path is free whenever a process is about to bind.                       *)
THEOREM BindIsFree == Spec => []BindFindsFreePath
<1>1. PathInv => BindFindsFreePath
    BY DEF PathInv, BindFindsFreePath
<1> QED
    BY <1>1, PathAlways, PTL

(* A socket file without its process is the work of a fault.                   *)
THEOREM NoSocketIsLeft == Spec => []LeavesNoSocket
<1>1. PathInv => LeavesNoSocket
    BY DEF PathInv
<1> QED
    BY <1>1, PathAlways, PTL
===============================================================================
