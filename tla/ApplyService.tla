----------------------------- MODULE ApplyService -----------------------------
(***************************************************************************)
(* reconcile_once (daemon/src/apply.rs) and the directories it works on.    *)
(*                                                                          *)
(* It is called by the background loop and by every POST /v1/reconcile, and *)
(* serialises itself with apply_lock.  Everything between mark_applying and *)
(* the final mark is one synchronous closure: a client that disconnects     *)
(* stops a call only before or after it, a crash stops it anywhere.         *)
(*                                                                          *)
(* A directory is the configuration in it and, as history, the revision it  *)
(* was rendered from.                                                       *)
(***************************************************************************)
EXTENDS StateStore

CONSTANTS
    Triggers,  \* clients that POST /v1/reconcile
    Loop,      \* the background reconcile loop
    Configs,   \* rendered configurations
    Render,    \* the configuration rendered from a document
    Rejected,  \* configurations nginx -t refuses
    DryRun,    \* config.dry_run
    Absent,    \* no such directory
    Partial,   \* a directory half written or half removed
    Foreign    \* files the daemon did not write

Reconcilers == Triggers \cup {Loop}
Contents == Configs \cup {Absent, Partial, Foreign}

(* hash_directory and the renderer's copy of it hash the path of every file  *)
(* together with its bytes.                                                  *)
HashDirectory(path, dir) ==
    IF dir.config = Absent THEN NoHash ELSE [path |-> path, config |-> dir.config]

ASSUME ApplyAssumption ==
    /\ Loop \notin Triggers
    /\ None \notin Reconcilers
    /\ Render \in [Docs -> Configs]
    /\ Rejected \subseteq Configs
    /\ DryRun \in BOOLEAN
    /\ {Absent, Partial, Foreign} \cap Configs = {}
    /\ Absent # Partial /\ Absent # Foreign /\ Partial # Foreign
    /\ [path : {"staging", "runtime"}, config : Contents] \subseteq Hashes

VARIABLES
    applyLock,  \* holder of apply_lock
    rpc,        \* where each reconcile_once is
    seen,       \* the state it read
    rendered,   \* config_hash of what it rendered
    staging, runtime, previous,  \* the directories
    nginx       \* the configuration the running nginx has loaded

callVars == <<applyLock, rpc, seen, rendered>>
dirVars == <<staging, runtime, previous, nginx>>
applyVars == <<callVars, dirVars>>
allVars == <<storeVars, applyVars>>

Dir(c) == [revision |-> 0, config |-> c]

ApplyInit ==
    /\ applyLock = None
    /\ rpc = [r \in Reconcilers |-> "idle"]
    /\ seen = [r \in Reconcilers |-> InitialState]
    /\ rendered = [r \in Reconcilers |-> NoHash]
    /\ staging = Dir(Absent) /\ runtime = Dir(Absent) /\ previous = Dir(Absent)
    /\ nginx = Dir(Absent)

Goto(r, from, to) == rpc[r] = from /\ rpc' = [rpc EXCEPT ![r] = to]

Return(r) ==
    /\ rpc' = [rpc EXCEPT ![r] = "idle"]
    /\ applyLock' = None

(* A step of the closure: no lock is taken, the store is not touched. *)
Quiet == UNCHANGED <<storeVars, applyLock, seen>>

StatusOnly == UNCHANGED <<phase, state, stateLock, reqVars, ioVars, diskVars>>

-------------------------------------------------------------------------------
(* Fault: reconcile_once does not take apply_lock. *)
BeginUnlocked(r) ==
    /\ phase = "up"
    /\ Goto(r, "idle", "read")
    /\ applyLock' = r
    /\ UNCHANGED <<storeVars, seen, rendered, dirVars>>

(* Fault: the state is read before apply_lock is taken. *)
BeginReadsFirst(r) ==
    /\ phase = "up"
    /\ \/ /\ rpc[r] = "idle" /\ stateLock = None
          /\ seen' = [seen EXCEPT ![r] = state]
          /\ UNCHANGED <<rpc, applyLock>>
       \/ /\ applyLock = None
          /\ Goto(r, "idle", "check")
          /\ applyLock' = r
          /\ UNCHANGED seen
    /\ UNCHANGED <<storeVars, rendered, dirVars>>

Begin(r) ==
    /\ phase = "up"
    /\ applyLock = None
    /\ Goto(r, "idle", "read")
    /\ applyLock' = r
    /\ UNCHANGED <<storeVars, seen, rendered, dirVars>>

ReadState(r) ==
    /\ stateLock = None
    /\ Goto(r, "read", "check")
    /\ seen' = [seen EXCEPT ![r] = state]
    /\ UNCHANGED <<storeVars, applyLock, rendered, dirVars>>

(* Fault: only revisions are compared, not the files. *)
CheckRevisions(r) ==
    /\ rpc[r] = "check"
    /\ IF status.observed >= seen[r].revision
         THEN Return(r)
         ELSE Goto(r, "check", "applying") /\ UNCHANGED applyLock
    /\ UNCHANGED <<storeVars, seen, rendered, dirVars>>

(* get_status, hash_directory(runtime), and the decision to skip. *)
Check(r) ==
    LET actual == HashDirectory("runtime", runtime)
        drift == actual = NoHash \/ status.hash # actual
    IN  /\ rpc[r] = "check"
        /\ IF status.observed >= seen[r].revision /\ ~drift
             THEN Return(r)
             ELSE /\ Goto(r, "check", IF drift THEN "outOfSync" ELSE "applying")
                  /\ UNCHANGED applyLock
        /\ UNCHANGED <<storeVars, seen, rendered, dirVars>>

(* hash_directory fails to read a file: the error returns before any mark. *)
CheckError(r) ==
    /\ rpc[r] = "check"
    /\ runtime.config # Absent
    /\ Return(r)
    /\ UNCHANGED <<storeVars, seen, rendered, dirVars>>

NoteDrift(r) ==
    /\ Goto(r, "outOfSync", "applying")
    /\ MarkOutOfSync
    /\ StatusOnly /\ UNCHANGED <<applyLock, seen, rendered, dirVars>>

NoteApplying(r) ==
    /\ Goto(r, "applying", "render")
    /\ MarkApplying
    /\ StatusOnly /\ UNCHANGED <<applyLock, seen, rendered, dirVars>>

(* render_to_staging removes the old staging directory, then fills a new one. *)
RenderBegin(r) ==
    /\ Goto(r, "render", "rendering")
    /\ staging' = Dir(Partial)
    /\ Quiet /\ UNCHANGED <<rendered, runtime, previous, nginx>>

RenderEnd(r) ==
    /\ Goto(r, "rendering", "validate")
    /\ staging' = [revision |-> seen[r].revision, config |-> Render[seen[r].doc]]
    /\ rendered' = [rendered EXCEPT ![r] = HashDirectory("staging", staging')]
    /\ Quiet /\ UNCHANGED <<runtime, previous, nginx>>

Validate(r) ==
    /\ DryRun \/ staging.config \notin Rejected
    /\ Goto(r, "validate", "backup")
    /\ Quiet /\ UNCHANGED <<rendered, dirVars>>

ValidateRefuses(r) ==
    /\ ~DryRun /\ staging.config \in Rejected
    /\ Goto(r, "validate", "failure")
    /\ Quiet /\ UNCHANGED <<rendered, dirVars>>

Backup(r) ==
    /\ Goto(r, "backup", "commit")
    /\ Quiet /\ UNCHANGED <<rendered, dirVars>>

(* commit_staging *)
DropPrevious(r) ==
    /\ Goto(r, "commit", "moveOld")
    /\ previous' = Dir(Absent)
    /\ Quiet /\ UNCHANGED <<rendered, staging, runtime, nginx>>

MoveOld(r) ==
    /\ Goto(r, "moveOld", "moveNew")
    /\ previous' = IF runtime.config = Absent THEN previous ELSE runtime
    /\ runtime' = Dir(Absent)
    /\ Quiet /\ UNCHANGED <<rendered, staging, nginx>>

MoveNew(r) ==
    /\ Goto(r, "moveNew", "dropOld")
    /\ runtime' = staging
    /\ staging' = Dir(Absent)
    /\ Quiet /\ UNCHANGED <<rendered, previous, nginx>>

DropOld(r) ==
    /\ Goto(r, "dropOld", "reload")
    /\ previous' = Dir(Absent)
    /\ Quiet /\ UNCHANGED <<rendered, staging, runtime, nginx>>

(* Fault: the result of the reload command is ignored. *)
ReloadUnchecked(r) ==
    /\ Goto(r, "reload", "success")
    /\ nginx' \in {nginx, runtime}
    /\ Quiet /\ UNCHANGED <<rendered, staging, runtime, previous>>

Reload(r) ==
    /\ Goto(r, "reload", "success")
    /\ nginx' = IF DryRun THEN nginx ELSE runtime
    /\ Quiet /\ UNCHANGED <<rendered, staging, runtime, previous>>

(* The second rename fails; the old directory is moved back if that works. *)
MoveNewFails(r) ==
    /\ Goto(r, "moveNew", "failure")
    /\ \/ /\ previous.config # Absent
          /\ runtime' = previous
          /\ previous' = Dir(Absent)
       \/ UNCHANGED <<runtime, previous>>
    /\ Quiet /\ UNCHANGED <<rendered, staging, nginx>>

(* Any other step of the closure returns an error and ends it.  A removal     *)
(* that fails may have removed part of the directory, or, in render, all of   *)
(* it before the new one is created.                                          *)
StepFails(r) ==
    /\ rpc[r] \in {"render", "rendering", "backup", "commit", "moveOld", "dropOld"}
                  \cup IF DryRun THEN {} ELSE {"validate", "reload"}
    /\ rpc' = [rpc EXCEPT ![r] = "failure"]
    /\ staging' \in {staging} \cup IF rpc[r] = "render" /\ staging.config # Absent
                                     THEN {Dir(Partial), Dir(Absent)} ELSE {}
    /\ previous' \in {previous} \cup IF /\ rpc[r] \in {"commit", "dropOld"}
                                        /\ previous.config # Absent
                                       THEN {Dir(Partial)} ELSE {}
    /\ Quiet /\ UNCHANGED <<rendered, runtime, nginx>>

(* Fault: the revision after the applied one is marked. *)
SucceedNext(r) ==
    /\ rpc[r] = "success"
    /\ MarkInSync(seen[r].revision + 1, rendered[r])
    /\ Return(r)
    /\ StatusOnly /\ UNCHANGED <<seen, rendered, dirVars>>

Succeed(r) ==
    /\ rpc[r] = "success"
    /\ MarkInSync(seen[r].revision, rendered[r])
    /\ Return(r)
    /\ StatusOnly /\ UNCHANGED <<seen, rendered, dirVars>>

(* Fault: the error is returned without a mark. *)
DegradeSilently(r) ==
    /\ rpc[r] = "failure"
    /\ Return(r)
    /\ UNCHANGED <<storeVars, seen, rendered, dirVars>>

Degrade(r) ==
    /\ rpc[r] = "failure"
    /\ MarkDegraded
    /\ Return(r)
    /\ StatusOnly /\ UNCHANGED <<seen, rendered, dirVars>>

(* A client that POSTed /v1/reconcile disconnects: its call ends at an await. *)
DropTrigger(r) ==
    /\ r \in Triggers
    /\ rpc[r] \in {"read", "check", "outOfSync", "applying", "success", "failure"}
    /\ Return(r)
    /\ UNCHANGED <<storeVars, seen, rendered, dirVars>>

-------------------------------------------------------------------------------
(* Somebody edits or removes the generated files behind the daemon's back. *)
OperatorEdit ==
    /\ runtime.config # Absent
    /\ runtime' \in {Dir(Foreign), Dir(Absent)}
    /\ UNCHANGED <<storeVars, callVars, staging, previous, nginx>>

(* The process dies; directories and nginx stay as they are. *)
ApplyCrash ==
    /\ applyLock' = None
    /\ rpc' = [r \in Reconcilers |-> "idle"]
    /\ seen' = [r \in Reconcilers |-> InitialState]
    /\ rendered' = [r \in Reconcilers |-> NoHash]
    /\ UNCHANGED dirVars

ReconcileStep(r) ==
    \/ ReadState(r) \/ Check(r) \/ NoteDrift(r) \/ NoteApplying(r)
    \/ RenderBegin(r) \/ RenderEnd(r)
    \/ Validate(r) \/ ValidateRefuses(r) \/ Backup(r)
    \/ DropPrevious(r) \/ MoveOld(r) \/ MoveNew(r) \/ DropOld(r)
    \/ Reload(r) \/ Succeed(r) \/ Degrade(r)

ReconcileFault(r) ==
    CheckError(r) \/ StepFails(r) \/ MoveNewFails(r) \/ DropTrigger(r)
===============================================================================
