-------------------------------- MODULE Daemon --------------------------------
(***************************************************************************)
(* The running daemon: PUT requests against the store, the reconcile loop   *)
(* and POST /v1/reconcile requests against the apply service, and the       *)
(* faults they meet.  The clients of PUT wait for their answers; what a     *)
(* disconnecting one can do to state.json is in StateStore.                 *)
(***************************************************************************)
EXTENDS ApplyService

CONSTANT MaxFaults  \* bound on crashes, failures, disconnects and edits

ASSUME FaultAssumption == MaxFaults \in Nat

VARIABLE faults     \* how many there were

vars == <<allVars, faults>>

DaemonInit == Init /\ ApplyInit /\ faults = 0

StoreStep ==
    \/ \E a \in Writers : IoStep(a)
    \/ \E q \in Requests : Submit(q) \/ PutStep(q)
    \/ Start

DaemonCrash == Crash /\ ApplyCrash

Fault ==
    \/ (\E a \in Writers : IoError(a)) /\ UNCHANGED applyVars
    \/ \E r \in Reconcilers : ReconcileFault(r)
    \/ DaemonCrash
    \/ OperatorEdit

DaemonNext ==
    \/ StoreStep /\ UNCHANGED <<applyVars, faults>>
    \/ (\E r \in Reconcilers : Begin(r) \/ ReconcileStep(r)) /\ UNCHANGED faults
    \/ faults < MaxFaults /\ Fault /\ faults' = faults + 1

DaemonSpec == DaemonInit /\ [][DaemonNext]_vars

-------------------------------------------------------------------------------
(* The store, the calls of reconcile_once and the directories keep their    *)
(* types.                                                                   *)
DaemonTypeOK ==
    /\ TypeOK
    /\ applyLock \in Reconcilers \cup {None}
    /\ seen \in [Reconcilers -> States]
    /\ rendered \in [Reconcilers -> Hashes \cup {NoHash}]
    /\ {staging, runtime, previous, nginx}
          \subseteq [revision : Nat, config : Contents]
    /\ faults \in 0..MaxFaults

(* Only what nginx -t accepted is ever made the runtime directory or loaded: a *)
(* half-rendered staging directory or a refused configuration is not, whatever *)
(* crash, failure or second reconcile comes between render and reload.         *)
OnlyTestedIsServed ==
    ~DryRun => {runtime.config, nginx.config} \cap (Rejected \cup {Partial}) = {}

(* No apply has succeeded since load_or_init, which reports IN_SYNC without    *)
(* looking at the files.                                                       *)
NothingApplied == status.hash = NoHash

(* nginx has loaded files that somebody edited, or the lack of files somebody  *)
(* removed, between commit_staging and the reload, and they are still so.      *)
LoadedAnEdit == {runtime.config, nginx.config} \subseteq {Foreign, Absent}

(* IN_SYNC is a true report after an apply: nginx has loaded the configuration *)
(* that was hashed, rendered from observedRevision (mark_in_sync comes last,   *)
(* mark_applying before anything changes).  It need not be one in three cases: *)
(* before the first apply of a process, when files were changed from outside   *)
(* between commit and reload, and in a dry run, which loads nothing.           *)
InSyncAfterApply ==
    phase = "up" /\ status.sync = "InSync" =>
       \/ DryRun \/ NothingApplied \/ LoadedAnEdit
       \/ /\ status.hash = HashDirectory("staging", nginx)
          /\ status.observed = nginx.revision

(* Revisions reach nginx in order: neither a slow reconcile nor a restart ever *)
(* takes nginx back to an older revision, nor observedRevision in one process. *)
NeverGoesBack ==
    [][/\ nginx.config \in Configs /\ nginx'.config \in Configs
             => nginx'.revision >= nginx.revision
       /\ phase = "up" /\ phase' = "up" => status'.observed >= status.observed]_vars

(* The daemon is one environment of its store: reconcile marks only revisions  *)
(* that the store has reached, so what holds of every behaviour of StateStore  *)
(* with patient clients holds in the daemon.                                   *)
ImplementsStore == PatientSpec

-------------------------------------------------------------------------------
(* Fairness, besides the store's: a task that runs goes on, and the loop gets  *)
(* its turn on apply_lock, a FIFO mutex, however often clients take it.        *)
DaemonFairness ==
    /\ \A a \in Writers : WF_vars(IoStep(a) /\ UNCHANGED <<applyVars, faults>>)
    /\ \A q \in Requests : WF_vars(PutStep(q) /\ UNCHANGED <<applyVars, faults>>)
    /\ WF_vars(Start /\ UNCHANGED <<applyVars, faults>>)
    /\ \A r \in Reconcilers : WF_vars(ReconcileStep(r) /\ UNCHANGED faults)
    /\ SF_vars(Begin(Loop) /\ UNCHANGED faults)

LiveDaemon == DaemonSpec /\ DaemonFairness

Acceptable == DryRun \/ Render[state.doc] \notin Rejected

(* Once puts and faults stop, nginx ends up serving the last state, and keeps  *)
(* serving it, if nginx -t accepts it (reconcile_loop and drift detection).    *)
Converges ==
    <>[](phase = "up" /\ (~DryRun /\ Acceptable => nginx.config = Render[state.doc]))

(* A last state that nginx -t refuses is reported: the status is Degraded again *)
(* and again, and InSync no more.                                               *)
RefusalIsReported ==
    <>[](phase = "up" /\ ~Acceptable)
        => []<>(status.sync = "Degraded") /\ <>[](status.sync # "InSync")

-------------------------------------------------------------------------------
(* docs/10-consistency-model.md: a reconcile of an unchanged, applied state    *)
(* does nothing when no file was touched.                                      *)
ReconcileIdempotent ==
    [][\A r \in Reconcilers :
          (/\ rpc[r] = "check" /\ rpc'[r] # "check" /\ phase' = "up"
           /\ status.hash # NoHash /\ status.observed = seen[r].revision
           /\ runtime.config = Render[seen[r].doc])
              => rpc'[r] = "idle"]_vars

(* docs/10-consistency-model.md: "IN_SYNC: active runtime hash ==              *)
(* Render(state@revision) hash", here of observedRevision.                     *)
InSyncIsServed ==
    (phase = "up" /\ status.sync = "InSync" /\ ~DryRun)
        => nginx.config \in Configs /\ nginx.revision = status.observed

(* docs/10-consistency-model.md: IN_SYNC means that the runtime is rendered    *)
(* from the current state.                                                     *)
InSyncIsCurrent ==
    (phase = "up" /\ stateLock = None /\ status.sync = "InSync")
        => status.desired = state.revision

(* docs/01-problem-statement.md FR-6: the commit is atomic; the daemon never   *)
(* takes the runtime directory away.                                           *)
CommitAtomic ==
    [][runtime.config \in Configs /\ runtime'.config = Absent => OperatorEdit]_vars

(* docs/11-failure-model.md F-6: after a failed reload the daemon restores the *)
(* last configuration that was applied (no previous directory: commit is over). *)
ReloadFailureRolledBack ==
    (/\ phase = "up" /\ applyLock = None /\ status.sync = "Degraded"
     /\ ~DryRun /\ {runtime.config, nginx.config} \subseteq Configs
     /\ previous.config = Absent)
        => runtime.config = nginx.config
===============================================================================
