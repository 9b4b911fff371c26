------------------------------ MODULE StateStore ------------------------------
(***************************************************************************)
(* The daemon's state store (daemon/src/state_store.rs) behind the HTTP     *)
(* handler of PUT /v1/state (api.rs), over the files it writes.             *)
(*                                                                          *)
(* A PUT takes the write lock of the desired state, compares revisions,     *)
(* validates, writes state.json.tmp, renames it over state.json, replaces   *)
(* the state in memory and publishes the new desired revision in the        *)
(* runtime status.  Both file operations run on tokio's blocking pool: a    *)
(* handler whose client disconnects is dropped at an await, while the       *)
(* operation it had started still runs.  The files are therefore names      *)
(* (tmp, file) of inodes, and a write goes to the inode that was opened.    *)
(***************************************************************************)
EXTENDS Naturals

CONSTANTS
    Requests,     \* PUT requests, each sent once
    Docs,         \* what a draft may say, apart from its revision
    ValidDocs,    \* drafts that pass validate_state with a non-empty updatedBy
    InitialDoc,   \* ControlPlaneState::initial()
    MaxRevision,  \* bound on the revisions named in If-Match headers
    Hashes,       \* values of activeConfigHash
    NoHash,       \* activeConfigHash: None
    Boot,         \* load_or_init as a writer of state.json
    None,         \* no inode, no lock holder
    Empty, Torn   \* a file truncated by open, a file only partly written

Writers == Requests \cup {Boot}
States == [revision : Nat, doc : Docs]
InitialState == [revision |-> 0, doc |-> InitialDoc]

ASSUME StoreAssumption ==
    /\ ValidDocs \subseteq Docs
    /\ InitialDoc \in ValidDocs
    /\ MaxRevision \in Nat
    /\ Boot \notin Requests
    /\ None \notin Writers
    /\ NoHash \notin Hashes
    /\ Empty \notin States /\ Torn \notin States /\ Empty # Torn

VARIABLES
    phase,      \* "down", "init" (writing the first state.json) or "up"
    state,      \* the desired state in memory
    status,     \* RuntimeStatus
    stateLock,  \* holder of the write lock of state
    pc,         \* where each request is, or how it was answered
    ask,        \* its If-Match revision and its draft
    data,       \* what each writer is writing
    io,         \* its file operation: step, and the inode it has open
    tmp, file,  \* inodes named state.json.tmp and state.json
    content     \* what each inode holds

memVars == <<phase, state, status, stateLock>>
reqVars == <<pc, ask>>
ioVars == <<data, io>>
diskVars == <<tmp, file, content>>
storeVars == <<memVars, reqVars, ioVars, diskVars>>

InFlight == {"waiting", "writing", "renaming", "publishing"}
Answers == {"ok", "conflict", "invalid", "failed"}
IoSteps == {"idle", "write", "opened", "written", "rename", "renamed", "failed"}
SyncStates == {"InSync", "PendingApply", "Applying", "OutOfSync", "Degraded"}

(* Fault: the loaded revision is reported as still to be applied, off by one. *)
FreshStatusBehind(r) ==
    [desired |-> r, observed |-> r - 1, sync |-> "InSync", hash |-> NoHash]

(* RuntimeStatus as load_or_init builds it for the loaded revision. *)
FreshStatus(r) ==
    [desired |-> r, observed |-> r, sync |-> "InSync", hash |-> NoHash]

IdleIo == [step |-> "idle", fd |-> None]

Init ==
    /\ phase = "down"
    /\ state = InitialState
    /\ status = FreshStatus(0)
    /\ stateLock = None
    /\ pc = [q \in Requests |-> "idle"]
    /\ ask = [q \in Requests |-> [expected |-> 0, doc |-> InitialDoc]]
    /\ data = [a \in Writers |-> InitialState]
    /\ io = [a \in Writers |-> IdleIo]
    /\ tmp = None /\ file = None
    /\ content = [a \in Writers |-> Empty]

-------------------------------------------------------------------------------
(* The blocking pool: tokio::fs::write is open-and-truncate, then write.    *)

Step(a, from, to) ==
    /\ io[a].step = from
    /\ io' = [io EXCEPT ![a].step = to]

(* Fault: state.json itself is opened and truncated. *)
IoOpenInPlace(a) ==
    LET inode == IF file = None THEN a ELSE file IN
    /\ io[a].step = "write"
    /\ io' = [io EXCEPT ![a] = [step |-> "opened", fd |-> inode]]
    /\ file' = inode
    /\ content' = [content EXCEPT ![inode] = Empty]
    /\ UNCHANGED <<memVars, reqVars, data, tmp>>

IoOpen(a) ==
    LET inode == IF tmp = None THEN a ELSE tmp IN
    /\ io[a].step = "write"
    /\ io' = [io EXCEPT ![a] = [step |-> "opened", fd |-> inode]]
    /\ tmp' = inode
    /\ content' = [content EXCEPT ![inode] = Empty]
    /\ UNCHANGED <<memVars, reqVars, data, file>>

(* Writing over bytes that another writer left in the same inode keeps the  *)
(* tail of the longer document.                                             *)
IoWrite(a) ==
    /\ Step(a, "opened", "written")
    /\ \E bytes \in IF content[io[a].fd] = Empty THEN {data[a]}
                                                ELSE {data[a], Torn} :
          content' = [content EXCEPT ![io[a].fd] = bytes]
    /\ UNCHANGED <<memVars, reqVars, data, tmp, file>>

IoRename(a) ==
    /\ tmp # None
    /\ Step(a, "rename", "renamed")
    /\ file' = tmp
    /\ tmp' = None
    /\ UNCHANGED <<memVars, reqVars, data, content>>

(* Any of the three calls may return an error; rename must, without a tmp.  *)
IoError(a) ==
    /\ \/ Step(a, "write", "failed") /\ UNCHANGED content
       \/ /\ Step(a, "opened", "failed")
          /\ \E bytes \in {content[io[a].fd], Torn} :
                content' = [content EXCEPT ![io[a].fd] = bytes]
       \/ Step(a, "rename", "failed") /\ UNCHANGED content
    /\ UNCHANGED <<memVars, reqVars, data, tmp, file>>

-------------------------------------------------------------------------------
(* PUT /v1/state *)

PutSubmit(q, e, d) ==
    /\ phase = "up"
    /\ pc[q] = "idle"
    /\ pc' = [pc EXCEPT ![q] = "waiting"]
    /\ ask' = [ask EXCEPT ![q] = [expected |-> e, doc |-> d]]
    /\ UNCHANGED <<memVars, ioVars, diskVars>>

(* parse_if_match: no If-Match header, or one that is not a revision. *)
PutBadHeader(q) ==
    /\ phase = "up"
    /\ pc[q] = "idle"
    /\ pc' = [pc EXCEPT ![q] = "invalid"]
    /\ UNCHANGED <<memVars, ask, ioVars, diskVars>>

(* Fault: the check runs under a read lock, which puts share. *)
TakesReadLock(q) == phase = "up" /\ pc[q] = "waiting"

TakesStateLock(q) == phase = "up" /\ pc[q] = "waiting" /\ stateLock = None

(* Fault: any revision up to the current one is accepted. *)
RevisionReached(q) == state.revision >= ask[q].expected

RevisionMatches(q) == state.revision = ask[q].expected

PutConflict(q) ==
    /\ TakesStateLock(q)
    /\ ~RevisionMatches(q)
    /\ pc' = [pc EXCEPT ![q] = "conflict"]
    /\ UNCHANGED <<memVars, ask, ioVars, diskVars>>

PutReject(q) ==
    /\ TakesStateLock(q)
    /\ RevisionMatches(q)
    /\ ask[q].doc \notin ValidDocs
    /\ pc' = [pc EXCEPT ![q] = "invalid"]
    /\ UNCHANGED <<memVars, ask, ioVars, diskVars>>

(* Fault: the draft keeps the revision it was based on. *)
SameRevision(q) == [revision |-> state.revision, doc |-> ask[q].doc]

(* draft.revision = state_guard.revision + 1 *)
NextRevision(q) == [revision |-> state.revision + 1, doc |-> ask[q].doc]

(* Fault: memory is replaced before the file is written. *)
PutAcceptEarly(q) ==
    /\ TakesStateLock(q)
    /\ RevisionMatches(q)
    /\ ask[q].doc \in ValidDocs
    /\ stateLock' = q
    /\ pc' = [pc EXCEPT ![q] = "writing"]
    /\ data' = [data EXCEPT ![q] = NextRevision(q)]
    /\ io' = [io EXCEPT ![q].step = "write"]
    /\ state' = NextRevision(q)
    /\ UNCHANGED <<phase, status, ask, diskVars>>

PutAccept(q) ==
    /\ TakesStateLock(q)
    /\ RevisionMatches(q)
    /\ ask[q].doc \in ValidDocs
    /\ stateLock' = q
    /\ pc' = [pc EXCEPT ![q] = "writing"]
    /\ data' = [data EXCEPT ![q] = NextRevision(q)]
    /\ io' = [io EXCEPT ![q].step = "write"]
    /\ UNCHANGED <<phase, state, status, ask, diskVars>>

PutWritten(q) ==
    /\ pc[q] = "writing"
    /\ Step(q, "written", "rename")
    /\ pc' = [pc EXCEPT ![q] = "renaming"]
    /\ UNCHANGED <<memVars, ask, data, diskVars>>

(* *state_guard = draft *)
PutStore(q) ==
    /\ pc[q] = "renaming"
    /\ io[q].step = "renamed"
    /\ io' = [io EXCEPT ![q] = IdleIo]
    /\ state' = data[q]
    /\ pc' = [pc EXCEPT ![q] = "publishing"]
    /\ UNCHANGED <<phase, status, stateLock, ask, data, diskVars>>

PutPublish(q) ==
    /\ pc[q] = "publishing"
    /\ status' = [status EXCEPT !.desired = data[q].revision,
                                !.sync = "PendingApply"]
    /\ stateLock' = None
    /\ pc' = [pc EXCEPT ![q] = "ok"]
    /\ UNCHANGED <<phase, state, ask, ioVars, diskVars>>

PutFail(q) ==
    /\ pc[q] \in {"writing", "renaming"}
    /\ io[q].step = "failed"
    /\ io' = [io EXCEPT ![q] = IdleIo]
    /\ stateLock' = None
    /\ pc' = [pc EXCEPT ![q] = "failed"]
    /\ UNCHANGED <<phase, state, status, ask, data, diskVars>>

(* Fault: the lock outlives the handler that took it. *)
DisconnectLeaks(q) ==
    /\ pc[q] \in InFlight
    /\ pc' = [pc EXCEPT ![q] = "lost"]
    /\ UNCHANGED <<memVars, ask, ioVars, diskVars>>

(* The client closes its connection: hyper drops the handler at its await,  *)
(* the lock guard with it, and leaves its file operation running.           *)
Disconnect(q) ==
    /\ pc[q] \in InFlight
    /\ pc' = [pc EXCEPT ![q] = "lost"]
    /\ stateLock' = IF stateLock = q THEN None ELSE stateLock
    /\ UNCHANGED <<phase, state, status, ask, ioVars, diskVars>>

-------------------------------------------------------------------------------
(* load_or_init, and the end of the process *)

Serve(s) ==
    /\ phase' = "up"
    /\ state' = s
    /\ status' = FreshStatus(s.revision)

(* A state.json that does not parse or validate is a startup error. *)
StartLoad ==
    /\ phase = "down"
    /\ file # None
    /\ content[file] \in States
    /\ content[file].doc \in ValidDocs
    /\ Serve(content[file])
    /\ UNCHANGED <<stateLock, reqVars, ioVars, diskVars>>

StartInit ==
    /\ phase = "down"
    /\ file = None
    /\ phase' = "init"
    /\ data' = [data EXCEPT ![Boot] = InitialState]
    /\ io' = [io EXCEPT ![Boot].step = "write"]
    /\ UNCHANGED <<state, status, stateLock, reqVars, diskVars>>

InitWritten ==
    /\ phase = "init"
    /\ Step(Boot, "written", "rename")
    /\ UNCHANGED <<memVars, reqVars, data, diskVars>>

InitServe ==
    /\ phase = "init"
    /\ io[Boot].step = "renamed"
    /\ io' = [io EXCEPT ![Boot] = IdleIo]
    /\ Serve(data[Boot])
    /\ UNCHANGED <<stateLock, reqVars, data, diskVars>>

InitFail ==
    /\ phase = "init"
    /\ io[Boot].step = "failed"
    /\ io' = [io EXCEPT ![Boot] = IdleIo]
    /\ phase' = "down"
    /\ UNCHANGED <<state, status, stateLock, reqVars, data, diskVars>>

(* The process dies, with its tasks, its locks and its blocking threads. *)
Crash ==
    /\ phase # "down"
    /\ phase' = "down"
    /\ state' = InitialState
    /\ status' = FreshStatus(0)
    /\ stateLock' = None
    /\ pc' = [q \in Requests |-> IF pc[q] \in InFlight THEN "lost" ELSE pc[q]]
    /\ io' = [a \in Writers |-> IdleIo]
    /\ UNCHANGED <<ask, data, diskVars>>

-------------------------------------------------------------------------------
(* What the apply service does to the status. *)

MarkApplying == status' = [status EXCEPT !.sync = "Applying"]

(* Fault: desiredRevision is left as it was. *)
MarkObserved(r, h) ==
    status' = [status EXCEPT !.observed = r, !.sync = "InSync", !.hash = h]

MarkInSync(r, h) ==
    status' = [desired |-> r, observed |-> r, sync |-> "InSync", hash |-> h]

MarkDegraded == status' = [status EXCEPT !.sync = "Degraded"]

MarkOutOfSync == status' = [status EXCEPT !.sync = "OutOfSync"]

(* The apply service as the store sees it: it marks revisions it has read.  *)
Mark ==
    /\ phase = "up"
    /\ \/ MarkApplying
       \/ MarkDegraded
       \/ MarkOutOfSync
       \/ \E r \in 0..state.revision, h \in Hashes : MarkInSync(r, h)
    /\ UNCHANGED <<phase, state, stateLock, reqVars, ioVars, diskVars>>

-------------------------------------------------------------------------------
IoStep(a) == IoOpen(a) \/ IoWrite(a) \/ IoRename(a)

PutStep(q) ==
    \/ PutConflict(q) \/ PutReject(q) \/ PutAccept(q)
    \/ PutWritten(q) \/ PutStore(q) \/ PutPublish(q) \/ PutFail(q)

Submit(q) ==
    \/ PutBadHeader(q)
    \/ \E e \in 0..MaxRevision, d \in Docs : PutSubmit(q, e, d)

Start == StartLoad \/ StartInit \/ InitWritten \/ InitServe \/ InitFail

(* Clients that wait for their answer. *)
PatientNext ==
    \/ \E a \in Writers : IoStep(a) \/ IoError(a)
    \/ \E q \in Requests : Submit(q) \/ PutStep(q)
    \/ Start \/ Crash \/ Mark

Next == PatientNext \/ \E q \in Requests : Disconnect(q)

PatientSpec == Init /\ [][PatientNext]_storeVars
Spec == Init /\ [][Next]_storeVars

-------------------------------------------------------------------------------
(* What the store is relied on for. *)

(* Every variable of the store keeps its type; its status speaks of         *)
(* revisions a state can have.                                              *)
TypeOK ==
    /\ phase \in {"down", "init", "up"}
    /\ state \in States
    /\ status \in [desired : Nat, observed : Nat, sync : SyncStates,
                   hash : Hashes \cup {NoHash}]
    /\ stateLock \in Requests \cup {None}
    /\ pc \in [Requests -> {"idle", "lost"} \cup InFlight \cup Answers]
    /\ ask \in [Requests -> [expected : Nat, doc : Docs]]
    /\ data \in [Writers -> States]
    /\ io \in [Writers -> [step : IoSteps, fd : Writers \cup {None}]]
    /\ tmp \in Writers \cup {None}
    /\ file \in Writers \cup {None}
    /\ content \in [Writers -> States \cup {Empty, Torn}]

(* The status a client polls never runs ahead of the desired state: put_state, *)
(* mark_in_sync and load_or_init keep observedRevision <= desiredRevision <=   *)
(* state.revision, however their critical sections interleave and wherever a   *)
(* put is dropped.                                                             *)
StatusNotAhead ==
    phase = "up" => /\ status.observed <= status.desired
                    /\ status.desired <= state.revision

(* The state a restart would load: state.json, or the initial state. *)
Committed == IF file = None THEN InitialState ELSE content[file]

(* state.json, once written, always parses and validates: load_or_init can     *)
(* restart the daemon whatever write the previous process died in.             *)
RestartPossible ==
    file # None => content[file] \in States /\ content[file].doc \in ValidDocs

(* A put answered 200 is never lost: what a restart would load is that put's   *)
(* state or a later revision (put_state renames the file before it answers).   *)
AckedSurvives ==
    \A q \in Requests : pc[q] = "ok" =>
        /\ Committed \in States
        /\ Committed.revision >= data[q].revision
        /\ Committed.revision = data[q].revision => Committed = data[q]

(* GET /v1/state answers with the committed state: while the state lock is     *)
(* free, memory and state.json are the same.                                   *)
MemoryIsCommitted == phase = "up" /\ stateLock = None => Committed = state

(* state.json moves by one revision at a time and is never replaced within a   *)
(* revision: no write of a put that lost the race reaches the file.            *)
RevisionsLinear ==
    [][Committed' # Committed => Committed'.revision = Committed.revision + 1
      ]_storeVars

(* The store implements the register: the rename in write_state_file is the    *)
(* instant a put takes effect, and no answer contradicts it.                   *)
Op(q) ==
    IF pc[q] = "publishing" \/ (pc[q] = "renaming" /\ io[q].step = "renamed")
      THEN "applied"
      ELSE IF pc[q] \in InFlight THEN "pending" ELSE pc[q]

Register == INSTANCE RevisionedRegister
               WITH reg <- Committed, op <- [q \in Requests |-> Op(q)]

(* put_state implements the compare-and-swap register: see Register. *)
ImplementsRegister == Register!Spec

-------------------------------------------------------------------------------
(* Fairness: tokio polls every ready task, wakes the waiters of its locks in   *)
(* order, and runs every job of the blocking pool; systemd restarts a daemon   *)
(* that failed (Restart=on-failure).                                           *)
Fairness ==
    /\ \A a \in Writers : WF_storeVars(IoStep(a) \/ IoError(a))
    /\ \A q \in Requests : WF_storeVars(PutStep(q))
    /\ WF_storeVars(Start)

LiveSpec == Spec /\ Fairness

(* Every put that reaches the handler is answered, or its client or the daemon *)
(* is gone: a dropped put or a failed write never leaves the state lock held.  *)
EveryPutEnds == \A q \in Requests : pc[q] = "waiting" ~> pc[q] \notin InFlight
===============================================================================
