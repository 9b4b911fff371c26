# A TLA+ model of nginx-admin

nginx-admin keeps a *desired state* (servers and their routes), renders nginx
configuration from it and makes nginx serve it. The heart of version 2 is a Rust
daemon, `nginx-admind`; around it are a desktop program that reaches hosts over SSH
and a web interface. This directory models the daemon, the desktop program's SSH, start
and bootstrap, and the route management of the web interface; TLC checks the models on
small instances, and TLAPS proves the safety properties of the runs for every instance.
Paths below are relative to the repository.

## 1. Inventory

### Daemon (`daemon/src`)

| Part | State | Operations | What is hard | What must hold |
|---|---|---|---|---|
| State store, `state_store.rs` | desired state and runtime status, each under an async `RwLock`; `state.json`, `state.json.tmp` | `load_or_init`, `put_state`, `mark_*` | competing puts; crash or failure inside a write; a handler dropped while its file operation runs | puts are a durable compare-and-swap; the file always loads; the status never runs ahead |
| Apply service, `apply.rs` | `apply_lock`; staging, runtime and previous directories; the running nginx | `reconcile_once`: hash, render, test, back up, commit, reload | loop and clients at once; a put during an apply; failure or crash between any two steps; edits from outside | only tested configuration is served; IN_SYNC after an apply is true; revisions never go back; nginx converges |
| HTTP API, `api.rs`, `error.rs` | none | PUT and GET state, GET status, POST reconcile | disconnecting clients | answers agree with what was stored |
| Renderer, `renderer.rs` | staging directory | `render_to_staging`, `hash_directory` | file names made from ids; what is hashed | equal states give equal files and hashes |
| Validation, `state_store.rs` 148-268 | none | `validate_state` | duplicate listens and route paths; names and values that count as sensitive | what is accepted renders without repetition |
| Lifecycle, `main.rs`, `config.rs` | instance lock, socket file | start, serve, loop, shutdown | stale sockets, second instance, crash | one daemon serves the socket |
| Packaging, `packaging/install.sh` | files of the host | install | - | - |

### Desktop (`apps/desktop`)

| Part | State | What is hard | What must hold |
|---|---|---|---|
| SSH connection manager and executor | active client, pending connect, shutdown flag; attempts and timers | shared connect and private abort; shutdown during connect; timeout before the channel opens; retries | only a failed connect is retried; no client outlives shutdown; every call ends |
| Bootstrap IPC | none of its own; one executor shared by all handlers | an install whose later checks fail; overlapping requests | what is reported as installed was installed and checked |
| Secrets and their migration | keychain entries, `.env` file, marker | crash between steps; partial sets of secrets | no secret is lost, and the file is cleaned only after the keychain holds what was read from it |

### Web and shared packages (`apps/web`, `packages`)

| Part | State | What is hard | What must hold |
|---|---|---|---|
| Routes process and executors | projection: routes, pending, error | overlapping commands; late answers; timeouts | the projection ends up equal to the repository |
| Stores, hooks, autosave | route map, logs, server status; `localStorage` | routes captured at render and written after a delay | no update is lost; what is shown is saved |
| Route form | form data, edited location and its index | index used after a delay | a save changes the location that was edited |
| Core domain | none | schema rules, use cases, config generator | what is stored passes the schema again; the preview is what is saved |
| User interface | none of its own | - | - |

The daemon's parts interact in one place each: the API calls the store and the apply
service; the apply service reads state and status and marks the status; the loop calls
the apply service. In this repository only
`install.sh` calls the API (`/healthz`); desktop and web do not use it yet.

`PROJECT.json` lists the components with their status, and the hazards line by line.

## 2. Modules

| Module | Models |
|---|---|
| `RevisionedRegister` | what PUT promises: a register with a revision, changed by compare-and-swap, each call answered consistently |
| `StateStore` | `state_store.rs` behind the PUT handler, down to the file operations |
| `ApplyService` | `reconcile_once` and the directories; extends `StateStore` |
| `Daemon` | store, loop and clients together, with a budget of faults |
| `DaemonLifecycle` | `main.rs`: instance lock, socket file, loop, shutdown of several processes |
| `RemoteCommand` | what the retries of `SSHExecutor` promise: a command is sent again only when it came back itself with the code of a failed connect, and ok means it was sent and did not |
| `SshConnection`, `SshExecutor` | `SSHConnectionManager.ts`, and the calls of `SSHExecutor.ts` over it |
| `Bootstrap` | the bootstrap page, the bridge, the IPC handlers and the host |
| `DesktopStart` | `main.ts` of the desktop program and the migration of its secrets |
| `RouteTable` | what the routes page promises: one operation creates, changes or removes one route |
| `RoutesPage` | the /routes page: list, dialog, delays, store and `localStorage` |
| `LocationForm` | the locations of the route dialog |
| `RouteEditor` | the fields, `RouteSchema`, JSON, `updateRoute` and `generateConfigPreview` |
| `*Proofs` | theorems about the module they are named after; `DaemonProofs` has those about the store, the reconcile calls and the directories, in three parts |
| `MC*` | finite instances; modules without one are run directly |

### StateStore

`state` and `status` are the two locked fields. `stateLock` is the holder of the write
lock. The status lock is not a variable: its holders never wait for anything while they
hold it, so each `mark_*` and the end of `put_state` is one step.

A put goes through the awaits of `put_state`: `waiting` for the lock, `writing`,
`renaming`, `publishing`, then its answer. The revision check, the validation and the
new revision are one step with the taking of the lock, because no await lies between.

The file system is a set of inodes, `tmp` and `file` naming two of them.
`tokio::fs::write` is an open that truncates and a write to the opened inode, both on
the blocking pool; so is the rename. They are steps of `io`, which advance on their own.
That matters for `Disconnect`: hyper drops the handler of a client that went away, its
lock guard with it, and the file operation it had started runs on. It then races with
the next put, which uses the same `state.json.tmp`. `IoWrite` over bytes of another
writer may leave a mixture (`Torn`). A `Crash` ends tasks and blocking threads and keeps
the files. The loss of unsynced data in a power failure is not modelled.

The document in a draft is a model value; `ValidDocs` are those that pass
`validate_state` with a non-empty `updatedBy`. `Mark` is the apply service as the store
sees it: any mark, of a revision the store has reached.

`PatientSpec` leaves `Disconnect` out. Durability and linearizability hold there, and
section 4 shows that they fail with it.

### ApplyService and Daemon

Every call of `reconcile_once`, by the loop or by a client, is a reconciler with a
program counter. `Check` is the decision of lines 32-50. Everything from rendering to
reload is one synchronous closure: a disconnecting client can end a call only at the
awaits around it (`DropTrigger`), a crash anywhere. `commit_staging` is its four file
operations, each of which can fail.

A directory is a record: the configuration it holds and, as history, the revision it was
rendered from. The renderer is a function of the document, and a render a step that can
fail and leave a partial directory. `HashDirectory` keeps the path next to the content, because both copies
of `hash_directory` hash the path of every file. Backup archives are not modelled:
nothing reads them. nginx is external: `nginx -t` refuses the configurations in
`Rejected`, and a reload that returns success has loaded the runtime directory (the real
`nginx -s reload` returns when the signal is sent). `OperatorEdit` changes or removes
the runtime directory.

`Daemon` composes the two and counts faults (`MaxFaults`): failed file operations and
commands, disconnects of reconcile clients, crashes, edits. Clients of PUT are patient
there.

### DaemonLifecycle

One `pc` per process goes through `run`: lock, load, spawn of the loop, preparation of
the path, bind, permissions, serve, cleanup, return. `lock` is the holder of the flock,
`socket` the process whose socket is at the path. `run` drops the lock when it returns,
and the process lives on in `DropRuntime` until a pipeline on the blocking pool ends; an
error instead ends the process at once. When the permissions cannot be set, the error is
returned after the socket file was removed. `orphan` is history: the file at the path was
left by a fault.

### SshConnection and SshExecutor

`SshConnection` is the manager: `activeClient`, `connectPromise`, `shuttingDown` and the
state of each ssh2 client it created. `SshExecutor` has one `pc` per call: waiting for
the connect, in the delay before a retry, waiting for the exec callback, streaming, done.
A JavaScript callback runs to its end, so it is one action with all it settles. `sent`
counts how often a command was sent, `denied` how often it came back with
`SSH_CONNECT_FAILED`, and `chan` is the stream on the host's side, which outlives the call
when nobody closes it. `shouldRetry` looks at the code of an error only, and
`parseRemoteError` takes the code from what the remote command wrote; `RemoteCodes` are
the codes it may write.

ssh2 is external. A connect becomes ready, fails, by its `readyTimeout` at the latest, or
is cut off: a socket that the host closes after its banner and before ready emits `close`
and stops the timer, and `connect` listens to neither (`ClosedBeforeReady`). A connection
may close, with or without an error, and a command may never end.

### Bootstrap

`mounts` numbers the openings of the page. A request remembers the page that made it, its
step in the handler and its answer; the page shows only what is delivered to itself. The
host is a script that is running or not and a unit that is active or not. `ScriptStarts`
need not happen: the command is a pipeline, whose exit code is that of bash.

### DesktopStart

One action per await of `runDesktopSecretsMigration`, then the rest of `whenReady`. A
credential is a variable of `SECRET_ENV_KEYS` with where its value is from, `.env` or the
environment of a launch. Each launch may find other variables in its environment, with a
value or blank; both hide the line of `.env` (`Launch`), and `outside` is history: it has
happened. `Collected` has what `collectEnvSecrets` reads, one private key at most. `given`
is what `.env` held before the first launch, `shadowed` the keys that have a further line,
which is never read. A crash ends the process and keeps the keychain and the file; inside
`writeFileSync` it may leave the file empty.

It is assumed that every launch finds the same `.env`, that nobody edits it and that a
private key file is not empty. The instance leaves `SSH_PASSPHRASE` out, which is treated as
the password is.

### RoutesPage, LocationForm, RouteEditor

The page's handlers wait three seconds before they act. `jobs` are the running timers
with what each captured at the click; equal delays make them fire in order. After a
timer only microtasks separate the write, the reload and the toast, so `Fire` is one
action. In `RoutesPage` a route is its settings and its flag, and `done` is what the last
step reported to the user.

`LocationForm` follows the lists of locations, with a tag that tells which location is
which. The dialog is open for a new or a saved route, and is submitted or saved in any
case; a submit has its values from the click, the other button reads the form when its
timer fires. `Revisit` leaves the page and comes back: the form is a new one, the dialogs
are as they were left, and a timer that is not `live` works on a form nobody sees.

`RouteEditor` is sequential and follows the fields: a field can be missing, undefined,
empty or one of a few values, as far as schema, JSON, the spread in `updateRoute` and the
generator tell them apart. One value of `gzip_types` reads like a credential and is stored
as its redaction. It is the only free text of the form: the schema refuses such a text
elsewhere, and the location dialog redacts while the user types.

In this repository `storeIntegrations.ts` is imported by the end-to-end harness only, not
by the application; that is why `RoutesPage` has no autosave.

Definitions with a comment that begins with `Fault:` are variants of the definition that
follows them, as a mistake in the code would make it. They show that the properties can
fail and are used by no specification.

## 3. Passing runs

| Run | Instance | Shows |
|---|---|---|
| `store` | 2 puts whose clients may disconnect, If-Match 0-2, an invalid document, 1 hash | `StatusNotAhead`; `EveryPutEnds`: no dropped or failed put keeps the lock |
| `daemon_safe` | 2 patient puts, loop, 1 reconcile client, 1 fault; documents nginx accepts, nginx refuses, `validate_state` refuses | the store: `RestartPossible`, `AckedSurvives`, `MemoryIsCommitted`, `RevisionsLinear`, refinement of `RevisionedRegister`; the daemon: `NeverGoesBack`, `ImplementsStore` (the daemon only does to its store what `PatientSpec` allows), `DaemonTypeOK` |
| `daemon_live` | 1 put, loop, 1 reconcile client, 2 faults, 3 documents of which nginx refuses 1 | `OnlyTestedIsServed`, `InSyncAfterApply`, `Converges`, `RefusalIsReported` |
| `lifecycle` | 3 processes, 5 starts, 3 faults | `ServedIsReachable`, `StopsEnd` |
| `ssh` | 2 calls with signals, one of which retries, 3 clients, 2 shutdowns, commands that may report `SSH_CONNECT_FAILED` | `OneConnection`, `SentOverLiveClient`, refinement of `RemoteCommand`, `EveryCallEnds`, `ShutdownEnds` |
| `bootstrap` | 1 installation, 2 checks, 2 openings of the page, 1 stop of the unit | `BusyIsTrue`, `ShownIsLast`, `SuccessWasActive`, `TypedIsKept`, `ButtonsComeBack` |
| `desktop_start` | 4 keys, each with none, one or two lines in `.env`, 2 of them in the environment of some launches, 3 faults, any number of launches | `NothingLost`, `MarkerMeansDone`, `MigrationCompletes` |
| `page_overlap` | 1 id, 2 timers, both save buttons, an impatient user | `SpinnersAreTrue`, `SpinnersEnd`, `TypeOK` (only routes that pass the schema are stored) |
| `page_careful` | 4 ids, 3 timers, 2 settings, 1 refused write, a user who waits | `ListIsStored`, `SuccessIsStored`, refinement of `RouteTable` |
| `locations` | 2 routes and a new one, 2 paths, up to 3 locations, 3 timers at once | `PointsAtChosen`, `OnlyChosenChanges` |
| `editor` | 5 changes of fields between saves, 2 locations | `StoredParsesAgain`, `PreviewIsDefined`, `SavedIsPreviewed` |

**Bounds.** Two puts can compete for one revision or follow each other; the proofs of
section 5 cover any number. `MaxRevision` bounds only what If-Match may name; revisions
themselves are bounded by the number of puts, as every request is sent once. In the daemon
runs one put gives two revisions, enough for an older and a newer configuration; two give a
put between any two steps of an apply of another. Two faults allow a failure in the recovery
from another. Requests are interchangeable, so they are a symmetry set in `daemon_safe`;
runs with liveness use none. The daemon runs have `DryRun = FALSE`.

Elsewhere: two SSH calls can share a connect, one can abort it and the other retry; three
clients let each call open one and the retry another. Two openings of the bootstrap page
let an answer come to the wrong one, and two checks let it come while the same button is
waiting for another. Two timers of the routes page overlap, and three let one more operation
see what they left; `page_overlap` has one route and one setting, as only when a write
happens, not what it writes, matters to the spinners. Three processes let one leave a socket, one
start over it and one be refused by the lock. Five changes of fields are what it takes to
turn ssl on with both certificates, change the port and turn it off again.

**Deadlock** is checked, except where the system may stop: in the store runs with
disconnecting clients, where a torn `state.json` really keeps the daemon from starting;
in `lifecycle`, `ssh`, `bootstrap` and `locations`, where all starts, calls or clicks of the
instance are used up.

**Fairness.** Weak fairness for each file operation, each put and each running
reconcile: tokio polls ready tasks and its blocking pool runs every job. Weak fairness
for the start: systemd restarts a failed daemon (`Restart=on-failure`); one that was
stopped on purpose is assumed to be started again. Strong fairness for the loop's turn on
`apply_lock`: tokio's `Mutex` is FIFO, so a client that takes it again and again cannot
keep the loop out. None for clients or faults. Faults are finitely many in
`daemon_live`; with endless failures nothing could converge.

In `ssh`: timers fire, and a connect becomes ready, fails or is cut off, by ssh2's
`readyTimeout` at the latest; commands, connections, callers and aborts have no fairness.
`EveryCallEnds` excepts a call that waits for a connect that was cut off. In `bootstrap`:
each command of the handler is answered and IPC delivers. The first is `EveryCallEnds` of
the executor, so `ButtonsComeBack` assumes that no handshake of the instance was cut off;
after one the buttons of that page would stay disabled. In `desktop_start`: a start goes
on, and the user quits and launches again; faults are finitely many. In `page_overlap`:
timers fire; the user has no fairness. In `lifecycle`: a running process goes on and its pipeline ends.

## 4. Where code and documentation disagree

The run `dropped_put_loses_acked` checks one sentence of the documentation, and TLC finds a
behaviour of the code against it. The other rows are formulas of the modules that TLC
refutes in the same way; to see the behaviour, list the formula in a copy of the
configuration named in the last column.

| The documentation says | The code does | Formula, instance |
|---|---|---|
| the store is updated linearly by revision (docs/10, line 7) | the orphaned write of a dropped put truncates the temporary file of the next put, which is renamed and answered 200 | `AckedSurvives`, run `dropped_put_loses_acked` |
| GET answers the committed state (docs/10, line 18) | a put dropped after its rename leaves `state.json` one revision ahead of memory | `MemoryIsCommitted`, `MCStateStore_Lost.cfg` |
| a reconcile without change or drift does nothing (docs/10, line 41) | the stored hash covers staging paths, the compared one runtime paths: drift is always found, and every interval re-applies and reloads | `ReconcileIdempotent`, `MCDaemon_Live.cfg` without faults |
| IN_SYNC means the runtime is the rendered current state (docs/10, line 23) | `mark_in_sync` overwrites the PENDING_APPLY and desiredRevision of a put stored during the apply, until the next iteration | `InSyncIsCurrent`, the same |
| the same | `load_or_init` reports IN_SYNC without a look at the files; and nginx may have loaded files that were edited between commit and reload | `InSyncIsServed`, `MCDaemon_Live.cfg` |
| the commit is atomic (docs/01, FR-6) | two renames, with no runtime directory in between | `CommitAtomic`, the same |
| a failed reload is rolled back (docs/11, F-6) | the status becomes DEGRADED and the new files stay | `ReloadFailureRolledBack`, the same with 1 fault |
| concurrent applies are excluded (docs/08, R-5) | the instance lock is free while the old process still applies on its blocking pool | `OneApplies`, `DaemonLifecycle.cfg` |
| an abort while connecting rejects with ABORTED (`SSHExecutor.abort.spec.ts`, line 4) | it also rejects other calls, whose signals were not aborted | `AbortIsPrivate`, `SshExecutor.cfg` |
| an abort ends the stream (same file, line 6) | before the exec callback there is none to close, and the command runs on | `AbortStopsCommand`, `SshExecutor.cfg` |
| `shutdown()` closes the connection (`SSHConnectionManager.spec.ts`, line 9) | a connect in flight survives it | `ShutdownCloses`, `SshExecutor.cfg` |
| no retry for errors other than a failed connect (`SSHExecutor.retry.spec.ts`, line 8, a test to be written) | a remote command that reports `SSH_CONNECT_FAILED` is sent again | `SentAtMostOnce`, `SshExecutor.cfg` |
| the SSH module has timeouts (docs/02, line 67) | `connect` has none of its own: a call that waits for a handshake that was cut off hangs until the caller of `connect` aborts | `EveryCallIsAnswered`, `SshExecutor.cfg` |
| hosts are initialised by `install.sh` (docs/02, line 53) | a failed download goes unnoticed when the unit is already active | `InstalledByScript`, `Bootstrap.cfg` |
| credentials are migrated (`migrateDesktopSecrets.spec.ts`, line 45) | a migration that is repeated, in an environment that sets or blanks a variable, drops the fields it does not see | `NothingLostAnywhere`, `DesktopStart.cfg` |
| the same | lines that were hidden, by the environment or by an earlier line, are removed too | `OnlyMigratedGoes`, the same |
| the env file is cleaned (same line) | not when nothing was collected: the marker is set and hidden lines stay for good | `MarkedFileIsClean`, the same |
| the other lines of `.env` stay (same file, line 80) | the file is rewritten in place | `SettingsKept`, `DesktopStart.cfg` |
| routes are created, edited, deleted (`apps/web/README.md`, line 11) | a save writes a map captured before its delay | `ImplementsRouteTable`, `RoutesPage_Careful.cfg` with `Patient = FALSE` |
| the same | "save anyway" stores values read after the delay | `SuccessIsStored`, the same with `Buttons = {"force"}` |
| the same | a dialog that outlived its page reports an edit of no route as a success | `SuccessIsStored`, `RoutesPage_Careful.cfg` with `Patient = FALSE` |
| the same | an index captured for one route is used for another, or for the empty form of a page that was left with its dialog open | `PointsAtChosen`, `OnlyChosenChanges`, `LocationForm.cfg` with `Stays = FALSE` |
| /routes is a CRUD interface (same file, line 96) | one click on "save anyway" saves twice | `ImplementsRouteTable`, `RoutesPage_Careful.cfg` with `Buttons = {"force"}` |
| the same | a write that the browser refused is reported as a success | `SuccessIsStored` without its hypothesis `faults = 0`, `RoutesPage_Careful.cfg` |
| the preview is a valid server block (`config.generator.spec.ts`, line 7) | `root` without an argument | `DirectivesHaveArguments`, `RouteEditor.cfg` |
| all the UI generates can be seen (`apps/web/README.md`, line 119) | the target of a route is not in the preview | `PreviewShowsProxy`, `RouteEditor.cfg` |
| the same | a text that reads like a credential is stored redacted, not as it was previewed | `StoredAsShown`, `RouteEditor.cfg` |
| fields are checked by schemas (same file, line 23) | the check of the port throws while rendering | `EditorStaysUp`, `RouteEditor.cfg` |

The first two rows rest on hyper dropping a handler when its connection closes, and on
blocking jobs not being cancelled with the future that awaits them. Neither library is
part of this repository; both are modelled from their use.

The third has a useful side: because drift is always found, the loop applies
again after every failure, and `Converges` depends on that. With `HashDirectory` changed
to leave the path out (tried on a copy, with the configuration of `daemon_live`), TLC
refutes `Converges`: nginx loads files edited from outside during an apply; the next
reconcile restores the files but fails before its reload; from then on the files match
the stored hash, the revision is already observed, and every reconcile is skipped while
nginx serves the edit and the status stays DEGRADED. A repair of the hash therefore also
has to retry after a failed apply.

For drift that recurs, docs/11 (line 18, F-7) asks to block the automatic reconcile and
to wait for an operator. The code has no such block; the loop goes on, and `Converges` is
about that loop. With the block it would hold only until drift recurs.

## 5. Proofs

Every theorem holds for all values of the constants that satisfy the module's named
ASSUME. Eight modules hold proofs.

| Module | Theorems |
|---|---|
| `DaemonProofs`, part 1 | about the store alone: `Spec => []TypeOK`, `Spec => []StatusNotAhead`; for `PatientSpec`: `RestartPossible`, `AckedSurvives`, `MemoryIsCommitted`, `RevisionsLinear`, `ImplementsRegister` |
| part 2 | for `DaemonSpec`: `DaemonTypeOK`, `ImplementsStore` and, as a consequence, all that part 1 proves for `PatientSpec` |
| part 3 | for `DaemonSpec`: `OnlyTestedIsServed`, `InSyncAfterApply`, `NeverGoesBack` |
| `DaemonLifecycleProofs` | `TypeOK`, `ServedIsReachable`, `BindFindsFreePath`, `LeavesNoSocket` |
| `SshExecutorProofs` | `SshTypeOK`, `OneConnection`, `NoForgottenWaiter`, `SentOverLiveClient`, `ImplementsRemoteCommand`; if `SSH_CONNECT_FAILED` is not in `RemoteCodes`: `SentAtMostOnce` |
| `BootstrapProofs` | `TypeOK`, `BusyIsTrue`, `ShownIsLast`, `SuccessWasActive`, `TypedIsKept` |
| `DesktopStartProofs` | `TypeOK`, `EnvironmentIsClear`, `WindowHasHandlers`, `SecretsAreStored`, `StoredBeforeCleaned`, `NothingLost`, `MarkerMeansDone` |
| `RoutesPageProofs` | for every user: `TypeOK`, `ListIsStored`, `SpinnersAreTrue`; for a careful user: `ImplementsRouteTable` and, without refused writes, `SuccessIsStored` |
| `LocationFormProofs` | if `Stays`: `PointsAtChosen`, `OnlyChosenChanges` |
| `RouteEditorProofs` | `StoredParsesAgain`, `PreviewIsDefined`, `SavedIsPreviewed` |

The hypotheses are where the disagreements of section 4 begin: a client that disconnects,
a remote command that reports a failed connect, an impatient user, the second button, a
refused write, or a user who leaves the dialog while a timer runs, or the page while a
timer runs or the dialog is open (`Stays`).
Some properties name their exceptions themselves. `InSyncAfterApply` excepts the time
before the first apply of a process, files changed between commit and reload, and dry
runs. `NothingLost` and `MarkerMeansDone` except histories in which a launch found one of
the variables in its environment; `StoredBeforeCleaned` holds there too. `SavedIsPreviewed`
excepts a redacted text.

`NoForgottenWaiter`, `BindFindsFreePath`, `LeavesNoSocket`, `EnvironmentIsClear`,
`WindowHasHandlers`, `SecretsAreStored`, `StoredBeforeCleaned` and the type invariants are
steps of these proofs that say something on their own; they are proved and no run lists
them, since TLC could add nothing to the proof.

### The store

`StatusNotAhead` needs `LockInv`: a put past its revision check holds the lock, and its
draft is the successor of the state. This survives disconnects, since a dropped put
gives up its lock and its program counter together.

Durability needs `DurableInv`, which adds: only the put that holds the lock, or the
start, has a file operation under way (`WriterInv`, from which `OneWriter` follows); what
the writer has done is what is on the disk, and `tmp` and `file` are different inodes
(`FileInv`); an inode is fresh until its put opens it (`FreshInv`); memory lags the file
only between rename and store (`MemoryInv`); and no acknowledged put is ahead of the file
(`AckedInv`). `WriterInv` is exactly what `Disconnect` breaks, which is why these
theorems are about `PatientSpec`. Each part has one lemma per kind of step.

For the refinement, `CommitStep` shows that the committed state changes only by the
rename of the lock holder, from the state it compared to the successor; `AskInv` ties
what is written to what was asked. The rename is the linearization point.

### The other invariants

- **Daemon.** `DaemonInv` is the store's `DurableInv` and `StatusNotAhead`, with two parts
  of its own. `CallInv`: a call that is not idle holds `apply_lock`, so it is the only
  one, and the state it read is not newer than the store's. `DirInv`: what staging,
  runtime and previous hold at each point of that call, and that what nginx serves was
  tested. The marks a call makes are of a revision the store has reached, which makes
  each step of the daemon a step of `PatientSpec` or a stutter. `DaemonKeepsStorePromises`
  draws the consequence: durability, linear revisions and the register hold of the
  whole daemon.
- **Lifecycle.** `PathInv`: whoever is between lock and return is the holder of the lock,
  and what is at the path follows from where the holder is.
- **SSH.** `ConnInv`: the active client is the only ready one, the awaited client the only
  connecting one unless its socket has closed, and there are never both. With the part on
  calls it gives that a call that is connecting or in a delay has had every command it sent
  come back with the code of a failed connect, so the next attempt repeats nothing else.
- **Bootstrap.** The open page awaits at most one request of each kind, its last one, and
  is busy meanwhile; what it shows was delivered to it and is not rewritten; an
  installation past `is-active` saw the unit active. A page whose context is still asked
  for shows that it is loading (`AskInv`), so only that answer can replace what was typed.
- **Desktop start.** `StartInv` ties what is set up to the step of the start.
  `MigrationInv`: unless `outside`, `.env` is cleaned only when all of it that was in effect
  is in the keychain, and a launch that migrates has in its environment exactly what `.env`
  holds. The second part is what a variable from elsewhere breaks.
- **Routes page.** `ListIsStored` is inductive because every write ends with a load. For
  the careful user, who waits for every timer and does not force, `CarefulInv` says that
  there is at most one timer and that it works on the map that is stored. For every user,
  `PageInv` adds to the types that the ids left suffice for the timers that create, and
  `Spinners` adds to `SpinnersAreTrue` that at most one removal of the open page is under
  way, since otherwise the first to end would enable the list under the second, and that a
  page that was left has no spinner and no live timer.
- **Location dialog.** `LocInv`: the buttons admit one save and one removal at a time, a
  save waits under its dialog or behind a route dialog that a save has closed, and while a removal waits nothing else holds an index. So
  the one operation that moves locations never moves one that an index was taken for. The
  constants are assumed to be told apart: no path, number or location is `None`.
- **Route editor.** `EditorInv`: a stored route passes the schema and is normal, with no
  undefined field, no text to redact, no certificate without ssl, and no types or validity that the schema
  would clear. The last part is about the spread in `updateRoute`: a form without a target
  edits a route without one, or the old target would come back.

TLC evaluates all of these on the instances of the runs and finds no violation (for
`CarefulInv`, whose last conjunct says "one timer" with an unbounded quantifier, with
`Len(jobs) = 1` in its place).

**Only model-checked:** liveness and `ENABLED`, which the prover does not handle
(`EveryPutEnds`, `Converges`, `RefusalIsReported`, `StopsEnd`, `EveryCallEnds`,
`ShutdownEnds`, `ButtonsComeBack`, `MigrationCompletes`, `SpinnersEnd`); and the store with
disconnecting clients beyond `StatusNotAhead`, where the other properties are false.

## 6. Not modelled

- The files and text of the renderer, the string checks of `validate_state`,
  `security/secrets.ts` and the patterns of `RouteSchema`: conditions on text, which TLC
  could only enumerate character by character. Where they decide what a program does next
  they are one class of values (`Render`, `ValidDocs`, `Bad`, `ProxyParses`, `Redacted`).
- `RoutesProcess.ts` and its executors: composed by the hook `useRoutesProcess`, which no
  page calls; the /routes page uses the store and the repository directly.
- `storeIntegrations.ts` with the parts of the stores that only it drives, and the route
  form store: imported by the end-to-end harness and tests only.
- `logsSlice.ts`, `serverSlice.ts`, `useCases/logs.ts`, `useCases/server.ts`: no page uses
  them, each action is an assignment, and nothing writes the entry logs are loaded from.
- `BrowserLocalStorageRouteRepository`, `RemoteBridgeRouteRepository`: composed by no
  application.
- The contents and names of backup archives: nothing reads them.
- `packaging/install.sh` beyond starting and ending: package manager and systemd calls.
- The active tab of the route dialog: no property depends on it.
- A second tab over the same `localStorage`. It writes whole maps too, as an impatient user
  of one tab does (section 4).
- Markup and styles; `apps/web/src/design.tsx` is commented out.

## 7. Running

    tlc -workers 2 -config MCStateStore.cfg MCStateStore
    tlapm SshExecutorProofs.tla
