----------------------------- MODULE SshConnection -----------------------------
(***************************************************************************)
(* SSHConnectionManager (apps/desktop/src/main/ssh/): one ssh2 client that  *)
(* all calls share, opened on demand, dropped when it fails, ended by       *)
(* shutdown.  An action is one event handler of the main process with the   *)
(* promise continuations it runs; the calls that wait for a connection are  *)
(* moved by SshExecutor in the same step.                                   *)
(***************************************************************************)
EXTENDS Naturals, FiniteSets

CONSTANTS
    Calls,         \* calls of the executor, each made once
    Signalled,     \* the calls that pass an AbortSignal
    Clients,       \* ssh2 client objects
    MaxShutdowns,  \* bound on the calls of shutdown
    None           \* null

VARIABLES
    client,        \* what became of each ssh2 client
    active,        \* activeClient
    connecting,    \* the client connectPromise waits for
    owner,         \* the call whose signal that connect listens to
    shuttingDown,  \* the flag
    closing,       \* clients that a shutdown waits for
    shutdowns,     \* calls of shutdown so far
    quiet          \* a shutdown has returned and no client was asked for since

connVars == <<client, active, connecting, owner, shuttingDown, closing,
              shutdowns, quiet>>

(* The fields of SSHConnectionManager keep their types. *)
ConnTypeOK ==
    /\ client \in [Clients -> {"new", "connecting", "ready", "failed", "ended", "closed"}]
    /\ active \in Clients \cup {None}
    /\ connecting \in Clients \cup {None}
    /\ owner \in Calls \cup {None}
    /\ shuttingDown \in BOOLEAN
    /\ closing \in SUBSET Clients
    /\ shutdowns \in 0..MaxShutdowns
    /\ quiet \in BOOLEAN

ConnInit ==
    /\ client = [k \in Clients |-> "new"]
    /\ active = None /\ connecting = None /\ owner = None
    /\ shuttingDown = FALSE
    /\ closing = {}
    /\ shutdowns = 0
    /\ quiet = FALSE

(* getClient starts a connect, on behalf of c. *)
Connect(c) ==
    \E k \in Clients :
       /\ client[k] = "new"
       /\ client' = [client EXCEPT ![k] = "connecting"]
       /\ connecting' = k
       /\ owner' = c
       /\ quiet' = FALSE
       /\ UNCHANGED <<active, shuttingDown, closing, shutdowns>>

(* getClient answers without a new connect. *)
KeepConnection ==
    /\ quiet' = FALSE
    /\ UNCHANGED <<client, active, connecting, owner, shuttingDown, closing, shutdowns>>

(* The connect in flight ends in outcome: onReady or onError, which ssh2    *)
(* calls, or onAbort.                                                       *)
SettleConnect(outcome) ==
    /\ connecting # None
    /\ outcome = "ended" \/ client[connecting] = "connecting"
    /\ client' = [client EXCEPT ![connecting] = IF @ = "closed" THEN @ ELSE outcome]
    /\ active' = IF outcome = "ready" THEN connecting ELSE active
    /\ connecting' = None
    /\ owner' = None
    /\ UNCHANGED <<shuttingDown, closing, shutdowns, quiet>>

(* The socket closes after the server's banner and before ready: ssh2 stops *)
(* its readyTimeout and emits end and close, which connect does not listen  *)
(* to.  connectPromise stays.                                               *)
ClosedBeforeReady ==
    /\ connecting # None /\ client[connecting] = "connecting"
    /\ client' = [client EXCEPT ![connecting] = "closed"]
    /\ UNCHANGED <<active, connecting, owner, shuttingDown, closing, shutdowns, quiet>>

(* The error listener of onReady forgets the active client, and does not    *)
(* end it.                                                                  *)
Errored(k) ==
    /\ client[k] = "ready"
    /\ client' = [client EXCEPT ![k] = "failed"]
    /\ active' = IF active = k THEN None ELSE active
    /\ UNCHANGED <<connecting, owner, shuttingDown, closing, shutdowns, quiet>>

(* The connection of k closes: the close listener of onReady forgets it,    *)
(* and the shutdown that waits for k goes on.                               *)
Closed(k) ==
    /\ client[k] \in {"ready", "failed", "ended"}
    /\ client' = [client EXCEPT ![k] = "closed"]
    /\ active' = IF active = k THEN None ELSE active
    /\ closing' = closing \ {k}
    /\ shuttingDown' = (shuttingDown /\ k \notin closing)
    /\ quiet' = (quiet \/ k \in closing)
    /\ UNCHANGED <<connecting, owner, shutdowns>>

(* Fault: the ended client stays the active one. *)
ShutdownKeepsClient ==
    /\ shutdowns < MaxShutdowns
    /\ shutdowns' = shutdowns + 1
    /\ shuttingDown' = (active # None)
    /\ closing' = closing \cup ({active} \ {None})
    /\ client' = [k \in Clients |-> IF k = active THEN "ended" ELSE client[k]]
    /\ quiet' = (quiet \/ active = None)
    /\ UNCHANGED <<active, connecting, owner>>

(* shutdown: without an active client it returns at once, clearing the flag *)
(* that an earlier shutdown may have set; otherwise it ends the client and  *)
(* waits.                                                                   *)
Shutdown ==
    /\ shutdowns < MaxShutdowns
    /\ shutdowns' = shutdowns + 1
    /\ shuttingDown' = (active # None)
    /\ closing' = closing \cup ({active} \ {None})
    /\ client' = [k \in Clients |-> IF k = active THEN "ended" ELSE client[k]]
    /\ active' = None
    /\ quiet' = (quiet \/ active = None)
    /\ UNCHANGED <<connecting, owner>>

(* Fault: the flag outlives the shutdown that gave up waiting. *)
ShutdownTimerForgets(k) ==
    /\ k \in closing
    /\ closing' = closing \ {k}
    /\ quiet' = TRUE
    /\ UNCHANGED <<client, active, connecting, owner, shuttingDown, shutdowns>>

(* One second after client.end() shutdown stops waiting for the close. *)
ShutdownTimer(k) ==
    /\ k \in closing
    /\ closing' = closing \ {k}
    /\ shuttingDown' = FALSE
    /\ quiet' = TRUE
    /\ UNCHANGED <<client, active, connecting, owner, shutdowns>>
===============================================================================
