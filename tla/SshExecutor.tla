------------------------------ MODULE SshExecutor ------------------------------
(***************************************************************************)
(* SSHExecutor over SSHConnectionManager.  execute and runShell retry a     *)
(* failed connect with a growing delay; checkConnection does not.  A call   *)
(* is sent when client.exec runs; its stream may open, and the command may  *)
(* run on, after the call was answered by a timeout or an abort.            *)
(***************************************************************************)
EXTENDS SshConnection

CONSTANTS
    Retrying,    \* the calls of execute and runShell
    MaxRetries,
    RemoteCodes  \* codes of the errors a command reports as JSON on stderr

VARIABLES
    pc,       \* where each call is
    result,   \* how it was answered
    attempt,  \* attempts of execWithRetry begun
    conn,     \* the client its command was sent over
    chan,     \* its channel
    sent,     \* how often its command was sent
    denied,   \* history: commands of it that ended in SSH_CONNECT_FAILED
    aborted   \* calls whose signal has fired

callVars == <<pc, result, attempt, conn, chan, sent, denied, aborted>>
sshVars == <<connVars, callVars>>

Codes == {"SSH_CONNECT_FAILED", "SSH_SHUTTING_DOWN", "ABORTED", "SSH_TIMEOUT",
          "SSH_EXEC_OPEN_FAILED", "SSH_NON_ZERO", "UNEXPECTED_OUTPUT"} \cup RemoteCodes

ASSUME SshAssumption ==
    /\ Signalled \subseteq Calls /\ Retrying \subseteq Calls
    /\ None \notin Calls \cup Clients
    /\ MaxRetries \in Nat /\ MaxShutdowns \in Nat
    /\ RemoteCodes \cap {"none", "ok"} = {}

SshInit ==
    /\ ConnInit
    /\ pc = [c \in Calls |-> "idle"]
    /\ result = [c \in Calls |-> "none"]
    /\ attempt = [c \in Calls |-> 0]
    /\ conn = [c \in Calls |-> None]
    /\ chan = [c \in Calls |-> "none"]
    /\ sent = [c \in Calls |-> 0]
    /\ denied = [c \in Calls |-> 0]
    /\ aborted = {}

Waiting == {c \in Calls : pc[c] = "connecting"}

(* Fault: a command that timed out is retried too. *)
ShouldRetryTimeout(c, code) ==
    /\ c \in Retrying
    /\ attempt[c] < MaxRetries + 1
    /\ code \in {"SSH_CONNECT_FAILED", "SSH_TIMEOUT"}

ShouldRetry(c, code) ==
    /\ c \in Retrying
    /\ attempt[c] < MaxRetries + 1
    /\ code = "SSH_CONNECT_FAILED"

(* The attempts of all calls in C fail with code: retry or reject. *)
Fail(C, code) ==
    /\ pc' = [c \in Calls |->
                IF c \notin C THEN pc[c]
                ELSE IF ShouldRetry(c, code) THEN "delay" ELSE "done"]
    /\ result' = [c \in Calls |->
                    IF c \in C /\ ~ShouldRetry(c, code) THEN code ELSE result[c]]

(* execOnClient sends the commands of all calls in C over client k. *)
Exec(C, k) ==
    /\ pc' = [c \in Calls |-> IF c \in C THEN "opening" ELSE pc[c]]
    /\ conn' = [c \in Calls |-> IF c \in C THEN k ELSE conn[c]]
    /\ chan' = [c \in Calls |-> IF c \in C THEN "opening" ELSE chan[c]]
    /\ sent' = [c \in Calls |-> IF c \in C THEN sent[c] + 1 ELSE sent[c]]

(* Fault: a connect in flight is not shared. *)
NoPendingConnectEver == TRUE

NoPendingConnect == connecting = None

(* getClient and, when a client is at hand, execOnClient. *)
GetClient(c) ==
    \/ /\ shuttingDown
       /\ Fail({c}, "SSH_SHUTTING_DOWN")
       /\ UNCHANGED <<connVars, conn, chan, sent>>
    \/ /\ ~shuttingDown /\ c \in aborted
       /\ Fail({c}, "ABORTED")
       /\ KeepConnection
       /\ UNCHANGED <<conn, chan, sent>>
    \/ /\ ~shuttingDown /\ c \notin aborted /\ active # None
       /\ Exec({c}, active)
       /\ KeepConnection
       /\ UNCHANGED result
    \/ /\ ~shuttingDown /\ c \notin aborted /\ active = None
       /\ IF NoPendingConnect THEN Connect(c) ELSE KeepConnection
       /\ pc' = [pc EXCEPT ![c] = "connecting"]
       /\ UNCHANGED <<result, conn, chan, sent>>

(* execute, runShell or checkConnection is called, or the retry delay is over. *)
Attempt(c) ==
    /\ pc[c] \in {"idle", "delay"}
    /\ attempt' = [attempt EXCEPT ![c] = @ + 1]
    /\ GetClient(c)
    /\ UNCHANGED <<denied, aborted>>

Ready ==
    /\ SettleConnect("ready")
    /\ Exec(Waiting, connecting)
    /\ UNCHANGED <<result, attempt, denied, aborted>>

ConnectFails ==
    /\ SettleConnect("closed")
    /\ Fail(Waiting, "SSH_CONNECT_FAILED")
    /\ UNCHANGED <<attempt, conn, chan, sent, denied, aborted>>

(* The signal of c fires.  connect's onAbort ends the client everyone waits *)
(* for; withAbort, delay and execOnClient reject c alone, and the stream is *)
(* closed if there is one.                                                  *)
Abort(c) ==
    /\ c \in Signalled \ aborted
    /\ pc[c] # "done"
    /\ aborted' = aborted \cup {c}
    /\ \/ /\ pc[c] = "idle"
          /\ UNCHANGED <<connVars, pc, result>>
       \/ /\ pc[c] = "connecting" /\ owner = c
          /\ SettleConnect("ended")
          /\ Fail(Waiting, "ABORTED")
       \/ /\ pc[c] # "idle" /\ owner # c
          /\ Fail({c}, "ABORTED")
          /\ UNCHANGED connVars
    /\ chan' = [chan EXCEPT ![c] = IF @ = "open" THEN "closed" ELSE @]
    /\ UNCHANGED <<attempt, conn, sent, denied>>

(* The callback of client.exec: the channel is open, or could not be opened. *)
ExecCallback(c) ==
    /\ chan[c] = "opening"
    /\ \/ /\ client[conn[c]] # "closed"
          /\ chan' = [chan EXCEPT ![c] = "open"]
          /\ pc' = [pc EXCEPT ![c] = IF @ = "opening" THEN "streaming" ELSE @]
          /\ UNCHANGED result
       \/ /\ chan' = [chan EXCEPT ![c] = "closed"]
          /\ Fail({c} \cap {d \in Calls : pc[d] = "opening"}, "SSH_EXEC_OPEN_FAILED")
    /\ UNCHANGED <<connVars, attempt, conn, sent, denied, aborted>>

(* The stream's close event: exit code 0 and the expected output, exit code *)
(* 0 and anything else, or a failure.  parseRemoteError takes over whatever *)
(* code stderr holds, the code of a failed connect too.                     *)
StreamClose(c) ==
    /\ chan[c] = "open"
    /\ chan' = [chan EXCEPT ![c] = "closed"]
    /\ \/ /\ pc[c] = "streaming"
          /\ client[conn[c]] # "closed"
          /\ pc' = [pc EXCEPT ![c] = "done"]
          /\ \E r \in {"ok", "UNEXPECTED_OUTPUT"} : result' = [result EXCEPT ![c] = r]
          /\ UNCHANGED denied
       \/ /\ pc[c] = "streaming"
          /\ \E code \in {"SSH_NON_ZERO"} \cup RemoteCodes :
                /\ Fail({c}, code)
                /\ denied' = [denied EXCEPT ![c] =
                                IF code = "SSH_CONNECT_FAILED" THEN @ + 1 ELSE @]
       \/ /\ pc[c] = "done"
          /\ UNCHANGED <<pc, result, denied>>
    /\ UNCHANGED <<connVars, attempt, conn, sent, aborted>>

(* Fault: the timer is armed by the exec callback. *)
TimeoutOfStream(c) ==
    /\ pc[c] = "streaming"
    /\ chan' = [chan EXCEPT ![c] = IF @ = "open" THEN "closed" ELSE @]
    /\ Fail({c}, "SSH_TIMEOUT")
    /\ UNCHANGED <<connVars, attempt, conn, sent, denied, aborted>>

Timeout(c) ==
    /\ pc[c] \in {"opening", "streaming"}
    /\ chan' = [chan EXCEPT ![c] = IF @ = "open" THEN "closed" ELSE @]
    /\ Fail({c}, "SSH_TIMEOUT")
    /\ UNCHANGED <<connVars, attempt, conn, sent, denied, aborted>>

ConnectionEvent ==
    \/ Shutdown \/ ClosedBeforeReady
    \/ \E k \in Clients : Errored(k) \/ Closed(k) \/ ShutdownTimer(k)

SshNext ==
    \/ \E c \in Calls :
          Attempt(c) \/ Abort(c) \/ ExecCallback(c) \/ StreamClose(c) \/ Timeout(c)
    \/ Ready \/ ConnectFails
    \/ ConnectionEvent /\ UNCHANGED callVars

SshSpec == SshInit /\ [][SshNext]_sshVars

(* Timers fire; a handshake succeeds, fails by ssh2's readyTimeout at the   *)
(* latest, or is cut off.  Nothing obliges a caller to call or to abort, a  *)
(* command to end, or a connection to close.                                *)
SshFairness ==
    /\ WF_sshVars(Ready \/ ConnectFails \/ (ClosedBeforeReady /\ UNCHANGED callVars))
    /\ \A c \in Calls :
          /\ WF_sshVars(pc[c] = "delay" /\ Attempt(c))
          /\ WF_sshVars(Timeout(c))
    /\ \A k \in Clients : WF_sshVars(ShutdownTimer(k) /\ UNCHANGED callVars)

SshFairSpec == SshSpec /\ SshFairness

-------------------------------------------------------------------------------
(* The manager and the calls keep their types; an attempt never counts past *)
(* the retries a call may make (shouldRetry).                               *)
SshTypeOK ==
    /\ ConnTypeOK
    /\ pc \in [Calls -> {"idle", "connecting", "delay", "opening", "streaming", "done"}]
    /\ result \in [Calls -> Codes \cup {"none", "ok"}]
    /\ attempt \in [Calls -> 0..MaxRetries + 1]
    /\ conn \in [Calls -> Clients \cup {None}]
    /\ chan \in [Calls -> {"none", "opening", "open", "closed"}]
    /\ sent \in [Calls -> Nat] /\ denied \in [Calls -> Nat]
    /\ aborted \in SUBSET Signalled

(* The manager opens one connection for all its callers: of all the clients *)
(* it ever created at most one is connecting or connected, however calls,   *)
(* aborts, failures and shutdowns are interleaved (getClient, onReady).  A  *)
(* client that reported an error counts no more, closed or not.             *)
OneConnection ==
    \A j, k \in Clients :
       client[j] \in {"connecting", "ready"} /\ client[k] \in {"connecting", "ready"}
          => j = k

(* Nobody waits for a connect that is over: whoever awaits connectPromise   *)
(* is answered when it settles, whoever started it (getClient:41-48).       *)
NoForgottenWaiter == Waiting # {} => connecting # None

(* A command is only ever sent over a client that is connected and that no  *)
(* shutdown has ended (execOnClient after getClient).                       *)
SentOverLiveClient ==
    [][\A c \in Calls : sent'[c] # sent[c] => client'[conn'[c]] = "ready"]_sshVars

(* A call in the terms of RemoteCommand. *)
Contract == INSTANCE RemoteCommand WITH
    st <- [c \in Calls |->
             IF pc[c] = "idle" THEN "idle"
             ELSE IF pc[c] # "done" THEN "pending"
             ELSE IF result[c] = "ok" THEN "ok" ELSE "error"]

(* execWithRetry never repeats a command whose fate it does not know: after *)
(* a timeout, an abort, a channel that did not open, a lost connection or   *)
(* any other failure nothing is sent again.  Only a command that itself     *)
(* ended in SSH_CONNECT_FAILED is (shouldRetry compares the code alone).    *)
ImplementsRemoteCommand == Contract!Spec

(* "does not retry for non-connection errors" (SSHExecutor.retry.spec.ts):  *)
(* a command is sent at most once.                                          *)
SentAtMostOnce == \A c \in Calls : sent[c] <= 1

(* c waits for a connect whose socket is closed. *)
WaitsInVain(c) ==
    /\ pc[c] = "connecting"
    /\ connecting # None /\ client[connecting] = "closed"

(* A timer answers every call, whatever the host, the connection and the    *)
(* other calls do (execOnClient:179, delay:267, ssh2's readyTimeout), with  *)
(* one exception: connect has no timer of its own, and whoever waits for a  *)
(* handshake that was cut off waits until its starter aborts.               *)
EveryCallEnds == \A c \in Calls : pc[c] # "idle" ~> pc[c] = "done" \/ WaitsInVain(c)

(* The same without the exception. *)
EveryCallIsAnswered == \A c \in Calls : pc[c] # "idle" ~> pc[c] = "done"

(* The manager does not stay closed: a shutdown ends and the flag with it.  *)
ShutdownEnds == shuttingDown ~> ~shuttingDown

(* "aborts while connecting and rejects with RemoteExecutionError code      *)
(* ABORTED": ABORTED is the answer to an abort of the call's own signal.    *)
AbortIsPrivate == \A c \in Calls : result[c] = "ABORTED" => c \in aborted

(* "aborts active command stream": an aborted call leaves no stream open.   *)
AbortStopsCommand == \A c \in Calls : result[c] = "ABORTED" => chan[c] # "open"

(* "exposes shutdown() for graceful connection close": once shutdown has    *)
(* returned, and until a client is asked for again, no connection is open.  *)
ShutdownCloses == quiet => \A k \in Clients : client[k] \notin {"connecting", "ready"}
===============================================================================
