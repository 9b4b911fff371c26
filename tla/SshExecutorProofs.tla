--------------------------- MODULE SshExecutorProofs ---------------------------
(***************************************************************************)
(* Proofs about SshExecutor, for any number of calls, clients, retries and  *)
(* shutdowns: the connection is shared and single, nobody waits for a       *)
(* connect that is over, and the executor repeats no command but one that   *)
(* came back with the code of a failed connect (RemoteCommand).             *)
(***************************************************************************)
EXTENDS SshExecutor, TLAPS

(* What the manager's fields say of its clients: the active client is the   *)
(* only connected one, the awaited one the only one connecting (unless its  *)
(* socket has closed), and never both exist.                                *)
ConnInv ==
    /\ ConnTypeOK
    /\ active # None => client[active] = "ready" /\ connecting = None
    /\ connecting # None => client[connecting] \in {"connecting", "closed"}
    /\ \A k \in Clients : client[k] = "ready" => active = k
    /\ \A k \in Clients : client[k] = "connecting" => connecting = k

CallTypeOK ==
    /\ pc \in [Calls -> {"idle", "connecting", "delay", "opening", "streaming", "done"}]
    /\ result \in [Calls -> Codes \cup {"none", "ok"}]
    /\ attempt \in [Calls -> 0..MaxRetries + 1]
    /\ conn \in [Calls -> Clients \cup {None}]
    /\ chan \in [Calls -> {"none", "opening", "open", "closed"}]
    /\ sent \in [Calls -> Nat] /\ denied \in [Calls -> Nat]
    /\ aborted \in SUBSET Signalled

(* Where a call is tells how many of its commands came back with the code   *)
(* of a failed connect (all it has sent, or all but the last), and whether  *)
(* another attempt is allowed.                                              *)
CallOK(c) ==
    /\ pc[c] = "idle" => attempt[c] = 0 /\ sent[c] = 0
    /\ pc[c] = "delay" => attempt[c] < MaxRetries + 1
    /\ pc[c] \in {"idle", "connecting", "delay"} => sent[c] = denied[c]
    /\ pc[c] \in {"opening", "streaming"} => sent[c] = denied[c] + 1
    /\ pc[c] = "done" => sent[c] \in {denied[c], denied[c] + 1}
    /\ result[c] = "ok" => pc[c] = "done" /\ sent[c] = denied[c] + 1
    /\ "SSH_CONNECT_FAILED" \notin RemoteCodes => denied[c] = 0

CallInv == CallTypeOK /\ \A c \in Calls : CallOK(c)

SshInv == ConnInv /\ CallInv /\ NoForgottenWaiter

(* The codes with which Fail is used. *)
FailCodes == Codes \ {"ok"}

(* The initial state satisfies the invariant. *)
LEMMA SshInvInit == SshInit => SshInv
  <1> SUFFICES ASSUME SshInit PROVE SshInv
    OBVIOUS
  <1>1. ConnInv
    <2>1. shuttingDown \in BOOLEAN /\ quiet \in BOOLEAN
      BY Zenon DEF SshInit, ConnInit
    <2>2. shutdowns \in 0..MaxShutdowns
      BY SshAssumption DEF SshInit, ConnInit
    <2> QED  BY <2>1, <2>2 DEF SshInit, ConnInit, ConnInv, ConnTypeOK
  <1>2. CallTypeOK
    BY SshAssumption DEF SshInit, CallTypeOK
  <1>3. \A c \in Calls : CallOK(c)
    BY SshAssumption DEF SshInit, CallOK
  <1>4. NoForgottenWaiter
    BY DEF SshInit, NoForgottenWaiter, Waiting
  <1> QED  BY <1>1, <1>2, <1>3, <1>4 DEF SshInv, CallInv

(* Every step of the manager keeps ConnInv. *)
LEMMA ConnectKeeps ==
  ASSUME NEW c \in Calls, ConnInv, active = None, connecting = None, Connect(c)
  PROVE  ConnInv' /\ connecting' # None
  <1>1. PICK k \in Clients :
           /\ client[k] = "new" /\ client' = [client EXCEPT ![k] = "connecting"]
           /\ connecting' = k /\ owner' = c /\ quiet' = FALSE
           /\ UNCHANGED <<active, shuttingDown, closing, shutdowns>>
    BY Zenon DEF Connect
  <1>2. ConnTypeOK'
    BY <1>1, Zenon DEF ConnInv, ConnTypeOK
  <1>3. k # None
    BY SshAssumption
  <1>4. \A j \in Clients : client'[j] = IF j = k THEN "connecting" ELSE client[j]
    BY <1>1 DEF ConnInv, ConnTypeOK
  <1>5. \A j \in Clients : client[j] \notin {"ready", "connecting"}
    BY <1>3, SshAssumption DEF ConnInv
  <1> QED  BY <1>1, <1>2, <1>3, <1>4, <1>5 DEF ConnInv

(* The end of a pending connect, whichever it is, keeps ConnInv. *)
LEMMA SettleKeeps ==
  ASSUME NEW outcome \in {"ready", "ended", "closed"}, ConnInv, SettleConnect(outcome)
  PROVE  ConnInv'
  BY SshAssumption DEF ConnInv, ConnTypeOK, SettleConnect

(* A step that leaves the connection alone keeps ConnInv. *)
LEMMA KeepKeeps ==
  ASSUME ConnInv, KeepConnection
  PROVE  ConnInv' /\ connecting' = connecting
  BY Zenon DEF ConnInv, ConnTypeOK, KeepConnection

(* So does a step that changes none of its variables. *)
LEMMA UnchangedConnKeeps ==
  ASSUME ConnInv, UNCHANGED connVars
  PROVE  ConnInv' /\ connecting' = connecting
  BY DEF ConnInv, ConnTypeOK, connVars

(* An event of the connection settles no pending connect and keeps ConnInv. *)
LEMMA ConnectionEventKeeps ==
  ASSUME ConnInv, ConnectionEvent
  PROVE  ConnInv' /\ connecting' = connecting
  <1>1. CASE Shutdown
    BY <1>1, SshAssumption DEF ConnInv, ConnTypeOK, Shutdown
  <1>2. ASSUME NEW k \in Clients, Closed(k) PROVE ConnInv' /\ connecting' = connecting
    <2>1. /\ client' = [client EXCEPT ![k] = "closed"]
          /\ active' = IF active = k THEN None ELSE active
          /\ client[k] \in {"ready", "failed", "ended"}
          /\ UNCHANGED <<connecting, owner, shutdowns>>
      BY <1>2 DEF Closed
    <2>2. ConnTypeOK'
      <3>1. shuttingDown' \in BOOLEAN /\ quiet' \in BOOLEAN
        BY <1>2 DEF Closed, ConnInv, ConnTypeOK
      <3>2. closing' \in SUBSET Clients
        BY <1>2 DEF Closed, ConnInv, ConnTypeOK
      <3> QED  BY <2>1, <3>1, <3>2 DEF ConnInv, ConnTypeOK
    <2> QED  BY <2>1, <2>2, SshAssumption DEF ConnInv, ConnTypeOK
  <1>3. ASSUME NEW k \in Clients, ShutdownTimer(k) PROVE ConnInv' /\ connecting' = connecting
    BY <1>3, Zenon DEF ConnInv, ConnTypeOK, ShutdownTimer
  <1>4. ASSUME NEW k \in Clients, Errored(k) PROVE ConnInv' /\ connecting' = connecting
    BY <1>4, SshAssumption DEF ConnInv, ConnTypeOK, Errored
  <1>5. CASE ClosedBeforeReady
    BY <1>5, SshAssumption DEF ConnInv, ConnTypeOK, ClosedBeforeReady
  <1> QED  BY <1>1, <1>2, <1>3, <1>4, <1>5 DEF ConnectionEvent

(* A failed attempt is retried only after a failed connect, when nothing is *)
(* under way; the state of the other calls stays.                           *)
LEMMA FailKeeps ==
  ASSUME CallInv, NEW C \in SUBSET Calls, NEW code \in FailCodes, Fail(C, code),
         code = "SSH_CONNECT_FAILED" => \A c \in C : sent[c] = denied[c],
         UNCHANGED <<attempt, conn, sent, denied>>,
         chan' \in [Calls -> {"none", "opening", "open", "closed"}],
         aborted' \in SUBSET Signalled
  PROVE  CallInv' /\ \A c \in Calls : pc'[c] = "connecting" => pc[c] = "connecting" /\ c \notin C
  <1>1. CallTypeOK'
    BY DEF CallInv, CallTypeOK, Fail, FailCodes
  <1>2. ASSUME NEW c \in Calls PROVE CallOK(c)'
    BY SshAssumption DEF CallInv, CallTypeOK, CallOK, Fail, ShouldRetry, FailCodes
  <1>3. ASSUME NEW c \in Calls, pc'[c] = "connecting"
        PROVE  pc[c] = "connecting" /\ c \notin C
    BY <1>3 DEF Fail
  <1> QED  BY <1>1, <1>2, <1>3 DEF CallInv

(* Sending the commands of calls that have none under way. *)
LEMMA ExecKeeps ==
  ASSUME CallInv, NEW C \in SUBSET Calls, NEW k \in Clients, Exec(C, k),
         \A c \in C : pc[c] \in {"idle", "connecting", "delay"},
         attempt' \in [Calls -> 0..MaxRetries + 1],
         \A c \in Calls \ C : attempt'[c] = attempt[c],
         UNCHANGED <<result, denied, aborted>>
  PROVE  CallInv' /\ \A c \in Calls : pc'[c] = "connecting" => pc[c] = "connecting" /\ c \notin C
  <1>1. CallTypeOK'
    BY DEF CallInv, CallTypeOK, CallOK, Exec
  <1>2. ASSUME NEW c \in Calls PROVE CallOK(c)'
    BY DEF CallInv, CallTypeOK, CallOK, Exec
  <1>3. ASSUME NEW c \in Calls, pc'[c] = "connecting"
        PROVE  pc[c] = "connecting" /\ c \notin C
    BY <1>3 DEF Exec
  <1> QED  BY <1>1, <1>2, <1>3 DEF CallInv

-------------------------------------------------------------------------------
(* The steps of the calls. *)

(* An attempt, which gets the client or joins a connect, keeps SshInv. *)
LEMMA AttemptKeeps ==
  ASSUME SshInv, NEW c \in Calls, Attempt(c)
  PROVE  SshInv'
  <1>1. /\ ConnInv /\ CallInv /\ NoForgottenWaiter
        /\ pc[c] \in {"idle", "delay"}
        /\ attempt' = [attempt EXCEPT ![c] = @ + 1]
        /\ aborted' = aborted /\ denied' = denied
        /\ GetClient(c)
    BY DEF SshInv, Attempt
  <1>2. attempt' \in [Calls -> 0..MaxRetries + 1]
    BY <1>1, SshAssumption DEF CallInv, CallTypeOK, CallOK
  <1>3. ASSUME NEW code \in {"SSH_SHUTTING_DOWN", "ABORTED"}, Fail({c}, code),
               UNCHANGED <<conn, chan, sent>>, connecting' = connecting
        PROVE  CallInv' /\ NoForgottenWaiter'
    <2>1. ~ShouldRetry(c, code)
      BY DEF ShouldRetry
    <2>2. /\ pc' = [d \in Calls |-> IF d = c THEN "done" ELSE pc[d]]
          /\ result' = [d \in Calls |-> IF d = c THEN code ELSE result[d]]
      BY <1>3, <2>1 DEF Fail
    <2>3. CallTypeOK'
      BY <1>1, <1>2, <1>3, <2>2 DEF CallInv, CallTypeOK, Codes
    <2>4. \A d \in Calls : CallOK(d)'
      BY <1>1, <1>3, <2>2 DEF CallInv, CallTypeOK, CallOK
    <2>5. NoForgottenWaiter'
      BY <1>1, <1>3, <2>2 DEF NoForgottenWaiter, Waiting
    <2> QED  BY <2>3, <2>4, <2>5 DEF CallInv
  <1>4. CASE shuttingDown /\ Fail({c}, "SSH_SHUTTING_DOWN") /\ UNCHANGED <<connVars, conn, chan, sent>>
    <2>1. ConnInv' /\ connecting' = connecting
      BY <1>1, <1>4, UnchangedConnKeeps
    <2> QED  BY <1>3, <1>4, <2>1 DEF SshInv
  <1>5. CASE Fail({c}, "ABORTED") /\ KeepConnection /\ UNCHANGED <<conn, chan, sent>>
    <2>1. ConnInv' /\ connecting' = connecting
      BY <1>1, <1>5, KeepKeeps
    <2> QED  BY <1>3, <1>5, <2>1 DEF SshInv
  <1>6. CASE active # None /\ Exec({c}, active) /\ KeepConnection /\ UNCHANGED result
    <2>1. ConnInv' /\ connecting' = connecting
      BY <1>1, <1>6, KeepKeeps
    <2>2. active \in Clients
      BY <1>1, <1>6 DEF ConnInv, ConnTypeOK
    <2>3. \A d \in Calls \ {c} : attempt'[d] = attempt[d]
      BY <1>1 DEF CallInv, CallTypeOK
    <2>4. CallInv' /\ \A d \in Calls : pc'[d] = "connecting" => pc[d] = "connecting" /\ d \notin {c}
      BY <1>1, <1>2, <1>6, <2>2, <2>3, ExecKeeps
    <2>5. NoForgottenWaiter'
      BY <1>1, <2>1, <2>4 DEF NoForgottenWaiter, Waiting
    <2> QED  BY <2>1, <2>4, <2>5 DEF SshInv
  <1>7. CASE /\ active = None
             /\ IF NoPendingConnect THEN Connect(c) ELSE KeepConnection
             /\ pc' = [pc EXCEPT ![c] = "connecting"]
             /\ UNCHANGED <<result, conn, chan, sent>>
    <2>1. ConnInv' /\ connecting' # None
      BY <1>1, <1>7, ConnectKeeps, KeepKeeps DEF NoPendingConnect
    <2>2. CallTypeOK'
      BY <1>1, <1>2, <1>7 DEF CallInv, CallTypeOK
    <2>3. \A d \in Calls : CallOK(d)'
      BY <1>1, <1>2, <1>7 DEF CallInv, CallTypeOK, CallOK
    <2> QED  BY <2>1, <2>2, <2>3 DEF SshInv, CallInv, NoForgottenWaiter
  <1> QED  BY <1>1, <1>4, <1>5, <1>6, <1>7 DEF GetClient

(* A connect that succeeds, with all its waiters, keeps SshInv. *)
LEMMA ReadyKeeps ==
  ASSUME SshInv, Ready
  PROVE  SshInv'
  <1>1. ConnInv'
    BY SettleKeeps DEF SshInv, Ready
  <1>2. connecting \in Clients
    BY DEF SshInv, ConnInv, ConnTypeOK, Ready, SettleConnect
  <1>3. CallInv' /\ \A c \in Calls : pc'[c] = "connecting" => pc[c] = "connecting" /\ c \notin Waiting
    <2>1. Waiting \in SUBSET Calls /\ \A c \in Waiting : pc[c] \in {"idle", "connecting", "delay"}
      BY DEF Waiting
    <2>2. attempt' \in [Calls -> 0..MaxRetries + 1] /\ attempt' = attempt
      BY DEF SshInv, CallInv, CallTypeOK, Ready
    <2>3. CallInv /\ Exec(Waiting, connecting) /\ UNCHANGED <<result, denied, aborted>>
      BY DEF SshInv, Ready
    <2> QED  BY <1>2, <2>1, <2>2, <2>3, ExecKeeps
  <1> QED  BY <1>1, <1>3 DEF SshInv, NoForgottenWaiter, Waiting

(* A connect that fails, with all its waiters, keeps SshInv. *)
LEMMA ConnectFailsKeeps ==
  ASSUME SshInv, ConnectFails
  PROVE  SshInv'
  <1>1. ConnInv'
    BY SettleKeeps DEF SshInv, ConnectFails
  <1>2. CallInv' /\ \A c \in Calls : pc'[c] = "connecting" => pc[c] = "connecting" /\ c \notin Waiting
    <2>1. Waiting \in SUBSET Calls /\ \A c \in Waiting : sent[c] = denied[c]
      BY DEF SshInv, CallInv, CallOK, Waiting
    <2>2. "SSH_CONNECT_FAILED" \in FailCodes
      BY DEF FailCodes, Codes
    <2>3. /\ CallInv /\ Fail(Waiting, "SSH_CONNECT_FAILED")
          /\ UNCHANGED <<attempt, conn, sent, denied>>
          /\ chan' \in [Calls -> {"none", "opening", "open", "closed"}]
          /\ aborted' \in SUBSET Signalled
      BY DEF SshInv, CallInv, CallTypeOK, ConnectFails
    <2> QED  BY <2>1, <2>2, <2>3, FailKeeps
  <1> QED  BY <1>1, <1>2 DEF SshInv, NoForgottenWaiter, Waiting

(* An abort in any phase of a call keeps SshInv. *)
LEMMA AbortKeeps ==
  ASSUME SshInv, NEW c \in Calls, Abort(c)
  PROVE  SshInv'
  <1>1. /\ ConnInv /\ CallInv /\ NoForgottenWaiter
        /\ chan' \in [Calls -> {"none", "opening", "open", "closed"}]
        /\ aborted' \in SUBSET Signalled
        /\ UNCHANGED <<attempt, conn, sent, denied>>
    BY DEF SshInv, CallInv, CallTypeOK, Abort
  <1>2. "ABORTED" \in FailCodes
    BY DEF FailCodes, Codes
  <1>3. CASE UNCHANGED <<connVars, pc, result>>
    <2>1. ConnInv' /\ connecting' = connecting
      BY <1>1, <1>3, UnchangedConnKeeps
    <2>2. CallInv'
      BY <1>1, <1>3 DEF CallInv, CallTypeOK, CallOK
    <2> QED  BY <1>1, <1>3, <2>1, <2>2 DEF SshInv, NoForgottenWaiter, Waiting
  <1>4. CASE SettleConnect("ended") /\ Fail(Waiting, "ABORTED")
    <2>1. ConnInv'
      BY <1>1, <1>4, SettleKeeps
    <2>2. Waiting \in SUBSET Calls
      BY DEF Waiting
    <2>3. CallInv' /\ \A d \in Calls : pc'[d] = "connecting" => pc[d] = "connecting" /\ d \notin Waiting
      BY <1>1, <1>2, <1>4, <2>2, FailKeeps
    <2> QED  BY <2>1, <2>3 DEF SshInv, NoForgottenWaiter, Waiting
  <1>5. CASE Fail({c}, "ABORTED") /\ UNCHANGED connVars
    <2>1. ConnInv' /\ connecting' = connecting
      BY <1>1, <1>5, UnchangedConnKeeps
    <2>2. CallInv' /\ \A d \in Calls : pc'[d] = "connecting" => pc[d] = "connecting" /\ d \notin {c}
      BY <1>1, <1>2, <1>5, FailKeeps
    <2> QED  BY <1>1, <2>1, <2>2 DEF SshInv, NoForgottenWaiter, Waiting
  <1> QED  BY <1>3, <1>4, <1>5 DEF Abort

(* The callback of client.exec keeps SshInv. *)
LEMMA ExecCallbackKeeps ==
  ASSUME SshInv, NEW c \in Calls, ExecCallback(c)
  PROVE  SshInv'
  <1>1. /\ ConnInv' /\ connecting' = connecting
        /\ ConnInv /\ CallInv /\ NoForgottenWaiter
        /\ chan' \in [Calls -> {"none", "opening", "open", "closed"}]
        /\ aborted' \in SUBSET Signalled
        /\ UNCHANGED <<attempt, conn, sent, denied, aborted>>
    BY UnchangedConnKeeps DEF SshInv, CallInv, CallTypeOK, ExecCallback
  <1>2. CASE /\ pc' = [pc EXCEPT ![c] = IF @ = "opening" THEN "streaming" ELSE @]
             /\ UNCHANGED result
    <2>1. CallTypeOK'
      BY <1>1, <1>2 DEF CallInv, CallTypeOK
    <2>2. \A d \in Calls : CallOK(d)'
      BY <1>1, <1>2 DEF CallInv, CallTypeOK, CallOK
    <2>3. NoForgottenWaiter'
      BY <1>1, <1>2 DEF CallInv, CallTypeOK, NoForgottenWaiter, Waiting
    <2> QED  BY <1>1, <2>1, <2>2, <2>3 DEF SshInv, CallInv
  <1>3. CASE Fail({c} \cap {d \in Calls : pc[d] = "opening"}, "SSH_EXEC_OPEN_FAILED")
    <2>1. "SSH_EXEC_OPEN_FAILED" \in FailCodes
      BY DEF FailCodes, Codes
    <2>2. {c} \cap {d \in Calls : pc[d] = "opening"} \in SUBSET Calls
      OBVIOUS
    <2>3. CallInv' /\ \A d \in Calls : pc'[d] = "connecting" => pc[d] = "connecting"
      BY <1>1, <1>3, <2>1, <2>2, FailKeeps
    <2> QED  BY <1>1, <2>3 DEF SshInv, NoForgottenWaiter, Waiting
  <1> QED  BY <1>2, <1>3 DEF ExecCallback

(* The end of a command keeps SshInv. *)
LEMMA StreamCloseKeeps ==
  ASSUME SshInv, NEW c \in Calls, StreamClose(c)
  PROVE  SshInv'
  <1>1. /\ ConnInv' /\ connecting' = connecting
        /\ ConnInv /\ CallInv /\ NoForgottenWaiter
        /\ chan' \in [Calls -> {"none", "opening", "open", "closed"}]
        /\ aborted' \in SUBSET Signalled
        /\ UNCHANGED <<attempt, conn, sent, aborted>>
    BY UnchangedConnKeeps DEF SshInv, CallInv, CallTypeOK, StreamClose
  <1>2. CASE /\ pc[c] = "streaming"
             /\ pc' = [pc EXCEPT ![c] = "done"]
             /\ \E r \in {"ok", "UNEXPECTED_OUTPUT"} : result' = [result EXCEPT ![c] = r]
             /\ UNCHANGED denied
    <2>1. CallTypeOK'
      BY <1>1, <1>2 DEF CallInv, CallTypeOK, Codes
    <2>2. \A d \in Calls : CallOK(d)'
      BY <1>1, <1>2 DEF CallInv, CallTypeOK, CallOK
    <2>3. NoForgottenWaiter'
      BY <1>1, <1>2 DEF CallInv, CallTypeOK, NoForgottenWaiter, Waiting
    <2> QED  BY <1>1, <2>1, <2>2, <2>3 DEF SshInv, CallInv
  <1>3. ASSUME NEW code \in {"SSH_NON_ZERO"} \cup RemoteCodes, Fail({c}, code),
               code # "SSH_CONNECT_FAILED", UNCHANGED denied
        PROVE  SshInv'
    <2>1. code \in FailCodes
      BY SshAssumption DEF FailCodes, Codes
    <2>2. CallInv' /\ \A d \in Calls : pc'[d] = "connecting" => pc[d] = "connecting"
      BY <1>1, <1>3, <2>1, FailKeeps
    <2> QED  BY <1>1, <2>2 DEF SshInv, NoForgottenWaiter, Waiting
  <1>4. CASE /\ pc[c] = "streaming" /\ "SSH_CONNECT_FAILED" \in RemoteCodes
             /\ Fail({c}, "SSH_CONNECT_FAILED")
             /\ denied' = [denied EXCEPT ![c] = @ + 1]
    <2>1. CallTypeOK'
      BY <1>1, <1>4 DEF CallInv, CallTypeOK, Fail, Codes
    <2>2. sent'[c] = denied'[c] /\ pc'[c] \in {"delay", "done"} /\ result'[c] # "ok"
      BY <1>1, <1>4 DEF CallInv, CallTypeOK, CallOK, Fail
    <2>3. pc'[c] = "delay" => attempt'[c] < MaxRetries + 1
      BY <1>1, <1>4 DEF CallInv, CallTypeOK, Fail, ShouldRetry
    <2>4. CallOK(c)'
      BY <1>4, <2>1, <2>2, <2>3 DEF CallOK, CallTypeOK
    <2>5. ASSUME NEW d \in Calls \ {c} PROVE CallOK(d)'
      BY <1>1, <1>4 DEF CallInv, CallTypeOK, CallOK, Fail
    <2>6. NoForgottenWaiter'
      BY <1>1, <1>4 DEF NoForgottenWaiter, Waiting, Fail
    <2> QED  BY <1>1, <2>1, <2>4, <2>5, <2>6 DEF SshInv, CallInv
  <1>5. CASE UNCHANGED <<pc, result, denied>>
    BY <1>1, <1>5 DEF SshInv, CallInv, CallTypeOK, CallOK, NoForgottenWaiter, Waiting
  <1>6. ASSUME NEW code \in {"SSH_NON_ZERO"} \cup RemoteCodes, pc[c] = "streaming", Fail({c}, code),
               denied' = [denied EXCEPT ![c] = IF code = "SSH_CONNECT_FAILED" THEN @ + 1 ELSE @]
        PROVE  SshInv'
    <2>1. CASE code = "SSH_CONNECT_FAILED"
      BY <1>4, <1>6, <2>1
    <2>2. CASE code # "SSH_CONNECT_FAILED"
      <3>1. denied' = denied
        BY <1>1, <1>6, <2>2 DEF CallInv, CallTypeOK
      <3> QED  BY <1>3, <1>6, <2>2, <3>1
    <2> QED  BY <2>1, <2>2
  <1> QED  BY <1>2, <1>5, <1>6 DEF StreamClose

(* The timer of a command keeps SshInv. *)
LEMMA TimeoutKeeps ==
  ASSUME SshInv, NEW c \in Calls, Timeout(c)
  PROVE  SshInv'
  <1>1. /\ ConnInv' /\ connecting' = connecting
        /\ CallInv /\ NoForgottenWaiter
        /\ chan' \in [Calls -> {"none", "opening", "open", "closed"}]
        /\ aborted' \in SUBSET Signalled
        /\ UNCHANGED <<attempt, conn, sent, denied, aborted>>
        /\ Fail({c}, "SSH_TIMEOUT")
    BY UnchangedConnKeeps DEF SshInv, CallInv, CallTypeOK, Timeout
  <1>2. "SSH_TIMEOUT" \in FailCodes
    BY DEF FailCodes, Codes
  <1>3. CallInv' /\ \A d \in Calls : pc'[d] = "connecting" => pc[d] = "connecting"
    BY <1>1, <1>2, FailKeeps
  <1> QED  BY <1>1, <1>3 DEF SshInv, NoForgottenWaiter, Waiting

(* Every step keeps the invariant. *)
LEMMA SshInvStep == SshInv /\ [SshNext]_sshVars => SshInv'
  <1> SUFFICES ASSUME SshInv, [SshNext]_sshVars PROVE SshInv'
    OBVIOUS
  <1>1. ASSUME NEW c \in Calls,
               Attempt(c) \/ Abort(c) \/ ExecCallback(c) \/ StreamClose(c) \/ Timeout(c)
        PROVE  SshInv'
    BY <1>1, AttemptKeeps, AbortKeeps, ExecCallbackKeeps, StreamCloseKeeps, TimeoutKeeps
  <1>2. CASE Ready \/ ConnectFails
    BY <1>2, ReadyKeeps, ConnectFailsKeeps
  <1>3. ASSUME UNCHANGED callVars, ConnInv' /\ connecting' = connecting
        PROVE  SshInv'
    BY <1>3 DEF callVars, SshInv, CallInv, CallTypeOK, CallOK, NoForgottenWaiter, Waiting
  <1>4. CASE ConnectionEvent /\ UNCHANGED callVars
    BY <1>3, <1>4, ConnectionEventKeeps DEF SshInv
  <1>5. CASE UNCHANGED sshVars
    BY <1>3, <1>5, UnchangedConnKeeps DEF SshInv, sshVars
  <1> QED  BY <1>1, <1>2, <1>4, <1>5 DEF SshNext

(* SshInv holds for any number of calls and clients. *)
LEMMA SshInvAlways == SshSpec => []SshInv
  BY SshInvInit, SshInvStep, PTL DEF SshSpec

-------------------------------------------------------------------------------
(* The executor and the manager keep their types: in particular no call     *)
(* begins more attempts than execWithRetry allows.                          *)
THEOREM SshTypeCorrect == SshSpec => []SshTypeOK
  <1>1. SshInv => SshTypeOK
    BY DEF SshInv, ConnInv, CallInv, CallTypeOK, SshTypeOK
  <1> QED  BY <1>1, SshInvAlways, PTL

(* getClient shares one connection: of all clients ever created at most one *)
(* is connecting or connected.                                              *)
THEOREM ConnectionIsShared == SshSpec => []OneConnection
  <1>1. SshInv => OneConnection
    BY SshAssumption DEF SshInv, ConnInv, ConnTypeOK, OneConnection
  <1> QED  BY <1>1, SshInvAlways, PTL

(* Whoever awaits connectPromise awaits a connect that has not settled: no  *)
(* handler of connect forgets the calls that joined it.                     *)
THEOREM WaitersAreAnswered == SshSpec => []NoForgottenWaiter
  <1>1. SshInv => NoForgottenWaiter
    BY DEF SshInv
  <1> QED  BY <1>1, SshInvAlways, PTL

(* execOnClient only ever sends a command over the connected client.        *)
THEOREM CommandsGoOverLiveClient == SshSpec => SentOverLiveClient
  <1> DEFINE Live == \A c \in Calls : sent'[c] # sent[c] => client'[conn'[c]] = "ready"
  <1>1. SshInv /\ [SshNext]_sshVars => [Live]_sshVars
    <2> SUFFICES ASSUME SshInv, [SshNext]_sshVars PROVE [Live]_sshVars
      OBVIOUS
    <2>1. ASSUME NEW c \in Calls, Attempt(c) PROVE Live
      <3>1. CASE UNCHANGED sent
        BY <3>1
      <3>2. CASE active # None /\ Exec({c}, active) /\ KeepConnection
        BY <3>2 DEF Exec, KeepConnection, SshInv, ConnInv
      <3> QED  BY <2>1, <3>1, <3>2 DEF Attempt, GetClient
    <2>2. CASE Ready
      BY <2>2 DEF Ready, Exec, SettleConnect, SshInv, ConnInv, ConnTypeOK
    <2>3. CASE UNCHANGED sent
      BY <2>3
    <2> QED  BY <2>1, <2>2, <2>3, Zenon DEF SshNext, Abort, ExecCallback, StreamClose, Timeout,
                ConnectFails, callVars, sshVars
  <1> QED  BY <1>1, SshInvAlways, PTL DEF SshSpec, SentOverLiveClient

-------------------------------------------------------------------------------
(* The refinement of RemoteCommand. *)

(* The mapped state of a call, as in Contract. *)
St(c) ==
    IF pc[c] = "idle" THEN "idle"
    ELSE IF pc[c] # "done" THEN "pending"
    ELSE IF result[c] = "ok" THEN "ok" ELSE "error"

(* What a step of the contract may do with one call. *)
CallMoves(c) ==
    \/ St(c)' = St(c) /\ sent'[c] = sent[c] /\ denied'[c] = denied[c]
    \/ /\ St(c) = "idle" /\ St(c)' = "pending" /\ sent'[c] \in {sent[c], sent[c] + 1}
       /\ denied'[c] = denied[c]
    \/ /\ St(c) = "pending" /\ St(c)' = "pending" /\ sent[c] = denied[c]
       /\ sent'[c] = sent[c] + 1 /\ denied'[c] = denied[c]
    \/ /\ St(c) = "pending" /\ St(c)' \in {"pending", "error"} /\ sent[c] = denied[c] + 1
       /\ denied'[c] = sent[c] /\ sent'[c] = sent[c]
    \/ /\ St(c) \in {"idle", "pending"}
       /\ St(c)' = "error" \/ (St(c)' = "ok" /\ sent[c] = denied[c] + 1)
       /\ sent'[c] = sent[c] /\ denied'[c] = denied[c]

(* A failed attempt leaves the call pending or answers it with an error. *)
LEMMA FailMoves ==
  ASSUME CallInv, NEW C \in SUBSET Calls, NEW code \in FailCodes, Fail(C, code),
         \A c \in C : pc[c] \notin {"idle", "done"}, UNCHANGED <<sent, denied>>
  PROVE  \A c \in Calls : CallMoves(c)
  BY DEF CallInv, CallTypeOK, Fail, CallMoves, St, FailCodes

(* An attempt moves each call as RemoteCommand allows. *)
LEMMA AttemptMoves ==
  ASSUME SshInv, NEW c \in Calls, Attempt(c)
  PROVE  \A d \in Calls : CallMoves(d)
  <1>1. pc[c] \in {"idle", "delay"} /\ CallInv /\ GetClient(c) /\ denied' = denied
    BY DEF Attempt, SshInv
  <1>2. ASSUME NEW code \in {"SSH_SHUTTING_DOWN", "ABORTED"}, Fail({c}, code), UNCHANGED sent
        PROVE  \A d \in Calls : CallMoves(d)
    BY <1>1, <1>2 DEF CallInv, CallTypeOK, Fail, ShouldRetry, CallMoves, St
  <1>3. CASE Exec({c}, active) /\ UNCHANGED result
    BY <1>1, <1>3 DEF CallInv, CallTypeOK, CallOK, Exec, CallMoves, St
  <1>4. CASE pc' = [pc EXCEPT ![c] = "connecting"] /\ UNCHANGED <<result, conn, chan, sent>>
    BY <1>1, <1>4 DEF CallInv, CallTypeOK, CallMoves, St
  <1> QED  BY <1>1, <1>2, <1>3, <1>4 DEF GetClient

(* An abort moves each call as RemoteCommand allows. *)
LEMMA AbortMoves ==
  ASSUME SshInv, NEW c \in Calls, Abort(c)
  PROVE  \A d \in Calls : CallMoves(d)
  <1>1. CallInv /\ UNCHANGED <<sent, denied>> /\ pc[c] # "done" /\ "ABORTED" \in FailCodes
    BY DEF Abort, SshInv, FailCodes, Codes
  <1>2. CASE UNCHANGED <<pc, result>>
    BY <1>1, <1>2 DEF CallMoves, St
  <1>3. CASE Fail(Waiting, "ABORTED")
    BY <1>1, <1>3, FailMoves DEF Waiting
  <1>4. CASE pc[c] # "idle" /\ Fail({c}, "ABORTED")
    BY <1>1, <1>4, FailMoves
  <1> QED  BY <1>2, <1>3, <1>4 DEF Abort

(* The events of a command move each call as RemoteCommand allows. *)
LEMMA StreamMoves ==
  ASSUME SshInv, NEW c \in Calls, ExecCallback(c) \/ StreamClose(c) \/ Timeout(c)
  PROVE  \A d \in Calls : CallMoves(d)
  <1>1. CallInv /\ UNCHANGED sent
    BY DEF SshInv, ExecCallback, StreamClose, Timeout
  <1>2. CASE ExecCallback(c)
    <2>1. CASE /\ pc' = [pc EXCEPT ![c] = IF @ = "opening" THEN "streaming" ELSE @]
               /\ UNCHANGED result
      BY <1>1, <1>2, <2>1 DEF ExecCallback, CallInv, CallTypeOK, CallMoves, St
    <2>2. CASE Fail({c} \cap {d \in Calls : pc[d] = "opening"}, "SSH_EXEC_OPEN_FAILED")
      <3>1. "SSH_EXEC_OPEN_FAILED" \in FailCodes
        BY DEF FailCodes, Codes
      <3> QED  BY <1>1, <1>2, <2>2, <3>1, FailMoves DEF ExecCallback
    <2> QED  BY <1>2, <2>1, <2>2 DEF ExecCallback
  <1>3. CASE StreamClose(c)
    <2>1. CASE /\ pc[c] = "streaming"
               /\ pc' = [pc EXCEPT ![c] = "done"]
               /\ \E r \in {"ok", "UNEXPECTED_OUTPUT"} : result' = [result EXCEPT ![c] = r]
               /\ UNCHANGED denied
      BY <1>1, <2>1 DEF CallInv, CallTypeOK, CallOK, CallMoves, St
    <2>2. ASSUME NEW code \in {"SSH_NON_ZERO"} \cup RemoteCodes, pc[c] = "streaming", Fail({c}, code),
                 denied' = [denied EXCEPT ![c] = IF code = "SSH_CONNECT_FAILED" THEN @ + 1 ELSE @]
          PROVE  \A d \in Calls : CallMoves(d)
      <3>1. code \in FailCodes
        BY SshAssumption DEF FailCodes, Codes
      <3>2. CASE code # "SSH_CONNECT_FAILED"
        <4>1. denied' = denied
          BY <1>1, <2>2, <3>2 DEF CallInv, CallTypeOK
        <4> QED  BY <1>1, <2>2, <3>1, <4>1, FailMoves
      <3>3. CASE code = "SSH_CONNECT_FAILED"
        <4>1. CallMoves(c)
          BY <1>1, <2>2, <3>3 DEF CallInv, CallTypeOK, CallOK, Fail, CallMoves, St
        <4>2. ASSUME NEW d \in Calls \ {c} PROVE CallMoves(d)
          BY <1>1, <2>2, <3>3 DEF CallInv, CallTypeOK, Fail, CallMoves, St
        <4> QED  BY <4>1, <4>2
      <3> QED  BY <3>2, <3>3
    <2>3. CASE UNCHANGED <<pc, result, denied>>
      BY <1>1, <2>3, Zenon DEF CallMoves, St
    <2> QED  BY <1>3, <2>1, <2>2, <2>3 DEF StreamClose
  <1>4. CASE Timeout(c)
    <2>1. "SSH_TIMEOUT" \in FailCodes
      BY DEF FailCodes, Codes
    <2> QED  BY <1>1, <1>4, <2>1, FailMoves DEF Timeout
  <1> QED  BY <1>2, <1>3, <1>4

(* Every step moves each call as the contract allows. *)
LEMMA StepMoves ==
  ASSUME SshInv, [SshNext]_sshVars
  PROVE  \A c \in Calls : CallMoves(c)
  <1>1. ASSUME NEW c \in Calls,
               Attempt(c) \/ Abort(c) \/ ExecCallback(c) \/ StreamClose(c) \/ Timeout(c)
        PROVE  \A d \in Calls : CallMoves(d)
    BY <1>1, AttemptMoves, AbortMoves, StreamMoves
  <1>2. CASE Ready
    BY <1>2 DEF Ready, Exec, Waiting, SshInv, CallInv, CallTypeOK, CallOK, CallMoves, St
  <1>3. CASE ConnectFails
    <2>1. "SSH_CONNECT_FAILED" \in FailCodes
      BY DEF FailCodes, Codes
    <2> QED  BY <1>3, <2>1, FailMoves DEF ConnectFails, Waiting, SshInv
  <1>4. CASE UNCHANGED callVars
    BY <1>4 DEF callVars, CallMoves, St
  <1> QED  BY <1>1, <1>2, <1>3, <1>4 DEF SshNext, sshVars

(* A call over the shared connection repeats its command only when the      *)
(* command came back with the code of a failed connect, answers ok only for *)
(* a command that was sent and did not, and answers once.                   *)
THEOREM SshImplementsRemoteCommand == SshSpec => ImplementsRemoteCommand
  <1>1. SshInit => Contract!Init
    BY DEF SshInit, Contract!Init
  <1>2. SshInv /\ SshInv' /\ [SshNext]_sshVars => [Contract!Next]_Contract!vars
    <2> SUFFICES ASSUME SshInv, SshInv', [SshNext]_sshVars PROVE Contract!Next
      OBVIOUS
    <2>1. \A c \in Calls : CallMoves(c)
      BY StepMoves
    <2>2. sent' \in [Calls -> Nat] /\ denied' \in [Calls -> Nat]
      BY DEF SshInv, CallInv, CallTypeOK
    <2>3. ASSUME NEW c \in Calls
          PROVE  Contract!Stays(c) \/ Contract!Begins(c) \/ Contract!Sends(c) \/ Contract!Denied(c) \/ Contract!Answers(c)
      BY <2>1 DEF CallMoves, St, Contract!Stays, Contract!Begins, Contract!Sends, Contract!Denied, Contract!Answers
    <2> QED  BY <2>2, <2>3 DEF Contract!Next
  <1> QED  BY <1>1, <1>2, SshInvAlways, PTL DEF SshSpec, ImplementsRemoteCommand, Contract!Spec

(* Against a host none of whose commands reports SSH_CONNECT_FAILED, a      *)
(* command is sent at most once, however its connects are retried.          *)
THEOREM OtherHostsGetOneCommand ==
  "SSH_CONNECT_FAILED" \notin RemoteCodes => (SshSpec => []SentAtMostOnce)
  <1> SUFFICES ASSUME "SSH_CONNECT_FAILED" \notin RemoteCodes
               PROVE  SshSpec => []SentAtMostOnce
    OBVIOUS
  <1>1. SshInv => SentAtMostOnce
    BY DEF SshInv, CallInv, CallTypeOK, CallOK, SentAtMostOnce
  <1> QED  BY <1>1, SshInvAlways, PTL
===============================================================================
