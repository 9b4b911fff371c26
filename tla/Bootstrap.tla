------------------------------- MODULE Bootstrap -------------------------------
(***************************************************************************)
(* Installing the daemon on a host: BootstrapPage in the renderer, the      *)
(* preload bridge, and registerBootstrapHandlers in the main process, which *)
(* runs shell commands through SSHExecutor.  The executor is what           *)
(* RemoteCommand promises: a command that was answered ok was run, one that *)
(* was answered with an error may have been, and may still be running.      *)
(*                                                                          *)
(* The page can be left and opened again while the main process works; the  *)
(* flags that disable its buttons live in the page that was left.           *)
(***************************************************************************)
EXTENDS Naturals, FiniteSets

CONSTANTS
    Installs,   \* requests bootstrap:install-daemon
    Checks,     \* requests bootstrap:check-host
    MaxMounts,  \* bound on how often the page is opened
    MaxStops    \* bound on how often the service stops on its own

Requests == Installs \cup Checks
Kinds == {"install", "check"}
KindOf(r) == IF r \in Installs THEN "install" ELSE "check"

ASSUME BootstrapAssumption ==
    /\ Installs \cap Checks = {}
    /\ MaxMounts \in Nat /\ MaxStops \in Nat

VARIABLES
    bridge,     \* "absent", "untrusted" or "trusted": who the page talks to
    mounts,     \* how often the page was opened
    mounted,    \* it is open
    context,    \* what getContext has told the open page
    asking,     \* pages whose getContext is unanswered
    form,       \* where the values of the install form come from
    busy,       \* isInstalling and isChecking
    shown,      \* installResult / installError, checkResult / checkError
    last,       \* the request each result of the open page belongs to
    page,       \* the page each request came from
    step,       \* the command its handler awaits
    answer,     \* what the handler returned
    script,     \* install.sh on the host, for each request
    service,    \* the systemd unit
    sawActive,  \* requests during which the unit has been active
    stops

viewVars == <<mounts, mounted, context, asking, form, busy, shown, last>>
hostVars == <<script, service, sawActive, stops>>
vars == <<bridge, viewVars, page, step, answer, hostVars>>

NoResult == [k \in Kinds |-> "none"]
Idle == [k \in Kinds |-> FALSE]
NoRequest == [k \in Kinds |-> 0]

Steps == {"script", "is-active", "is-enabled", "health", "echo"}
Working == {r \in Requests : step[r] \in Steps}

Init ==
    /\ bridge \in {"absent", "untrusted", "trusted"}
    /\ mounts = 0 /\ mounted = FALSE
    /\ context = "loading" /\ asking = {}
    /\ form = "preset"
    /\ busy = Idle /\ shown = NoResult /\ last = NoRequest
    /\ page = [r \in Requests |-> 0]
    /\ step = [r \in Requests |-> "unused"]
    /\ answer = [r \in Requests |-> "none"]
    /\ script = [r \in Requests |-> "none"]
    /\ service \in {"absent", "active"}
    /\ sawActive = {}
    /\ stops = 0

-------------------------------------------------------------------------------
(* The page. *)

Open ==
    /\ ~mounted
    /\ mounts < MaxMounts
    /\ mounts' = mounts + 1
    /\ mounted' = TRUE
    /\ context' = "loading" /\ asking' = asking \cup {mounts + 1}
    /\ form' = "preset"
    /\ busy' = Idle /\ shown' = NoResult /\ last' = NoRequest
    /\ UNCHANGED <<bridge, page, step, answer, hostVars>>

Leave ==
    /\ mounted
    /\ mounted' = FALSE
    /\ UNCHANGED <<bridge, mounts, context, asking, form, busy, shown, last,
                   page, step, answer, hostVars>>

(* resolveBridge finds the bridge the preload script has exposed. *)
BridgeAvailable == bridge # "absent"

(* The handlers answer no frame but the application's own. *)
IsTrustedSender == bridge = "trusted"

(* The effect's flag "active": the page that asked is still the open one. *)
IsCurrent(p) == mounted /\ p = mounts

(* Fault: the answer is used by whatever page is open. *)
ContextArrivesAnywhere(p) ==
    /\ p \in asking
    /\ asking' = asking \ {p}
    /\ IF mounted
       THEN /\ context' = IF BridgeAvailable /\ IsTrustedSender THEN "ok" ELSE "error"
            /\ form' = IF BridgeAvailable /\ IsTrustedSender THEN "defaults" ELSE form
       ELSE UNCHANGED <<context, form>>
    /\ UNCHANGED <<bridge, mounts, mounted, busy, shown, last, page, step, answer, hostVars>>

(* getContext answers page p: an error without a trusted bridge, otherwise  *)
(* the defaults, which replace whatever was typed meanwhile.                *)
ContextArrives(p) ==
    /\ p \in asking
    /\ asking' = asking \ {p}
    /\ IF IsCurrent(p)
       THEN /\ context' = IF BridgeAvailable /\ IsTrustedSender THEN "ok" ELSE "error"
            /\ form' = IF BridgeAvailable /\ IsTrustedSender THEN "defaults" ELSE form
       ELSE UNCHANGED <<context, form>>
    /\ UNCHANGED <<bridge, mounts, mounted, busy, shown, last, page, step, answer, hostVars>>

Type ==
    /\ mounted
    /\ form' = "typed"
    /\ UNCHANGED <<bridge, mounts, mounted, context, asking, busy, shown, last,
                   page, step, answer, hostVars>>

(* The handler of r starts, or refuses: no bridge, or a sender it does not trust. *)
Handle(r) ==
    IF ~BridgeAvailable \/ ~IsTrustedSender
    THEN /\ step' = [step EXCEPT ![r] = "returned"]
         /\ answer' = [answer EXCEPT ![r] = "error"]
    ELSE /\ step' = [step EXCEPT ![r] = IF r \in Installs THEN "script" ELSE "echo"]
         /\ UNCHANGED answer

(* Fault: the button stays enabled while its request is under way. *)
ClickAgain(r) ==
    LET k == KindOf(r) IN
    /\ mounted
    /\ step[r] = "unused"
    /\ busy' = [busy EXCEPT ![k] = TRUE]
    /\ shown' = [shown EXCEPT ![k] = "none"]
    /\ last' = [last EXCEPT ![k] = r]
    /\ page' = [page EXCEPT ![r] = mounts]
    /\ sawActive' = IF service = "active" THEN sawActive \cup {r} ELSE sawActive
    /\ Handle(r)
    /\ UNCHANGED <<bridge, mounts, mounted, context, asking, form, script, service, stops>>

(* onInstall or onCheckHost. *)
Click(r) ==
    LET k == KindOf(r) IN
    /\ mounted /\ ~busy[k]
    /\ step[r] = "unused"
    /\ busy' = [busy EXCEPT ![k] = TRUE]
    /\ shown' = [shown EXCEPT ![k] = "none"]
    /\ last' = [last EXCEPT ![k] = r]
    /\ page' = [page EXCEPT ![r] = mounts]
    /\ sawActive' = IF service = "active" THEN sawActive \cup {r} ELSE sawActive
    /\ Handle(r)
    /\ UNCHANGED <<bridge, mounts, mounted, context, asking, form, script, service, stops>>

(* Fault: an error leaves the button disabled. *)
DeliverNoFinally(r) ==
    LET k == KindOf(r) IN
    /\ step[r] = "returned"
    /\ step' = [step EXCEPT ![r] = "delivered"]
    /\ IF IsCurrent(page[r])
       THEN /\ busy' = [busy EXCEPT ![k] = answer[r] = "error"]
            /\ shown' = [shown EXCEPT ![k] = answer[r]]
       ELSE UNCHANGED <<busy, shown>>
    /\ UNCHANGED <<bridge, mounts, mounted, context, asking, form, last, page, answer, hostVars>>

(* Fault: results are kept outside the page, which shows whatever arrives. *)
DeliverAnywhere(r) ==
    LET k == KindOf(r) IN
    /\ step[r] = "returned"
    /\ step' = [step EXCEPT ![r] = "delivered"]
    /\ busy' = IF IsCurrent(page[r]) THEN [busy EXCEPT ![k] = FALSE] ELSE busy
    /\ shown' = IF mounted THEN [shown EXCEPT ![k] = answer[r]] ELSE shown
    /\ UNCHANGED <<bridge, mounts, mounted, context, asking, form, last, page, answer, hostVars>>

(* The answer reaches the renderer; the state of a page that was left is gone. *)
Deliver(r) ==
    LET k == KindOf(r) IN
    /\ step[r] = "returned"
    /\ step' = [step EXCEPT ![r] = "delivered"]
    /\ IF IsCurrent(page[r])
       THEN /\ busy' = [busy EXCEPT ![k] = FALSE]
            /\ shown' = [shown EXCEPT ![k] = answer[r]]
       ELSE UNCHANGED <<busy, shown>>
    /\ UNCHANGED <<bridge, mounts, mounted, context, asking, form, last, page, answer, hostVars>>

-------------------------------------------------------------------------------
(* The handlers: one shell command after the other, the first failure ends  *)
(* the request.                                                             *)

AfterStep == [s \in Steps |->
    CASE s = "script" -> "is-active"
      [] s = "is-active" -> "is-enabled"
      [] s = "is-enabled" -> "health"
      [] OTHER -> "returned"]

(* Fault: an inactive unit is only reported, in service.active. *)
ExitsZeroInactive(r) == step[r] = "script" => script[r] # "running"

(* The awaited command may have ended with exit code 0.  The install        *)
(* command is a pipe into bash, whose exit code is bash's: it is 0 also     *)
(* when the download failed and bash read nothing.  systemctl is-active     *)
(* exits 0 for an active unit only; nothing is known of the others.         *)
ExitsZero(r) ==
    /\ step[r] = "script" => script[r] \in {"none", "done"}
    /\ step[r] = "is-active" => service = "active"

CommandOk(r) ==
    /\ r \in Working
    /\ ExitsZero(r)
    /\ step' = [step EXCEPT ![r] = AfterStep[@]]
    /\ answer' = [answer EXCEPT ![r] = IF AfterStep[step[r]] = "returned" THEN "ok" ELSE @]
    /\ UNCHANGED <<bridge, viewVars, page, hostVars>>

(* Not connected, timed out, or another exit code: toIpcError. *)
CommandFails(r) ==
    /\ r \in Working
    /\ step' = [step EXCEPT ![r] = "returned"]
    /\ answer' = [answer EXCEPT ![r] = "error"]
    /\ UNCHANGED <<bridge, viewVars, page, hostVars>>

-------------------------------------------------------------------------------
(* The host. *)

ScriptStarts(r) ==
    /\ step[r] = "script" /\ script[r] = "none"
    /\ script' = [script EXCEPT ![r] = "running"]
    /\ UNCHANGED <<bridge, viewVars, page, step, answer, service, sawActive, stops>>

(* install.sh ends by starting the unit, or fails; it also runs on after    *)
(* its request was answered by a timeout.                                   *)
ScriptEnds(r) ==
    /\ script[r] = "running"
    /\ \/ /\ script' = [script EXCEPT ![r] = "done"]
          /\ service' = "active"
          /\ sawActive' = sawActive \cup Working
       \/ /\ script' = [script EXCEPT ![r] = "failed"]
          /\ UNCHANGED <<service, sawActive>>
    /\ UNCHANGED <<bridge, viewVars, page, step, answer, stops>>

ServiceStops ==
    /\ service = "active"
    /\ stops < MaxStops
    /\ stops' = stops + 1
    /\ service' = "absent"
    /\ UNCHANGED <<bridge, viewVars, page, step, answer, script, sawActive>>

Next ==
    \/ Open \/ Leave \/ Type \/ ServiceStops
    \/ \E p \in 1..MaxMounts : ContextArrives(p)
    \/ \E r \in Requests :
          \/ Click(r) \/ Deliver(r)
          \/ CommandOk(r) \/ CommandFails(r)
          \/ ScriptStarts(r) \/ ScriptEnds(r)

Spec == Init /\ [][Next]_vars

(* Every command is answered, because SshExecutor times it out, and every   *)
(* answer crosses the bridge.                                               *)
Fairness ==
    \A r \in Requests : WF_vars(CommandOk(r) \/ CommandFails(r)) /\ WF_vars(Deliver(r))

FairSpec == Spec /\ Fairness

-------------------------------------------------------------------------------
(* Every variable keeps its type: an answer is a success or an error, also  *)
(* when there is no bridge or the sender is not trusted.                    *)
TypeOK ==
    /\ bridge \in {"absent", "untrusted", "trusted"}
    /\ mounts \in 0..MaxMounts /\ mounted \in BOOLEAN
    /\ context \in {"loading", "ok", "error"} /\ asking \in SUBSET (1..MaxMounts)
    /\ form \in {"preset", "defaults", "typed"}
    /\ busy \in [Kinds -> BOOLEAN]
    /\ shown \in [Kinds -> {"none", "ok", "error"}]
    /\ last \in [Kinds -> Requests \cup {0}]
    /\ page \in [Requests -> 0..MaxMounts]
    /\ step \in [Requests -> Steps \cup {"unused", "returned", "delivered"}]
    /\ answer \in [Requests -> {"none", "ok", "error"}]
    /\ script \in [Requests -> {"none", "running", "done", "failed"}]
    /\ service \in {"absent", "active"}
    /\ sawActive \in SUBSET Requests
    /\ stops \in 0..MaxStops

(* A button of the open page is disabled exactly while a request this page  *)
(* made is unanswered: pages that were left neither block it nor free it    *)
(* (isInstalling, isChecking and the finally blocks).                       *)
BusyIsTrue ==
    mounted =>
       \A k \in Kinds :
          busy[k] <=> \E r \in Requests :
                         /\ KindOf(r) = k /\ page[r] = mounts
                         /\ step[r] \in Steps \cup {"returned"}

(* The result on the page is the answer to the last click on this page, not *)
(* to an earlier one and not to one of a page that was left.                *)
ShownIsLast ==
    mounted =>
       \A k \in Kinds :
          shown[k] # "none" =>
             /\ last[k] \in Requests
             /\ page[last[k]] = mounts
             /\ answer[last[k]] = shown[k]

(* A success on the page means that the unit was active at some moment      *)
(* between the click and the answer (systemctl is-active fails otherwise).  *)
SuccessWasActive ==
    mounted /\ shown["install"] = "ok" => last["install"] \in sawActive

(* What was typed into the form is replaced once at most, by the context    *)
(* the page waits for: a late answer to a page that was left cannot reset   *)
(* it (the effect's flag "active").                                         *)
TypedIsKept ==
    [][form = "typed" /\ form' # "typed" => ~mounted \/ context = "loading"]_vars

(* The page never waits for ever: its buttons are enabled again, unless it  *)
(* is left.                                                                 *)
ButtonsComeBack == \A k \in Kinds : mounted /\ busy[k] ~> ~mounted \/ ~busy[k]

(* "Инициализация хоста выполняется через install.sh": an installation that *)
(* is reported as done has run install.sh to its end.                       *)
InstalledByScript ==
    mounted /\ shown["install"] = "ok" => script[last["install"]] = "done"
===============================================================================
