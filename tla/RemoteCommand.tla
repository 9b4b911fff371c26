----------------------------- MODULE RemoteCommand -----------------------------
(***************************************************************************)
(* What SSHExecutor's retries promise a caller (execWithRetry, shouldRetry, *)
(* and SSHExecutor.retry.spec.ts, "retries only on SSH_CONNECT_FAILED"): a  *)
(* call sends its command once, and again only when the command itself has  *)
(* come back with the code of a failed connect; it answers ok only for a    *)
(* command that was sent and did not come back so, and it answers once.  An *)
(* error does not tell whether the command was sent.  Several calls may     *)
(* move in one step, because one event of the connection answers everyone   *)
(* who waits for it.                                                        *)
(***************************************************************************)
EXTENDS Naturals

CONSTANT Calls

VARIABLES
    st,     \* where each call is, or how it was answered
    sent,   \* how often its command was sent
    denied  \* how often it came back with the code of a failed connect

vars == <<st, sent, denied>>

Init ==
    /\ st = [c \in Calls |-> "idle"]
    /\ sent = [c \in Calls |-> 0]
    /\ denied = [c \in Calls |-> 0]

Stays(c) == st'[c] = st[c] /\ sent'[c] = sent[c] /\ denied'[c] = denied[c]

Begins(c) ==
    /\ st[c] = "idle"
    /\ st'[c] = "pending"
    /\ sent'[c] \in {sent[c], sent[c] + 1}
    /\ denied'[c] = denied[c]

Sends(c) ==
    /\ st[c] = "pending" /\ st'[c] = "pending"
    /\ sent[c] = denied[c] /\ sent'[c] = sent[c] + 1
    /\ denied'[c] = denied[c]

Denied(c) ==
    /\ st[c] = "pending" /\ st'[c] \in {"pending", "error"}
    /\ sent[c] = denied[c] + 1 /\ denied'[c] = sent[c]
    /\ sent'[c] = sent[c]

Answers(c) ==
    /\ st[c] \in {"idle", "pending"}
    /\ \/ st'[c] = "error"
       \/ st'[c] = "ok" /\ sent[c] = denied[c] + 1
    /\ sent'[c] = sent[c] /\ denied'[c] = denied[c]

Next ==
    /\ st' \in [Calls -> {"idle", "pending", "ok", "error"}]
    /\ sent' \in [Calls -> Nat] /\ denied' \in [Calls -> Nat]
    /\ \A c \in Calls : Stays(c) \/ Begins(c) \/ Sends(c) \/ Denied(c) \/ Answers(c)

Spec == Init /\ [][Next]_vars
===============================================================================
