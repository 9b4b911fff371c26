--------------------------- MODULE RevisionedRegister ---------------------------
(***************************************************************************)
(* What the state store promises its clients: one register, replaced by     *)
(* compare-and-swap on its revision.  A request takes effect at most once,  *)
(* at one instant between its call and its answer; it is answered ok only   *)
(* after it took effect, and conflict, invalid or failed only if it never   *)
(* does.  A client that never hears its answer cannot tell which it was.    *)
(* No step forgets an effect: the register outlives the daemon.             *)
(***************************************************************************)
EXTENDS Naturals

CONSTANTS Requests, Docs, ValidDocs, InitialDoc, MaxRevision

VARIABLES
    reg,  \* the committed state
    op,   \* where each request is, or how it was answered
    ask   \* the revision each request expects, and its draft

vars == <<reg, op, ask>>

Init ==
    /\ reg = [revision |-> 0, doc |-> InitialDoc]
    /\ op = [q \in Requests |-> "idle"]
    /\ ask = [q \in Requests |-> [expected |-> 0, doc |-> InitialDoc]]

Becomes(q, from, to) == op[q] = from /\ op' = [op EXCEPT ![q] = to]

Call(q, e, d) ==
    /\ Becomes(q, "idle", "pending")
    /\ ask' = [ask EXCEPT ![q] = [expected |-> e, doc |-> d]]
    /\ UNCHANGED reg

Swap(q) ==
    /\ Becomes(q, "pending", "applied")
    /\ ask[q].expected = reg.revision
    /\ ask[q].doc \in ValidDocs
    /\ reg' = [revision |-> reg.revision + 1, doc |-> ask[q].doc]
    /\ UNCHANGED ask

Answer(q) ==
    /\ \/ Becomes(q, "applied", "ok")
       \/ Becomes(q, "pending", "conflict") /\ ask[q].expected # reg.revision
       \/ Becomes(q, "pending", "invalid") /\ ask[q].doc \notin ValidDocs
       \/ Becomes(q, "pending", "failed")
       \/ Becomes(q, "idle", "invalid")
    /\ UNCHANGED <<reg, ask>>

(* The daemon dies: no request in flight is ever answered. *)
LoseAnswers ==
    /\ op' = [q \in Requests |->
                 IF op[q] \in {"pending", "applied"} THEN "lost" ELSE op[q]]
    /\ UNCHANGED <<reg, ask>>

Next ==
    \/ \E q \in Requests :
          \/ \E e \in 0..MaxRevision, d \in Docs : Call(q, e, d)
          \/ Swap(q)
          \/ Answer(q)
    \/ LoseAnswers

Spec == Init /\ [][Next]_vars
===============================================================================
