---------------------------- MODULE BootstrapProofs ----------------------------
(***************************************************************************)
(* What the bootstrap page shows, for any number of requests and openings   *)
(* of the page.                                                             *)
(***************************************************************************)
EXTENDS Bootstrap, TLAPS

Awaited(r) == step[r] \in Steps \cup {"returned"}

(* No request comes from a page that was not opened yet. *)
PagesInv == \A r \in Requests : page[r] <= mounts

(* The open page awaits at most one request of a kind, the last one it      *)
(* made, and its button is disabled meanwhile.                              *)
AwaitInv ==
    mounted =>
       /\ \A r \in Requests : page[r] = mounts /\ Awaited(r) =>
             last[KindOf(r)] = r /\ busy[KindOf(r)]
       /\ \A k \in Kinds : busy[k] =>
             \E r \in Requests : KindOf(r) = k /\ page[r] = mounts /\ Awaited(r)

(* What is shown was delivered, and nothing writes that answer again. *)
ShownInv ==
    mounted =>
       \A k \in Kinds : shown[k] # "none" =>
          /\ last[k] \in Requests
          /\ KindOf(last[k]) = k
          /\ page[last[k]] = mounts
          /\ step[last[k]] = "delivered"
          /\ answer[last[k]] = shown[k]

(* An installation past systemctl is-active has seen the unit active. *)
ActiveInv ==
    /\ \A r \in Working : service = "active" => r \in sawActive
    /\ \A r \in Installs :
          /\ step[r] # "echo"
          /\ step[r] \in {"is-enabled", "health"} \/ answer[r] = "ok" => r \in sawActive

BootstrapInv == TypeOK /\ PagesInv /\ AwaitInv /\ ShownInv /\ ActiveInv

-------------------------------------------------------------------------------
(* AfterStep is the order of the commands of a request. *)
LEMMA AfterStepIs ==
    /\ AfterStep["script"] = "is-active"
    /\ AfterStep["is-active"] = "is-enabled"
    /\ AfterStep["is-enabled"] = "health"
    /\ AfterStep["health"] = "returned"
    /\ AfterStep["echo"] = "returned"
  BY DEF AfterStep, Steps

(* Every request is an installation or a check. *)
LEMMA KindIs == \A r \in Requests : KindOf(r) \in Kinds /\ (KindOf(r) = "install" <=> r \in Installs)
  BY DEF KindOf, Kinds

(* Nothing was clicked yet: the invariant holds. *)
LEMMA InitInv == Init => BootstrapInv
<1> SUFFICES ASSUME Init PROVE BootstrapInv
    OBVIOUS
<1>1. mounts \in 0..MaxMounts /\ stops \in 0..MaxStops
    BY BootstrapAssumption DEF Init
<1>2. TypeOK
    BY <1>1 DEF Init, TypeOK, Idle, NoResult, NoRequest
<1>3. PagesInv
    BY DEF Init, PagesInv
<1>4. AwaitInv /\ ShownInv
    BY DEF Init, AwaitInv, ShownInv
<1>5. ActiveInv
    BY DEF Init, ActiveInv, Working, Steps, Requests
<1> QED BY <1>2, <1>3, <1>4, <1>5 DEF BootstrapInv

(* Every step of the page, the handlers and the host keeps the types. *)
LEMMA TypeStep == TypeOK /\ [Next]_vars => TypeOK'
<1> SUFFICES ASSUME TypeOK, [Next]_vars PROVE TypeOK'
    OBVIOUS
<1> USE BootstrapAssumption
<1>1. CASE Open
    BY <1>1 DEF Open, TypeOK, Idle, NoResult, NoRequest, hostVars
<1>2. CASE Leave
    BY <1>2 DEF Leave, TypeOK, hostVars
<1>3. CASE Type
    BY <1>3 DEF Type, TypeOK, hostVars
<1>4. CASE ServiceStops
    BY <1>4 DEF ServiceStops, TypeOK, viewVars
<1>5. ASSUME NEW p \in 1..MaxMounts, ContextArrives(p) PROVE TypeOK'
    BY <1>5 DEF ContextArrives, TypeOK, hostVars
<1>6. ASSUME NEW r \in Requests, Click(r) PROVE TypeOK'
    <2> DEFINE k == KindOf(r)
    <2>1. k \in Kinds BY KindIs
    <2>2. step' \in [Requests -> Steps \cup {"unused", "returned", "delivered"}]
          /\ answer' \in [Requests -> {"none", "ok", "error"}]
        BY <1>6 DEF Click, Handle, TypeOK, Steps
    <2>3. busy' \in [Kinds -> BOOLEAN] /\ shown' \in [Kinds -> {"none", "ok", "error"}]
          /\ last' \in [Kinds -> Requests \cup {0}]
        BY <1>6, <2>1 DEF Click, TypeOK
    <2> QED BY <1>6, <2>2, <2>3 DEF Click, TypeOK
<1>7. ASSUME NEW r \in Requests, Deliver(r) PROVE TypeOK'
    <2>1. KindOf(r) \in Kinds BY KindIs
    <2>2. busy' \in [Kinds -> BOOLEAN]
        BY <1>7, <2>1 DEF Deliver, TypeOK
    <2>3. shown' \in [Kinds -> {"none", "ok", "error"}]
        BY <1>7, <2>1 DEF Deliver, TypeOK
    <2> QED BY <1>7, <2>2, <2>3 DEF Deliver, TypeOK, hostVars
<1>8. ASSUME NEW r \in Requests, CommandOk(r) PROVE TypeOK'
    BY <1>8, AfterStepIs DEF CommandOk, Working, Steps, TypeOK, viewVars, hostVars
<1>9. ASSUME NEW r \in Requests, CommandFails(r) PROVE TypeOK'
    BY <1>9 DEF CommandFails, TypeOK, viewVars, hostVars
<1>10. ASSUME NEW r \in Requests, ScriptStarts(r) PROVE TypeOK'
    BY <1>10 DEF ScriptStarts, TypeOK, viewVars
<1>11. ASSUME NEW r \in Requests, ScriptEnds(r) PROVE TypeOK'
    BY <1>11 DEF ScriptEnds, Working, TypeOK, viewVars
<1>12. CASE UNCHANGED vars
    BY <1>12 DEF vars, viewVars, hostVars, TypeOK
<1> QED
    BY <1>1, <1>2, <1>3, <1>4, <1>5, <1>6, <1>7, <1>8, <1>9, <1>10, <1>11, <1>12 DEF Next

-------------------------------------------------------------------------------
(* Every step of the page, the handlers and the host keeps the invariant. *)
LEMMA InvStep == BootstrapInv /\ [Next]_vars => BootstrapInv'
<1> SUFFICES ASSUME BootstrapInv, [Next]_vars PROVE BootstrapInv'
    OBVIOUS
<1>t. TypeOK /\ TypeOK'
    BY TypeStep DEF BootstrapInv
<1>i. PagesInv /\ AwaitInv /\ ShownInv /\ ActiveInv
    BY DEF BootstrapInv
<1> SUFFICES PagesInv' /\ AwaitInv' /\ ShownInv' /\ ActiveInv'
    BY <1>t DEF BootstrapInv
<1> USE KindIs
<1>1. CASE Open
    <2>1. PagesInv'
        BY <1>1, <1>t, <1>i DEF Open, PagesInv, TypeOK
    <2>2. \A r \in Requests : page'[r] # mounts'
        BY <1>1, <1>t, <1>i DEF Open, PagesInv, TypeOK
    <2>3. AwaitInv' /\ ShownInv'
        BY <1>1, <2>2 DEF Open, AwaitInv, ShownInv, Idle, NoResult
    <2>4. ActiveInv'
        BY <1>1, <1>i DEF Open, ActiveInv, Working, hostVars
    <2> QED BY <2>1, <2>3, <2>4
<1>2. CASE Leave
    BY <1>2, <1>i DEF Leave, PagesInv, AwaitInv, ShownInv, ActiveInv, Working, hostVars
<1>3. CASE Type
    BY <1>3, <1>i DEF Type, PagesInv, AwaitInv, Awaited, ShownInv, ActiveInv, Working, hostVars
<1>4. CASE ServiceStops
    <2>1. PagesInv' /\ AwaitInv' /\ ShownInv'
        BY <1>4, <1>i DEF ServiceStops, PagesInv, AwaitInv, Awaited, ShownInv, viewVars
    <2>2. ActiveInv'
        BY <1>4, <1>i DEF ServiceStops, ActiveInv
    <2> QED BY <2>1, <2>2
<1>5. ASSUME NEW p \in 1..MaxMounts, ContextArrives(p)
      PROVE PagesInv' /\ AwaitInv' /\ ShownInv' /\ ActiveInv'
    BY <1>5, <1>i DEF ContextArrives, PagesInv, AwaitInv, Awaited, ShownInv, ActiveInv,
                      Working, hostVars
<1>6. ASSUME NEW r \in Requests, Click(r)
      PROVE PagesInv' /\ AwaitInv' /\ ShownInv' /\ ActiveInv'
    <2> DEFINE k == KindOf(r)
    <2>0. k \in Kinds /\ mounted /\ ~busy[k] /\ step[r] = "unused"
          /\ mounted' = mounted /\ mounts' = mounts
        BY <1>6 DEF Click
    <2>1. \A s \in Requests \ {r} :
             page'[s] = page[s] /\ step'[s] = step[s] /\ answer'[s] = answer[s]
        BY <1>6, <1>t DEF Click, Handle, TypeOK
    <2>2. \A l \in Kinds \ {k} : busy'[l] = busy[l] /\ shown'[l] = shown[l] /\ last'[l] = last[l]
        BY <1>6, <1>t DEF Click, TypeOK
    <2>3. page'[r] = mounts
        BY <1>6, <1>t DEF Click, TypeOK
    <2>4. busy'[k] /\ shown'[k] = "none" /\ last'[k] = r
        BY <1>6, <1>t, <2>0 DEF Click, TypeOK
    <2>5. step'[r] \in {"returned", "script", "echo"} /\ (r \in Installs => step'[r] # "echo")
          /\ (answer'[r] = answer[r] \/ answer'[r] = "error")
        BY <1>6, <1>t DEF Click, Handle, TypeOK
    <2>6. PagesInv'
        <3>1. \A s \in Requests : page'[s] <= mounts
            BY <1>i, <1>t, <2>1, <2>3 DEF PagesInv, TypeOK
        <3> QED BY <3>1, <2>0 DEF PagesInv
    <2>7. \A s \in Requests : KindOf(s) = k => ~(page[s] = mounts /\ Awaited(s))
        BY <1>i, <2>0 DEF AwaitInv
    <2>8. Awaited(r)'
        BY <2>5 DEF Awaited, Steps
    <2>9. AwaitInv'
        <3>1. ASSUME NEW s \in Requests, page'[s] = mounts', Awaited(s)'
              PROVE last'[KindOf(s)] = s /\ busy'[KindOf(s)]
            <4>1. CASE s = r BY <4>1, <2>4
            <4>2. CASE s # r
                <5>1. page[s] = mounts /\ Awaited(s)
                    BY <3>1, <4>2, <2>0, <2>1 DEF Awaited
                <5>2. KindOf(s) # k BY <5>1, <2>7
                <5> QED BY <5>1, <5>2, <2>2, <2>0, <1>i DEF AwaitInv
            <4> QED BY <4>1, <4>2
        <3>2. ASSUME NEW l \in Kinds, busy'[l]
              PROVE \E s \in Requests : KindOf(s) = l /\ page'[s] = mounts' /\ Awaited(s)'
            <4>1. CASE l = k BY <4>1, <2>3, <2>8, <2>0
            <4>2. CASE l # k
                <5>1. PICK s \in Requests : KindOf(s) = l /\ page[s] = mounts /\ Awaited(s)
                    BY <3>2, <4>2, <2>2, <2>0, <1>i DEF AwaitInv
                <5>2. s # r BY <5>1, <4>2
                <5> QED BY <5>1, <5>2, <2>1, <2>0 DEF Awaited
            <4> QED BY <4>1, <4>2
        <3> QED BY <3>1, <3>2 DEF AwaitInv
    <2>10. ShownInv'
        <3>1. ASSUME NEW l \in Kinds, shown'[l] # "none"
              PROVE /\ last'[l] \in Requests /\ KindOf(last'[l]) = l
                    /\ page'[last'[l]] = mounts' /\ step'[last'[l]] = "delivered"
                    /\ answer'[last'[l]] = shown'[l]
            <4>1. l # k BY <3>1, <2>4
            <4>2. last[l] \in Requests /\ KindOf(last[l]) = l /\ page[last[l]] = mounts
                  /\ step[last[l]] = "delivered" /\ answer[last[l]] = shown[l]
                BY <3>1, <4>1, <2>2, <2>0, <1>i DEF ShownInv
            <4>3. last[l] # r BY <4>2, <4>1
            <4> QED BY <4>1, <4>2, <4>3, <2>0, <2>1, <2>2
        <3> QED BY <3>1 DEF ShownInv
    <2>11. ActiveInv'
        <3>1. sawActive \subseteq sawActive' /\ (service = "active" => r \in sawActive')
              /\ service' = service
            BY <1>6 DEF Click
        <3>2. \A s \in Working' : service' = "active" => s \in sawActive'
            BY <3>1, <2>1, <1>i DEF ActiveInv, Working
        <3>3. \A s \in Installs : step'[s] # "echo"
              /\ (step'[s] \in {"is-enabled", "health"} \/ answer'[s] = "ok" => s \in sawActive')
            <4> TAKE s \in Installs
            <4>1. s \in Requests BY DEF Requests
            <4>2. CASE s = r BY <4>2, <2>5, <3>1, <1>i DEF ActiveInv
            <4>3. CASE s # r BY <4>1, <4>3, <2>1, <3>1, <1>i DEF ActiveInv
            <4> QED BY <4>2, <4>3
        <3> QED BY <3>2, <3>3 DEF ActiveInv
    <2> QED BY <2>6, <2>9, <2>10, <2>11
<1>7. ASSUME NEW r \in Requests, Deliver(r)
      PROVE PagesInv' /\ AwaitInv' /\ ShownInv' /\ ActiveInv'
    <2> DEFINE k == KindOf(r)
    <2>0. k \in Kinds /\ step[r] = "returned" /\ mounted' = mounted /\ mounts' = mounts
          /\ page' = page /\ answer' = answer /\ last' = last
        BY <1>7 DEF Deliver
    <2>1. step'[r] = "delivered" /\ \A s \in Requests \ {r} : step'[s] = step[s]
        BY <1>7, <1>t DEF Deliver, TypeOK
    <2>2. ~Awaited(r)' /\ Awaited(r)
        BY <2>0, <2>1 DEF Awaited, Steps
    <2>3. PagesInv'
        BY <1>i, <2>0 DEF PagesInv
    <2>4. ActiveInv'
        BY <1>7, <1>i, <2>0, <2>1 DEF Deliver, ActiveInv, Working, Steps, hostVars, Requests
    <2>5. CASE ~(mounted /\ page[r] = mounts)
        <3>1. busy' = busy /\ shown' = shown
            BY <1>7, <2>5 DEF Deliver, IsCurrent
        <3>2. \A s \in Requests : mounted /\ page[s] = mounts => s # r
            BY <2>5
        <3>3. AwaitInv'
            BY <3>1, <3>2, <2>0, <2>1, <1>i DEF AwaitInv, Awaited
        <3>4. ShownInv'
            BY <3>1, <3>2, <2>0, <2>1, <1>i DEF ShownInv
        <3> QED BY <3>3, <3>4, <2>3, <2>4
    <2>6. CASE mounted /\ page[r] = mounts
        <3>1. last[k] = r
            BY <2>6, <2>2, <1>i DEF AwaitInv
        <3>2. ~busy'[k] /\ \A l \in Kinds \ {k} : busy'[l] = busy[l] /\ shown'[l] = shown[l]
            BY <1>7, <1>t, <2>6, <2>0 DEF Deliver, IsCurrent, TypeOK
        <3>3. shown'[k] = answer[r]
            BY <1>7, <1>t, <2>6, <2>0 DEF Deliver, IsCurrent, TypeOK
        <3>4. \A s \in Requests : page[s] = mounts /\ Awaited(s)' => KindOf(s) # k /\ Awaited(s)
            BY <3>1, <2>1, <2>2, <2>6, <1>i DEF AwaitInv, Awaited
        <3>5. AwaitInv'
            <4>1. ASSUME NEW s \in Requests, page'[s] = mounts', Awaited(s)'
                  PROVE last'[KindOf(s)] = s /\ busy'[KindOf(s)]
                BY <4>1, <3>4, <3>2, <2>0, <2>6, <1>i DEF AwaitInv
            <4>2. ASSUME NEW l \in Kinds, busy'[l]
                  PROVE \E s \in Requests : KindOf(s) = l /\ page'[s] = mounts' /\ Awaited(s)'
                <5>1. l # k BY <4>2, <3>2
                <5>2. PICK s \in Requests : KindOf(s) = l /\ page[s] = mounts /\ Awaited(s)
                    BY <4>2, <5>1, <3>2, <2>6, <1>i DEF AwaitInv
                <5> QED BY <5>1, <5>2, <2>1, <2>0 DEF Awaited
            <4> QED BY <4>1, <4>2 DEF AwaitInv
        <3>6. ShownInv'
            <4>1. ASSUME NEW l \in Kinds, shown'[l] # "none"
                  PROVE /\ last'[l] \in Requests /\ KindOf(last'[l]) = l
                        /\ page'[last'[l]] = mounts' /\ step'[last'[l]] = "delivered"
                        /\ answer'[last'[l]] = shown'[l]
                <5>1. CASE l = k BY <5>1, <3>1, <3>3, <2>0, <2>1, <2>6
                <5>2. CASE l # k
                    BY <4>1, <5>2, <3>2, <2>0, <2>1, <2>6, <1>i DEF ShownInv
                <5> QED BY <5>1, <5>2
            <4> QED BY <4>1 DEF ShownInv
        <3> QED BY <3>5, <3>6, <2>3, <2>4
    <2> QED BY <2>5, <2>6
<1>8. ASSUME NEW r \in Requests, CommandOk(r) \/ CommandFails(r)
      PROVE PagesInv' /\ AwaitInv' /\ ShownInv' /\ ActiveInv'
    <2>0. r \in Working /\ UNCHANGED <<bridge, viewVars, page, hostVars>>
        BY <1>8 DEF CommandOk, CommandFails
    <2>1. \A s \in Requests \ {r} : step'[s] = step[s] /\ answer'[s] = answer[s]
        BY <1>8, <1>t DEF CommandOk, CommandFails, TypeOK
    <2>2. step[r] \in Steps /\ step'[r] \in Steps \cup {"returned"}
        BY <1>8, <1>t, AfterStepIs DEF CommandOk, CommandFails, Working, Steps, TypeOK
    <2>3. \A s \in Requests : Awaited(s)' <=> Awaited(s)
        BY <2>1, <2>2 DEF Awaited
    <2>4. PagesInv' /\ AwaitInv'
        BY <1>i, <2>0, <2>3 DEF PagesInv, AwaitInv, viewVars
    <2>5. ShownInv'
        BY <1>i, <2>0, <2>1, <2>2 DEF ShownInv, viewVars, Steps
    <2>6. r \in Installs => /\ step'[r] # "echo"
                            /\ step'[r] \in {"is-enabled", "health"} \/ answer'[r] = "ok"
                                  => r \in sawActive
        <3> HAVE r \in Installs
        <3>1. step[r] # "echo" /\ (service = "active" => r \in sawActive)
              /\ (step[r] \in {"is-enabled", "health"} \/ answer[r] = "ok" => r \in sawActive)
            BY <1>i, <2>0 DEF ActiveInv
        <3>2. CASE CommandFails(r)
            BY <3>2, <1>t DEF CommandFails, TypeOK
        <3>3. CASE CommandOk(r)
            <4>1. step'[r] = AfterStep[step[r]] /\ (step[r] = "is-active" => service = "active")
                BY <3>3, <1>t DEF CommandOk, ExitsZero, TypeOK
            <4>2. answer'[r] = answer[r] \/ AfterStep[step[r]] = "returned"
                BY <3>3, <1>t DEF CommandOk, TypeOK
            <4> QED BY <4>1, <4>2, <3>1, <2>2, AfterStepIs DEF Steps
        <3> QED BY <3>2, <3>3, <1>8
    <2>7. ActiveInv'
        <3>1. \A s \in Working' : s \in Working
            BY <2>0, <2>1 DEF Working
        <3> QED BY <3>1, <2>0, <2>1, <2>6, <1>i DEF ActiveInv, hostVars, Requests
    <2> QED BY <2>4, <2>5, <2>7
<1>9. ASSUME NEW r \in Requests, ScriptStarts(r) \/ ScriptEnds(r)
      PROVE PagesInv' /\ AwaitInv' /\ ShownInv' /\ ActiveInv'
    <2>0. UNCHANGED <<bridge, viewVars, page, step, answer>>
        BY <1>9 DEF ScriptStarts, ScriptEnds
    <2>1. PagesInv' /\ AwaitInv' /\ ShownInv'
        BY <2>0, <1>i DEF PagesInv, AwaitInv, Awaited, ShownInv, viewVars
    <2>2. sawActive \subseteq sawActive'
          /\ (UNCHANGED service \/ Working \subseteq sawActive')
        BY <1>9 DEF ScriptStarts, ScriptEnds
    <2>3. ActiveInv'
        BY <2>0, <2>2, <1>i DEF ActiveInv, Working
    <2> QED BY <2>1, <2>3
<1>10. CASE UNCHANGED vars
    BY <1>10, <1>i DEF vars, viewVars, hostVars, PagesInv, AwaitInv, Awaited, ShownInv,
                       ActiveInv, Working
<1> QED
    BY <1>1, <1>2, <1>3, <1>4, <1>5, <1>6, <1>7, <1>8, <1>9, <1>10 DEF Next

(* The invariant holds in every state of the bootstrap page and its handlers. *)
THEOREM Invariance == Spec => []BootstrapInv
  BY InitInv, InvStep, PTL DEF Spec

-------------------------------------------------------------------------------
(* The state of the page, of the handlers and of the host has its type. *)
THEOREM BootstrapTypeCorrect == Spec => []TypeOK
<1>1. BootstrapInv => TypeOK BY DEF BootstrapInv
<1> QED BY <1>1, Invariance, PTL

(* A button of the open page is disabled exactly while this page awaits a   *)
(* request of its kind, whatever pages that were left still await.          *)
THEOREM ButtonsAreTrue == Spec => []BusyIsTrue
<1>1. BootstrapInv => BusyIsTrue
    BY KindIs DEF BootstrapInv, AwaitInv, Awaited, BusyIsTrue
<1> QED BY <1>1, Invariance, PTL

(* The result on the page is the answer to the last click on this page. *)
THEOREM ShowsLastAnswer == Spec => []ShownIsLast
<1>1. BootstrapInv => ShownIsLast
    BY DEF BootstrapInv, ShownInv, ShownIsLast
<1> QED BY <1>1, Invariance, PTL

(* An installation shown as successful found the unit active after its      *)
(* click (systemctl is-active is one of its commands).                      *)
THEOREM SuccessSawActive == Spec => []SuccessWasActive
<1>1. BootstrapInv => SuccessWasActive
    <2> SUFFICES ASSUME BootstrapInv, mounted, shown["install"] = "ok"
                 PROVE last["install"] \in sawActive
        BY DEF SuccessWasActive
    <2>1. last["install"] \in Requests /\ KindOf(last["install"]) = "install"
          /\ answer[last["install"]] = "ok"
        BY DEF BootstrapInv, ShownInv, Kinds
    <2>2. last["install"] \in Installs
        BY <2>1, KindIs
    <2> QED BY <2>1, <2>2 DEF BootstrapInv, ActiveInv
<1> QED BY <1>1, Invariance, PTL

-------------------------------------------------------------------------------
(* While the open page waits for the context, it shows none. *)
AskInv == mounted /\ mounts \in asking => context = "loading"

(* Only an opening and an answer touch what the page has asked. *)
LEMMA AskStep ==
  ASSUME AskInv, [Next]_vars
  PROVE  AskInv' /\ (form = "typed" /\ form' # "typed" => ~mounted \/ context = "loading")
<1> USE DEF AskInv
<1>1. CASE Open
    BY <1>1 DEF Open
<1>2. CASE Leave
    BY <1>2 DEF Leave
<1>3. CASE Type
    BY <1>3 DEF Type
<1>4. ASSUME NEW p \in 1..MaxMounts, ContextArrives(p)
      PROVE  AskInv' /\ (form = "typed" /\ form' # "typed" => ~mounted \/ context = "loading")
    BY <1>4 DEF ContextArrives, IsCurrent
<1>5. CASE UNCHANGED <<mounts, mounted, context, asking, form>>
    BY <1>5
<1>6. ASSUME NEW r \in Requests,
             Click(r) \/ Deliver(r) \/ CommandOk(r) \/ CommandFails(r)
               \/ ScriptStarts(r) \/ ScriptEnds(r)
      PROVE  UNCHANGED <<mounts, mounted, context, asking, form>>
    BY <1>6 DEF Click, Deliver, CommandOk, CommandFails, ScriptStarts, ScriptEnds, viewVars
<1>7. ServiceStops \/ UNCHANGED vars => UNCHANGED <<mounts, mounted, context, asking, form>>
    BY DEF ServiceStops, vars, viewVars
<1> QED BY <1>1, <1>2, <1>3, <1>4, <1>5, <1>6, <1>7 DEF Next

(* The context replaces what was typed into the page that waits for it, and *)
(* a late one of a page that was left replaces nothing: what is typed after *)
(* the answer stays (the effect's flag "active").                           *)
THEOREM TypedTextStays == Spec => TypedIsKept
<1>1. Init => AskInv
    BY DEF Init, AskInv
<1>2. AskInv /\ [Next]_vars => AskInv'
    BY AskStep
<1>3. AskInv /\ [Next]_vars =>
        [form = "typed" /\ form' # "typed" => ~mounted \/ context = "loading"]_vars
    BY AskStep
<1> QED BY <1>1, <1>2, <1>3, PTL DEF Spec, TypedIsKept
===============================================================================
