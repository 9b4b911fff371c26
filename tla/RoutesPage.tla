------------------------------ MODULE RoutesPage ------------------------------
(***************************************************************************)
(* The /routes page of the web application: the list, the route dialog and  *)
(* the store behind them (useRoutesPage, RouteList, RouteModal,             *)
(* useRouteOperations, useRoutesRepository, routesSlice,                    *)
(* LocalStorageRouteRepository).  Saving and removing wait three seconds    *)
(* before they act.  What they act on was captured when the button was      *)
(* rendered: the map of routes, the mode of the dialog and, for a submit,   *)
(* the values of the form.  The timers all have the same delay, so they     *)
(* fire in the order in which they were started.  After the delay nothing   *)
(* but microtasks separates the write, the reload and the toast: one action.*)
(* A route is its settings and its flag enabled; Bad settings are those     *)
(* RouteSchema rejects.                                                     *)
(***************************************************************************)
EXTENDS Naturals, Sequences, FiniteSets

CONSTANTS
    MaxIds,     \* bound on the ids ever given to a route
    MaxInit,    \* bound on the routes stored before the page is opened
    MaxJobs,    \* bound on the saves and removals started
    MaxFaults,  \* bound on writes localStorage refuses (quota)
    Settings,   \* settings of a route
    Bad,        \* settings RouteSchema rejects
    Buttons,    \* the buttons the user presses: "submit", "force"
    Patient,    \* the user waits for every timer before the next click
    None        \* no route, no id

ASSUME PageAssumption ==
    /\ MaxIds \in Nat /\ MaxInit \in 0..MaxIds
    /\ MaxJobs \in Nat /\ MaxFaults \in Nat
    /\ Bad \notin Settings /\ Settings # {}
    /\ Buttons \subseteq {"submit", "force"}
    /\ Patient \in BOOLEAN
    /\ None \notin 1..MaxIds

VARIABLES
    stored,     \* the map under "nginx_routes" in localStorage
    routes,     \* the map of the store, which the list shows
    mounted,    \* the page is on screen
    open, mode, \* the dialog
    form,       \* the values of the form
    jobs,       \* running timers, the oldest first
    isSaving, isRemoving,
    started,    \* timers started so far
    nextId,     \* the next fresh id
    faults,     \* writes refused so far
    done        \* what the last step reported, if it ended an operation

page == <<mounted, open, mode, form, isSaving, isRemoving>>
vars == <<stored, routes, page, jobs, started, nextId, faults, done>>

Ids == 1..MaxIds
Routes == [settings : Settings, enabled : BOOLEAN]
NoRoutes == [i \in Ids |-> None]
Forms == [id : Ids \cup {None}, settings : Settings \cup {Bad}, enabled : BOOLEAN]
Nothing == [id |-> None, asked |-> None, said |-> "nothing"]

(* createRoute() of the factories: settings that parse and an id that no    *)
(* route has.                                                               *)
Blank == [id |-> None, settings |-> CHOOSE s \in Settings : TRUE, enabled |-> TRUE]

Value(f) == [settings |-> f.settings, enabled |-> f.enabled]

(* RouteSchema.parse succeeds. *)
Parses(f) == f.settings # Bad

Init ==
    /\ \E n \in 0..MaxInit :
          /\ stored = [i \in Ids |-> IF i <= n THEN Value(Blank) ELSE None]
          /\ nextId = n + 1
    /\ routes = NoRoutes
    /\ mounted = FALSE
    /\ open = FALSE /\ mode = "create" /\ form = Blank
    /\ jobs = <<>> /\ started = 0
    /\ isSaving = FALSE /\ isRemoving = FALSE
    /\ faults = 0
    /\ done = Nothing

-------------------------------------------------------------------------------
(* The user acts; a patient one only when no timer is running. *)
Acts == mounted /\ (Patient => jobs = <<>>)

(* The list is under the overlay of the dialog while that is open. *)
OnList == Acts /\ ~open

(* What a timer holds: the id to remove, or the mode and the form at the    *)
(* click; the rendered map; whether its page is still there and, if not,    *)
(* the form that page ended with.                                           *)
SaveJob(kind) ==
    [kind |-> kind, id |-> None, mode |-> mode, asked |-> form, left |-> Blank,
     routes |-> routes, live |-> TRUE]
RemoveJob(i) ==
    [kind |-> "remove", id |-> i, mode |-> "edit", asked |-> Blank, left |-> Blank,
     routes |-> routes, live |-> TRUE]

Creating == Cardinality({n \in 1..Len(jobs) : jobs[n].mode = "create"})

(* The page is shown: a new form, and useRoutesList loads the routes.  The  *)
(* dialog is in a global store and is as it was left.                       *)
Mount ==
    /\ ~mounted
    /\ mounted' = TRUE
    /\ routes' = stored
    /\ form' = Blank
    /\ done' = Nothing
    /\ UNCHANGED <<stored, open, mode, jobs, isSaving, isRemoving, started, nextId, faults>>

(* The user goes to another page.  The timers run on with the form they     *)
(* had; what they set on the page is no longer seen.                        *)
Unmount ==
    /\ Acts
    /\ Patient => ~open
    /\ mounted' = FALSE
    /\ jobs' = [n \in 1..Len(jobs) |->
                  IF jobs[n].live /\ jobs[n].kind = "force"
                  THEN [jobs[n] EXCEPT !.left = form, !.live = FALSE]
                  ELSE [jobs[n] EXCEPT !.live = FALSE]]
    /\ isSaving' = FALSE /\ isRemoving' = FALSE
    /\ done' = Nothing
    /\ UNCHANGED <<stored, routes, open, mode, form, started, nextId, faults>>

OpenForCreate ==
    /\ OnList
    /\ open' = TRUE /\ mode' = "create" /\ form' = Blank
    /\ done' = Nothing
    /\ UNCHANGED <<stored, routes, mounted, jobs, isSaving, isRemoving, started, nextId, faults>>

OpenForEdit(i) ==
    /\ OnList /\ ~isRemoving
    /\ routes[i] # None
    /\ open' = TRUE /\ mode' = "edit"
    /\ form' = [id |-> i, settings |-> routes[i].settings, enabled |-> routes[i].enabled]
    /\ done' = Nothing
    /\ UNCHANGED <<stored, routes, mounted, jobs, isSaving, isRemoving, started, nextId, faults>>

(* Cancel, or a click on the overlay. *)
CloseModal ==
    /\ Acts /\ open
    /\ open' = FALSE
    /\ done' = Nothing
    /\ UNCHANGED <<stored, routes, mounted, mode, form, jobs, isSaving, isRemoving, started, nextId, faults>>

Type(s, b) ==
    /\ Acts /\ open
    /\ form' = [form EXCEPT !.settings = s, !.enabled = b]
    /\ done' = Nothing
    /\ UNCHANGED <<stored, routes, mounted, open, mode, jobs, isSaving, isRemoving, started, nextId, faults>>

(* The submit button.  handleSubmit validates the form and passes its       *)
(* values on; an invalid form is not submitted.                             *)
Submit ==
    /\ "submit" \in Buttons
    /\ Acts /\ open /\ ~isSaving
    /\ Parses(form)
    /\ started < MaxJobs
    /\ mode = "create" => nextId + Creating <= MaxIds
    /\ jobs' = Append(jobs, SaveJob("submit"))
    /\ started' = started + 1
    /\ isSaving' = TRUE
    /\ done' = Nothing
    /\ UNCHANGED <<stored, routes, mounted, open, mode, form, isRemoving, nextId, faults>>

(* The button "in any case": never disabled, and, having no type, a submit  *)
(* button of the form as well, so that one click starts saveRouteForce and  *)
(* then, if the form is valid, onSubmit.  Enter in a field presses it too.  *)
SaveRouteForce ==
    LET clicked == <<SaveJob("force")>>
                   \o (IF Parses(form) THEN <<SaveJob("submit")>> ELSE <<>>) IN
    /\ "force" \in Buttons
    /\ Acts /\ open
    /\ started + Len(clicked) <= MaxJobs
    /\ mode = "create" => nextId + Creating + Len(clicked) <= MaxIds + 1
    /\ jobs' = jobs \o clicked
    /\ started' = started + Len(clicked)
    /\ isSaving' = TRUE
    /\ done' = Nothing
    /\ UNCHANGED <<stored, routes, mounted, open, mode, form, isRemoving, nextId, faults>>

OnRemove(i) ==
    /\ OnList /\ ~isRemoving
    /\ routes[i] # None
    /\ started < MaxJobs
    /\ jobs' = Append(jobs, RemoveJob(i))
    /\ started' = started + 1
    /\ isRemoving' = TRUE
    /\ done' = Nothing
    /\ UNCHANGED <<stored, routes, mounted, open, mode, form, isSaving, nextId, faults>>

-------------------------------------------------------------------------------
(* saveRoutes: the error of a write the browser refuses is swallowed. *)
SaveRoutes(map, accepted) ==
    /\ accepted \/ faults < MaxFaults
    /\ stored' = IF accepted THEN map ELSE stored
    /\ faults' = IF accepted THEN faults ELSE faults + 1

LoadRoutes == routes' = stored'

(* Fault: the store keeps the map it was given, and does not reload. *)
WriteUnchecked(map, accepted) == SaveRoutes(map, accepted) /\ routes' = map

(* The adapter's set and what follows it: setState, saveRoutes, loadRoutes. *)
Write(map, accepted) == SaveRoutes(map, accepted) /\ LoadRoutes

Report(i, asked) == done' = [id |-> i, asked |-> asked, said |-> "success"]

(* The toggle has no delay, and the row it is on is in the rendered map. *)
OnToggle(i, accepted) ==
    LET next == [routes[i] EXCEPT !.enabled = ~@] IN
    /\ OnList /\ ~isRemoving
    /\ routes[i] # None
    /\ Write([routes EXCEPT ![i] = next], accepted)
    /\ Report(i, next)
    /\ UNCHANGED <<page, jobs, started, nextId>>

(* Fault: the new route replaces the map. *)
CreateAlone(j, f, accepted) ==
    /\ Write([NoRoutes EXCEPT ![nextId] = Value(f)], accepted)
    /\ nextId' = nextId + 1
    /\ Report(nextId, Value(j.asked))

(* createRoute: a fresh id in the captured map. *)
Create(j, f, accepted) ==
    /\ Write([j.routes EXCEPT ![nextId] = Value(f)], accepted)
    /\ nextId' = nextId + 1
    /\ Report(nextId, Value(j.asked))

(* Fault: the stored fields are spread over the new ones. *)
UpdateExistingWins(j, f, accepted) ==
    /\ IF f.id = None \/ (f.id # None /\ j.routes[f.id] = None)
       THEN accepted /\ UNCHANGED <<stored, routes, faults>>
       ELSE Write(j.routes, accepted)
    /\ Report(f.id, Value(j.asked))
    /\ UNCHANGED nextId

(* updateRoute: throws when the captured map lacks the id; wrap swallows    *)
(* that, and the caller reports success.                                    *)
Update(j, f, accepted) ==
    /\ IF f.id = None \/ (f.id # None /\ j.routes[f.id] = None)
       THEN accepted /\ UNCHANGED <<stored, routes, faults>>
       ELSE Write([j.routes EXCEPT ![f.id] = Value(f)], accepted)
    /\ Report(f.id, Value(j.asked))
    /\ UNCHANGED nextId

(* The values a save works on: handleSubmit passed them on at the click,    *)
(* saveRouteForce reads the form only now.                                  *)
Values(j) ==
    IF j.kind = "submit" THEN j.asked ELSE IF j.live THEN form ELSE j.left

(* Fault: what is forced is not parsed. *)
SaveUnparsed(j, accepted) ==
    LET f == Values(j) IN
    /\ IF j.mode = "create" THEN Create(j, f, accepted) ELSE Update(j, f, accepted)
    /\ open' = FALSE
    /\ isSaving' = IF j.live THEN FALSE ELSE isSaving
    /\ UNCHANGED <<mounted, mode, form, isRemoving>>

(* Fault: the finally block is missing on the way a parse error takes. *)
SaveNoFinally(j, accepted) ==
    LET f == Values(j) IN
    /\ IF ~Parses(f)
       THEN /\ accepted
            /\ done' = [id |-> f.id, asked |-> None, said |-> "error"]
            /\ UNCHANGED <<stored, routes, faults, nextId, open, isSaving>>
       ELSE /\ IF j.mode = "create" THEN Create(j, f, accepted) ELSE Update(j, f, accepted)
            /\ open' = FALSE
            /\ isSaving' = IF j.live THEN FALSE ELSE isSaving
    /\ UNCHANGED <<mounted, mode, form, isRemoving>>

(* onSubmit and saveRouteForce after the delay.  Success closes whatever    *)
(* dialog is open.                                                          *)
Save(j, accepted) ==
    LET f == Values(j) IN
    /\ IF ~Parses(f)
       THEN /\ accepted
            /\ done' = [id |-> f.id, asked |-> None, said |-> "error"]
            /\ UNCHANGED <<stored, routes, faults, nextId, open>>
       ELSE /\ IF j.mode = "create" THEN Create(j, f, accepted) ELSE Update(j, f, accepted)
            /\ open' = FALSE
    /\ isSaving' = IF j.live THEN FALSE ELSE isSaving
    /\ UNCHANGED <<mounted, mode, form, isRemoving>>

(* onRemove after the delay. *)
Remove(j, accepted) ==
    /\ Write([j.routes EXCEPT ![j.id] = None], accepted)
    /\ Report(j.id, None)
    /\ isRemoving' = IF j.live THEN FALSE ELSE isRemoving
    /\ UNCHANGED <<mounted, open, mode, form, isSaving, nextId>>

(* The oldest timer fires. *)
Fire(accepted) ==
    /\ jobs # <<>>
    /\ jobs' = Tail(jobs)
    /\ UNCHANGED started
    /\ LET j == Head(jobs) IN
       IF j.kind = "remove" THEN Remove(j, accepted) ELSE Save(j, accepted)

Next ==
    \/ Mount \/ Unmount
    \/ OpenForCreate \/ (\E i \in Ids : OpenForEdit(i)) \/ CloseModal
    \/ \E s \in Settings \cup {Bad}, b \in BOOLEAN : Type(s, b)
    \/ Submit \/ SaveRouteForce
    \/ \E i \in Ids : OnRemove(i)
    \/ \E i \in Ids, accepted \in BOOLEAN : OnToggle(i, accepted)
    \/ \E accepted \in BOOLEAN : Fire(accepted)

Spec == Init /\ [][Next]_vars

(* Timers fire. *)
FairSpec == Spec /\ WF_vars(\E accepted \in BOOLEAN : Fire(accepted))

-------------------------------------------------------------------------------
Jobs == [kind : {"submit", "force", "remove"}, id : Ids \cup {None},
         mode : {"create", "edit"}, asked : Forms, left : Forms,
         routes : [Ids -> Routes \cup {None}], live : BOOLEAN]

(* Every variable keeps its type: only routes that RouteSchema accepts get  *)
(* into storage and into the list, whichever button saved them.             *)
TypeOK ==
    /\ stored \in [Ids -> Routes \cup {None}]
    /\ routes \in [Ids -> Routes \cup {None}]
    /\ mounted \in BOOLEAN /\ open \in BOOLEAN /\ mode \in {"create", "edit"}
    /\ form \in Forms
    /\ jobs \in Seq(Jobs)
    /\ started \in 0..MaxJobs
    /\ isSaving \in BOOLEAN /\ isRemoving \in BOOLEAN
    /\ nextId \in 1..(MaxIds + 1)
    /\ faults \in 0..MaxFaults
    /\ done \in [id : Ids \cup {None}, asked : {Value(f) : f \in Forms} \cup {None},
                 said : {"nothing", "success", "error"}]

(* What the list shows is what a reload of the page would show, whatever    *)
(* timers overlap and whatever writes the browser refuses: every operation  *)
(* ends by loading what was really stored (useRouteOperations, loadRoutes). *)
ListIsStored == mounted => routes = stored

(* The spinners are true: a removal is in flight exactly while the list is  *)
(* disabled, and the submit button is disabled only while a save is (the    *)
(* finally blocks of onRemove, onSubmit and saveRouteForce).                *)
SpinnersAreTrue ==
    LET Live(kinds) == \E n \in 1..Len(jobs) : jobs[n].live /\ jobs[n].kind \in kinds IN
    mounted => /\ isRemoving <=> Live({"remove"})
               /\ isSaving => Live({"submit", "force"})

(* Every spinner ends: the buttons come back. *)
SpinnersEnd == (isSaving ~> ~isSaving) /\ (isRemoving ~> ~isRemoving)

(* As long as the browser has refused no write, a success the page reports  *)
(* is in storage: the route holds what the form held at the click, or the   *)
(* other value of its flag, or is gone.                                     *)
SuccessIsStored ==
    done.said = "success" /\ faults = 0 => /\ done.id # None
                                           /\ stored[done.id] = done.asked

(* One operation changes one route: the storage behind the page is the      *)
(* table its user thinks of.                                                *)
Table == INSTANCE RouteTable WITH table <- stored
(* Every step of the page creates, changes or removes one route or none. *)
ImplementsRouteTable == Table!Spec
===============================================================================
