----------------------------- MODULE LocationForm -----------------------------
(***************************************************************************)
(* Editing the location blocks of a route in its dialog (useRoutesPage,     *)
(* LocationsTab, LocationModal, useRouteFormModalStore).  Saving and        *)
(* deleting a location wait three seconds, as saving the route does: the    *)
(* index and the value were captured at the click, the list of locations is *)
(* read from the form when the timer fires.  Timers fire in the order in    *)
(* which they were started, and go on when the user leaves the page.  A     *)
(* location is its path and a tag that tells which location it is.  Of the  *)
(* saved routes the ones there are at the beginning are followed; what      *)
(* becomes of the map of routes, and of created ones, is in RoutesPage.     *)
(***************************************************************************)
EXTENDS Naturals, Sequences

CONSTANTS
    Routes,   \* saved routes
    New,      \* the route of createRoute(), which is not saved yet
    Paths,    \* location paths
    Bad,      \* a location LocationConfigSchema rejects
    MaxInit,  \* bound on the locations of a saved route
    MaxLocs,  \* bound on the locations in the form
    MaxAdds,  \* bound on locations added
    MaxJobs,  \* bound on timers running at once
    Stays,    \* the user keeps to a dialog while timers run, to the page until it is closed
    None      \* no index, no value, no tag; a hole in the list

(* A location of a saved route has its place there as its tag, an added one *)
(* the number of its addition.                                              *)
Tags == (Routes \cup {None}) \X Nat
Locations == [tag : Tags, value : Paths]

ASSUME LocationAssumption ==
    /\ MaxInit \in Nat /\ MaxLocs \in Nat /\ MaxAdds \in Nat /\ MaxJobs \in Nat
    /\ Paths # {} /\ Bad \notin Paths /\ New \notin Routes
    /\ Stays \in BOOLEAN
    /\ None \notin Nat /\ None \notin Paths \cup {Bad} /\ None \notin Locations

VARIABLES
    saved,    \* the locations of each saved route
    dialog,   \* modalOpen and mode: "closed", or open in mode "create" or "edit"
    route,    \* form.getValues("id"): whose values the form holds
    locs,     \* form.getValues("locations")
    editing,  \* locationEditing: index, value and the tag of that location
    jobs,     \* running timers, the oldest first
    isSaving, isSavingLocation, isRemovingLocation,
    adds      \* locations added so far

form == <<route, locs>>
busy == <<isSaving, isSavingLocation, isRemovingLocation>>
vars == <<saved, dialog, form, editing, jobs, busy, adds>>

NotEditing == [index |-> None, value |-> None, tag |-> None]
Root == CHOOSE p \in Paths : TRUE

-------------------------------------------------------------------------------
(* The core's helpers on lists of locations.  Writing past the end of an    *)
(* array leaves holes.                                                      *)
AddLocationToRoute(s, x) == Append(s, x)

UpdateLocationInRoute(s, k, x) ==
    [n \in 1..(IF k > Len(s) THEN k ELSE Len(s)) |->
        IF n = k THEN x ELSE IF n <= Len(s) THEN s[n] ELSE None]

(* Fault: splice from the index on. *)
RemoveFrom(s, k) == SubSeq(s, 1, k - 1)

RemoveLocation(s, k) ==
    IF k > Len(s) THEN s ELSE SubSeq(s, 1, k - 1) \o SubSeq(s, k + 1, Len(s))

(* validateLocation finds no error. *)
Valid(value) == value # Bad

(* RouteSchema accepts the locations: each parses, no path twice. *)
RouteParses(s) ==
    \A n \in 1..Len(s) :
       /\ s[n] # None
       /\ Valid(s[n].value)
       /\ \A m \in 1..(n - 1) : s[m].value # s[n].value

Init ==
    /\ \E values \in [Routes -> UNION {[1..n -> Paths] : n \in 0..MaxInit}] :
          /\ saved = [r \in Routes |-> [k \in DOMAIN values[r] |->
                        [tag |-> <<r, k>>, value |-> values[r][k]]]]
          /\ \A r \in Routes : RouteParses(saved[r])
    /\ dialog = "closed"
    /\ route = New /\ locs = <<>>
    /\ editing = NotEditing
    /\ jobs = <<>>
    /\ isSaving = FALSE /\ isSavingLocation = FALSE /\ isRemovingLocation = FALSE
    /\ adds = 0

-------------------------------------------------------------------------------
(* The route dialog: opened from the list, closed by cancel or a click on   *)
(* the overlay, both out of reach while the location dialog covers them.    *)
Leaves == Stays => jobs = <<>>

OpenForCreate ==
    /\ dialog = "closed" /\ Leaves
    /\ dialog' = "create"
    /\ route' = New /\ locs' = <<>>
    /\ UNCHANGED <<saved, editing, jobs, busy, adds>>

OpenForEdit(r) ==
    /\ dialog = "closed" /\ Leaves
    /\ dialog' = "edit"
    /\ route' = r /\ locs' = saved[r]
    /\ UNCHANGED <<saved, editing, jobs, busy, adds>>

(* The user can reach the buttons of the route dialog. *)
OnDialog == dialog # "closed" /\ editing = NotEditing

CloseModal ==
    /\ OnDialog /\ Leaves
    /\ dialog' = "closed"
    /\ UNCHANGED <<saved, form, editing, jobs, busy, adds>>

(* What a timer holds: the index and the value of a location, or the mode   *)
(* and the form at the click, and whether its page is still there.          *)
LocationJob(kind, index, value, tag) ==
    [kind |-> kind, index |-> index, value |-> value, tag |-> tag,
     mode |-> dialog, route |-> route, locs |-> <<>>, live |-> TRUE]
RouteJob(kind) ==
    [kind |-> kind, index |-> None, value |-> None, tag |-> None,
     mode |-> dialog, route |-> route, locs |-> locs, live |-> TRUE]

(* The user submits the dialog; the button is disabled while isSaving. *)
Submit ==
    /\ OnDialog /\ Leaves /\ ~isSaving
    /\ RouteParses(locs)
    /\ Len(jobs) < MaxJobs
    /\ jobs' = Append(jobs, RouteJob("submit"))
    /\ isSaving' = TRUE
    /\ UNCHANGED <<saved, dialog, form, editing, isSavingLocation, isRemovingLocation, adds>>

(* The button "in any case" is never disabled and, having no type, submits  *)
(* a form that parses as well.                                              *)
SaveRouteForce ==
    /\ OnDialog /\ Leaves
    /\ Len(jobs) + 2 <= MaxJobs
    /\ jobs' = IF RouteParses(locs)
               THEN Append(Append(jobs, RouteJob("force")), RouteJob("submit"))
               ELSE Append(jobs, RouteJob("force"))
    /\ isSaving' = TRUE
    /\ UNCHANGED <<saved, dialog, form, editing, isSavingLocation, isRemovingLocation, adds>>

(* The user goes to another page and comes back: a new form, and the        *)
(* dialogs, which are in a global store, as they were left.  The timers     *)
(* keep the form of the page that is gone; firing while no page is shown    *)
(* is firing before the user does anything on the new one.                  *)
Revisit ==
    /\ Leaves /\ (Stays => dialog = "closed")
    /\ jobs' = [n \in 1..Len(jobs) |->
                  IF jobs[n].live /\ jobs[n].kind = "force"
                  THEN [jobs[n] EXCEPT !.route = route, !.locs = locs, !.live = FALSE]
                  ELSE [jobs[n] EXCEPT !.live = FALSE]]
    /\ route' = New /\ locs' = <<>>
    /\ isSaving' = FALSE /\ isSavingLocation' = FALSE /\ isRemovingLocation' = FALSE
    /\ UNCHANGED <<saved, dialog, editing, adds>>

OnAddLocation ==
    /\ OnDialog
    /\ adds < MaxAdds /\ Len(locs) < MaxLocs
    /\ adds' = adds + 1
    /\ editing' = [index |-> None, value |-> Root, tag |-> <<None, adds>>]
    /\ UNCHANGED <<saved, dialog, form, jobs, busy>>

(* Fault: the buttons stay enabled during a removal. *)
OnEditLocationAlways(k) ==
    /\ OnDialog
    /\ locs[k] # None /\ Valid(locs[k].value)
    /\ editing' = [index |-> k, value |-> locs[k].value, tag |-> locs[k].tag]
    /\ UNCHANGED <<saved, dialog, form, jobs, busy, adds>>

(* Disabled during a removal; a location that does not parse throws. *)
OnEditLocation(k) ==
    /\ OnDialog /\ ~isRemovingLocation
    /\ locs[k] # None /\ Valid(locs[k].value)
    /\ editing' = [index |-> k, value |-> locs[k].value, tag |-> locs[k].tag]
    /\ UNCHANGED <<saved, dialog, form, jobs, busy, adds>>

OnDeleteLocation(k) ==
    /\ OnDialog /\ ~isRemovingLocation
    /\ locs[k] # None
    /\ Len(jobs) < MaxJobs
    /\ jobs' = Append(jobs, LocationJob("delete", k, None, locs[k].tag))
    /\ isRemovingLocation' = TRUE
    /\ UNCHANGED <<saved, dialog, form, editing, isSaving, isSavingLocation, adds>>

(* The fields of the location dialog, which a save does not disable. *)
StartEditLocation(value) ==
    /\ editing # NotEditing
    /\ editing' = [editing EXCEPT !.value = value]
    /\ UNCHANGED <<saved, dialog, form, jobs, busy, adds>>

CancelLocation ==
    /\ editing # NotEditing /\ ~isSavingLocation
    /\ editing' = NotEditing
    /\ UNCHANGED <<saved, dialog, form, jobs, busy, adds>>

(* Both save buttons: onSaveLocation and onSaveLocationForce are the same. *)
OnSaveLocation ==
    /\ editing # NotEditing /\ ~isSavingLocation
    /\ Len(jobs) < MaxJobs
    /\ jobs' = Append(jobs, LocationJob("save", editing.index, editing.value, editing.tag))
    /\ isSavingLocation' = TRUE
    /\ UNCHANGED <<saved, dialog, form, editing, isSaving, isRemovingLocation, adds>>

-------------------------------------------------------------------------------

(* A location is saved after the delay, unless it is invalid: in the form   *)
(* of the page that started the timer.                                      *)
Saved(j) ==
    LET x == [tag |-> j.tag, value |-> j.value] IN
    /\ locs' = IF ~j.live \/ ~Valid(j.value) THEN locs
               ELSE IF j.index = None THEN AddLocationToRoute(locs, x)
               ELSE UpdateLocationInRoute(locs, j.index, x)
    /\ editing' = IF Valid(j.value) THEN NotEditing ELSE editing
    /\ isSavingLocation' = (~j.live /\ isSavingLocation)
    /\ UNCHANGED <<saved, dialog, route, isSaving, isRemovingLocation>>

Deleted(j) ==
    /\ locs' = IF j.live THEN RemoveLocation(locs, j.index) ELSE locs
    /\ isRemovingLocation' = (~j.live /\ isRemovingLocation)
    /\ UNCHANGED <<saved, dialog, route, editing, isSaving, isSavingLocation>>

(* The values a save of the route works on: a submit has them from the      *)
(* click, saveRouteForce reads the form now.                                *)
Values(j) ==
    IF j.kind = "force" /\ j.live THEN [route |-> route, locs |-> locs]
    ELSE [route |-> j.route, locs |-> j.locs]

(* The route is saved, and closeModal closes both dialogs.  A route that    *)
(* does not parse is not.                                                   *)
RouteSaved(j) ==
    LET f == Values(j) IN
    /\ IF RouteParses(f.locs)
       THEN /\ saved' = IF j.mode = "edit" /\ f.route # New
                        THEN [saved EXCEPT ![f.route] = f.locs] ELSE saved
            /\ dialog' = "closed"
            /\ editing' = NotEditing
       ELSE UNCHANGED <<saved, dialog, editing>>
    /\ isSaving' = (~j.live /\ isSaving)
    /\ UNCHANGED <<form, isSavingLocation, isRemovingLocation>>

Fire ==
    /\ jobs # <<>>
    /\ jobs' = Tail(jobs)
    /\ UNCHANGED adds
    /\ LET j == Head(jobs) IN
       \/ j.kind = "save" /\ Saved(j)
       \/ j.kind = "delete" /\ Deleted(j)
       \/ j.kind \in {"submit", "force"} /\ RouteSaved(j)

Next ==
    \/ OpenForCreate \/ (\E r \in Routes : OpenForEdit(r)) \/ CloseModal
    \/ Submit \/ SaveRouteForce \/ Revisit
    \/ OnAddLocation
    \/ \E k \in 1..Len(locs) : OnEditLocation(k) \/ OnDeleteLocation(k)
    \/ \E value \in Paths \cup {Bad} : StartEditLocation(value)
    \/ CancelLocation \/ OnSaveLocation
    \/ Fire

Spec == Init /\ [][Next]_vars

-------------------------------------------------------------------------------
(* An index points at the location the user chose: the one in the location  *)
(* dialog, and the ones captured by a save or a removal that is still       *)
(* waiting, whatever the list has become meanwhile (onSaveLocation,         *)
(* onDeleteLocation).                                                       *)
PointsAtChosen ==
    LET Points(x) == x.index # None =>
                       /\ x.index \in 1..Len(locs)
                       /\ locs[x.index] # None
                       /\ locs[x.index].tag = x.tag IN
    Points(editing) /\ \A n \in 1..Len(jobs) : jobs[n].live => Points(jobs[n])

(* What is in the list besides the location with the tag; a hole is. *)
Others(s, tag) == {x \in {s[n] : n \in 1..Len(s)} : x = None \/ x.tag # tag}

(* A save or a removal touches no location but the chosen one. *)
OnlyChosenChanges ==
    [][jobs # <<>> /\ jobs' = Tail(jobs) =>
          Others(locs', Head(jobs).tag) = Others(locs, Head(jobs).tag)]_vars
===============================================================================
