-------------------------- MODULE LocationFormProofs --------------------------
(***************************************************************************)
(* Theorems about LocationForm: in a dialog the user does not leave while   *)
(* timers run, every index still points at the location it was taken for,   *)
(* and a save or a removal touches no other location.                       *)
(***************************************************************************)
EXTENDS LocationForm, TLAPS

(* What the location dialog and the timers hold; no page is left behind its *)
(* timers.                                                                  *)
Modes == {"closed", "create", "edit"}
Edits == {NotEditing} \cup [index : Nat \cup {None}, value : Paths \cup {Bad}, tag : Tags]

SaveJobs == [kind : {"save"}, index : Nat \cup {None}, value : Paths \cup {Bad},
             tag : Tags, mode : Modes, route : Routes \cup {New}, locs : {<<>>}, live : {TRUE}]
DeleteJobs == [kind : {"delete"}, index : Nat, value : {None},
               tag : Tags, mode : Modes, route : Routes \cup {New}, locs : {<<>>}, live : {TRUE}]
RouteJobs == [kind : {"submit", "force"}, index : {None}, value : {None}, tag : {None},
              mode : Modes, route : Routes \cup {New}, locs : Seq(Locations), live : {TRUE}]
Jobs == SaveJobs \cup DeleteJobs \cup RouteJobs

LocTypeOK ==
    /\ saved \in [Routes -> Seq(Locations)]
    /\ dialog \in Modes
    /\ route \in Routes \cup {New}
    /\ locs \in Seq(Locations)
    /\ editing \in Edits
    /\ jobs \in Seq(Jobs)
    /\ adds \in Nat

(* The timers of one kind. *)
Waiting(s, kind) == {n \in 1..Len(s) : s[n].kind = kind}

(* The buttons admit one save and one removal at a time; a save waits under *)
(* its location dialog, or behind a route dialog that has been closed; and  *)
(* while a removal waits, nothing else holds an index.                      *)
OneAtATime(d, e, js, saving, removing) ==
    /\ d = "closed" => e = NotEditing
    /\ \A m, n \in Waiting(js, "save") : m = n
    /\ \A m, n \in Waiting(js, "delete") : m = n
    /\ Waiting(js, "save") # {} => saving /\ (d = "closed" \/ e # NotEditing)
    /\ Waiting(js, "delete") # {} =>
          /\ removing
          /\ e.index = None
          /\ \A n \in Waiting(js, "save") : js[n].index = None

(* An index points at the location with its tag. *)
Points(x, s) == x.index # None => x.index \in 1..Len(s) /\ s[x.index].tag = x.tag

AllPoint(e, js, s) == Points(e, s) /\ \A n \in 1..Len(js) : Points(js[n], s)

(* The inductive invariant. *)
LocInv ==
    /\ LocTypeOK
    /\ OneAtATime(dialog, editing, jobs, isSavingLocation, isRemovingLocation)
    /\ AllPoint(editing, jobs, locs)

-------------------------------------------------------------------------------
LEMMA NoHoles ==
  ASSUME NEW s \in Seq(Locations), NEW n \in 1..Len(s)
  PROVE  s[n] \in Locations /\ s[n] # None
  BY LocationAssumption

LEMMA PointsMeaning ==
  ASSUME locs \in Seq(Locations), jobs \in Seq(Jobs)
  PROVE  PointsAtChosen <=> AllPoint(editing, jobs, locs)
  <1>1. \A n \in 1..Len(locs) : locs[n] # None
    BY NoHoles
  <1>2. ASSUME NEW n \in 1..Len(jobs) PROVE jobs[n].live
    <2>1. jobs[n] \in Jobs
      OBVIOUS
    <2> QED  BY <2>1, Zenon DEF Jobs, SaveJobs, DeleteJobs, RouteJobs
  <1> QED  BY <1>1, <1>2 DEF PointsAtChosen, AllPoint, Points

(* What the core's helpers do to the list, and to an index in it. *)
LEMMA AddOK ==
  ASSUME NEW s \in Seq(Locations), NEW x \in Locations
  PROVE  /\ AddLocationToRoute(s, x) \in Seq(Locations)
         /\ \A y : Points(y, s) => Points(y, AddLocationToRoute(s, x))
         /\ Others(AddLocationToRoute(s, x), x.tag) = Others(s, x.tag)
  <1> DEFINE t == Append(s, x)
  <1>1. /\ t \in Seq(Locations) /\ Len(t) = Len(s) + 1 /\ Len(s) \in Nat
        /\ \A n \in 1..Len(s) : t[n] = s[n]
        /\ t[Len(s) + 1] = x
    OBVIOUS
  <1> HIDE DEF t
  <1>2. \A y : Points(y, s) => Points(y, t)
    BY <1>1 DEF Points
  <1>3. \A n : n \in 1..Len(t) <=> n \in 1..Len(s) \/ n = Len(s) + 1
    BY <1>1
  <1>4. Others(t, x.tag) = Others(s, x.tag)
    BY <1>1, <1>3, LocationAssumption DEF Others
  <1> QED  BY <1>1, <1>2, <1>4 DEF AddLocationToRoute, t

LEMMA UpdateOK ==
  ASSUME NEW s \in Seq(Locations), NEW x \in Locations, NEW k \in 1..Len(s), s[k].tag = x.tag
  PROVE  /\ UpdateLocationInRoute(s, k, x) \in Seq(Locations)
         /\ \A y : Points(y, s) => Points(y, UpdateLocationInRoute(s, k, x))
         /\ Others(UpdateLocationInRoute(s, k, x), x.tag) = Others(s, x.tag)
  <1> DEFINE t == [n \in 1..Len(s) |-> IF n = k THEN x ELSE s[n]]
  <1>0. Len(s) \in Nat /\ ~(k > Len(s))
    OBVIOUS
  <1>1. UpdateLocationInRoute(s, k, x) = t
    BY <1>0 DEF UpdateLocationInRoute
  <1>2. /\ t \in Seq(Locations) /\ Len(t) = Len(s)
        /\ \A n \in 1..Len(s) : t[n] = IF n = k THEN x ELSE s[n]
    <2>1. \A n \in 1..Len(s) : s[n] \in Locations
      BY NoHoles
    <2>2. t \in [1..Len(s) -> Locations]
      BY <2>1
    <2>3. \A n \in 1..Len(s) : t[n] = IF n = k THEN x ELSE s[n]
      OBVIOUS
    <2> HIDE DEF t
    <2> QED  BY <1>0, <2>2, <2>3
  <1> HIDE DEF t
  <1>3. \A y : Points(y, s) => Points(y, t)
    BY <1>2 DEF Points
  <1>4. Others(t, x.tag) = Others(s, x.tag)
    BY <1>2, NoHoles, LocationAssumption DEF Others
  <1> QED  BY <1>1, <1>2, <1>3, <1>4

LEMMA RemoveOK ==
  ASSUME NEW s \in Seq(Locations), NEW k \in 1..Len(s)
  PROVE  /\ RemoveLocation(s, k) \in Seq(Locations)
         /\ Others(RemoveLocation(s, k), s[k].tag) = Others(s, s[k].tag)
  <1> DEFINE a == SubSeq(s, 1, k - 1)
             b == SubSeq(s, k + 1, Len(s))
             t == a \o b
  <1>0. Len(s) \in Nat /\ k \in Nat /\ k >= 1 /\ k <= Len(s) /\ ~(k > Len(s))
    OBVIOUS
  <1>1. /\ a \in Seq(Locations) /\ Len(a) = k - 1
        /\ \A n \in 1..(k - 1) : a[n] = s[n]
    BY <1>0
  <1>2. /\ b \in Seq(Locations) /\ Len(b) = Len(s) - k
        /\ \A n \in 1..(Len(s) - k) : b[n] = s[n + k]
    BY <1>0
  <1>3. /\ t \in Seq(Locations) /\ Len(t) = Len(s) - 1
        /\ \A n \in 1..(k - 1) : t[n] = s[n]
        /\ \A n \in k..(Len(s) - 1) : t[n] = s[n + 1]
    <2> HIDE DEF a, b
    <2>1. t \in Seq(Locations) /\ Len(t) = Len(s) - 1
      BY <1>0, <1>1, <1>2
    <2>2. \A n \in 1..(k - 1) : t[n] = s[n]
      BY <1>0, <1>1, <1>2
    <2>3. ASSUME NEW n \in k..(Len(s) - 1) PROVE t[n] = s[n + 1]
      <3>1. n - (k - 1) \in 1..(Len(s) - k) /\ (n - (k - 1)) + k = n + 1
        BY <1>0
      <3>2. t[n] = b[n - (k - 1)]
        BY <1>0, <1>1, <1>2
      <3> QED  BY <1>2, <3>1, <3>2
    <2> QED  BY <2>1, <2>2, <2>3
  <1>4. RemoveLocation(s, k) = t
    BY <1>0, Zenon DEF RemoveLocation
  <1> HIDE DEF a, b, t
  <1>5. ASSUME NEW v \in Others(t, s[k].tag) PROVE v \in Others(s, s[k].tag)
    <2>1. PICK n \in 1..Len(t) : v = t[n] /\ (v = None \/ v.tag # s[k].tag)
      BY <1>5 DEF Others
    <2>2. CASE n \in 1..(k - 1)
      BY <1>0, <1>3, <2>1, <2>2 DEF Others
    <2>3. CASE n \in k..(Len(s) - 1)
      <3>1. v = s[n + 1] /\ n + 1 \in 1..Len(s)
        BY <1>0, <1>3, <2>1, <2>3
      <3> QED  BY <2>1, <3>1 DEF Others
    <2> QED  BY <1>0, <1>3, <2>2, <2>3
  <1>6. ASSUME NEW v \in Others(s, s[k].tag) PROVE v \in Others(t, s[k].tag)
    <2>1. PICK n \in 1..Len(s) : v = s[n] /\ (v = None \/ v.tag # s[k].tag)
      BY <1>6 DEF Others
    <2>2. n # k
      BY <2>1, NoHoles
    <2>3. CASE n < k
      <3>1. n \in 1..(k - 1) /\ n \in 1..Len(t)
        BY <1>0, <1>3, <2>3
      <3> QED  BY <1>3, <2>1, <3>1 DEF Others
    <2>4. CASE n > k
      <3>1. n - 1 \in k..(Len(s) - 1) /\ n - 1 \in 1..Len(t) /\ (n - 1) + 1 = n
        BY <1>0, <1>3, <2>4
      <3>2. t[n - 1] = v
        BY <1>3, <2>1, <3>1
      <3> QED  BY <2>1, <3>1, <3>2 DEF Others
    <2> QED  BY <1>0, <2>2, <2>3, <2>4
  <1> QED  BY <1>3, <1>4, <1>5, <1>6, Zenon

(* The timers after one more, and after the oldest has fired. *)
LEMMA WaitingAppend ==
  ASSUME NEW s \in Seq(Jobs), NEW j \in Jobs, NEW kind
  PROVE  /\ Append(s, j) \in Seq(Jobs)
         /\ j.kind = kind => Waiting(Append(s, j), kind) = Waiting(s, kind) \cup {Len(s) + 1}
         /\ j.kind # kind => Waiting(Append(s, j), kind) = Waiting(s, kind)
         /\ \A n \in 1..Len(s) : Append(s, j)[n] = s[n]
         /\ Append(s, j)[Len(s) + 1] = j
         /\ \A n \in 1..Len(Append(s, j)) : n \in 1..Len(s) \/ n = Len(s) + 1
  <1>1. /\ Append(s, j) \in Seq(Jobs) /\ Len(Append(s, j)) = Len(s) + 1 /\ Len(s) \in Nat
        /\ \A n \in 1..Len(s) : Append(s, j)[n] = s[n]
        /\ Append(s, j)[Len(s) + 1] = j
    OBVIOUS
  <1>2. \A n : n \in 1..(Len(s) + 1) <=> n \in 1..Len(s) \/ n = Len(s) + 1
    BY <1>1
  <1> QED  BY <1>1, <1>2 DEF Waiting

LEMMA WaitingTail ==
  ASSUME NEW s \in Seq(Jobs), s # <<>>
  PROVE  /\ Tail(s) \in Seq(Jobs) /\ Head(s) \in Jobs /\ Head(s) = s[1] /\ 1 \in 1..Len(s)
         /\ \A n \in 1..Len(Tail(s)) : n + 1 \in 1..Len(s) /\ Tail(s)[n] = s[n + 1]
         /\ \A kind : \A n \in Waiting(Tail(s), kind) : n \in Nat /\ n >= 1 /\ n + 1 \in Waiting(s, kind)
         /\ \A kind : 1 \in Waiting(s, kind) <=> Head(s).kind = kind
  <1>1. /\ Tail(s) \in Seq(Jobs) /\ Len(Tail(s)) = Len(s) - 1 /\ Len(s) \in Nat /\ Len(s) >= 1
        /\ \A n \in 1..(Len(s) - 1) : Tail(s)[n] = s[n + 1] /\ n + 1 \in 1..Len(s)
        /\ Head(s) = s[1] /\ Head(s) \in Jobs
    OBVIOUS
  <1> QED  BY <1>1 DEF Waiting

-------------------------------------------------------------------------------
LEMMA LocInit == Init => LocInv
  <1> SUFFICES ASSUME Init PROVE LocInv
    OBVIOUS
  <1>1. PICK values \in [Routes -> UNION {[1..n -> Paths] : n \in 0..MaxInit}] :
           saved = [r \in Routes |-> [k \in DOMAIN values[r] |->
                      [tag |-> <<r, k>>, value |-> values[r][k]]]]
    BY Zenon DEF Init
  <1>2. ASSUME NEW r \in Routes PROVE saved[r] \in Seq(Locations)
    <2>1. PICK n \in 0..MaxInit : values[r] \in [1..n -> Paths]
      OBVIOUS
    <2>2. saved[r] = [k \in 1..n |-> [tag |-> <<r, k>>, value |-> values[r][k]]]
      BY <1>1, <2>1
    <2>3. n \in Nat
      BY LocationAssumption
    <2>4. ASSUME NEW k \in 1..n PROVE [tag |-> <<r, k>>, value |-> values[r][k]] \in Locations
      BY <2>1, <2>3 DEF Locations, Tags
    <2>5. saved[r] \in [1..n -> Locations]
      BY <2>2, <2>4
    <2> QED  BY <2>3, <2>5
  <1>3. saved \in [Routes -> Seq(Locations)]
    <2>1. DOMAIN saved = Routes /\ saved = [r \in Routes |-> saved[r]]
      BY <1>1
    <2> QED  BY <1>2, <2>1
  <1>4. /\ dialog = "closed" /\ route = New /\ locs = <<>> /\ editing = NotEditing /\ jobs = <<>>
        /\ adds = 0
    BY DEF Init
  <1>5. LocTypeOK
    BY <1>3, <1>4 DEF LocTypeOK, Edits, Modes
  <1>6. Waiting(jobs, "save") = {} /\ Waiting(jobs, "delete") = {}
    BY <1>4 DEF Waiting
  <1>7. OneAtATime(dialog, editing, jobs, isSavingLocation, isRemovingLocation)
    BY <1>4, <1>6 DEF OneAtATime
  <1>8. AllPoint(editing, jobs, locs)
    BY <1>4 DEF AllPoint, Points, NotEditing
  <1> QED  BY <1>5, <1>7, <1>8 DEF LocInv

(* The three parts of the next state make the invariant. *)
LEMMA LocParts ==
  ASSUME LocTypeOK',
         OneAtATime(dialog', editing', jobs', isSavingLocation', isRemovingLocation'),
         AllPoint(editing', jobs', locs')
  PROVE  LocInv'
  BY DEF LocInv, OneAtATime, AllPoint, Points, Waiting, NotEditing

(* The two dialogs. *)
LEMMA LocDialogs ==
  ASSUME Stays, LocInv,
         \/ OpenForCreate \/ (\E r \in Routes : OpenForEdit(r)) \/ Revisit
         \/ CloseModal \/ OnAddLocation \/ CancelLocation
         \/ \E k \in 1..Len(locs) : OnEditLocation(k)
         \/ \E value \in Paths \cup {Bad} : StartEditLocation(value)
  PROVE  LocInv'
  <1> USE DEF LocInv
  <1>0. saved' = saved
    BY Zenon DEF OpenForCreate, OpenForEdit, Revisit, CloseModal, OnAddLocation, CancelLocation,
                 OnEditLocation, StartEditLocation
  (* A dialog opens on a form that is filled anew, while no timer runs. *)
  <1>1. ASSUME jobs' = <<>>, editing = NotEditing, editing' = editing, dialog' \in Modes,
               route' \in Routes \cup {New}, locs' \in Seq(Locations), adds' = adds
        PROVE  LocInv'
    <2>2. LocTypeOK'
      BY <1>0, <1>1 DEF LocTypeOK
    <2>3. Waiting(jobs', "save") = {} /\ Waiting(jobs', "delete") = {}
      BY <1>1 DEF Waiting
    <2>4. OneAtATime(dialog', editing', jobs', isSavingLocation', isRemovingLocation')
      BY <1>1, <2>3 DEF OneAtATime
    <2>5. AllPoint(editing', jobs', locs')
      BY <1>1 DEF AllPoint, Points, NotEditing
    <2> QED  BY <2>2, <2>4, <2>5, LocParts
  <1>a. CASE OpenForCreate \/ \E r \in Routes : OpenForEdit(r)
    <2>1. /\ dialog = "closed" /\ jobs = <<>> /\ jobs' = jobs /\ editing' = editing
          /\ dialog' \in Modes /\ adds' = adds
      BY <1>a, Zenon DEF OpenForCreate, OpenForEdit, Leaves, Modes
    <2>2. editing = NotEditing
      BY <2>1 DEF OneAtATime
    <2>3. route' \in Routes \cup {New} /\ locs' \in Seq(Locations)
      <3>1. \/ route' = New /\ locs' = <<>>
            \/ \E r \in Routes : route' = r /\ locs' = saved[r]
        BY <1>a, Zenon DEF OpenForCreate, OpenForEdit
      <3>2. CASE route' = New /\ locs' = <<>>
        BY <3>2
      <3>3. ASSUME NEW r \in Routes, route' = r, locs' = saved[r]
            PROVE  route' \in Routes \cup {New} /\ locs' \in Seq(Locations)
        BY <3>3 DEF LocTypeOK
      <3> QED  BY <3>1, <3>2, <3>3
    <2> QED  BY <1>1, <2>1, <2>2, <2>3
  <1>b. CASE Revisit
    <2>1. /\ jobs = <<>> /\ dialog = "closed" /\ UNCHANGED <<dialog, editing, adds>>
          /\ route' = New /\ locs' = <<>>
      BY <1>b, Zenon DEF Revisit, Leaves
    <2>2. jobs' = <<>>
      <3>1. 1..Len(jobs) = {}
        BY <2>1
      <3>2. jobs' = [n \in {} |-> jobs'[n]]
        BY <1>b, <3>1, Zenon DEF Revisit
      <3> QED  BY <3>2
    <2>3. editing = NotEditing
      BY <2>1 DEF OneAtATime
    <2>4. dialog' \in Modes /\ route' \in Routes \cup {New} /\ locs' \in Seq(Locations)
      BY <2>1 DEF Modes
    <2> QED  BY <1>1, <2>1, <2>2, <2>3, <2>4
  <1>c. ASSUME CloseModal \/ OnAddLocation \/ CancelLocation
               \/ (\E k \in 1..Len(locs) : OnEditLocation(k))
               \/ (\E value \in Paths \cup {Bad} : StartEditLocation(value))
        PROVE  UNCHANGED <<route, locs, jobs, isSavingLocation, isRemovingLocation>>
    BY <1>c, Zenon DEF CloseModal, OnAddLocation, CancelLocation, OnEditLocation, StartEditLocation,
                       form, busy
  <1>2. CASE CloseModal
    <2>1. /\ editing = NotEditing /\ UNCHANGED <<editing, adds>> /\ dialog' = "closed"
      BY <1>2 DEF CloseModal, OnDialog
    <2>2. LocTypeOK'
      BY <1>0, <1>2, <1>c, <2>1 DEF LocTypeOK, Modes
    <2>3. OneAtATime(dialog', editing', jobs', isSavingLocation', isRemovingLocation')
      BY <1>2, <1>c, <2>1 DEF OneAtATime
    <2> QED  BY <1>2, <1>c, <2>1, <2>2, <2>3, LocParts
  <1>3. CASE OnAddLocation
    <2>1. /\ dialog # "closed" /\ editing = NotEditing /\ UNCHANGED dialog
          /\ adds' = adds + 1
          /\ editing' = [index |-> None, value |-> Root, tag |-> <<None, adds>>]
      BY <1>3 DEF OnAddLocation, OnDialog
    <2>2. Root \in Paths
      BY LocationAssumption DEF Root
    <2>3. editing' \in Edits /\ editing'.index = None
      BY <2>1, <2>2 DEF Edits, LocTypeOK, Tags
    <2>4. LocTypeOK'
      BY <1>0, <1>3, <1>c, <2>1, <2>3 DEF LocTypeOK
    <2>5. OneAtATime(dialog', editing', jobs', isSavingLocation', isRemovingLocation')
      BY <1>0, <1>3, <1>c, <2>1, <2>3 DEF OneAtATime
    <2>6. AllPoint(editing', jobs', locs')
      BY <1>0, <1>3, <1>c, <2>1, <2>3 DEF AllPoint, Points
    <2> QED  BY <2>4, <2>5, <2>6, LocParts
  <1>4. CASE CancelLocation
    <2>1. /\ ~isSavingLocation /\ UNCHANGED <<dialog, adds>> /\ editing' = NotEditing
      BY <1>4 DEF CancelLocation
    <2>2. LocTypeOK'
      BY <1>0, <1>4, <1>c, <2>1 DEF LocTypeOK, Edits
    <2>3. OneAtATime(dialog', editing', jobs', isSavingLocation', isRemovingLocation')
      BY <1>0, <1>4, <1>c, <2>1 DEF OneAtATime, NotEditing
    <2>4. AllPoint(editing', jobs', locs')
      BY <1>0, <1>4, <1>c, <2>1 DEF AllPoint, Points, NotEditing
    <2> QED  BY <2>2, <2>3, <2>4, LocParts
  <1>5. ASSUME NEW k \in 1..Len(locs), OnEditLocation(k) PROVE LocInv'
    <2>1. /\ dialog # "closed" /\ editing = NotEditing /\ ~isRemovingLocation /\ UNCHANGED <<dialog, adds>>
          /\ editing' = [index |-> k, value |-> locs[k].value, tag |-> locs[k].tag]
      BY <1>5 DEF OnEditLocation, OnDialog
    <2>2. locs[k] \in Locations /\ k \in Nat
      BY NoHoles DEF LocTypeOK
    <2>3. locs[k].tag \in Tags /\ locs[k].value \in Paths
      BY <2>2 DEF Locations
    <2>4. editing' \in Edits /\ editing'.index = k /\ editing'.tag = locs[k].tag
      BY <2>1, <2>2, <2>3 DEF Edits
    <2>5. LocTypeOK'
      BY <1>0, <1>5, <1>c, <2>1, <2>4 DEF LocTypeOK
    <2>6. OneAtATime(dialog', editing', jobs', isSavingLocation', isRemovingLocation')
      BY <1>0, <1>5, <1>c, <2>1 DEF OneAtATime
    <2>7. AllPoint(editing', jobs', locs')
      BY <1>0, <1>5, <1>c, <2>1, <2>4 DEF AllPoint, Points
    <2> QED  BY <2>5, <2>6, <2>7, LocParts
  <1>6. ASSUME NEW value \in Paths \cup {Bad}, StartEditLocation(value) PROVE LocInv'
    <2>1. /\ editing # NotEditing /\ UNCHANGED <<dialog, adds>>
          /\ editing' = [editing EXCEPT !.value = value]
      BY <1>6 DEF StartEditLocation
    <2>2. editing \in [index : Nat \cup {None}, value : Paths \cup {Bad}, tag : Tags]
      BY <2>1 DEF LocTypeOK, Edits
    <2>3. /\ editing' \in Edits /\ editing'.index = editing.index /\ editing'.tag = editing.tag
          /\ editing'.value = value
      BY <2>1, <2>2 DEF Edits
    <2>4. editing' # NotEditing
      BY <2>3, LocationAssumption DEF NotEditing
    <2>5. LocTypeOK'
      BY <1>0, <1>6, <1>c, <2>1, <2>3 DEF LocTypeOK
    <2>6. OneAtATime(dialog', editing', jobs', isSavingLocation', isRemovingLocation')
      BY <1>0, <1>6, <1>c, <2>1, <2>3, <2>4 DEF OneAtATime
    <2>7. AllPoint(editing', jobs', locs')
      BY <1>0, <1>6, <1>c, <2>1, <2>3 DEF AllPoint, Points
    <2> QED  BY <2>5, <2>6, <2>7, LocParts
  <1> QED  BY <1>a, <1>b, <1>2, <1>3, <1>4, <1>5, <1>6

(* A timer starts. *)
LEMMA LocStarts ==
  ASSUME LocInv,
         \/ Submit \/ SaveRouteForce \/ OnSaveLocation
         \/ \E k \in 1..Len(locs) : OnDeleteLocation(k)
  PROVE  LocInv'
  <1> USE DEF LocInv
  <1>a. UNCHANGED <<saved, dialog, route, locs, editing, adds>>
    BY Zenon DEF Submit, SaveRouteForce, OnSaveLocation, OnDeleteLocation, form
  <1>0. /\ UNCHANGED <<saved, dialog, route, locs, editing, adds>>
        /\ jobs \in Seq(Jobs) /\ Len(jobs) \in Nat
    BY <1>a DEF LocTypeOK
  <1>1. ASSUME NEW j \in Jobs, jobs' = Append(jobs, j), Points(j, locs)
        PROVE  LocTypeOK' /\ AllPoint(editing', jobs', locs')
    <2>1. LocTypeOK'
      BY <1>0, <1>1, WaitingAppend DEF LocTypeOK
    <2>2. \A n \in 1..Len(jobs') : Points(jobs'[n], locs)
      BY <1>0, <1>1, WaitingAppend DEF AllPoint
    <2> QED  BY <1>0, <2>1, <2>2 DEF AllPoint
  (* One or two timers that save the route change nothing for the others. *)
  <1>j. ASSUME NEW kind \in {"submit", "force"}, NEW s \in Seq(Jobs), \A n \in 1..Len(s) : Points(s[n], locs)
        PROVE  LET t == Append(s, RouteJob(kind)) IN
               /\ t \in Seq(Jobs)
               /\ \A n \in 1..Len(t) : Points(t[n], locs)
               /\ Waiting(t, "save") = Waiting(s, "save")
               /\ Waiting(t, "delete") = Waiting(s, "delete")
               /\ \A n \in Waiting(s, "save") : t[n] = s[n]
    <2> DEFINE j == RouteJob(kind)
    <2>1. j \in Jobs /\ j.kind \in {"submit", "force"} /\ j.index = None
      BY DEF RouteJob, Jobs, RouteJobs, LocTypeOK
    <2> HIDE DEF j
    <2>2. Points(j, locs)
      BY <2>1 DEF Points
    <2>3. \A n \in Waiting(s, "save") : n \in 1..Len(s)
      BY DEF Waiting
    <2>4. /\ Append(s, j) \in Seq(Jobs)
          /\ Waiting(Append(s, j), "save") = Waiting(s, "save")
          /\ Waiting(Append(s, j), "delete") = Waiting(s, "delete")
          /\ \A n \in 1..Len(s) : Append(s, j)[n] = s[n]
          /\ Append(s, j)[Len(s) + 1] = j
          /\ \A n \in 1..Len(Append(s, j)) : n \in 1..Len(s) \/ n = Len(s) + 1
      BY <2>1, WaitingAppend
    <2>5. \A n \in 1..Len(Append(s, j)) : Points(Append(s, j)[n], locs)
      BY <1>j, <2>2, <2>4
    <2> QED  BY <2>3, <2>4, <2>5, Zenon DEF j
  <1>2. CASE Submit \/ SaveRouteForce
    <2>1. /\ jobs' \in Seq(Jobs)
          /\ \A n \in 1..Len(jobs') : Points(jobs'[n], locs)
          /\ Waiting(jobs', "save") = Waiting(jobs, "save")
          /\ Waiting(jobs', "delete") = Waiting(jobs, "delete")
          /\ \A n \in Waiting(jobs, "save") : jobs'[n] = jobs[n]
      <3> DEFINE one(kind) == Append(jobs, RouteJob(kind))
                 two == Append(one("force"), RouteJob("submit"))
      <3>1. jobs' \in {one("submit"), one("force"), two}
        BY <1>2, Zenon DEF Submit, SaveRouteForce
      <3>2. \A n \in 1..Len(jobs) : Points(jobs[n], locs)
        BY DEF AllPoint
      <3>3. ASSUME NEW kind \in {"submit", "force"}
            PROVE  /\ one(kind) \in Seq(Jobs)
                   /\ \A n \in 1..Len(one(kind)) : Points(one(kind)[n], locs)
                   /\ Waiting(one(kind), "save") = Waiting(jobs, "save")
                   /\ Waiting(one(kind), "delete") = Waiting(jobs, "delete")
                   /\ \A n \in Waiting(jobs, "save") : one(kind)[n] = jobs[n]
        BY <1>0, <1>j, <3>2, Zenon
      <3> HIDE DEF one
      <3>4. /\ two \in Seq(Jobs)
            /\ \A n \in 1..Len(two) : Points(two[n], locs)
            /\ Waiting(two, "save") = Waiting(one("force"), "save")
            /\ Waiting(two, "delete") = Waiting(one("force"), "delete")
            /\ \A n \in Waiting(one("force"), "save") : two[n] = one("force")[n]
        BY <1>j, <3>3, Zenon
      <3> HIDE DEF two
      <3>5. CASE jobs' = two
        BY <3>3, <3>4, <3>5, Zenon
      <3>6. CASE jobs' \in {one("submit"), one("force")}
        BY <3>3, <3>6, Zenon
      <3> QED  BY <3>1, <3>5, <3>6
    <2>2. UNCHANGED <<isSavingLocation, isRemovingLocation>>
      BY <1>2, Zenon DEF Submit, SaveRouteForce
    <2>3. LocTypeOK'
      BY <1>0, <2>1 DEF LocTypeOK
    <2>4. AllPoint(editing', jobs', locs')
      BY <1>0, <2>1 DEF AllPoint
    <2>5. OneAtATime(dialog', editing', jobs', isSavingLocation', isRemovingLocation')
      BY <1>0, <2>1, <2>2, Zenon DEF OneAtATime
    <2> QED  BY <2>3, <2>4, <2>5, LocParts
  <1>3. CASE OnSaveLocation
    <2> DEFINE j == LocationJob("save", editing.index, editing.value, editing.tag)
    <2>1. /\ editing # NotEditing /\ ~isSavingLocation /\ jobs' = Append(jobs, j)
          /\ isSavingLocation' = TRUE /\ UNCHANGED isRemovingLocation
      BY <1>3 DEF OnSaveLocation
    <2>2. route \in Routes \cup {New} /\ dialog \in Modes
      BY DEF LocTypeOK
    <2>3. editing \in [index : Nat \cup {None}, value : Paths \cup {Bad}, tag : Tags]
      BY <2>1 DEF LocTypeOK, Edits
    <2>4. j \in Jobs /\ j.kind = "save" /\ j.index = editing.index /\ j.tag = editing.tag
      BY <2>2, <2>3 DEF LocationJob, Jobs, SaveJobs
    <2> HIDE DEF j
    <2>5. Points(j, locs)
      BY <2>4 DEF Points, AllPoint
    <2>6. Waiting(jobs, "save") = {}
      BY <2>1 DEF OneAtATime
    <2>7. /\ Waiting(jobs', "save") = {Len(jobs) + 1}
          /\ Waiting(jobs', "delete") = Waiting(jobs, "delete")
          /\ jobs'[Len(jobs) + 1] = j
      <3>1. /\ Waiting(Append(jobs, j), "save") = Waiting(jobs, "save") \cup {Len(jobs) + 1}
            /\ Append(jobs, j)[Len(jobs) + 1] = j
        BY <1>0, <2>4, WaitingAppend
      <3>2. Waiting(Append(jobs, j), "delete") = Waiting(jobs, "delete")
        BY <1>0, <2>4, WaitingAppend
      <3> QED  BY <2>1, <2>6, <3>1, <3>2
    <2>8. OneAtATime(dialog', editing', jobs', isSavingLocation', isRemovingLocation')
      BY <1>0, <2>1, <2>4, <2>7 DEF OneAtATime
    <2> QED  BY <1>1, <2>1, <2>4, <2>5, <2>8, LocParts
  <1>4. ASSUME NEW k \in 1..Len(locs), OnDeleteLocation(k) PROVE LocInv'
    <2> DEFINE j == LocationJob("delete", k, None, locs[k].tag)
    <2>1. /\ dialog # "closed" /\ editing = NotEditing /\ ~isRemovingLocation /\ jobs' = Append(jobs, j)
          /\ isRemovingLocation' = TRUE /\ UNCHANGED isSavingLocation
      BY <1>4 DEF OnDeleteLocation, OnDialog
    <2>2. locs[k] \in Locations /\ k \in Nat
      BY NoHoles DEF LocTypeOK
    <2>3. j \in Jobs /\ j.kind = "delete" /\ j.index = k /\ j.tag = locs[k].tag
      BY <2>1, <2>2 DEF LocationJob, Jobs, DeleteJobs, LocTypeOK, Locations
    <2> HIDE DEF j
    <2>4. Points(j, locs)
      BY <2>3 DEF Points
    <2>5. Waiting(jobs, "save") = {} /\ Waiting(jobs, "delete") = {}
      BY <2>1 DEF OneAtATime
    <2>6. Waiting(jobs', "delete") = {Len(jobs) + 1} /\ Waiting(jobs', "save") = {}
      <3>1. Waiting(Append(jobs, j), "delete") = Waiting(jobs, "delete") \cup {Len(jobs) + 1}
        BY <1>0, <2>3, WaitingAppend
      <3>2. Waiting(Append(jobs, j), "save") = Waiting(jobs, "save")
        BY <1>0, <2>3, WaitingAppend
      <3> QED  BY <2>1, <2>5, <3>1, <3>2
    <2>7. OneAtATime(dialog', editing', jobs', isSavingLocation', isRemovingLocation')
      BY <1>0, <2>1, <2>6 DEF OneAtATime, NotEditing
    <2> QED  BY <1>1, <2>1, <2>3, <2>4, <2>7, LocParts
  <1> QED  BY <1>2, <1>3, <1>4

(* The oldest timer fires: what it holds, and what the others hold. *)
LEMMA LocFires ==
  ASSUME LocInv, Fire
  PROVE  LocInv' /\ Others(locs', Head(jobs).tag) = Others(locs, Head(jobs).tag)
  <1> USE DEF LocInv
  <1> DEFINE j == Head(jobs)
  <1>0. /\ jobs \in Seq(Jobs) /\ jobs # <<>> /\ jobs' = Tail(jobs) /\ UNCHANGED adds
        /\ locs \in Seq(Locations)
    BY DEF Fire, LocTypeOK
  <1>1. /\ jobs' \in Seq(Jobs) /\ j \in Jobs /\ j = jobs[1] /\ 1 \in 1..Len(jobs)
        /\ \A n \in 1..Len(jobs') : n + 1 \in 1..Len(jobs) /\ jobs'[n] = jobs[n + 1]
        /\ \A kind : \A n \in Waiting(jobs', kind) : n \in Nat /\ n >= 1 /\ n + 1 \in Waiting(jobs, kind)
        /\ \A kind : 1 \in Waiting(jobs, kind) <=> j.kind = kind
    BY <1>0, WaitingTail
  <1>2. \/ j.kind = "save" /\ Saved(j)
        \/ j.kind = "delete" /\ Deleted(j)
        \/ j.kind \in {"submit", "force"} /\ RouteSaved(j)
    BY DEF Fire
  <1> HIDE DEF j
  <1>l. j.live
    BY <1>1, Zenon DEF Jobs, SaveJobs, DeleteJobs, RouteJobs
  <1>3. Points(editing, locs) /\ Points(j, locs) /\ \A n \in 1..Len(jobs') : Points(jobs'[n], locs)
    BY <1>1 DEF AllPoint
  <1>4. \A kind : Waiting(jobs, kind) = {} => Waiting(jobs', kind) = {}
    BY <1>1
  <1>5. ASSUME NEW kind, \A m, n \in Waiting(jobs, kind) : m = n
        PROVE  /\ \A m, n \in Waiting(jobs', kind) : m = n
               /\ j.kind = kind => Waiting(jobs', kind) = {}
    <2>1. ASSUME NEW m \in Waiting(jobs', kind), NEW n \in Waiting(jobs', kind) PROVE m = n
      <3>1. m \in Nat /\ n \in Nat /\ m + 1 = n + 1
        BY <1>1, <1>5
      <3> QED  BY <3>1
    <2>2. ASSUME j.kind = kind, NEW n \in Waiting(jobs', kind) PROVE FALSE
      <3>1. n \in Nat /\ n >= 1 /\ n + 1 = 1
        BY <1>1, <1>5, <2>2
      <3> QED  BY <3>1
    <2> QED  BY <2>1, <2>2
  <1>6. /\ \A m, n \in Waiting(jobs', "save") : m = n
        /\ \A m, n \in Waiting(jobs', "delete") : m = n
        /\ j.kind = "save" => Waiting(jobs', "save") = {}
        /\ j.kind = "delete" => Waiting(jobs', "delete") = {}
    BY <1>5 DEF OneAtATime
  <1>7. ASSUME Waiting(jobs', "delete") # {}
        PROVE  /\ isRemovingLocation /\ editing.index = None
               /\ j.kind = "save" => j.index = None
               /\ \A n \in Waiting(jobs', "save") : jobs'[n].index = None
    <2>1. Waiting(jobs, "delete") # {}
      BY <1>4, <1>7
    <2>2. /\ isRemovingLocation /\ editing.index = None
          /\ \A n \in Waiting(jobs, "save") : jobs[n].index = None
      BY <2>1 DEF OneAtATime
    <2>3. \A n \in Waiting(jobs', "save") : n \in 1..Len(jobs')
      BY DEF Waiting
    <2> QED  BY <1>1, <2>2, <2>3
  <1>8. CASE j.kind = "save" /\ Saved(j)
    <2> DEFINE x == [tag |-> j.tag, value |-> j.value]
    <2>1. j.index \in Nat \cup {None} /\ j.value \in Paths \cup {Bad} /\ j.tag \in Tags
      BY <1>1, <1>8, Zenon DEF Jobs, SaveJobs, DeleteJobs, RouteJobs
    <2>2. UNCHANGED <<saved, dialog, route, isRemovingLocation>>
      BY <1>8 DEF Saved
    <2>3. CASE ~Valid(j.value)
      <3>1. UNCHANGED <<locs, editing>>
        BY <1>l, <1>8, <2>3 DEF Saved
      <3>2. LocTypeOK'
        BY <1>0, <1>1, <2>2, <3>1 DEF LocTypeOK
      <3>3. OneAtATime(dialog', editing', jobs', isSavingLocation', isRemovingLocation')
        BY <1>6, <1>7, <1>8, <2>2, <3>1 DEF OneAtATime
      <3>4. AllPoint(editing', jobs', locs')
        BY <1>3, <3>1 DEF AllPoint
      <3>5. Others(locs', j.tag) = Others(locs, j.tag)
        BY <3>1
      <3> QED  BY <3>2, <3>3, <3>4, <3>5, LocParts DEF j
    <2>4. CASE Valid(j.value)
      <3>1. /\ locs' = IF j.index = None THEN AddLocationToRoute(locs, x)
                       ELSE UpdateLocationInRoute(locs, j.index, x)
            /\ editing' = NotEditing
        BY <1>l, <1>8, <2>4 DEF Saved
      <3>2. x \in Locations /\ x.tag = j.tag
        BY <2>1, <2>4 DEF Locations, Valid
      <3> HIDE DEF x
      <3>3. /\ locs' \in Seq(Locations)
            /\ \A y : Points(y, locs) => Points(y, locs')
            /\ Others(locs', x.tag) = Others(locs, x.tag)
        <4>1. CASE j.index = None
          BY <1>0, <3>1, <3>2, <4>1, AddOK
        <4>2. CASE j.index # None
          <5>1. j.index \in 1..Len(locs) /\ locs[j.index].tag = x.tag
            BY <1>3, <3>2, <4>2 DEF Points
          <5> QED  BY <1>0, <3>1, <3>2, <4>2, <5>1, UpdateOK
        <4> QED  BY <4>1, <4>2
      <3>4. LocTypeOK'
        BY <1>0, <1>1, <2>2, <3>1, <3>3 DEF LocTypeOK, Edits
      <3>5. OneAtATime(dialog', editing', jobs', isSavingLocation', isRemovingLocation')
        BY <1>6, <1>7, <1>8, <2>2, <3>1 DEF OneAtATime, NotEditing
      <3>6. Points(editing', locs')
        BY <3>1 DEF Points, NotEditing
      <3>7. AllPoint(editing', jobs', locs')
        BY <1>3, <3>3, <3>6 DEF AllPoint
      <3> QED  BY <3>2, <3>3, <3>4, <3>5, <3>7, LocParts DEF j
    <2> QED  BY <2>3, <2>4
  <1>9. CASE j.kind = "delete" /\ Deleted(j)
    <2>1. j.index \in Nat /\ j.index # None
      BY <1>1, <1>9, LocationAssumption, ZenonT(30) DEF Jobs, SaveJobs, DeleteJobs, RouteJobs
    <2>2. j.index \in 1..Len(locs) /\ locs[j.index].tag = j.tag
      BY <1>3, <2>1 DEF Points
    <2>3. /\ locs' = RemoveLocation(locs, j.index)
          /\ UNCHANGED <<saved, dialog, route, editing, isSavingLocation>>
      BY <1>l, <1>9 DEF Deleted
    <2>4. locs' \in Seq(Locations) /\ Others(locs', j.tag) = Others(locs, j.tag)
      BY <1>0, <2>2, <2>3, RemoveOK
    <2>5. LocTypeOK'
      BY <1>0, <1>1, <2>3, <2>4 DEF LocTypeOK
    <2>6. Waiting(jobs', "save") # {} => Waiting(jobs, "save") # {}
      BY <1>4
    <2>7. OneAtATime(dialog', editing', jobs', isSavingLocation', isRemovingLocation')
      BY <1>6, <1>9, <2>3, <2>6 DEF OneAtATime
    (* Nothing else holds an index. *)
    <2>8. Waiting(jobs, "delete") # {}
      BY <1>1, <1>9
    <2>9. editing.index = None /\ \A n \in Waiting(jobs, "save") : jobs[n].index = None
      BY <2>8 DEF OneAtATime
    <2>10. ASSUME NEW n \in 1..Len(jobs') PROVE jobs'[n].index = None
      <3>1. n + 1 \in 1..Len(jobs) /\ jobs'[n] = jobs[n + 1] /\ jobs'[n] \in Jobs
        BY <1>1
      <3>2. jobs'[n].kind # "delete"
        <4>1. Waiting(jobs', "delete") = {}
          BY <1>6, <1>9
        <4> QED  BY <4>1 DEF Waiting
      <3>3. CASE jobs'[n].kind = "save"
        <4>1. n + 1 \in Waiting(jobs, "save")
          BY <3>1, <3>3 DEF Waiting
        <4> QED  BY <2>9, <3>1, <4>1
      <3>4. CASE jobs'[n].kind \in {"submit", "force"}
        BY <3>1, <3>4, Zenon DEF Jobs, SaveJobs, DeleteJobs, RouteJobs
      <3> QED  BY <3>1, <3>2, <3>3, <3>4, Zenon DEF Jobs, SaveJobs, DeleteJobs, RouteJobs
    <2>11. AllPoint(editing', jobs', locs')
      BY <2>3, <2>9, <2>10 DEF AllPoint, Points
    <2> QED  BY <2>4, <2>5, <2>7, <2>11, LocParts DEF j
  <1>10. CASE j.kind \in {"submit", "force"} /\ RouteSaved(j)
    <2> DEFINE v == Values(j)
    <2>1. v.route \in Routes \cup {New} /\ v.locs \in Seq(Locations)
      <3>1. j.route \in Routes \cup {New} /\ j.locs \in Seq(Locations)
        BY <1>1, <1>10, Zenon DEF Jobs, SaveJobs, DeleteJobs, RouteJobs
      <3> QED  BY <3>1 DEF Values, LocTypeOK
    <2>2. UNCHANGED <<route, locs, isSavingLocation, isRemovingLocation>>
      BY <1>10 DEF RouteSaved, form
    <2>3. saved' \in [Routes -> Seq(Locations)]
      <3> HIDE DEF v
      <3>1. saved' \in {saved, [saved EXCEPT ![v.route] = v.locs]}
        BY <1>10, Zenon DEF RouteSaved, v
      <3> QED  BY <2>1, <3>1 DEF LocTypeOK
    <2>a. \/ UNCHANGED <<dialog, editing>>
          \/ dialog' = "closed" /\ editing' = NotEditing
      BY <1>10, Zenon DEF RouteSaved
    <2>4. LocTypeOK'
      BY <1>0, <1>1, <2>2, <2>3, <2>a DEF LocTypeOK, Edits, Modes
    <2>5. Waiting(jobs', "save") # {} => Waiting(jobs, "save") # {}
      BY <1>4
    <2>6. OneAtATime(dialog', editing', jobs', isSavingLocation', isRemovingLocation')
      <3>1. CASE UNCHANGED <<dialog, editing>>
        BY <1>6, <1>7, <2>2, <2>5, <3>1, ZenonT(30) DEF OneAtATime
      <3>2. CASE dialog' = "closed" /\ editing' = NotEditing
        <4>1. editing'.index = None
          BY <3>2 DEF NotEditing
        <4>2. Waiting(jobs', "save") # {} => isSavingLocation'
          BY <2>2, <2>5, Zenon DEF OneAtATime
        <4> QED  BY <1>6, <1>7, <2>2, <3>2, <4>1, <4>2, ZenonT(30) DEF OneAtATime
      <3> QED  BY <2>a, <3>1, <3>2
    <2>7. Points(editing', locs')
      BY <1>3, <2>2, <2>a DEF Points, NotEditing
    <2>8. AllPoint(editing', jobs', locs')
      BY <1>3, <2>2, <2>7 DEF AllPoint
    <2>9. Others(locs', j.tag) = Others(locs, j.tag)
      BY <2>2
    <2> QED  BY <2>4, <2>6, <2>8, <2>9, LocParts DEF j
  <1> QED  BY <1>2, <1>8, <1>9, <1>10

(* Every step keeps the invariant. *)
LEMMA LocStep == Stays /\ LocInv /\ [Next]_vars => LocInv'
  <1>1. LocInv /\ UNCHANGED vars => LocInv'
    BY DEF LocInv, LocTypeOK, OneAtATime, AllPoint, Points, Waiting, NotEditing, vars, form, busy
  <1> QED  BY <1>1, LocDialogs, LocStarts, LocFires DEF Next

LEMMA LocAlways == Stays => (Spec => []LocInv)
  <1> SUFFICES ASSUME Stays PROVE Spec => []LocInv
    OBVIOUS
  <1>1. LocInv /\ [Next]_vars => LocInv'
    BY LocStep
  <1> QED  BY <1>1, LocInit, PTL DEF Spec

(* A user who stays in the dialog while timers run: the index that is       *)
(* edited, saved or removed three seconds later is the one of the location  *)
(* that was chosen (onSaveLocation, onDeleteLocation).                      *)
THEOREM IndexPointsAtChosen == Stays => (Spec => []PointsAtChosen)
  <1> SUFFICES ASSUME Stays PROVE Spec => []PointsAtChosen
    OBVIOUS
  <1>1. LocInv => PointsAtChosen
    BY PointsMeaning DEF LocInv, LocTypeOK
  <1> QED  BY <1>1, LocAlways, PTL

(* And the timer changes, adds or removes that location and no other. *)
THEOREM ChangeIsTheChosen == Stays => (Spec => OnlyChosenChanges)
  <1> SUFFICES ASSUME Stays PROVE Spec => OnlyChosenChanges
    OBVIOUS
  <1> DEFINE Only == jobs # <<>> /\ jobs' = Tail(jobs) =>
                       Others(locs', Head(jobs).tag) = Others(locs, Head(jobs).tag)
  <1>1. LocInv /\ [Next]_vars => [Only]_vars
    <2> SUFFICES ASSUME LocInv, Next, jobs # <<>>, jobs' = Tail(jobs)
                 PROVE  Others(locs', Head(jobs).tag) = Others(locs, Head(jobs).tag)
      OBVIOUS
    <2>1. CASE Fire
      BY <2>1, LocFires
    <2>2. jobs \in Seq(Jobs) /\ Len(Tail(jobs)) = Len(jobs) - 1 /\ Len(jobs) \in Nat
      BY DEF LocInv, LocTypeOK
    <2>3. jobs' # jobs /\ \A x : jobs' # Append(jobs, x) /\ \A y : jobs' # Append(Append(jobs, x), y)
      <3>1. \A x : /\ Len(Append(jobs, x)) = Len(jobs) + 1
                   /\ \A y : Len(Append(Append(jobs, x), y)) = Len(jobs) + 2
        BY <2>2
      <3>2. ASSUME jobs' = jobs PROVE FALSE
        <4>1. Len(jobs) = Len(jobs) - 1
          BY <2>2, <3>2, Zenon
        <4> QED  BY <2>2, <4>1
      <3>3. ASSUME NEW x, jobs' = Append(jobs, x) PROVE FALSE
        <4>1. Len(Append(jobs, x)) = Len(jobs) - 1
          BY <2>2, <3>3, Zenon
        <4> QED  BY <2>2, <3>1, <4>1
      <3>4. ASSUME NEW x, NEW y, jobs' = Append(Append(jobs, x), y) PROVE FALSE
        <4>1. Len(Append(Append(jobs, x), y)) = Len(jobs) - 1
          BY <2>2, <3>4, Zenon
        <4> QED  BY <2>2, <3>1, <4>1
      <3> QED  BY <3>2, <3>3, <3>4
    <2>5. ~Revisit
      BY Zenon DEF Revisit, Leaves
    <2>4. CASE ~Fire
      BY <2>3, <2>4, <2>5, Zenon
         DEF Next, OpenForCreate, OpenForEdit, CloseModal, Submit, SaveRouteForce, OnAddLocation,
             OnEditLocation, OnDeleteLocation, StartEditLocation, CancelLocation, OnSaveLocation
    <2> QED  BY <2>1, <2>4
  <1>2. Spec => [][Only]_vars
    BY <1>1, LocAlways, PTL DEF Spec
  <1> QED  BY <1>2 DEF OnlyChosenChanges
===============================================================================
