--------------------------- MODULE RoutesPageProofs ---------------------------
(***************************************************************************)
(* Proofs about RoutesPage, for any number of routes, settings, jobs and    *)
(* refused writes.  That the list shows what is stored holds for every      *)
(* user; that one operation changes one route, for a user who waits for the *)
(* spinner and submits the form with the save button.                       *)
(***************************************************************************)
EXTENDS RoutesPage, FiniteSetTheorems, SequenceTheorems, TLAPS

(* Every operation ends by loading what was really stored, so the list      *)
(* shows it, whatever overlaps and whatever write is refused.               *)
THEOREM ListShowsStored == Spec => []ListIsStored
  <1>1. Init => ListIsStored
    BY DEF Init, ListIsStored
  <1>2. ListIsStored /\ [Next]_vars => ListIsStored'
    <2> SUFFICES ASSUME ListIsStored, [Next]_vars PROVE ListIsStored'
      OBVIOUS
    <2> USE DEF ListIsStored
    <2>1. CASE Mount \/ Unmount
      BY <2>1 DEF Mount, Unmount
    <2>2. CASE OpenForCreate \/ (\E i \in Ids : OpenForEdit(i)) \/ CloseModal
               \/ (\E s \in Settings \cup {Bad}, b \in BOOLEAN : Type(s, b))
      BY <2>2, Zenon DEF OpenForCreate, OpenForEdit, CloseModal, Type
    <2>3. CASE Submit \/ SaveRouteForce \/ (\E i \in Ids : OnRemove(i))
      BY <2>3, Zenon DEF Submit, SaveRouteForce, OnRemove
    <2>4. ASSUME NEW i \in Ids, NEW accepted \in BOOLEAN, OnToggle(i, accepted) PROVE ListIsStored'
      BY <2>4 DEF OnToggle, Write, LoadRoutes
    <2>5. ASSUME NEW accepted \in BOOLEAN, Fire(accepted) PROVE ListIsStored'
      <3>1. CASE Remove(Head(jobs), accepted)
        BY <3>1 DEF Remove, Write, LoadRoutes
      <3>2. CASE Save(Head(jobs), accepted)
        BY <3>2 DEF Save, Create, Update, Write, LoadRoutes
      <3> QED  BY <2>5, <3>1, <3>2 DEF Fire
    <2>6. CASE UNCHANGED vars
      BY <2>6 DEF vars, page
    <2> QED  BY <2>1, <2>2, <2>3, <2>4, <2>5, <2>6 DEF Next
  <1> QED  BY <1>1, <1>2, PTL DEF Spec

-------------------------------------------------------------------------------
(* The careful user. *)
Careful == Patient /\ "force" \notin Buttons

(* The one timer of a careful user works on the map that is stored: nothing *)
(* can have changed it since the click.                                     *)
JobOK(j) ==
    /\ mounted /\ j.routes = stored
    /\ j.kind \in {"submit", "remove"}
    /\ j.kind = "remove" => ~open /\ j.id \in Ids /\ stored[j.id] # None
    /\ j.kind = "submit" =>
          /\ j.asked \in Forms /\ Parses(j.asked)
          /\ j.mode = "create" => nextId \in Ids
          /\ j.mode # "create" => j.asked.id \in Ids /\ stored[j.asked.id] # None

CarefulInv ==
    /\ stored \in [Ids -> Routes \cup {None}]
    /\ form \in Forms
    /\ nextId \in Nat \ {0}
    /\ \A i \in Ids : i >= nextId => stored[i] = None
    /\ ListIsStored
    /\ mounted \/ ~open
    /\ open /\ mode # "create" => form.id \in Ids /\ stored[form.id] # None
    /\ jobs = <<>> \/ \E j : jobs = <<j>> /\ JobOK(j)

(* The form of a new route holds a route. *)
LEMMA BlankOK == Blank \in Forms /\ Value(Blank) \in Routes
  BY PageAssumption DEF Blank, Value, Forms, Routes

(* A form that parses holds a route. *)
LEMMA ValueOK == ASSUME NEW f \in Forms, Parses(f) PROVE Value(f) \in Routes
  BY DEF Value, Forms, Routes, Parses

(* At first nothing is open or under way. *)
LEMMA CarefulInit == Init => CarefulInv
  <1> SUFFICES ASSUME Init PROVE CarefulInv
    OBVIOUS
  <1>1. PICK n \in 0..MaxInit : /\ stored = [i \in Ids |-> IF i <= n THEN Value(Blank) ELSE None]
                                /\ nextId = n + 1
    BY DEF Init
  <1>2. stored \in [Ids -> Routes \cup {None}]
    BY <1>1, BlankOK
  <1>3. nextId \in Nat \ {0} /\ \A i \in Ids : i >= nextId => stored[i] = None
    BY <1>1, PageAssumption DEF Ids
  <1> QED  BY <1>2, <1>3, BlankOK DEF Init, CarefulInv, ListIsStored

(* The user acts, nothing is written. *)
LEMMA CarefulClick ==
  ASSUME Careful, CarefulInv,
         \/ Mount \/ Unmount \/ OpenForCreate \/ CloseModal
         \/ \E i \in Ids : OpenForEdit(i)
         \/ \E s \in Settings \cup {Bad}, b \in BOOLEAN : Type(s, b)
         \/ Submit \/ \E i \in Ids : OnRemove(i)
  PROVE  CarefulInv' /\ UNCHANGED stored /\ done'.said # "success"
  <1> USE DEF Careful, CarefulInv, ListIsStored
  <1>1. CASE Mount
    <2>1. jobs = <<>>
      BY <1>1 DEF Mount, JobOK
    <2> QED  BY <1>1, <2>1, BlankOK DEF Mount, Nothing
  <1>2. CASE Unmount
    <2>1. jobs = <<>> /\ ~open
      BY <1>2, Zenon DEF Unmount, Acts
    <2>2. jobs' = <<>>
      BY <1>2, <2>1 DEF Unmount
    <2> QED  BY <1>2, <2>1, <2>2 DEF Unmount, Nothing
  <1>3. CASE OpenForCreate
    BY <1>3, BlankOK DEF OpenForCreate, OnList, Acts, Nothing
  <1>4. CASE CloseModal
    BY <1>4 DEF CloseModal, Acts, Nothing
  <1>5. ASSUME NEW i \in Ids, OpenForEdit(i)
        PROVE  CarefulInv' /\ UNCHANGED stored /\ done'.said # "success"
    <2>1. routes = stored /\ stored[i] # None /\ stored[i] \in Routes
      BY <1>5 DEF OpenForEdit, OnList, Acts
    <2>2. form' \in Forms /\ form'.id = i
      BY <1>5, <2>1 DEF OpenForEdit, Forms, Routes
    <2> QED  BY <1>5, <2>1, <2>2 DEF OpenForEdit, OnList, Acts, Nothing
  <1>6. ASSUME NEW s \in Settings \cup {Bad}, NEW b \in BOOLEAN, Type(s, b)
        PROVE  CarefulInv' /\ UNCHANGED stored /\ done'.said # "success"
    <2>1. form' \in Forms /\ form'.id = form.id
      BY <1>6, Zenon DEF Type, Forms
    <2> QED  BY <1>6, <2>1, ZenonT(30) DEF Type, Acts, Nothing
  <1>7. CASE Submit
    <2>1. /\ jobs = <<>> /\ mounted /\ open /\ Parses(form)
          /\ mode = "create" => nextId + Creating <= MaxIds
          /\ jobs' = Append(jobs, SaveJob("submit"))
          /\ UNCHANGED <<stored, routes, mounted, open, mode, form, nextId>>
          /\ done' = Nothing
      BY <1>7 DEF Submit, Acts
    <2>2. Creating = 0
      <3>1. {n \in 1..Len(jobs) : jobs[n].mode = "create"} = {}
        BY <2>1
      <3> QED  BY <3>1, FS_EmptySet, Zenon DEF Creating
    <2>3. mode = "create" => nextId \in Ids
      BY <2>1, <2>2, PageAssumption DEF Ids
    <2>4. PICK j : j = SaveJob("submit")
      OBVIOUS
    <2>5. jobs' = <<j>>
      BY <2>1, <2>4
    <2>6. JobOK(j)'
      BY <2>1, <2>3, <2>4 DEF JobOK, SaveJob, Parses
    <2> QED  BY <2>1, <2>5, <2>6 DEF Nothing
  <1>8. ASSUME NEW i \in Ids, OnRemove(i)
        PROVE  CarefulInv' /\ UNCHANGED stored /\ done'.said # "success"
    <2>0. PICK j : j = RemoveJob(i)
      OBVIOUS
    <2>1. /\ jobs = <<>> /\ mounted /\ ~open /\ routes = stored /\ stored[i] # None
          /\ jobs' = <<j>>
          /\ UNCHANGED <<stored, routes, mounted, open, mode, form, nextId>>
          /\ done' = Nothing
      BY <1>8, <2>0 DEF OnRemove, OnList, Acts
    <2>2. JobOK(j)'
      BY <2>0, <2>1 DEF JobOK, RemoveJob
    <2> QED  BY <2>1, <2>2 DEF Nothing
  <1> QED  BY <1>1, <1>2, <1>3, <1>4, <1>5, <1>6, <1>7, <1>8

(* A write of a map that differs from the stored one in one route. *)
LEMMA CarefulWrite ==
  ASSUME CarefulInv, NEW i \in Ids, NEW v \in Routes \cup {None}, NEW accepted \in BOOLEAN,
         Write([stored EXCEPT ![i] = v], accepted)
  PROVE  /\ stored' \in {stored, [stored EXCEPT ![i] = v]}
         /\ stored' \in [Ids -> Routes \cup {None}]
         /\ routes' = stored'
         /\ faults' = 0 /\ faults \in Nat => stored' = [stored EXCEPT ![i] = v]
  BY DEF Write, SaveRoutes, LoadRoutes, CarefulInv

(* What the step may do to the table, and what it may report. *)
Moves ==
    /\ \/ UNCHANGED stored
       \/ \E i \in Ids, r \in Routes : stored' = [stored EXCEPT ![i] = r]
       \/ \E i \in Ids : stored[i] # None /\ stored' = [stored EXCEPT ![i] = None]
    /\ faults \in Nat => SuccessIsStored'

(* A toggle keeps the invariant and is a step of the table. *)
LEMMA CarefulToggle ==
  ASSUME Careful, CarefulInv, NEW i \in Ids, NEW accepted \in BOOLEAN, OnToggle(i, accepted)
  PROVE  CarefulInv' /\ Moves
  <1> DEFINE next == [routes[i] EXCEPT !.enabled = ~@]
  <1>1. /\ jobs = <<>> /\ mounted /\ ~open /\ routes = stored /\ stored[i] # None
        /\ Write([stored EXCEPT ![i] = next], accepted)
        /\ done' = [id |-> i, asked |-> next, said |-> "success"]
        /\ UNCHANGED <<mounted, open, mode, form, jobs, nextId>>
    BY DEF OnToggle, OnList, Acts, CarefulInv, ListIsStored, Report, page, Careful
  <1>2. next \in Routes
    BY <1>1, Zenon DEF CarefulInv, Routes
  <1>3. /\ stored' \in {stored, [stored EXCEPT ![i] = next]}
        /\ stored' \in [Ids -> Routes \cup {None}]
        /\ routes' = stored'
        /\ faults' = 0 /\ faults \in Nat => stored' = [stored EXCEPT ![i] = next]
    BY <1>1, <1>2, CarefulWrite
  <1> HIDE DEF next
  <1>4. \A k \in Ids : k >= nextId => stored'[k] = None
    BY <1>1, <1>3 DEF CarefulInv
  <1>5. CarefulInv'
    BY <1>1, <1>3, <1>4 DEF CarefulInv, ListIsStored
  <1>6. i # None
    BY PageAssumption DEF Ids
  <1>7. Moves
    BY <1>1, <1>2, <1>3, <1>6 DEF Moves, SuccessIsStored, CarefulInv
  <1> QED  BY <1>5, <1>7

(* The end of a save or a removal keeps the invariant and is a step of the table. *)
LEMMA CarefulFire ==
  ASSUME Careful, CarefulInv, NEW accepted \in BOOLEAN, Fire(accepted)
  PROVE  CarefulInv' /\ Moves
  <1>1. PICK j : jobs = <<j>> /\ JobOK(j)
    BY DEF Fire, CarefulInv
  <1>2. /\ Head(jobs) = j /\ jobs' = <<>>
        /\ IF j.kind = "remove" THEN Remove(j, accepted) ELSE Save(j, accepted)
    BY <1>1 DEF Fire
  <1>3. ASSUME NEW i \in Ids, NEW v \in Routes \cup {None}, Write([stored EXCEPT ![i] = v], accepted),
               v \in Routes \/ stored[i] # None,
               nextId' \in Nat \ {0}, nextId' >= nextId, i < nextId',
               UNCHANGED <<mounted, form>>, open' = FALSE,
               done' = [id |-> i, asked |-> v, said |-> "success"]
        PROVE  CarefulInv' /\ Moves
    <2>1. /\ stored' \in {stored, [stored EXCEPT ![i] = v]}
          /\ stored' \in [Ids -> Routes \cup {None}]
          /\ routes' = stored'
          /\ faults' = 0 /\ faults \in Nat => stored' = [stored EXCEPT ![i] = v]
      BY <1>3, CarefulWrite
    <2>2. \A k \in Ids : k >= nextId' => stored'[k] = None
      BY <1>3, <2>1 DEF CarefulInv, Ids
    <2>3. CarefulInv'
      BY <1>2, <1>3, <2>1, <2>2 DEF CarefulInv, ListIsStored
    <2>4. i # None
      BY PageAssumption DEF Ids
    <2>5. Moves
      BY <1>3, <2>1, <2>4 DEF Moves, SuccessIsStored, CarefulInv
    <2> QED  BY <2>3, <2>5
  <1>4. CASE j.kind = "remove"
    <2>1. /\ j.id \in Ids /\ stored[j.id] # None /\ ~open /\ j.routes = stored
          /\ Remove(j, accepted)
      BY <1>1, <1>2, <1>4 DEF JobOK
    <2>2. j.id < nextId /\ nextId \in Nat \ {0}
      BY <2>1 DEF CarefulInv, Ids
    <2>3. /\ Write([stored EXCEPT ![j.id] = None], accepted)
          /\ done' = [id |-> j.id, asked |-> None, said |-> "success"]
          /\ UNCHANGED <<mounted, form, open, nextId>>
      BY <2>1 DEF Remove, Report
    <2>4. open' = FALSE /\ nextId' >= nextId /\ nextId' \in Nat \ {0} /\ j.id < nextId'
      BY <2>1, <2>2, <2>3
    <2> QED  BY <1>3, <2>1, <2>2, <2>3, <2>4, Zenon
  <1>5. CASE j.kind # "remove"
    <2>1. /\ j.kind = "submit" /\ j.asked \in Forms /\ Parses(j.asked) /\ j.routes = stored
          /\ Values(j) = j.asked /\ Save(j, accepted)
          /\ Value(j.asked) \in Routes
      BY <1>1, <1>2, <1>5, ValueOK DEF JobOK, Values
    <2>2. UNCHANGED <<mounted, form>> /\ open' = FALSE
          /\ IF j.mode = "create" THEN Create(j, j.asked, accepted) ELSE Update(j, j.asked, accepted)
      BY <2>1 DEF Save
    <2>3. CASE j.mode = "create"
      <3>1. nextId \in Ids /\ nextId \in Nat \ {0}
        BY <1>1, <2>1, <2>3 DEF JobOK, CarefulInv
      <3>2. /\ Write([stored EXCEPT ![nextId] = Value(j.asked)], accepted)
            /\ nextId' = nextId + 1
            /\ done' = [id |-> nextId, asked |-> Value(j.asked), said |-> "success"]
        BY <2>1, <2>2, <2>3 DEF Create, Report
      <3>3. nextId' \in Nat \ {0} /\ nextId' >= nextId /\ nextId < nextId'
        BY <3>1, <3>2
      <3> QED  BY <1>3, <2>1, <2>2, <3>1, <3>2, <3>3, Zenon
    <2>4. CASE j.mode # "create"
      <3>1. j.asked.id \in Ids /\ stored[j.asked.id] # None
        BY <1>1, <2>1, <2>4 DEF JobOK
      <3>2. j.asked.id < nextId /\ nextId \in Nat \ {0} /\ j.asked.id # None
        BY <3>1, PageAssumption DEF CarefulInv, Ids
      <3>3. /\ Write([stored EXCEPT ![j.asked.id] = Value(j.asked)], accepted)
            /\ UNCHANGED nextId
            /\ done' = [id |-> j.asked.id, asked |-> Value(j.asked), said |-> "success"]
        BY <2>1, <2>2, <2>4, <3>1, <3>2 DEF Update, Report
      <3>4. nextId' >= nextId /\ nextId' \in Nat \ {0} /\ j.asked.id < nextId'
        BY <3>2, <3>3
      <3> QED  BY <1>3, <2>1, <2>2, <3>1, <3>3, <3>4, Zenon
    <2> QED  BY <2>3, <2>4
  <1> QED  BY <1>4, <1>5

(* Every step of the page keeps the invariant and is a step of the table, or none. *)
LEMMA CarefulStep ==
  ASSUME Careful, CarefulInv, [Next]_vars
  PROVE  CarefulInv' /\ (Moves \/ UNCHANGED vars)
  <1>1. CASE \/ Mount \/ Unmount \/ OpenForCreate \/ CloseModal
             \/ \E i \in Ids : OpenForEdit(i)
             \/ \E s \in Settings \cup {Bad}, b \in BOOLEAN : Type(s, b)
             \/ Submit \/ \E i \in Ids : OnRemove(i)
    BY <1>1, CarefulClick DEF Moves, SuccessIsStored
  <1>2. ASSUME NEW i \in Ids, NEW accepted \in BOOLEAN, OnToggle(i, accepted)
        PROVE  CarefulInv' /\ Moves
    BY <1>2, CarefulToggle
  <1>3. ASSUME NEW accepted \in BOOLEAN, Fire(accepted)
        PROVE  CarefulInv' /\ Moves
    BY <1>3, CarefulFire
  <1>4. CASE UNCHANGED vars
    BY <1>4 DEF vars, page, CarefulInv, ListIsStored, JobOK
  <1>5. ~SaveRouteForce
    BY DEF Careful, SaveRouteForce
  <1> QED  BY <1>1, <1>2, <1>3, <1>4, <1>5 DEF Next

(* With a careful user the invariant holds in every state of the page. *)
LEMMA CarefulAlways == Careful => (Spec => []CarefulInv)
  <1> SUFFICES ASSUME Careful PROVE Spec => []CarefulInv
    OBVIOUS
  <1>1. CarefulInv /\ [Next]_vars => CarefulInv'
    BY CarefulStep
  <1> QED  BY <1>1, CarefulInit, PTL DEF Spec

(* For a careful user the storage behind the page is a table of routes: one *)
(* operation creates, changes or removes one route (repositoryHooks.ts,     *)
(* useRouteOperations.ts), also when the browser refuses writes.            *)
THEOREM PageImplementsTable == Careful => (Spec => ImplementsRouteTable)
  <1> SUFFICES ASSUME Careful PROVE Spec => ImplementsRouteTable
    OBVIOUS
  <1>1. Init => Table!Init
    BY CarefulInit DEF CarefulInv, Table!Init
  <1>2. CarefulInv /\ [Next]_vars => [Table!Next]_stored
    <2> SUFFICES ASSUME CarefulInv, [Next]_vars, stored' # stored PROVE Table!Next
      OBVIOUS
    <2>1. \/ \E i \in Ids, r \in Routes : stored' = [stored EXCEPT ![i] = r]
          \/ \E i \in Ids : stored[i] # None /\ stored' = [stored EXCEPT ![i] = None]
      BY CarefulStep DEF Moves, vars
    <2> QED  BY <2>1 DEF Table!Next, Table!Create, Table!Change, Table!Remove
  <1> QED  BY <1>1, <1>2, CarefulAlways, PTL DEF Spec, ImplementsRouteTable, Table!Spec

(* The number of refused writes is a number. *)
LEMMA FaultsAlways == Spec => [](faults \in Nat)
  <1>1. Init => faults \in Nat
    BY DEF Init
  <1>2. faults \in Nat /\ [Next]_vars => (faults \in Nat)'
    <2> SUFFICES ASSUME faults \in Nat, [Next]_vars PROVE faults' \in Nat
      OBVIOUS
    <2>1. ASSUME NEW map, NEW accepted \in BOOLEAN, Write(map, accepted) PROVE faults' \in Nat
      BY <2>1 DEF Write, SaveRoutes
    <2>2. ASSUME NEW accepted \in BOOLEAN, Fire(accepted) PROVE faults' \in Nat
      BY <2>1, <2>2, Zenon DEF Fire, Remove, Save, Create, Update
    <2>3. ASSUME NEW i \in Ids, NEW accepted \in BOOLEAN, OnToggle(i, accepted) PROVE faults' \in Nat
      BY <2>1, <2>3 DEF OnToggle
    <2> QED
      BY <2>2, <2>3, Zenon
         DEF Next, Mount, Unmount, OpenForCreate, OpenForEdit, CloseModal, Type, Submit,
         SaveRouteForce, OnRemove, vars
  <1> QED  BY <1>1, <1>2, PTL DEF Spec

(* A success the page reports to a careful user is in storage, until the    *)
(* browser has refused a write.                                             *)
THEOREM PageReportsTruly == Careful => (Spec => []SuccessIsStored)
  <1> SUFFICES ASSUME Careful PROVE Spec => []SuccessIsStored
    OBVIOUS
  <1>1. Init => SuccessIsStored
    BY DEF Init, SuccessIsStored, Nothing
  <1>2. CarefulInv /\ faults \in Nat /\ SuccessIsStored /\ [Next]_vars => SuccessIsStored'
    BY CarefulStep DEF Moves, SuccessIsStored, vars
  <1> QED  BY <1>1, <1>2, CarefulAlways, FaultsAlways, PTL DEF Spec

-------------------------------------------------------------------------------
(* Every user.  The ids left are enough for the routes that are being       *)
(* created, so no creation runs out of them.                                *)
CreatingIn(s) == {n \in 1..Len(s) : s[n].mode = "create"}

IdsLeft == nextId + Cardinality(CreatingIn(jobs)) <= MaxIds + 1

PageInv == TypeOK /\ IdsLeft

(* The timers that create are finitely many. *)
LEMMA CreatingFinite ==
  ASSUME NEW s \in Seq(Jobs)
  PROVE  IsFiniteSet(CreatingIn(s)) /\ Cardinality(CreatingIn(s)) \in Nat
  <1>1. IsFiniteSet(1..Len(s)) /\ CreatingIn(s) \in SUBSET (1..Len(s))
    BY FS_Interval DEF CreatingIn
  <1> QED  BY <1>1, FS_Subset, FS_CardinalityType

(* A new timer adds at most one of them, *)
LEMMA CreatingAppend ==
  ASSUME NEW s \in Seq(Jobs), NEW j \in Jobs
  PROVE  /\ Cardinality(CreatingIn(Append(s, j))) <= Cardinality(CreatingIn(s)) + 1
         /\ j.mode # "create" => CreatingIn(Append(s, j)) = CreatingIn(s)
  <1>1. j.mode # "create" => CreatingIn(Append(s, j)) = CreatingIn(s)
    BY DEF CreatingIn
  <1>2. j.mode = "create" => CreatingIn(Append(s, j)) = CreatingIn(s) \cup {Len(s) + 1}
    BY DEF CreatingIn
  <1>3. /\ IsFiniteSet(CreatingIn(s))
        /\ Cardinality(CreatingIn(s)) \in Nat
    BY CreatingFinite
  <1>4. Cardinality(CreatingIn(s) \cup {Len(s) + 1})
          \in {Cardinality(CreatingIn(s)), Cardinality(CreatingIn(s)) + 1}
    BY <1>3, FS_AddElement, Zenon
  <1>5. CASE j.mode = "create"
    <2>1. Cardinality(CreatingIn(Append(s, j))) = Cardinality(CreatingIn(s) \cup {Len(s) + 1})
      BY <1>2, <1>5, Zenon
    <2>2. Cardinality(CreatingIn(Append(s, j))) <= Cardinality(CreatingIn(s)) + 1
      BY <1>3, <1>4, <2>1
    <2> QED  BY <1>5, <2>2
  <1>6. CASE j.mode # "create"
    BY <1>1, <1>3, <1>6
  <1> QED  BY <1>5, <1>6

(* and the end of one that creates leaves fewer. *)
LEMMA CreatingTail ==
  ASSUME NEW s \in Seq(Jobs), s # <<>>
  PROVE  /\ Cardinality(CreatingIn(Tail(s))) <= Cardinality(CreatingIn(s))
         /\ Head(s).mode = "create" =>
               Cardinality(CreatingIn(Tail(s))) + 1 <= Cardinality(CreatingIn(s))
  <1> DEFINE rest == CreatingIn(s) \ {1}
             f == [n \in CreatingIn(Tail(s)) |-> n + 1]
  <1>0. Tail(s) \in Seq(Jobs) /\ Head(s) \in Jobs
    OBVIOUS
  <1>1. IsFiniteSet(CreatingIn(s)) /\ Cardinality(CreatingIn(s)) \in Nat
        /\ IsFiniteSet(CreatingIn(Tail(s))) /\ Cardinality(CreatingIn(Tail(s))) \in Nat
    BY <1>0, CreatingFinite, Zenon
  <1>2. /\ IsFiniteSet(rest)
        /\ Cardinality(rest) = IF 1 \in CreatingIn(s) THEN Cardinality(CreatingIn(s)) - 1
                               ELSE Cardinality(CreatingIn(s))
    BY <1>1, FS_RemoveElement
  <1>3. \A n \in CreatingIn(Tail(s)) : n \in Nat /\ n + 1 \in rest
    BY DEF CreatingIn
  <1>4. f \in Injection(CreatingIn(Tail(s)), rest)
    BY <1>3 DEF Injection, IsInjective
  <1>5. Cardinality(CreatingIn(Tail(s))) <= Cardinality(rest)
    BY <1>2, <1>4, FS_Injection
  <1>6. Head(s).mode = "create" => 1 \in CreatingIn(s)
    BY DEF CreatingIn
  <1> QED  BY <1>1, <1>2, <1>5, <1>6

(* The timers a page leaves behind: as many, of the same kinds, none live. *)
LeftBehind(s, f) ==
    [n \in 1..Len(s) |->
        IF s[n].live /\ s[n].kind = "force"
        THEN [s[n] EXCEPT !.left = f, !.live = FALSE]
        ELSE [s[n] EXCEPT !.live = FALSE]]

(* Leaving the page changes what its timers hold, not which they are. *)
LEMMA LeftBehindOK ==
  ASSUME NEW s \in Seq(Jobs), NEW f \in Forms
  PROVE  /\ LeftBehind(s, f) \in Seq(Jobs)
         /\ Len(LeftBehind(s, f)) = Len(s)
         /\ CreatingIn(LeftBehind(s, f)) = CreatingIn(s)
         /\ \A n \in 1..Len(s) : ~LeftBehind(s, f)[n].live
  <1> DEFINE t == LeftBehind(s, f)
  <1>1. \A n \in 1..Len(s) : t[n] \in Jobs /\ t[n].mode = s[n].mode /\ ~t[n].live
    <2> SUFFICES ASSUME NEW n \in 1..Len(s)
                 PROVE  t[n] \in Jobs /\ t[n].mode = s[n].mode /\ ~t[n].live
      OBVIOUS
    <2>1. s[n] \in Jobs
      OBVIOUS
    <2>2. t[n] = IF s[n].live /\ s[n].kind = "force"
                 THEN [s[n] EXCEPT !.left = f, !.live = FALSE]
                 ELSE [s[n] EXCEPT !.live = FALSE]
      BY DEF LeftBehind
    <2> QED  BY <2>1, <2>2, ZenonT(30) DEF Jobs
  <1>2. t \in Seq(Jobs) /\ Len(t) = Len(s)
    <2>1. DOMAIN t = 1..Len(s) /\ t = [n \in 1..Len(s) |-> t[n]]
      BY DEF LeftBehind
    <2> HIDE DEF t
    <2>2. t \in [1..Len(s) -> Jobs] /\ Len(s) \in Nat
      BY <1>1, <2>1
    <2> QED  BY <2>2
  <1> HIDE DEF t
  <1>3. CreatingIn(t) = CreatingIn(s)
    BY <1>1, <1>2 DEF CreatingIn
  <1> QED  BY <1>1, <1>2, <1>3 DEF t

-------------------------------------------------------------------------------
(* Type correctness. *)
Reports == [id : Ids \cup {None}, asked : {Value(f) : f \in Forms} \cup {None},
            said : {"nothing", "success", "error"}]

(* What the page reports is an id, a value or none, and a word. *)
LEMMA ReportsOK ==
  /\ Nothing \in Reports
  /\ \A i \in Ids \cup {None} : [id |-> i, asked |-> None, said |-> "error"] \in Reports
  /\ \A i \in Ids \cup {None} : [id |-> i, asked |-> None, said |-> "success"] \in Reports
  /\ \A i \in Ids \cup {None}, f \in Forms :
        [id |-> i, asked |-> Value(f), said |-> "success"] \in Reports
  BY DEF Nothing, Reports

(* A route is what some form holds. *)
LEMMA RouteIsValue == \A r \in Routes : r \in {Value(f) : f \in Forms}
  <1> SUFFICES ASSUME NEW r \in Routes PROVE r \in {Value(f) : f \in Forms}
    OBVIOUS
  <1> DEFINE f == [id |-> None, settings |-> r.settings, enabled |-> r.enabled]
  <1>1. f \in Forms
    BY DEF Forms, Routes
  <1>2. Value(f) = r
    BY DEF Value, Routes
  <1> QED  BY <1>1, <1>2

(* The timers of the three buttons are timers. *)
LEMMA JobsOK ==
  ASSUME TypeOK
  PROVE  /\ SaveJob("submit") \in Jobs /\ SaveJob("force") \in Jobs
         /\ SaveJob("submit").mode = mode /\ SaveJob("force").mode = mode
         /\ \A i \in Ids : RemoveJob(i) \in Jobs /\ RemoveJob(i).mode = "edit"
  BY BlankOK DEF TypeOK, SaveJob, RemoveJob, Jobs

(* One click on "in any case" starts one timer or two. *)
LEMMA ForceJobs ==
  ASSUME TypeOK, SaveRouteForce
  PROVE  \/ /\ jobs' = Append(jobs, SaveJob("force"))
            /\ started' = started + 1 /\ started + 1 <= MaxJobs
            /\ mode = "create" => nextId + Creating + 1 <= MaxIds + 1
         \/ /\ jobs' = Append(Append(jobs, SaveJob("force")), SaveJob("submit"))
            /\ started' = started + 2 /\ started + 2 <= MaxJobs
            /\ mode = "create" => nextId + Creating + 2 <= MaxIds + 1
  <1> DEFINE a == SaveJob("force")
             b == SaveJob("submit")
  <1>1. a \in Jobs /\ b \in Jobs /\ jobs \in Seq(Jobs)
    BY JobsOK DEF TypeOK
  <1>2. CASE Parses(form)
    <2>1. /\ jobs' = jobs \o (<<a>> \o <<b>>)
          /\ started' = started + Len(<<a>> \o <<b>>) /\ started + Len(<<a>> \o <<b>>) <= MaxJobs
          /\ mode = "create" => nextId + Creating + Len(<<a>> \o <<b>>) <= MaxIds + 1
      BY <1>2 DEF SaveRouteForce
    <2> HIDE DEF a, b
    <2>2. Len(<<a>> \o <<b>>) = 2 /\ jobs \o (<<a>> \o <<b>>) = Append(Append(jobs, a), b)
      BY <1>1
    <2> QED  BY <2>1, <2>2 DEF a, b
  <1>3. CASE ~Parses(form)
    <2>1. /\ jobs' = jobs \o (<<a>> \o <<>>)
          /\ started' = started + Len(<<a>> \o <<>>) /\ started + Len(<<a>> \o <<>>) <= MaxJobs
          /\ mode = "create" => nextId + Creating + Len(<<a>> \o <<>>) <= MaxIds + 1
      BY <1>3 DEF SaveRouteForce
    <2> HIDE DEF a, b
    <2>2. Len(<<a>> \o <<>>) = 1 /\ jobs \o (<<a>> \o <<>>) = Append(jobs, a)
      BY <1>1
    <2> QED  BY <2>1, <2>2 DEF a, b
  <1> QED  BY <1>2, <1>3

(* A write keeps the types, whether the browser accepts it or not. *)
LEMMA WriteOK ==
  ASSUME TypeOK, NEW map \in [Ids -> Routes \cup {None}], NEW accepted \in BOOLEAN,
         Write(map, accepted)
  PROVE  /\ stored' \in [Ids -> Routes \cup {None}] /\ routes' = stored'
         /\ faults' \in 0..MaxFaults
  BY PageAssumption DEF TypeOK, Write, SaveRoutes, LoadRoutes

(* At first nothing is open or under way. *)
LEMMA PageInit == Init => PageInv
  <1> SUFFICES ASSUME Init PROVE PageInv
    OBVIOUS
  <1>1. PICK n \in 0..MaxInit : /\ stored = [i \in Ids |-> IF i <= n THEN Value(Blank) ELSE None]
                                /\ nextId = n + 1
    BY DEF Init
  <1>2. stored \in [Ids -> Routes \cup {None}] /\ routes \in [Ids -> Routes \cup {None}]
    BY <1>1, BlankOK DEF Init, NoRoutes
  <1>3. nextId \in 1..(MaxIds + 1)
    BY <1>1, PageAssumption
  <1>4. jobs = <<>> /\ jobs \in Seq(Jobs) /\ Cardinality(CreatingIn(jobs)) = 0
    <2>1. jobs = <<>>
      BY DEF Init
    <2>2. CreatingIn(jobs) = {}
      BY <2>1 DEF CreatingIn
    <2> QED  BY <2>1, <2>2, FS_EmptySet
  <1>5. IdsLeft
    BY <1>3, <1>4, PageAssumption DEF IdsLeft
  <1>6. started \in 0..MaxJobs /\ faults \in 0..MaxFaults
    BY PageAssumption DEF Init
  <1> QED  BY <1>2, <1>3, <1>4, <1>5, <1>6, BlankOK, ReportsOK, Zenon
              DEF Init, PageInv, TypeOK, Reports

(* A click: what changes are the dialog, the form and the timers. *)
LEMMA PageClick ==
  ASSUME PageInv,
         \/ Mount \/ Unmount \/ OpenForCreate \/ CloseModal
         \/ \E i \in Ids : OpenForEdit(i)
         \/ \E s \in Settings \cup {Bad}, b \in BOOLEAN : Type(s, b)
         \/ Submit \/ SaveRouteForce \/ \E i \in Ids : OnRemove(i)
  PROVE  PageInv'
  <1> USE DEF PageInv
  <1>0. /\ jobs \in Seq(Jobs) /\ form \in Forms /\ nextId \in Nat /\ started \in Nat
        /\ IsFiniteSet(CreatingIn(jobs)) /\ Cardinality(CreatingIn(jobs)) \in Nat
        /\ Creating = Cardinality(CreatingIn(jobs))
        /\ nextId + Cardinality(CreatingIn(jobs)) <= MaxIds + 1
    BY CreatingFinite DEF TypeOK, Creating, CreatingIn, IdsLeft
  <1>1. ASSUME UNCHANGED <<stored, nextId, faults>>, done' = Nothing, routes' \in {routes, stored},
               mounted' \in BOOLEAN, open' \in BOOLEAN, mode' \in {"create", "edit"},
               form' \in Forms, isSaving' \in BOOLEAN, isRemoving' \in BOOLEAN,
               jobs' \in Seq(Jobs), started' \in 0..MaxJobs,
               nextId + Cardinality(CreatingIn(jobs')) <= MaxIds + 1
        PROVE  PageInv'
    <2>1. IdsLeft'
      BY <1>1 DEF IdsLeft
    <2>2. TypeOK'
      BY <1>1, ReportsOK DEF TypeOK, Reports
    <2> QED  BY <2>1, <2>2
  <1>2. CASE Mount \/ OpenForCreate
    BY <1>0, <1>1, <1>2, BlankOK, ZenonT(30) DEF Mount, OpenForCreate, TypeOK
  <1>3. CASE Unmount
    <2>1. jobs' = LeftBehind(jobs, form)
      BY <1>3, Zenon DEF Unmount, LeftBehind
    <2>2. jobs' \in Seq(Jobs) /\ CreatingIn(jobs') = CreatingIn(jobs)
      BY <1>0, <2>1, LeftBehindOK
    <2> QED  BY <1>0, <1>1, <1>3, <2>2, Zenon DEF Unmount, TypeOK
  <1>4. CASE CloseModal
    BY <1>0, <1>1, <1>4, Zenon DEF CloseModal, TypeOK
  <1>5. ASSUME NEW i \in Ids, OpenForEdit(i) PROVE PageInv'
    <2>1. routes[i] \in Routes
      BY <1>5 DEF OpenForEdit, TypeOK
    <2>2. form' \in Forms
      BY <1>5, <2>1 DEF OpenForEdit, Forms, Routes
    <2> QED  BY <1>0, <1>1, <1>5, <2>2 DEF OpenForEdit, TypeOK
  <1>6. ASSUME NEW s \in Settings \cup {Bad}, NEW b \in BOOLEAN, Type(s, b) PROVE PageInv'
    <2>1. form' \in Forms
      BY <1>0, <1>6, Zenon DEF Type, Forms
    <2> QED  BY <1>0, <1>1, <1>6, <2>1, ZenonT(30) DEF Type, TypeOK
  (* Timers start. *)
  <1>7. ASSUME NEW j \in Jobs
        PROVE  /\ Append(jobs, j) \in Seq(Jobs)
               /\ Cardinality(CreatingIn(Append(jobs, j))) \in Nat
               /\ j.mode = "create" =>
                     Cardinality(CreatingIn(Append(jobs, j))) <= Cardinality(CreatingIn(jobs)) + 1
               /\ j.mode # "create" =>
                     Cardinality(CreatingIn(Append(jobs, j))) = Cardinality(CreatingIn(jobs))
    <2>1. Append(jobs, j) \in Seq(Jobs)
      BY <1>0
    <2> QED  BY <1>0, <2>1, CreatingAppend, CreatingFinite, Zenon
  <1>8. CASE Submit
    <2>1. SaveJob("submit") \in Jobs /\ SaveJob("submit").mode = mode
      BY JobsOK
    <2>2. jobs' = Append(jobs, SaveJob("submit")) /\ (mode = "create" => nextId + Creating <= MaxIds)
      BY <1>8 DEF Submit
    <2>3. nextId + Cardinality(CreatingIn(jobs')) <= MaxIds + 1
      BY <1>0, <1>7, <2>1, <2>2, PageAssumption
    <2>4. started' \in 0..MaxJobs
      BY <1>0, <1>8, PageAssumption DEF Submit
    <2> QED  BY <1>0, <1>1, <1>7, <1>8, <2>1, <2>2, <2>3, <2>4 DEF Submit, TypeOK
  <1>9. CASE SaveRouteForce
    <2> DEFINE a == SaveJob("force")
               b == SaveJob("submit")
    <2>1. a \in Jobs /\ b \in Jobs /\ a.mode = mode /\ b.mode = mode
      BY JobsOK
    <2>2. UNCHANGED <<stored, routes, mounted, open, mode, form, isRemoving, nextId, faults>>
          /\ isSaving' = TRUE /\ done' = Nothing
      BY <1>9 DEF SaveRouteForce
    <2>3. CASE /\ jobs' = Append(jobs, a) /\ started' = started + 1 /\ started + 1 <= MaxJobs
               /\ mode = "create" => nextId + Creating + 1 <= MaxIds + 1
      <3> HIDE DEF a, b
      <3>1. nextId + Cardinality(CreatingIn(jobs')) <= MaxIds + 1
        BY <1>0, <1>7, <2>1, <2>3, PageAssumption
      <3>2. started' \in 0..MaxJobs /\ jobs' \in Seq(Jobs)
        BY <1>0, <1>7, <2>1, <2>3, PageAssumption
      <3> QED  BY <1>0, <1>1, <2>2, <3>1, <3>2 DEF TypeOK
    <2>4. CASE /\ jobs' = Append(Append(jobs, a), b) /\ started' = started + 2
               /\ started + 2 <= MaxJobs
               /\ mode = "create" => nextId + Creating + 2 <= MaxIds + 1
      <3> HIDE DEF a, b
      <3> DEFINE one == Append(jobs, a)
      <3>1. one \in Seq(Jobs) /\ Cardinality(CreatingIn(one)) \in Nat
            /\ (mode = "create" => Cardinality(CreatingIn(one)) <= Cardinality(CreatingIn(jobs)) + 1)
            /\ (mode # "create" => Cardinality(CreatingIn(one)) = Cardinality(CreatingIn(jobs)))
        BY <1>7, <2>1
      <3> HIDE DEF one
      <3>2. /\ Append(one, b) \in Seq(Jobs) /\ Cardinality(CreatingIn(Append(one, b))) \in Nat
            /\ Cardinality(CreatingIn(Append(one, b))) <= Cardinality(CreatingIn(one)) + 1
            /\ mode # "create" => Cardinality(CreatingIn(Append(one, b))) = Cardinality(CreatingIn(one))
        <4>1. Append(one, b) \in Seq(Jobs)
          BY <2>1, <3>1
        <4> QED  BY <2>1, <3>1, <4>1, CreatingAppend, CreatingFinite, Zenon
      <3>3. jobs' = Append(one, b)
        BY <2>4 DEF one
      <3>4. nextId + Cardinality(CreatingIn(jobs')) <= MaxIds + 1
        BY <1>0, <2>4, <3>1, <3>2, <3>3, PageAssumption
      <3>5. started' \in 0..MaxJobs /\ jobs' \in Seq(Jobs)
        BY <1>0, <2>4, <3>2, <3>3, PageAssumption
      <3> QED  BY <1>0, <1>1, <2>2, <3>4, <3>5 DEF TypeOK
    <2> QED  BY <1>9, <2>3, <2>4, ForceJobs
  <1>10. ASSUME NEW i \in Ids, OnRemove(i) PROVE PageInv'
    <2>1. RemoveJob(i) \in Jobs /\ RemoveJob(i).mode = "edit"
      BY JobsOK
    <2>2. jobs' = Append(jobs, RemoveJob(i))
      BY <1>10 DEF OnRemove
    <2>3. jobs' \in Seq(Jobs) /\ nextId + Cardinality(CreatingIn(jobs')) <= MaxIds + 1
      BY <1>0, <1>7, <2>1, <2>2
    <2>4. started' \in 0..MaxJobs
      BY <1>0, <1>10, PageAssumption DEF OnRemove
    <2> QED  BY <1>0, <1>1, <1>10, <2>3, <2>4 DEF OnRemove, TypeOK
  <1> QED  BY <1>2, <1>3, <1>4, <1>5, <1>6, <1>8, <1>9, <1>10

(* The toggle and the end of a timer: what is written are routes. *)
LEMMA PageWrite ==
  ASSUME PageInv, NEW accepted \in BOOLEAN,
         (\E i \in Ids : OnToggle(i, accepted)) \/ Fire(accepted)
  PROVE  PageInv'
  <1> USE DEF PageInv
  <1>1. ASSUME NEW i \in Ids, OnToggle(i, accepted) PROVE PageInv'
    <2> DEFINE next == [routes[i] EXCEPT !.enabled = ~@]
    <2>1. next \in Routes
      BY <1>1, Zenon DEF OnToggle, TypeOK, Routes
    <2>2. /\ Write([routes EXCEPT ![i] = next], accepted)
          /\ done' = [id |-> i, asked |-> next, said |-> "success"]
          /\ UNCHANGED <<page, jobs, started, nextId>>
      BY <1>1 DEF OnToggle, Report
    <2> HIDE DEF next
    <2>3. [routes EXCEPT ![i] = next] \in [Ids -> Routes \cup {None}]
      BY <2>1 DEF TypeOK
    <2>4. done' \in Reports
      BY <2>1, <2>2, RouteIsValue DEF Reports
    <2>5. /\ stored' \in [Ids -> Routes \cup {None}] /\ routes' = stored'
          /\ faults' \in 0..MaxFaults
      BY <2>2, <2>3, WriteOK, Zenon
    <2> QED  BY <2>2, <2>4, <2>5 DEF TypeOK, IdsLeft, page, Reports
  <1>2. CASE Fire(accepted)
    <2> DEFINE j == Head(jobs)
    <2>1. /\ jobs \in Seq(Jobs) /\ jobs # <<>> /\ j \in Jobs
          /\ jobs' = Tail(jobs) /\ jobs' \in Seq(Jobs) /\ UNCHANGED started
      BY <1>2 DEF Fire, TypeOK
    <2>2. /\ Cardinality(CreatingIn(jobs)) \in Nat /\ Cardinality(CreatingIn(jobs')) \in Nat
          /\ Cardinality(CreatingIn(jobs')) <= Cardinality(CreatingIn(jobs))
          /\ j.mode = "create" => Cardinality(CreatingIn(jobs')) + 1 <= Cardinality(CreatingIn(jobs))
          /\ nextId + Cardinality(CreatingIn(jobs)) <= MaxIds + 1
      BY <2>1, CreatingFinite, CreatingTail, Zenon DEF IdsLeft
    <2>3. IF j.kind = "remove" THEN Remove(j, accepted) ELSE Save(j, accepted)
      BY <1>2 DEF Fire
    <2> HIDE DEF j
    <2>4. ASSUME /\ stored' \in [Ids -> Routes \cup {None}] /\ routes' \in [Ids -> Routes \cup {None}]
                 /\ faults' \in 0..MaxFaults /\ done' \in Reports
                 /\ UNCHANGED <<mounted, mode, form>> /\ open' \in {open, FALSE}
                 /\ isSaving' \in {isSaving, FALSE} /\ isRemoving' \in {isRemoving, FALSE}
                 /\ nextId' = nextId \/ (j.mode = "create" /\ nextId' = nextId + 1)
          PROVE  PageInv'
      <3>1. nextId' \in 1..(MaxIds + 1) /\ IdsLeft'
        BY <2>1, <2>2, <2>4, PageAssumption DEF TypeOK, IdsLeft
      <3> QED  BY <2>1, <2>4, <3>1, Zenon DEF TypeOK, Reports
    <2>5. CASE j.kind = "remove"
      <3>1. /\ Write([j.routes EXCEPT ![j.id] = None], accepted)
            /\ done' = [id |-> j.id, asked |-> None, said |-> "success"]
            /\ isRemoving' = IF j.live THEN FALSE ELSE isRemoving
            /\ UNCHANGED <<mounted, open, mode, form, isSaving, nextId>>
        BY <2>3, <2>5, Zenon DEF Remove, Report
      <3>2. [j.routes EXCEPT ![j.id] = None] \in [Ids -> Routes \cup {None}] /\ j.id \in Ids \cup {None}
        BY <2>1, ZenonT(30) DEF Jobs
      <3>3. stored' \in [Ids -> Routes \cup {None}] /\ routes' = stored' /\ faults' \in 0..MaxFaults
        BY <3>1, <3>2, WriteOK
      <3>4. done' \in Reports
        BY <3>1, <3>2, ReportsOK
      <3> QED  BY <2>4, <3>1, <3>3, <3>4
    <2>6. CASE j.kind # "remove"
      <3> DEFINE f == Values(j)
      <3>1. f \in Forms /\ j.asked \in Forms /\ j.routes \in [Ids -> Routes \cup {None}]
        BY <2>1 DEF Values, Jobs, TypeOK
      <3>2. /\ isSaving' = IF j.live THEN FALSE ELSE isSaving
            /\ UNCHANGED <<mounted, mode, form, isRemoving>>
            /\ IF ~Parses(f)
               THEN /\ done' = [id |-> f.id, asked |-> None, said |-> "error"]
                    /\ UNCHANGED <<stored, routes, faults, nextId, open>>
               ELSE /\ IF j.mode = "create" THEN Create(j, f, accepted) ELSE Update(j, f, accepted)
                    /\ open' = FALSE
        BY <2>3, <2>6, Zenon DEF Save
      <3> HIDE DEF f
      <3>3. f.id \in Ids \cup {None}
        BY <3>1 DEF Forms
      <3>4. CASE ~Parses(f)
        <4>1. done' \in Reports
          BY <3>2, <3>3, <3>4, ReportsOK, ZenonT(30)
        <4> QED  BY <2>4, <3>2, <3>4, <4>1, ZenonT(30) DEF TypeOK
      <3>5. CASE Parses(f) /\ j.mode = "create"
        <4>1. /\ Write([j.routes EXCEPT ![nextId] = Value(f)], accepted)
              /\ nextId' = nextId + 1
              /\ done' = [id |-> nextId, asked |-> Value(j.asked), said |-> "success"]
              /\ open' = FALSE
          BY <3>2, <3>5 DEF Create, Report
        <4>2. nextId \in Ids
          BY <2>2, <3>5, PageAssumption DEF TypeOK, Ids
        <4>3. [j.routes EXCEPT ![nextId] = Value(f)] \in [Ids -> Routes \cup {None}]
          BY <3>1, <3>5, <4>2, ValueOK
        <4>4. stored' \in [Ids -> Routes \cup {None}] /\ routes' = stored' /\ faults' \in 0..MaxFaults
          BY <4>1, <4>3, WriteOK
        <4>5. done' \in Reports
          BY <3>1, <4>1, <4>2, ReportsOK
        <4> QED  BY <2>4, <3>2, <3>5, <4>1, <4>4, <4>5, Zenon
      <3>6. CASE Parses(f) /\ j.mode # "create"
        <4>1. /\ IF f.id = None \/ (f.id # None /\ j.routes[f.id] = None)
                 THEN UNCHANGED <<stored, routes, faults>>
                 ELSE Write([j.routes EXCEPT ![f.id] = Value(f)], accepted)
              /\ done' = [id |-> f.id, asked |-> Value(j.asked), said |-> "success"]
              /\ UNCHANGED nextId /\ open' = FALSE
          BY <3>2, <3>6 DEF Update, Report
        <4>2. [j.routes EXCEPT ![f.id] = Value(f)] \in [Ids -> Routes \cup {None}]
          BY <3>1, <3>6, ValueOK, Zenon
        <4>3. /\ stored' \in [Ids -> Routes \cup {None}] /\ routes' \in [Ids -> Routes \cup {None}]
              /\ faults' \in 0..MaxFaults
          <5>1. CASE UNCHANGED <<stored, routes, faults>>
            BY <5>1 DEF TypeOK
          <5>2. CASE Write([j.routes EXCEPT ![f.id] = Value(f)], accepted)
            BY <4>2, <5>2, WriteOK
          <5> QED  BY <4>1, <5>1, <5>2, Zenon
        <4>4. done' \in Reports
          BY <3>1, <3>3, <4>1, ReportsOK
        <4> QED  BY <2>4, <3>2, <3>6, <4>1, <4>3, <4>4, ZenonT(30)
      <3> QED  BY <3>4, <3>5, <3>6
    <2> QED  BY <2>5, <2>6
  <1> QED  BY <1>1, <1>2

(* Every step keeps types and ids. *)
LEMMA PageStep == PageInv /\ [Next]_vars => PageInv'
  <1>1. PageInv /\ UNCHANGED vars => PageInv'
    BY DEF PageInv, TypeOK, IdsLeft, vars, page
  <1> QED  BY <1>1, PageClick, PageWrite DEF Next

LEMMA PageAlways == Spec => []PageInv
  BY PageInit, PageStep, PTL DEF Spec

(* Only routes that RouteSchema accepts get into storage and into the list, *)
(* whichever button saved them and whatever overlaps; and the ids suffice.  *)
THEOREM PageTypeCorrect == Spec => []TypeOK
  <1>1. PageInv => TypeOK
    BY DEF PageInv
  <1> QED  BY <1>1, PageAlways, PTL

-------------------------------------------------------------------------------
(* The spinners.  A timer is live while the page that started it is shown. *)
LiveIn(s, kinds) == {n \in 1..Len(s) : s[n].live /\ s[n].kind \in kinds}

Saves == {"submit", "force"}

LEMMA LiveAppend ==
  ASSUME NEW s \in Seq(Jobs), NEW j \in Jobs, j.live, NEW K
  PROVE  /\ j.kind \in K => LiveIn(Append(s, j), K) = LiveIn(s, K) \cup {Len(s) + 1}
         /\ j.kind \notin K => LiveIn(Append(s, j), K) = LiveIn(s, K)
  <1>1. /\ Len(Append(s, j)) = Len(s) + 1 /\ Len(s) \in Nat
        /\ \A n \in 1..Len(s) : Append(s, j)[n] = s[n]
        /\ Append(s, j)[Len(s) + 1] = j
    OBVIOUS
  <1>2. \A n : n \in 1..(Len(s) + 1) <=> n \in 1..Len(s) \/ n = Len(s) + 1
    BY <1>1
  <1> QED  BY <1>1, <1>2 DEF LiveIn

LEMMA LiveTail ==
  ASSUME NEW s \in Seq(Jobs), s # <<>>, NEW K
  PROVE  /\ LiveIn(Tail(s), K) = {n \in 1..(Len(s) - 1) : n + 1 \in LiveIn(s, K)}
         /\ 1 \in LiveIn(s, K) <=> Head(s).live /\ Head(s).kind \in K
         /\ \A n \in LiveIn(s, K) : n = 1 \/ n - 1 \in LiveIn(Tail(s), K)
  <1>1. /\ Len(Tail(s)) = Len(s) - 1 /\ Len(s) \in Nat /\ Len(s) >= 1
        /\ \A n \in 1..(Len(s) - 1) : Tail(s)[n] = s[n + 1] /\ n + 1 \in 1..Len(s)
        /\ Head(s) = s[1]
    OBVIOUS
  <1>2. LiveIn(Tail(s), K) = {n \in 1..(Len(s) - 1) : n + 1 \in LiveIn(s, K)}
    BY <1>1 DEF LiveIn
  <1>3. 1 \in LiveIn(s, K) <=> Head(s).live /\ Head(s).kind \in K
    BY <1>1 DEF LiveIn
  <1>4. ASSUME NEW n \in LiveIn(s, K), n # 1 PROVE n - 1 \in LiveIn(Tail(s), K)
    <2>1. n \in 1..Len(s)
      BY DEF LiveIn
    <2>2. n - 1 \in 1..(Len(s) - 1) /\ (n - 1) + 1 = n
      BY <1>1, <1>4, <2>1
    <2> QED  BY <1>2, <1>4, <2>2
  <1> QED  BY <1>2, <1>3, <1>4

(* The inductive invariant: what the spinners say of the live timers, at    *)
(* most one removal among them, and none at all once the page has been left.*)
Spinners(m, r, s, js) ==
    /\ m => /\ r <=> LiveIn(js, {"remove"}) # {}
            /\ s => LiveIn(js, Saves) # {}
    /\ ~m => ~s /\ ~r /\ LiveIn(js, {"remove"}) = {} /\ LiveIn(js, Saves) = {}
    /\ \A x, y \in LiveIn(js, {"remove"}) : x = y

LEMMA SpinnersMeaning ==
  Spinners(mounted, isRemoving, isSaving, jobs) => SpinnersAreTrue
  BY DEF Spinners, LiveIn, Saves, SpinnersAreTrue

LEMMA SpinInit == Init => Spinners(mounted, isRemoving, isSaving, jobs)
  BY DEF Init, Spinners, LiveIn

LEMMA SpinStep ==
  PageInv /\ Spinners(mounted, isRemoving, isSaving, jobs) /\ [Next]_vars
    => Spinners(mounted, isRemoving, isSaving, jobs)'
  <1> SUFFICES ASSUME PageInv, Spinners(mounted, isRemoving, isSaving, jobs), [Next]_vars
               PROVE  Spinners(mounted', isRemoving', isSaving', jobs')
    BY DEF Spinners, LiveIn
  <1>0. jobs \in Seq(Jobs) /\ mounted \in BOOLEAN /\ isRemoving \in BOOLEAN /\ isSaving \in BOOLEAN
    BY DEF PageInv, TypeOK
  <1>1. CASE UNCHANGED <<mounted, isRemoving, isSaving, jobs>>
    BY <1>1
  <1>2. CASE Mount
    BY <1>2 DEF Mount, Spinners
  <1>3. CASE Unmount
    <2>1. jobs' = LeftBehind(jobs, form) /\ mounted' = FALSE /\ isSaving' = FALSE /\ isRemoving' = FALSE
      BY <1>3, Zenon DEF Unmount, LeftBehind
    <2>2. \A n \in 1..Len(jobs') : ~jobs'[n].live
      BY <1>0, <2>1, LeftBehindOK DEF PageInv, TypeOK
    <2>3. \A K : LiveIn(jobs', K) = {}
      BY <2>2 DEF LiveIn
    <2> QED  BY <2>1, <2>3 DEF Spinners
  (* A live save starts. *)
  <1>4. ASSUME NEW j \in Jobs, NEW s \in Seq(Jobs), j.live, j.kind \in Saves, NEW b \in BOOLEAN,
               Spinners(TRUE, isRemoving, b, s)
        PROVE  Spinners(TRUE, isRemoving, TRUE, Append(s, j)) /\ Append(s, j) \in Seq(Jobs)
    <2>1. j.kind \notin {"remove"}
      BY <1>4 DEF Saves
    <2>2. /\ LiveIn(Append(s, j), {"remove"}) = LiveIn(s, {"remove"})
          /\ LiveIn(Append(s, j), Saves) # {}
      BY <1>4, <2>1, LiveAppend, ZenonT(30)
    <2>3. Append(s, j) \in Seq(Jobs)
      OBVIOUS
    <2> QED  BY <1>4, <2>2, <2>3 DEF Spinners
  <1>5. CASE Submit
    <2>1. mounted = TRUE /\ jobs' = Append(jobs, SaveJob("submit")) /\ isSaving' = TRUE
          /\ UNCHANGED <<mounted, isRemoving>>
      BY <1>0, <1>5 DEF Submit, Acts
    <2>2. SaveJob("submit") \in Jobs /\ SaveJob("submit").live /\ SaveJob("submit").kind \in Saves
      BY JobsOK DEF SaveJob, Saves, PageInv
    <2> QED  BY <1>0, <1>4, <2>1, <2>2, Zenon
  <1>6. CASE SaveRouteForce
    <2> DEFINE a == SaveJob("force")
               b == SaveJob("submit")
    <2>1. mounted = TRUE /\ isSaving' = TRUE /\ UNCHANGED <<mounted, isRemoving>>
      BY <1>0, <1>6 DEF SaveRouteForce, Acts
    <2>2. /\ a \in Jobs /\ a.live /\ a.kind \in Saves
          /\ b \in Jobs /\ b.live /\ b.kind \in Saves
      BY JobsOK DEF SaveJob, Saves, PageInv
    <2>3. jobs' = Append(jobs, a) \/ jobs' = Append(Append(jobs, a), b)
      BY <1>6, ForceJobs DEF PageInv
    <2> HIDE DEF a, b
    <2>4. Spinners(TRUE, isRemoving, TRUE, Append(jobs, a)) /\ Append(jobs, a) \in Seq(Jobs)
      BY <1>0, <1>4, <2>1, <2>2, Zenon
    <2>5. Spinners(TRUE, isRemoving, TRUE, Append(Append(jobs, a), b))
      BY <1>4, <2>2, <2>4, Zenon
    <2> QED  BY <2>1, <2>3, <2>4, <2>5, Zenon
  <1>7. ASSUME NEW i \in Ids, OnRemove(i)
        PROVE  Spinners(mounted', isRemoving', isSaving', jobs')
    <2>1. mounted = TRUE /\ jobs' = Append(jobs, RemoveJob(i)) /\ isRemoving = FALSE /\ isRemoving' = TRUE
          /\ UNCHANGED <<mounted, isSaving>>
      BY <1>0, <1>7 DEF OnRemove, OnList, Acts
    <2>2. RemoveJob(i) \in Jobs /\ RemoveJob(i).live /\ RemoveJob(i).kind = "remove"
      BY JobsOK DEF RemoveJob, PageInv
    <2>3. /\ LiveIn(jobs', {"remove"}) = LiveIn(jobs, {"remove"}) \cup {Len(jobs) + 1}
          /\ LiveIn(jobs', Saves) = LiveIn(jobs, Saves)
      BY <1>0, <2>1, <2>2, LiveAppend DEF Saves
    <2>4. LiveIn(jobs, {"remove"}) = {}
      BY <2>1 DEF Spinners
    <2> QED  BY <2>1, <2>3, <2>4 DEF Spinners
  <1>8. ASSUME NEW accepted \in BOOLEAN, Fire(accepted)
        PROVE  Spinners(mounted', isRemoving', isSaving', jobs')
    <2> DEFINE j == Head(jobs)
    <2>1. /\ jobs # <<>> /\ jobs' = Tail(jobs) /\ UNCHANGED mounted
          /\ \/ /\ j.kind = "remove" /\ UNCHANGED isSaving
                /\ isRemoving' = IF j.live THEN FALSE ELSE isRemoving
             \/ /\ j.kind # "remove" /\ UNCHANGED isRemoving
                /\ isSaving' = IF j.live THEN FALSE ELSE isSaving
      BY <1>8, Zenon DEF Fire, Remove, Save
    <2>2. j.kind \in Saves \cup {"remove"} /\ j.live \in BOOLEAN
      <3>1. j \in Jobs
        BY <1>0, <2>1
      <3> HIDE DEF j
      <3> QED  BY <3>1 DEF Jobs, Saves
    <2>3. ASSUME NEW K
          PROVE  /\ LiveIn(jobs', K) = {n \in 1..(Len(jobs) - 1) : n + 1 \in LiveIn(jobs, K)}
                 /\ 1 \in LiveIn(jobs, K) <=> j.live /\ j.kind \in K
                 /\ \A n \in LiveIn(jobs, K) : n = 1 \/ n - 1 \in LiveIn(jobs', K)
      BY <1>0, <2>1, LiveTail
    <2> HIDE DEF j
    (* Uniqueness, and an absent kind stays absent. *)
    <2>4. \A K : LiveIn(jobs, K) = {} => LiveIn(jobs', K) = {}
      BY <2>3
    <2>5. \A K : ~(j.live /\ j.kind \in K) /\ LiveIn(jobs, K) # {} => LiveIn(jobs', K) # {}
      BY <2>3
    <2>6. \A x, y \in LiveIn(jobs', {"remove"}) : x = y
      <3> SUFFICES ASSUME NEW x \in LiveIn(jobs', {"remove"}), NEW y \in LiveIn(jobs', {"remove"})
                   PROVE  x = y
        OBVIOUS
      <3>1. x + 1 \in LiveIn(jobs, {"remove"}) /\ y + 1 \in LiveIn(jobs, {"remove"}) /\ x \in Int /\ y \in Int
        BY <2>3
      <3>2. x + 1 = y + 1
        BY <3>1 DEF Spinners
      <3> QED  BY <3>1, <3>2
    <2>7. j.live /\ j.kind = "remove" => LiveIn(jobs', {"remove"}) = {}
      <3> SUFFICES ASSUME j.live, j.kind = "remove", NEW x \in LiveIn(jobs', {"remove"}) PROVE FALSE
        OBVIOUS
      <3>1. 1 \in LiveIn(jobs, {"remove"}) /\ x + 1 \in LiveIn(jobs, {"remove"}) /\ x \in Int /\ x >= 1
        BY <2>3
      <3>2. x + 1 = 1
        BY <3>1 DEF Spinners
      <3> QED  BY <3>1, <3>2
    <2>8. CASE ~mounted
      <3>1. ~isSaving /\ ~isRemoving /\ LiveIn(jobs, {"remove"}) = {} /\ LiveIn(jobs, Saves) = {}
        BY <2>8 DEF Spinners
      <3>2. LiveIn(jobs', {"remove"}) = {} /\ LiveIn(jobs', Saves) = {}
        BY <2>4, <3>1
      <3>3. ~isSaving' /\ ~isRemoving' /\ ~mounted'
        <4>1. (IF j.live THEN FALSE ELSE isSaving) = FALSE
              /\ (IF j.live THEN FALSE ELSE isRemoving) = FALSE
          BY <1>0, <3>1
        <4>2. isSaving' = FALSE /\ isRemoving' = FALSE
          BY <1>0, <2>1, <3>1, <4>1, Zenon
        <4> QED  BY <2>1, <2>8, <4>2
      <3> QED  BY <2>6, <3>2, <3>3 DEF Spinners
    <2>9. CASE mounted /\ j.kind = "remove"
      <3>1. j.kind \notin Saves
        BY <2>9 DEF Saves
      <3>2. isSaving' => LiveIn(jobs', Saves) # {}
        BY <2>1, <2>5, <2>9, <3>1, Zenon DEF Spinners
      <3>3. isRemoving' <=> LiveIn(jobs', {"remove"}) # {}
        BY <1>0, <2>1, <2>2, <2>4, <2>5, <2>7, <2>9, Zenon DEF Spinners
      <3> QED  BY <2>1, <2>6, <2>9, <3>2, <3>3 DEF Spinners
    <2>10. CASE mounted /\ j.kind # "remove"
      <3>2. isSaving' => LiveIn(jobs', Saves) # {}
        BY <1>0, <2>1, <2>2, <2>5, <2>10, Zenon DEF Spinners
      <3>3. isRemoving' <=> LiveIn(jobs', {"remove"}) # {}
        <4>1. isRemoving <=> LiveIn(jobs, {"remove"}) # {}
          BY <2>10 DEF Spinners
        <4>2. LiveIn(jobs, {"remove"}) = {} <=> LiveIn(jobs', {"remove"}) = {}
          BY <2>4, <2>5, <2>10
        <4> QED  BY <2>1, <2>10, <4>1, <4>2, Zenon
      <3> QED  BY <2>1, <2>6, <2>10, <3>2, <3>3 DEF Spinners
    <2> QED  BY <2>8, <2>9, <2>10
  <1>9. UNCHANGED vars => UNCHANGED <<mounted, isRemoving, isSaving, jobs>>
    BY DEF vars, page
  <1>10. (\/ OpenForCreate \/ CloseModal \/ \E i \in Ids : OpenForEdit(i)
          \/ \E s \in Settings \cup {Bad}, b \in BOOLEAN : Type(s, b)
          \/ \E i \in Ids, accepted \in BOOLEAN : OnToggle(i, accepted))
         => UNCHANGED <<mounted, isRemoving, isSaving, jobs>>
    BY Zenon DEF OpenForCreate, CloseModal, OpenForEdit, Type, OnToggle, page
  <1> QED  BY <1>1, <1>2, <1>3, <1>5, <1>6, <1>7, <1>8, <1>9, <1>10 DEF Next

(* Whatever saves, removals and visits of the page overlap, the list is     *)
(* disabled exactly while a removal of this visit runs, and the submit      *)
(* button only while a save does (the finally blocks of onRemove, onSubmit  *)
(* and saveRouteForce).                                                     *)
THEOREM SpinnersTellTruth == Spec => []SpinnersAreTrue
  <1> DEFINE I == Spinners(mounted, isRemoving, isSaving, jobs)
  <1>1. Init => I
    BY SpinInit
  <1>2. PageInv /\ I /\ [Next]_vars => I'
    BY SpinStep
  <1>3. I => SpinnersAreTrue
    BY SpinnersMeaning
  <1> HIDE DEF I
  <1> QED  BY <1>1, <1>2, <1>3, PageAlways, PTL DEF Spec
===============================================================================
