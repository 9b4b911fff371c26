----------------------------- MODULE DaemonProofs -----------------------------
(***************************************************************************)
(* Theorems about the daemon, for any number of puts, reconcile clients,    *)
(* faults and restarts and any documents and configurations, in three       *)
(* parts: the store by itself (StateStore); the reconcile calls, which are  *)
(* an environment of that store, so that its invariants hold in the daemon; *)
(* and what the calls do to the directories and to nginx.                   *)
(***************************************************************************)
EXTENDS Daemon, TLAPS

(* Part 1: the store. *)

(* The variables keep their types, also when clients disconnect. *)
LEMMA TypeStep == TypeOK /\ [Next]_storeVars => TypeOK'
<1> SUFFICES ASSUME TypeOK, [Next]_storeVars PROVE TypeOK'
    OBVIOUS
<1> USE StoreAssumption
<1>a. InitialState \in States
    BY DEF InitialState, States
<1>b. \A r \in Nat : FreshStatus(r) \in [desired : Nat, observed : Nat,
                                sync : SyncStates, hash : Hashes \cup {NoHash}]
    BY DEF FreshStatus, SyncStates
<1>1. ASSUME NEW a \in Writers, IoOpen(a) PROVE TypeOK'
    BY <1>1 DEF TypeOK, IoOpen, IoSteps, memVars, reqVars
<1>2. ASSUME NEW a \in Writers, IoWrite(a) PROVE TypeOK'
  <2>1. PICK bytes \in {data[a], Torn} :
            content' = [content EXCEPT ![io[a].fd] = bytes]
    BY <1>2, Zenon DEF IoWrite
  <2>2. content' \in [Writers -> States \cup {Empty, Torn}]
    BY <2>1, Zenon DEF TypeOK
  <2> QED
    BY <1>2, <2>2 DEF TypeOK, IoWrite, Step, IoSteps, memVars, reqVars
<1>3. ASSUME NEW a \in Writers, IoRename(a) PROVE TypeOK'
    BY <1>3 DEF TypeOK, IoRename, Step, IoSteps, memVars, reqVars
<1>4. ASSUME NEW a \in Writers, IoError(a) PROVE TypeOK'
  <2>1. content' \in [Writers -> States \cup {Empty, Torn}]
    <3>1. CASE UNCHANGED content
        BY <3>1 DEF TypeOK
    <3>2. ASSUME NEW bytes \in {content[io[a].fd], Torn},
                 content' = [content EXCEPT ![io[a].fd] = bytes]
          PROVE  content' \in [Writers -> States \cup {Empty, Torn}]
        BY <3>2, Zenon DEF TypeOK
    <3> QED
        BY <1>4, <3>1, <3>2 DEF IoError
  <2>2. io' \in [Writers -> [step : IoSteps, fd : Writers \cup {None}]]
    BY <1>4 DEF TypeOK, IoError, Step, IoSteps
  <2> QED
    BY <1>4, <2>1, <2>2 DEF TypeOK, IoError, memVars, reqVars
<1>5. ASSUME NEW q \in Requests, Submit(q) PROVE TypeOK'
    BY <1>5 DEF TypeOK, Submit, PutSubmit, PutBadHeader, InFlight, Answers,
                memVars, ioVars, diskVars
<1>6. ASSUME NEW q \in Requests, PutConflict(q) \/ PutReject(q) PROVE TypeOK'
    BY <1>6 DEF TypeOK, PutConflict, PutReject, Answers, memVars, ioVars, diskVars
<1>7. ASSUME NEW q \in Requests, PutAccept(q) PROVE TypeOK'
  <2>1. data' \in [Writers -> States]
    BY <1>7 DEF TypeOK, PutAccept, NextRevision, States, Writers
  <2>2. io' \in [Writers -> [step : IoSteps, fd : Writers \cup {None}]]
    BY <1>7 DEF TypeOK, PutAccept, Writers, IoSteps
  <2>3. pc' \in [Requests -> {"idle", "lost"} \cup InFlight \cup Answers]
    BY <1>7 DEF TypeOK, PutAccept, InFlight
  <2> QED
    BY <1>7, <2>1, <2>2, <2>3 DEF TypeOK, PutAccept, diskVars
<1>8. ASSUME NEW q \in Requests, PutWritten(q) PROVE TypeOK'
    BY <1>8 DEF TypeOK, PutWritten, Step, Writers, InFlight, IoSteps, memVars, diskVars
<1>9. ASSUME NEW q \in Requests, PutStore(q) PROVE TypeOK'
    BY <1>9 DEF TypeOK, PutStore, IdleIo, Writers, InFlight, IoSteps, diskVars
<1>10. ASSUME NEW q \in Requests, PutPublish(q) PROVE TypeOK'
    BY <1>10, Zenon DEF TypeOK, PutPublish, States, Writers, Answers, SyncStates, ioVars, diskVars
<1>11. ASSUME NEW q \in Requests, PutFail(q) PROVE TypeOK'
    BY <1>11 DEF TypeOK, PutFail, IdleIo, Writers, Answers, IoSteps, diskVars
<1>12. ASSUME NEW q \in Requests, Disconnect(q) PROVE TypeOK'
    BY <1>12 DEF TypeOK, Disconnect, ioVars, diskVars
<1>13. CASE StartLoad
    BY <1>13, <1>b DEF TypeOK, StartLoad, Serve, States, reqVars, ioVars, diskVars
<1>14. CASE StartInit
    BY <1>14, <1>a DEF TypeOK, StartInit, Writers, IoSteps, reqVars, diskVars
<1>15. CASE InitWritten
    BY <1>15 DEF TypeOK, InitWritten, Step, Writers, IoSteps, memVars, reqVars, diskVars
<1>16. CASE InitServe
  <2>1. data[Boot] \in States /\ data[Boot].revision \in Nat
    BY DEF TypeOK, States, Writers
  <2> QED
    BY <1>16, <1>b, <2>1, Zenon DEF TypeOK, InitServe, Serve, IdleIo, Writers, IoSteps,
                       reqVars, diskVars
<1>17. CASE InitFail
    BY <1>17 DEF TypeOK, InitFail, IdleIo, Writers, IoSteps, reqVars, diskVars
<1>18. CASE Crash
    BY <1>18, <1>a, <1>b DEF TypeOK, Crash, IdleIo, IoSteps, diskVars
<1>19. CASE Mark
  <2> DEFINE Statuses == [desired : Nat, observed : Nat, sync : SyncStates,
                          hash : Hashes \cup {NoHash}]
  <2>1. status \in Statuses /\ state.revision \in Nat
    BY DEF TypeOK, States
  <2>2. ASSUME MarkApplying \/ MarkDegraded \/ MarkOutOfSync
        PROVE  status' \in Statuses
    BY <2>1, <2>2 DEF MarkApplying, MarkDegraded, MarkOutOfSync, SyncStates
  <2>3. ASSUME NEW r \in 0..state.revision, NEW h \in Hashes, MarkInSync(r, h)
        PROVE  status' \in Statuses
    BY <2>1, <2>3 DEF MarkInSync, SyncStates
  <2>4. status' \in Statuses
    BY <1>19, <2>2, <2>3 DEF Mark
  <2> QED
    BY <1>19, <2>4 DEF Mark, TypeOK, reqVars, ioVars, diskVars
<1>20. CASE UNCHANGED storeVars
    BY <1>20 DEF TypeOK, storeVars, memVars, reqVars, ioVars, diskVars
<1> QED
    BY <1>1, <1>2, <1>3, <1>4, <1>5, <1>6, <1>7, <1>8, <1>9, <1>10, <1>11, <1>12,
       <1>13, <1>14, <1>15, <1>16, <1>17, <1>18, <1>19, <1>20
    DEF Next, PatientNext, IoStep, PutStep, Start

(* The type invariant of the store. *)
THEOREM StoreTypeCorrect == Spec => []TypeOK
<1>1. Init => TypeOK
    BY StoreAssumption DEF Init, TypeOK, InitialState, States, FreshStatus,
       SyncStates, IdleIo, IoSteps
<1> QED
    BY <1>1, TypeStep, PTL DEF Spec

-------------------------------------------------------------------------------
(* The write lock of the state: a put between its revision check and its       *)
(* answer holds it, and until it stores its draft the state is the one whose   *)
(* revision it compared.                                                       *)
LockInv ==
    \A q \in Requests :
        /\ pc[q] \in {"writing", "renaming", "publishing"}
              => stateLock = q /\ phase = "up"
        /\ pc[q] \in {"writing", "renaming"}
              => data[q].revision = state.revision + 1
        /\ pc[q] = "publishing" => state = data[q]

StatusInv == TypeOK /\ LockInv /\ StatusNotAhead

(* Every step, also of a client that disconnects, keeps the lock discipline.   *)
LEMMA LockStep == TypeOK /\ LockInv /\ [Next]_storeVars => LockInv'
<1> SUFFICES ASSUME TypeOK, LockInv, [Next]_storeVars PROVE LockInv'
    OBVIOUS
<1> USE StoreAssumption
<1>1. ASSUME NEW a \in Writers, IoStep(a) \/ IoError(a) PROVE LockInv'
    BY <1>1 DEF LockInv, IoStep, IoOpen, IoWrite, IoRename, IoError, memVars, reqVars
<1>2. ASSUME NEW q \in Requests, Submit(q) PROVE LockInv'
    BY <1>2 DEF LockInv, TypeOK, Submit, PutSubmit, PutBadHeader, memVars, ioVars
<1>3. ASSUME NEW q \in Requests, PutConflict(q) \/ PutReject(q) PROVE LockInv'
    BY <1>3 DEF LockInv, TypeOK, PutConflict, PutReject, memVars, ioVars
<1>4. ASSUME NEW q \in Requests, PutAccept(q) PROVE LockInv'
    BY <1>4 DEF LockInv, TypeOK, PutAccept, NextRevision, RevisionMatches, TakesStateLock, Writers
<1>5. ASSUME NEW q \in Requests, PutWritten(q) PROVE LockInv'
    BY <1>5 DEF LockInv, TypeOK, PutWritten, memVars
<1>6. ASSUME NEW q \in Requests, PutStore(q) PROVE LockInv'
    BY <1>6 DEF LockInv, TypeOK, PutStore
<1>7. ASSUME NEW q \in Requests, PutPublish(q) PROVE LockInv'
    BY <1>7 DEF LockInv, TypeOK, PutPublish, ioVars
<1>8. ASSUME NEW q \in Requests, PutFail(q) PROVE LockInv'
    BY <1>8 DEF LockInv, TypeOK, PutFail
<1>9. ASSUME NEW q \in Requests, Disconnect(q) PROVE LockInv'
    BY <1>9 DEF LockInv, TypeOK, Disconnect, ioVars
<1>10. CASE Start
    BY <1>10 DEF LockInv, TypeOK, Writers, Start, StartLoad, StartInit, InitWritten,
       InitServe, InitFail, memVars, reqVars, ioVars
<1>11. CASE Crash
    BY <1>11 DEF LockInv, TypeOK, Crash, InFlight
<1>12. CASE Mark
    BY <1>12 DEF LockInv, Mark, reqVars, ioVars
<1>13. CASE UNCHANGED storeVars
    BY <1>13 DEF LockInv, storeVars, memVars, reqVars, ioVars
<1> QED
    BY <1>1, <1>2, <1>3, <1>4, <1>5, <1>6, <1>7, <1>8, <1>9, <1>10, <1>11, <1>12,
       <1>13 DEF Next, PatientNext, PutStep

(* The status stays behind the desired state in every step. *)
LEMMA StatusStep == StatusInv /\ [Next]_storeVars => StatusInv'
<1> SUFFICES ASSUME StatusInv, [Next]_storeVars PROVE StatusNotAhead'
  BY TypeStep, LockStep DEF StatusInv
<1> USE DEF StatusInv, StatusNotAhead, TypeOK, States
<1>1. ASSUME NEW q \in Requests, PutStore(q) PROVE StatusNotAhead'
  BY <1>1 DEF PutStore, LockInv
<1>2. ASSUME NEW q \in Requests, PutPublish(q) PROVE StatusNotAhead'
  BY <1>2 DEF PutPublish, LockInv
<1>3. CASE StartLoad \/ InitServe
  <2>1. ASSUME NEW s \in States, Serve(s) PROVE StatusNotAhead'
      BY <2>1 DEF Serve, FreshStatus
  <2> QED
      BY <1>3, <2>1 DEF StartLoad, InitServe, Writers
<1>4. CASE StartInit \/ InitWritten \/ InitFail \/ Crash
  BY <1>4 DEF StartInit, InitWritten, InitFail, Crash, memVars
<1>5. CASE Mark
  <2>1. CASE MarkApplying \/ MarkDegraded \/ MarkOutOfSync
      BY <1>5, <2>1 DEF Mark, MarkApplying, MarkDegraded, MarkOutOfSync
  <2>2. ASSUME NEW r \in 0..state.revision, NEW h \in Hashes, MarkInSync(r, h)
        PROVE  StatusNotAhead'
      BY <1>5, <2>2 DEF Mark, MarkInSync
  <2> QED
      BY <1>5, <2>1, <2>2 DEF Mark
<1>6. CASE UNCHANGED <<phase, state, status>>
  BY <1>6
<1> QED
  BY <1>1, <1>2, <1>3, <1>4, <1>5, <1>6
  DEF Next, PatientNext, IoStep, IoOpen, IoWrite, IoRename, IoError, Submit,
      PutSubmit, PutBadHeader, PutStep, PutConflict, PutReject, PutAccept,
      PutWritten, PutFail, Disconnect, Start, storeVars, memVars

(* observedRevision <= desiredRevision <= state.revision, for any number of    *)
(* puts, marks, crashes and disconnects.                                       *)
THEOREM StatusSound == Spec => []StatusNotAhead
<1>1. Init => StatusInv
    BY StoreAssumption DEF Init, StatusInv, TypeOK, LockInv, StatusNotAhead,
       InitialState, States, FreshStatus, SyncStates, IdleIo, IoSteps
<1>2. StatusInv => StatusNotAhead
    BY DEF StatusInv
<1> QED
    BY <1>1, <1>2, StatusStep, PTL DEF Spec

-------------------------------------------------------------------------------
(* With patient clients there is one writer of the files at a time: the put    *)
(* that holds the state lock, or load_or_init before there is any.             *)
WriterInv ==
    /\ \A q \in Requests :
          /\ pc[q] = "writing" => io[q].step \in {"write", "opened", "written", "failed"}
          /\ pc[q] = "renaming" => io[q].step \in {"rename", "renamed", "failed"}
          /\ io[q].step # "idle" => pc[q] \in {"writing", "renaming"}
    /\ io[Boot].step # "idle" => phase = "init"

(* What the writer has done so far is what is on the disk. *)
FileInv ==
    /\ tmp # None => tmp # file
    /\ \A a \in Writers :
          /\ io[a].step = "opened"
                => tmp # None /\ io[a].fd = tmp /\ content[tmp] = Empty
          /\ io[a].step \in {"written", "rename"}
                => tmp # None /\ content[tmp] = data[a]
          /\ io[a].step = "renamed" => file # None /\ content[file] = data[a]
          /\ data[a].doc \in ValidDocs
    /\ data[Boot] = InitialState
    /\ phase = "init" /\ io[Boot].step # "renamed" => file = None
    /\ RestartPossible

(* A put that has not opened the temporary file owns no inode yet. *)
FreshInv ==
    \A q \in Requests :
        pc[q] \in {"idle", "waiting"} \/ io[q].step = "write" => q # file /\ q # tmp

(* Memory follows the file: it lags only between rename and store. *)
MemoryInv ==
    phase = "up" =>
        /\ file # None
        /\ (\A q \in Requests : io[q].step # "renamed") => content[file] = state

(* The puts that were, or are about to be, answered 200. *)
AckedInv ==
    \A q \in Requests : pc[q] \in {"ok", "publishing"} =>
        /\ file # None
        /\ content[file].revision >= data[q].revision
        /\ content[file].revision = data[q].revision => content[file] = data[q]

DurableInv ==
    TypeOK /\ LockInv /\ WriterInv /\ FileInv /\ FreshInv /\ MemoryInv /\ AckedInv

(* Two file operations are never under way at once. *)
LEMMA OneWriter ==
    ASSUME TypeOK, LockInv, WriterInv,
           NEW a \in Writers, NEW b \in Writers,
           io[a].step # "idle", io[b].step # "idle"
    PROVE  a = b
BY StoreAssumption DEF LockInv, WriterInv, Writers

(* Opening the temporary file touches no inode but its own. *)
LEMMA OpenStep ==
    ASSUME DurableInv, NEW a \in Writers, IoOpen(a)
    PROVE  WriterInv' /\ FileInv' /\ FreshInv' /\ MemoryInv' /\ AckedInv'
<1> DEFINE inode == IF tmp = None THEN a ELSE tmp
<1> USE StoreAssumption DEF DurableInv
<1>1. \A b \in Writers : b # a => io[b].step = "idle"
    BY OneWriter DEF IoOpen
<1>2. inode \in Writers /\ inode # None /\ inode # file
  <2>1. CASE a \in Requests
    BY <2>1 DEF TypeOK, IoOpen, FileInv, FreshInv, Writers
  <2>2. CASE a = Boot
    BY <2>2 DEF TypeOK, IoOpen, FileInv, WriterInv, Writers
  <2> QED
    BY <2>1, <2>2 DEF Writers
<1>3. /\ io' = [io EXCEPT ![a] = [step |-> "opened", fd |-> inode]]
      /\ tmp' = inode
      /\ content' = [content EXCEPT ![inode] = Empty]
      /\ UNCHANGED <<phase, state, status, stateLock, pc, ask, data, file>>
    BY DEF IoOpen, memVars, reqVars
<1>4. WriterInv'
    BY <1>3 DEF WriterInv, IoOpen, TypeOK, Writers
<1>5. file # None => content'[file] = content[file]
    BY <1>2, <1>3 DEF TypeOK
<1>6. FileInv'
    BY <1>1, <1>2, <1>3, <1>5 DEF FileInv, RestartPossible, IoOpen, TypeOK, Writers
<1>7. FreshInv'
    BY <1>1, <1>2, <1>3 DEF FreshInv, WriterInv, IoOpen, TypeOK, Writers
<1>8. MemoryInv' /\ AckedInv'
    BY <1>1, <1>3, <1>5 DEF MemoryInv, AckedInv, IoOpen, TypeOK, Writers
<1> QED
    BY <1>4, <1>6, <1>7, <1>8

(* Writing puts the draft, whole, into the inode just truncated. *)
LEMMA WriteStep ==
    ASSUME DurableInv, NEW a \in Writers, IoWrite(a)
    PROVE  WriterInv' /\ FileInv' /\ FreshInv' /\ MemoryInv' /\ AckedInv'
<1> USE StoreAssumption DEF DurableInv
<1>1. \A b \in Writers : b # a => io[b].step = "idle"
    BY OneWriter DEF IoWrite, Step
<1>2. tmp \in Writers /\ tmp # file /\ io[a].fd = tmp /\ content[tmp] = Empty
    BY DEF TypeOK, IoWrite, Step, FileInv
<1>3. /\ io' = [io EXCEPT ![a].step = "written"]
      /\ content' = [content EXCEPT ![tmp] = data[a]]
      /\ UNCHANGED <<phase, state, status, stateLock, pc, ask, data, tmp, file>>
    BY <1>2, Zenon DEF IoWrite, Step, memVars, reqVars
<1>4. WriterInv'
    BY <1>3 DEF WriterInv, IoWrite, Step, TypeOK, Writers
<1>5. file # None => content'[file] = content[file]
    BY <1>2, <1>3 DEF TypeOK
<1>6. FileInv'
    BY <1>1, <1>2, <1>3, <1>5 DEF FileInv, RestartPossible, IoWrite, Step, TypeOK, Writers
<1>7. FreshInv'
    BY <1>1, <1>3 DEF FreshInv, IoWrite, Step, TypeOK, Writers
<1>8. MemoryInv' /\ AckedInv'
    BY <1>1, <1>3, <1>5 DEF MemoryInv, AckedInv, IoWrite, Step, TypeOK, Writers
<1> QED
    BY <1>4, <1>6, <1>7, <1>8

(* The rename replaces the committed state by its successor. *)
LEMMA RenameStep ==
    ASSUME DurableInv, NEW a \in Writers, IoRename(a)
    PROVE  WriterInv' /\ FileInv' /\ FreshInv' /\ MemoryInv' /\ AckedInv'
<1> USE StoreAssumption DEF DurableInv
<1>1. \A b \in Writers : b # a => io[b].step = "idle"
    BY OneWriter DEF IoRename, Step
<1>2. tmp \in Writers /\ content[tmp] = data[a] /\ data[a] \in States
    BY DEF TypeOK, IoRename, Step, FileInv
<1>3. /\ io[a].step = "rename"
      /\ io' = [io EXCEPT ![a].step = "renamed"]
      /\ file' = tmp /\ tmp' = None
      /\ UNCHANGED <<phase, state, status, stateLock, pc, ask, data, content>>
    BY DEF IoRename, Step, memVars, reqVars
<1>4. WriterInv'
    BY <1>1, <1>3 DEF WriterInv, TypeOK, Writers
<1>5. FileInv'
  <2>1. phase = "init" => a = Boot
    BY <1>3 DEF WriterInv, LockInv, Writers
  <2>2. (phase = "init" /\ io[Boot].step # "renamed" => file = None)'
    BY <1>3, <2>1 DEF TypeOK
  <2> QED
    BY <1>1, <1>2, <1>3, <2>2 DEF FileInv, RestartPossible, TypeOK, Writers
<1>6. FreshInv'
    BY <1>1, <1>2, <1>3 DEF FreshInv, TypeOK, Writers
<1>7. MemoryInv'
    BY <1>1, <1>2, <1>3 DEF MemoryInv, WriterInv, TypeOK, Writers
<1>8. AckedInv'
  <2>1. CASE a = Boot
    BY <2>1, <1>3 DEF AckedInv, WriterInv, FileInv
  <2>2. CASE a \in Requests
    <3>1. pc[a] = "renaming" /\ phase = "up" /\ data[a].revision = state.revision + 1
        BY <2>2, <1>3 DEF WriterInv, LockInv
    <3>2. content[file] = state
        BY <3>1, <1>1, <1>3 DEF MemoryInv, Writers
    <3> QED
        BY <3>1, <3>2, <1>2, <1>3 DEF AckedInv, TypeOK, States, Writers
  <2> QED
    BY <2>1, <2>2 DEF Writers
<1> QED
    BY <1>4, <1>5, <1>6, <1>7, <1>8

(* A failed file operation leaves state.json alone. *)
LEMMA ErrorStep ==
    ASSUME DurableInv, NEW a \in Writers, IoError(a)
    PROVE  WriterInv' /\ FileInv' /\ FreshInv' /\ MemoryInv' /\ AckedInv'
<1> USE StoreAssumption DEF DurableInv
<1>1. \A b \in Writers : b # a => io[b].step = "idle"
    BY OneWriter DEF IoError, Step
<1>2. /\ io[a].step \in {"write", "opened", "rename"}
      /\ io' = [io EXCEPT ![a].step = "failed"]
      /\ UNCHANGED <<phase, state, status, stateLock, pc, ask, data, tmp, file>>
    BY DEF IoError, Step, memVars, reqVars
<1>3. file # None => content'[file] = content[file]
  <2>1. CASE io[a].step = "opened"
    BY <2>1 DEF IoError, Step, FileInv, TypeOK
  <2>2. CASE io[a].step # "opened"
    BY <2>2 DEF IoError, Step
  <2> QED
    BY <2>1, <2>2
<1>4. WriterInv'
    BY <1>1, <1>2 DEF WriterInv, TypeOK, Writers
<1>5. FileInv'
    BY <1>1, <1>2, <1>3 DEF FileInv, RestartPossible, TypeOK, Writers
<1>6. FreshInv'
    BY <1>1, <1>2 DEF FreshInv, WriterInv, TypeOK, Writers
<1>7. MemoryInv' /\ AckedInv'
    BY <1>1, <1>2, <1>3 DEF MemoryInv, AckedInv, TypeOK, Writers
<1> QED
    BY <1>4, <1>5, <1>6, <1>7

(* The steps of a put in memory keep it in line with the file. *)
LEMMA PutMemoryStep ==
    ASSUME DurableInv, NEW q \in Requests, Submit(q) \/ PutStep(q)
    PROVE  WriterInv' /\ FileInv' /\ FreshInv' /\ MemoryInv' /\ AckedInv'
<1> USE StoreAssumption DEF DurableInv
<1>0. q \in Writers /\ q # Boot /\ UNCHANGED <<phase, tmp, file, content>>
    BY DEF Writers, Submit, PutSubmit, PutBadHeader, PutStep, PutConflict,
       PutReject, PutAccept, PutWritten, PutStore, PutPublish, PutFail,
       memVars, diskVars
<1>1. CASE Submit(q) \/ PutConflict(q) \/ PutReject(q)
  <2>1. /\ pc[q] \in {"idle", "waiting"}
        /\ pc' \in {[pc EXCEPT ![q] = x] : x \in {"waiting", "invalid", "conflict"}}
        /\ UNCHANGED <<state, stateLock, data, io>>
    BY <1>1 DEF Submit, PutSubmit, PutBadHeader, PutConflict, PutReject,
       TakesStateLock, memVars, ioVars
  <2> QED
    BY <1>0, <2>1 DEF WriterInv, FileInv, RestartPossible, FreshInv, MemoryInv,
       AckedInv, TypeOK
<1>2. CASE PutAccept(q)
  <2>1. \A b \in Writers : io[b].step = "idle"
    BY <1>2 DEF PutAccept, TakesStateLock, WriterInv, LockInv, Writers
  <2>2. /\ pc[q] = "waiting" /\ pc' = [pc EXCEPT ![q] = "writing"]
        /\ data' = [data EXCEPT ![q] = [revision |-> state.revision + 1,
                                        doc |-> ask[q].doc]]
        /\ ask[q].doc \in ValidDocs
        /\ io' = [io EXCEPT ![q].step = "write"]
        /\ UNCHANGED state
    BY <1>2 DEF PutAccept, NextRevision, RevisionMatches, TakesStateLock
  <2>3. WriterInv' /\ FreshInv'
    BY <1>0, <2>1, <2>2 DEF WriterInv, FreshInv, TypeOK
  <2>4. FileInv'
    BY <1>0, <2>1, <2>2 DEF FileInv, RestartPossible, TypeOK
  <2>5. MemoryInv' /\ AckedInv'
    BY <1>0, <2>1, <2>2 DEF MemoryInv, AckedInv, TypeOK
  <2> QED
    BY <2>3, <2>4, <2>5
<1>3. CASE PutWritten(q)
    BY <1>0, <1>3 DEF PutWritten, Step, memVars, WriterInv, FileInv,
       RestartPossible, FreshInv, MemoryInv, AckedInv, TypeOK
<1>4. CASE PutStore(q)
  <2>1. \A b \in Writers : b # q => io[b].step = "idle"
    BY <1>0, <1>4, OneWriter DEF PutStore
  <2>2. /\ pc[q] = "renaming" /\ pc' = [pc EXCEPT ![q] = "publishing"]
        /\ io' = [io EXCEPT ![q] = IdleIo]
        /\ state' = data[q] /\ file # None /\ content[file] = data[q]
        /\ UNCHANGED data
    BY <1>0, <1>4 DEF PutStore, FileInv
  <2>3. WriterInv' /\ FreshInv'
    BY <1>0, <2>1, <2>2 DEF WriterInv, FreshInv, IdleIo, TypeOK
  <2>4. FileInv'
    BY <1>0, <2>1, <2>2 DEF FileInv, RestartPossible, IdleIo, TypeOK
  <2>5. MemoryInv' /\ AckedInv'
    BY <1>0, <2>1, <2>2 DEF MemoryInv, AckedInv, IdleIo, TypeOK, States
  <2> QED
    BY <2>3, <2>4, <2>5
<1>5. CASE PutPublish(q)
    BY <1>0, <1>5 DEF PutPublish, ioVars, WriterInv, FileInv,
       RestartPossible, FreshInv, MemoryInv, AckedInv, TypeOK
<1>6. CASE PutFail(q)
  <2>1. /\ pc[q] \in {"writing", "renaming"} /\ pc' = [pc EXCEPT ![q] = "failed"]
        /\ io[q].step = "failed" /\ io' = [io EXCEPT ![q] = IdleIo]
        /\ UNCHANGED <<state, data>>
    BY <1>6 DEF PutFail
  <2>2. WriterInv' /\ FreshInv' /\ FileInv'
    BY <1>0, <2>1 DEF WriterInv, FreshInv, FileInv, RestartPossible, IdleIo, TypeOK
  <2>3. MemoryInv' /\ AckedInv'
    BY <1>0, <2>1 DEF MemoryInv, AckedInv, IdleIo, TypeOK, Writers
  <2> QED
    BY <2>2, <2>3
<1> QED
    BY <1>1, <1>2, <1>3, <1>4, <1>5, <1>6 DEF PutStep

(* load_or_init takes the state from the file, or writes the first one. *)
LEMMA StartStep ==
    ASSUME DurableInv, Start
    PROVE  WriterInv' /\ FileInv' /\ FreshInv' /\ MemoryInv' /\ AckedInv'
<1> USE StoreAssumption DEF DurableInv
<1>0. Boot \in Writers /\ Boot \notin Requests /\ UNCHANGED <<pc, tmp, file, content>>
    BY DEF Writers, Start, StartLoad, StartInit, InitWritten, InitServe, InitFail,
       reqVars, diskVars
<1>1. \A q \in Requests : phase # "up" => io[q].step = "idle"
    BY DEF WriterInv, LockInv
<1>2. CASE StartLoad
    BY <1>0, <1>1, <1>2 DEF StartLoad, Serve, ioVars, WriterInv, FileInv,
       RestartPossible, FreshInv, MemoryInv, AckedInv
<1>3. CASE StartInit
  <2>1. /\ phase = "down" /\ phase' = "init" /\ file = None
        /\ data' = [data EXCEPT ![Boot] = InitialState]
        /\ io' = [io EXCEPT ![Boot].step = "write"]
    BY <1>3 DEF StartInit
  <2> QED
    BY <1>0, <1>1, <2>1 DEF WriterInv, FileInv, RestartPossible, FreshInv,
       MemoryInv, AckedInv, InitialState, TypeOK
<1>4. CASE InitWritten
    BY <1>0, <1>4 DEF InitWritten, Step, memVars, WriterInv, FileInv,
       RestartPossible, FreshInv, MemoryInv, AckedInv, TypeOK, Writers
<1>5. CASE InitServe
  <2>1. /\ phase = "init" /\ phase' = "up" /\ state' = data[Boot]
        /\ io' = [io EXCEPT ![Boot] = IdleIo]
        /\ file # None /\ content[file] = data[Boot]
        /\ UNCHANGED data
    BY <1>0, <1>5 DEF InitServe, Serve, FileInv
  <2> QED
    BY <1>0, <1>1, <2>1 DEF WriterInv, FileInv, RestartPossible, FreshInv,
       MemoryInv, AckedInv, IdleIo, TypeOK
<1>6. CASE InitFail
    BY <1>0, <1>6 DEF InitFail, IdleIo, WriterInv, FileInv,
       RestartPossible, FreshInv, MemoryInv, AckedInv, TypeOK, Writers
<1> QED
    BY <1>2, <1>3, <1>4, <1>5, <1>6 DEF Start

(* A fresh installation satisfies DurableInv. *)
LEMMA DurableInit == Init => DurableInv
BY StoreAssumption DEF Init, DurableInv, TypeOK, LockInv, WriterInv, FileInv,
   RestartPossible, FreshInv, MemoryInv, AckedInv, InitialState, States,
   FreshStatus, SyncStates, IdleIo, IoSteps, Writers

(* DurableInv is inductive while clients wait for their answers. *)
LEMMA DurableStep == DurableInv /\ [PatientNext]_storeVars => DurableInv'
<1> SUFFICES ASSUME DurableInv, [PatientNext]_storeVars
             PROVE  WriterInv' /\ FileInv' /\ FreshInv' /\ MemoryInv' /\ AckedInv'
    BY TypeStep, LockStep DEF DurableInv, Next
<1>1. CASE Crash
  <2> USE StoreAssumption DEF DurableInv
  <2>1. /\ phase' = "down" /\ io' = [a \in Writers |-> IdleIo]
        /\ pc' = [q \in Requests |-> IF pc[q] \in InFlight THEN "lost" ELSE pc[q]]
        /\ UNCHANGED <<data, tmp, file, content>>
    BY <1>1 DEF Crash, diskVars
  <2>2. \A a \in Writers : io'[a].step = "idle"
    BY <2>1 DEF IdleIo
  <2> QED
    BY <2>1, <2>2 DEF WriterInv, FileInv, RestartPossible, FreshInv, MemoryInv,
       AckedInv, InFlight, Writers, TypeOK
<1>2. CASE Mark \/ UNCHANGED storeVars
    BY <1>2 DEF Mark, storeVars, memVars, reqVars, ioVars, diskVars, DurableInv,
       WriterInv, FileInv, RestartPossible, FreshInv, MemoryInv, AckedInv
<1> QED
    BY <1>1, <1>2, OpenStep, WriteStep, RenameStep, ErrorStep, PutMemoryStep,
       StartStep DEF PatientNext, IoStep

(* What clients rely on follows from DurableInv. *)
LEMMA DurableProps ==
    DurableInv => RestartPossible /\ AckedSurvives /\ MemoryIsCommitted
<1> SUFFICES ASSUME DurableInv
             PROVE  RestartPossible /\ AckedSurvives /\ MemoryIsCommitted
    OBVIOUS
<1> USE DEF DurableInv
<1>1. RestartPossible
    BY DEF FileInv
<1>2. AckedSurvives
    BY <1>1 DEF AckedInv, AckedSurvives, Committed, RestartPossible
<1>3. MemoryIsCommitted
    BY StoreAssumption DEF MemoryInv, WriterInv, LockInv, MemoryIsCommitted,
       Committed, TypeOK, Writers
<1> QED
    BY <1>1, <1>2, <1>3

(* With clients that wait for their answers, for any number of puts and        *)
(* crashes: state.json always loads, no put answered 200 is lost, and GET      *)
(* answers what a restart would load.                                          *)
THEOREM StoreDurable ==
    PatientSpec => [](RestartPossible /\ AckedSurvives /\ MemoryIsCommitted)
<1>1. Init => DurableInv
    BY DurableInit
<1>2. DurableInv => RestartPossible /\ AckedSurvives /\ MemoryIsCommitted
    BY DurableProps
<1> QED
    BY <1>1, <1>2, DurableStep, PTL DEF PatientSpec

(* load_or_init can restart the daemon wherever the previous process died.     *)
THEOREM StoreRestarts == PatientSpec => []RestartPossible
BY StoreDurable, PTL

(* GET /v1/state answers what state.json holds, for any number of puts.        *)
THEOREM StoreAnswersCommitted == PatientSpec => []MemoryIsCommitted
BY StoreDurable, PTL

-------------------------------------------------------------------------------
(* The committed state changes only by the rename of the put that holds the    *)
(* lock, from the state in memory to its successor.                            *)
LEMMA CommitStep ==
    ASSUME DurableInv, [PatientNext]_storeVars
    PROVE  \/ Committed' = Committed
           \/ \E q \in Requests : /\ IoRename(q)
                                  /\ Committed = state
                                  /\ Committed' = data[q]
                                  /\ data[q].revision = state.revision + 1
<1> USE StoreAssumption DEF DurableInv
<1>1. ASSUME NEW a \in Writers, IoOpen(a) \/ IoWrite(a) \/ IoError(a)
      PROVE  Committed' = Committed
  <2>1. file' = file
    BY <1>1 DEF IoOpen, IoWrite, IoError
  <2>2. file # None => content'[file] = content[file]
    <3>1. CASE IoOpen(a)
      <4>1. (IF tmp = None THEN a ELSE tmp) # file
        BY <3>1 DEF IoOpen, FileInv, FreshInv, WriterInv, Writers
      <4> QED
        BY <3>1, <4>1 DEF IoOpen, TypeOK
    <3>2. CASE IoWrite(a)
        BY <3>2 DEF IoWrite, Step, FileInv, TypeOK
    <3>3. CASE IoError(a)
        BY <3>3 DEF IoError, Step, FileInv, TypeOK
    <3> QED
        BY <1>1, <3>1, <3>2, <3>3
  <2> QED
    BY <2>1, <2>2 DEF Committed
<1>2. ASSUME IoRename(Boot) PROVE Committed' = Committed
    BY <1>2 DEF IoRename, Step, FileInv, WriterInv, Committed, Writers
<1>3. ASSUME NEW q \in Requests, IoRename(q)
      PROVE  /\ Committed = state /\ Committed' = data[q]
             /\ data[q].revision = state.revision + 1
  <2>1. io[q].step = "rename" /\ q \in Writers
    BY <1>3 DEF IoRename, Step, Writers
  <2>2. pc[q] = "renaming" /\ phase = "up" /\ data[q].revision = state.revision + 1
    BY <2>1 DEF WriterInv, LockInv
  <2>3. \A p \in Requests : io[p].step # "renamed"
    BY <2>1, OneWriter DEF Writers
  <2> QED
    BY <1>3, <2>1, <2>2, <2>3 DEF IoRename, MemoryInv, FileInv, Committed
<1>4. CASE UNCHANGED diskVars
    BY <1>4 DEF diskVars, Committed
<1> QED
    BY <1>1, <1>2, <1>3, <1>4, Zenon
    DEF PatientNext, IoStep, Writers, Submit, PutSubmit, PutBadHeader, PutStep,
        PutConflict, PutReject, PutAccept, PutWritten, PutStore, PutPublish, PutFail,
        Start, StartLoad, StartInit, InitWritten, InitServe, InitFail, Crash, Mark,
        storeVars

(* state.json moves by one revision at a time, for any number of puts. *)
THEOREM StoreLinear == PatientSpec => RevisionsLinear
<1>1. DurableInv /\ [PatientNext]_storeVars
         => [Committed' # Committed
                => Committed'.revision = Committed.revision + 1]_storeVars
    BY CommitStep
<1>2. Init => DurableInv
    BY DurableInit
<1> QED
    BY <1>1, <1>2, DurableStep, PTL DEF PatientSpec, RevisionsLinear

-------------------------------------------------------------------------------
(* What a put is writing is what it was asked to write. *)
AskInv ==
    \A q \in Requests : pc[q] \in {"writing", "renaming"} =>
        /\ data[q] = [revision |-> ask[q].expected + 1, doc |-> ask[q].doc]
        /\ ask[q].doc \in ValidDocs

LinearInv == DurableInv /\ AskInv

(* No step changes what a put was asked once it writes. *)
LEMMA AskStep == LinearInv /\ [PatientNext]_storeVars => AskInv'
<1> SUFFICES ASSUME LinearInv, [PatientNext]_storeVars PROVE AskInv'
    OBVIOUS
<1> USE StoreAssumption DEF LinearInv, DurableInv, AskInv, TypeOK
<1>1. ASSUME NEW q \in Requests, PutAccept(q) PROVE AskInv'
    BY <1>1 DEF PutAccept, NextRevision, RevisionMatches, TakesStateLock, Writers
<1>2. ASSUME NEW q \in Requests, Submit(q) PROVE AskInv'
    BY <1>2 DEF Submit, PutSubmit, PutBadHeader, ioVars
<1>3. ASSUME NEW q \in Requests, PutStep(q), ~PutAccept(q) PROVE AskInv'
    BY <1>3 DEF PutStep, PutConflict, PutReject, PutWritten, PutStore, PutPublish,
       PutFail, ioVars
<1>4. CASE StartInit
    BY <1>4 DEF StartInit, LockInv, reqVars
<1>5. CASE Crash
    BY <1>5 DEF Crash, InFlight
<1>6. CASE UNCHANGED <<pc, ask, data>>
    BY <1>6
<1> QED
    BY <1>1, <1>2, <1>3, <1>4, <1>5, <1>6, Zenon
    DEF PatientNext, IoStep, IoOpen, IoWrite, IoRename, IoError, Start, StartLoad,
        InitWritten, InitServe, InitFail, Mark, storeVars, reqVars, ioVars

(* Every step of the store is a step of the register, or leaves it alone. *)
LEMMA RegisterStep ==
    LinearInv /\ [PatientNext]_storeVars => [Register!Next]_(Register!vars)
<1> SUFFICES ASSUME LinearInv, [PatientNext]_storeVars
             PROVE  [Register!Next]_(Register!vars)
    OBVIOUS
<1> DEFINE ops == [q \in Requests |-> Op(q)]
<1> USE StoreAssumption DEF LinearInv, DurableInv
<1>0. Committed' = Committed /\ ops' = ops /\ ask' = ask => UNCHANGED Register!vars
    BY DEF Register!vars
<1>1. ASSUME NEW a \in Writers, IoOpen(a) \/ IoWrite(a) \/ IoError(a)
      PROVE  UNCHANGED Register!vars
  <2>1. Committed' = Committed
    BY <1>1, CommitStep DEF IoOpen, IoWrite, IoError, IoRename, Step
  <2>2. \A q \in Requests : Op(q)' = Op(q)
    BY <1>1 DEF Op, IoOpen, IoWrite, IoError, Step, reqVars, TypeOK, Writers
  <2> QED
    BY <1>0, <1>1, <2>1, <2>2 DEF IoOpen, IoWrite, IoError, reqVars
<1>2. ASSUME IoRename(Boot) PROVE UNCHANGED Register!vars
  <2>1. Committed' = Committed
    BY <1>2 DEF IoRename, Step, FileInv, WriterInv, Committed, Writers
  <2>2. \A q \in Requests : Op(q)' = Op(q)
    BY <1>2 DEF Op, IoRename, Step, reqVars, TypeOK, Writers
  <2> QED
    BY <1>0, <1>2, <2>1, <2>2 DEF IoRename, reqVars
<1>3. ASSUME NEW q \in Requests, IoRename(q) PROVE Register!Swap(q)
  <2>1. /\ io[q].step = "rename" /\ q \in Writers
        /\ io' = [io EXCEPT ![q].step = "renamed"]
        /\ UNCHANGED <<pc, ask>>
    BY <1>3 DEF IoRename, Step, Writers, reqVars
  <2>2. pc[q] = "renaming"
    BY <2>1 DEF WriterInv
  <2>3. \A p \in Writers : p # q => io[p].step = "idle"
    BY <2>1, OneWriter
  <2>4. /\ Committed = state /\ Committed' = data[q]
        /\ data[q].revision = state.revision + 1
    <3>1. \A p \in Requests : io[p].step # "renamed"
        BY <2>1, <2>3 DEF Writers
    <3> QED
        BY <1>3, <2>1, <2>2, <3>1 DEF IoRename, MemoryInv, FileInv, LockInv, Committed
  <2>5. /\ ask[q].expected = Committed.revision /\ ask[q].doc \in ValidDocs
        /\ Committed' = [revision |-> Committed.revision + 1, doc |-> ask[q].doc]
    <3>1. /\ data[q] = [revision |-> ask[q].expected + 1, doc |-> ask[q].doc]
          /\ ask[q].doc \in ValidDocs
        BY <2>2 DEF AskInv
    <3>2. ask[q].expected \in Nat /\ state.revision \in Nat
        BY DEF TypeOK, States
    <3>3. ask[q].expected = state.revision
        BY <2>4, <3>1, <3>2
    <3> QED
        BY <2>4, <3>1, <3>3
  <2>6. ops' = [ops EXCEPT ![q] = "applied"] /\ ops[q] = "pending"
    <3>1. io'[q].step = "renamed" /\ \A p \in Requests : p # q => io'[p] = io[p]
        BY <2>1 DEF TypeOK, Writers
    <3>2. \A p \in Requests : Op(p)' = IF p = q THEN "applied" ELSE Op(p)
        BY <2>1, <2>2, <3>1 DEF Op
    <3>3. Op(q) = "pending"
        BY <2>1, <2>2 DEF Op, InFlight
    <3> QED
        BY <3>2, <3>3, Zenon
  <2> QED
    BY <2>1, <2>5, <2>6 DEF Register!Swap, Register!Becomes
<1>4. ASSUME NEW q \in Requests, Submit(q) PROVE Register!Next
  <2>1. Committed' = Committed
    BY <1>4 DEF Submit, PutSubmit, PutBadHeader, diskVars, Committed
  <2>2. ASSUME NEW e \in 0..MaxRevision, NEW d \in Docs, PutSubmit(q, e, d)
        PROVE  Register!Call(q, e, d)
    <3>1. ops' = [ops EXCEPT ![q] = "pending"] /\ ops[q] = "idle"
        BY <2>2, Zenon DEF PutSubmit, Op, InFlight, ioVars, TypeOK
    <3> QED
        BY <2>1, <2>2, <3>1 DEF PutSubmit, Register!Call, Register!Becomes
  <2>3. ASSUME PutBadHeader(q) PROVE Register!Answer(q)
    <3>1. ops' = [ops EXCEPT ![q] = "invalid"] /\ ops[q] = "idle" /\ ask' = ask
        BY <2>3, Zenon DEF PutBadHeader, Op, InFlight, ioVars, TypeOK
    <3> QED
        BY <2>1, <3>1 DEF Register!Answer, Register!Becomes
  <2> QED
    BY <1>4, <2>2, <2>3 DEF Submit, Register!Next
<1>5. ASSUME NEW q \in Requests, PutAccept(q) \/ PutWritten(q) \/ PutStore(q)
      PROVE  UNCHANGED Register!vars
  <2>1. Committed' = Committed /\ ask' = ask
    BY <1>5 DEF PutAccept, PutWritten, PutStore, diskVars, Committed
  <2>2. \A p \in Requests : Op(p)' = Op(p)
    BY <1>5 DEF Op, InFlight, PutAccept, TakesStateLock, PutWritten, PutStore, Step,
       IdleIo, TypeOK, Writers
  <2> QED
    BY <1>0, <2>1, <2>2
<1>6. ASSUME NEW q \in Requests,
             PutConflict(q) \/ PutReject(q) \/ PutPublish(q) \/ PutFail(q)
      PROVE  Register!Answer(q)
  <2>1. Committed' = Committed /\ ask' = ask
    BY <1>6 DEF PutConflict, PutReject, PutPublish, PutFail, diskVars, Committed
  <2>2. CASE PutConflict(q)
    <3>1. ops' = [ops EXCEPT ![q] = "conflict"] /\ ops[q] = "pending"
        BY <2>2, Zenon DEF PutConflict, TakesStateLock, Op, InFlight, ioVars, TypeOK
    <3>2. Committed = state
        BY <2>2, DurableProps DEF PutConflict, TakesStateLock, MemoryIsCommitted
    <3> QED
        BY <2>1, <2>2, <3>1, <3>2 DEF PutConflict, RevisionMatches,
           Register!Answer, Register!Becomes
  <2>3. CASE PutReject(q)
    <3>1. ops' = [ops EXCEPT ![q] = "invalid"] /\ ops[q] = "pending"
        BY <2>3, Zenon DEF PutReject, TakesStateLock, Op, InFlight, ioVars, TypeOK
    <3> QED
        BY <2>1, <2>3, <3>1, Zenon DEF PutReject, Register!Answer, Register!Becomes
  <2>4. CASE PutPublish(q)
    <3>1. ops' = [ops EXCEPT ![q] = "ok"] /\ ops[q] = "applied"
        BY <2>4, Zenon DEF PutPublish, Op, InFlight, ioVars, TypeOK
    <3> QED
        BY <2>1, <3>1 DEF Register!Answer, Register!Becomes
  <2>5. CASE PutFail(q)
    <3>1. ops' = [ops EXCEPT ![q] = "failed"] /\ ops[q] = "pending"
        BY <2>5, Zenon DEF PutFail, Op, InFlight, IdleIo, TypeOK, Writers
    <3> QED
        BY <2>1, <3>1 DEF Register!Answer, Register!Becomes
  <2> QED
    BY <1>6, <2>2, <2>3, <2>4, <2>5
<1>7. CASE Start \/ Mark \/ UNCHANGED storeVars
  <2>1. Committed' = Committed /\ UNCHANGED <<pc, ask>>
    BY <1>7 DEF Start, StartLoad, StartInit, InitWritten, InitServe, InitFail, Mark,
       storeVars, reqVars, diskVars, Committed
  <2>2. \A q \in Requests : io'[q] = io[q]
    BY <1>7 DEF Start, StartLoad, StartInit, InitWritten, InitServe, InitFail, Mark,
       Step, storeVars, ioVars, TypeOK, Writers
  <2> QED
    BY <1>0, <2>1, <2>2 DEF Op
<1>8. CASE Crash
  <2>1. Committed' = Committed /\ ask' = ask
    BY <1>8 DEF Crash, diskVars, Committed
  <2>2. \A q \in Requests : Op(q)' = IF Op(q) \in {"pending", "applied"}
                                       THEN "lost" ELSE Op(q)
    BY <1>8 DEF Crash, Op, InFlight, Answers, IdleIo, TypeOK, Writers
  <2>3. ops' = [q \in Requests |->
                   IF ops[q] \in {"pending", "applied"} THEN "lost" ELSE ops[q]]
    BY <2>2
  <2> QED
    BY <2>1, <2>3 DEF Register!Next, Register!LoseAnswers
<1> QED
    BY <1>1, <1>2, <1>3, <1>4, <1>5, <1>6, <1>7, <1>8
    DEF PatientNext, IoStep, PutStep, Writers, Register!Next

(* The store implements the register, for any number of puts and crashes: with *)
(* clients that wait for their answers PUT /v1/state is linearizable.          *)
THEOREM StoreImplementsRegister == PatientSpec => ImplementsRegister
<1>1. Init => LinearInv
    BY DurableInit DEF Init, LinearInv, AskInv
<1>2. LinearInv /\ [PatientNext]_storeVars => LinearInv'
    BY DurableStep, AskStep DEF LinearInv
<1>3. Init => Register!Init
    BY DEF Init, Register!Init, Committed, InitialState, Op, InFlight
<1> QED
    BY <1>1, <1>2, <1>3, RegisterStep, PTL
    DEF PatientSpec, ImplementsRegister, Register!Spec

-------------------------------------------------------------------------------
(* Part 2: the reconcile calls. *)

(* Between NoteApplying and the mark that ends the call. *)
Closure == {"render", "rendering", "validate", "backup", "commit", "moveOld",
            "moveNew", "dropOld", "reload", "success", "failure"}
Rendered == {"validate", "backup", "commit", "moveOld", "moveNew", "dropOld",
             "reload", "success"}
RpcSteps == Closure \cup {"idle", "read", "check", "outOfSync", "applying"}

Dirs == [revision : Nat, config : Contents]

ApplyTypeOK ==
    /\ applyLock \in Reconcilers \cup {None}
    /\ rpc \in [Reconcilers -> RpcSteps]
    /\ seen \in [Reconcilers -> States]
    /\ rendered \in [Reconcilers -> Hashes \cup {NoHash}]
    /\ staging \in Dirs /\ runtime \in Dirs /\ previous \in Dirs /\ nginx \in Dirs
    /\ faults \in 0..MaxFaults

(* What a reconcile call renders. *)
Target(r) == [revision |-> seen[r].revision, config |-> Render[seen[r].doc]]
TargetHash(r) == [path |-> "staging", config |-> Render[seen[r].doc]]

(* A call that runs holds apply_lock.  What it has read is not ahead of the *)
(* state, nor behind what was observed when it began.                       *)
CallOK(r) ==
    /\ rpc[r] # "idle" => applyLock = r /\ phase = "up"
    /\ rpc[r] \notin {"idle", "read"}
          => seen[r].revision <= state.revision /\ status.observed <= seen[r].revision
    /\ rpc[r] \in Rendered => rendered[r] = TargetHash(r)

CallInv == ApplyTypeOK /\ \A r \in Reconcilers : CallOK(r)

StoreInv == DurableInv /\ StatusNotAhead

-------------------------------------------------------------------------------
(* Revisions are in order. *)
LEMMA InOrder ==
  \A l, m, n \in Nat : /\ m = n => m >= n /\ m <= n
                       /\ m >= n => n <= m
                       /\ l <= m /\ m <= n => l <= n
  OBVIOUS

(* A running call is the only one. *)
LEMMA OneCall ==
  ASSUME CallInv, NEW r \in Reconcilers, rpc[r] # "idle",
         NEW s \in Reconcilers, s # r
  PROVE  rpc[s] = "idle"
  BY DEF CallInv, CallOK

(* The steps of the store by themselves: while the daemon is up the state   *)
(* only grows and what the apply service reported stays, except that a put  *)
(* takes InSync away; a start reports the loaded revision without a hash.   *)
LEMMA StoreStepGrows ==
  ASSUME StoreInv, StoreStep \/ \E a \in Writers : IoError(a)
  PROVE  /\ phase = "up" =>
              /\ phase' = "up"
              /\ state'.revision >= state.revision
              /\ status'.observed = status.observed
              /\ status'.hash = status.hash
              /\ status'.sync = "InSync" => status.sync = "InSync"
         /\ phase # "up" /\ phase' = "up" => status'.hash = NoHash /\ state' = Committed
  <1> USE DEF StoreInv, DurableInv
  <1>1. ASSUME NEW q \in Requests, PutStore(q)
        PROVE  UNCHANGED <<phase, status>> /\ state'.revision >= state.revision
    BY <1>1 DEF PutStore, LockInv, TypeOK, States
  <1>2. ASSUME NEW q \in Requests, PutPublish(q)
        PROVE  /\ UNCHANGED <<phase, state>>
               /\ status'.observed = status.observed /\ status'.hash = status.hash
               /\ status'.sync # "InSync"
    BY <1>2 DEF PutPublish, TypeOK
  <1>3. CASE StartLoad
    BY <1>3 DEF StartLoad, Serve, FreshStatus, Committed
  <1>4. CASE InitServe
    BY <1>4 DEF InitServe, Serve, FreshStatus, Committed, FileInv, Writers
  <1>5. CASE StartInit \/ InitWritten \/ InitFail
    BY <1>5 DEF StartInit, InitWritten, InitFail, memVars
  <1>6. CASE UNCHANGED <<phase, state, status>>
    BY <1>6 DEF TypeOK, States
  <1> QED
    <2>1. state.revision >= state.revision
      BY DEF TypeOK, States
    <2> QED
      BY <2>1, <1>1, <1>2, <1>3, <1>4, <1>5, <1>6
      DEF StoreStep, IoStep, IoOpen, IoWrite, IoRename, IoError, Submit, PutSubmit,
        PutBadHeader, PutStep, PutConflict, PutReject, PutAccept, PutWritten, PutFail,
        Start, memVars

-------------------------------------------------------------------------------
(* Every step of the daemon is a step of the store, or leaves it alone. *)
LEMMA TargetFacts ==
  ASSUME ApplyTypeOK, NEW r \in Reconcilers
  PROVE  /\ Target(r) \in Dirs /\ Target(r).config \in Configs
         /\ Target(r).revision = seen[r].revision
         /\ TargetHash(r) \in Hashes
         /\ HashDirectory("staging", Target(r)) = TargetHash(r)
  <1>1. seen[r].doc \in Docs /\ seen[r].revision \in Nat
    BY DEF ApplyTypeOK, States
  <1>2. Render[seen[r].doc] \in Configs
    BY <1>1, ApplyAssumption
  <1>3. Render[seen[r].doc] # Absent /\ Render[seen[r].doc] \in Contents
    BY <1>2, ApplyAssumption DEF Contents
  <1>4. TargetHash(r) \in [path : {"staging", "runtime"}, config : Contents]
    BY <1>3 DEF TargetHash
  <1> QED  BY <1>1, <1>2, <1>3, <1>4, ApplyAssumption, Zenon
              DEF Target, TargetHash, Dirs, HashDirectory

(* A reconcile touches the store by a mark or not at all. *)
LEMMA CallIsStoreStep ==
  ASSUME StoreInv, CallInv, NEW r \in Reconcilers,
         Begin(r) \/ ReconcileStep(r) \/ ReconcileFault(r)
  PROVE  Mark \/ UNCHANGED storeVars
  <1>1. CASE rpc[r] \in Closure \cup {"outOfSync", "applying"} /\ StatusOnly
             /\ (MarkApplying \/ MarkDegraded \/ MarkOutOfSync)
    BY <1>1, ZenonT(30) DEF Mark, CallInv, CallOK, StatusOnly, Closure
  <1>2. CASE Succeed(r)
    <2>1. seen[r].revision \in 0..state.revision /\ phase = "up"
      BY <1>2 DEF Succeed, CallInv, CallOK, ApplyTypeOK, States
    <2>2. rendered[r] \in Hashes
      BY <1>2, TargetFacts, Zenon DEF Succeed, CallInv, CallOK, Rendered
    <2> QED  BY <1>2, <2>1, <2>2, Zenon DEF Succeed, Mark, StatusOnly
  <1>3. CASE UNCHANGED storeVars
    BY <1>3
  <1>4. CASE NoteDrift(r) \/ NoteApplying(r) \/ Degrade(r)
    BY <1>1, <1>4 DEF NoteDrift, NoteApplying, Degrade, Goto, Closure
  <1> QED
    BY <1>2, <1>3, <1>4, ZenonT(30)
    DEF Begin, ReconcileStep, ReconcileFault, ReadState, Check, RenderBegin, RenderEnd,
        Validate, ValidateRefuses, Backup, DropPrevious, MoveOld, MoveNew, DropOld,
        Reload, CheckError, StepFails, MoveNewFails, DropTrigger, Quiet

(* Every step of the daemon is one the store with patient clients may take. *)
LEMMA DaemonIsStoreStep ==
  ASSUME StoreInv, CallInv, [DaemonNext]_vars
  PROVE  [PatientNext]_storeVars
  <1>1. CASE StoreStep \/ (\E a \in Writers : IoError(a)) \/ DaemonCrash
    BY <1>1 DEF StoreStep, DaemonCrash, PatientNext
  <1>2. ASSUME NEW r \in Reconcilers, Begin(r) \/ ReconcileStep(r) \/ ReconcileFault(r)
        PROVE  [PatientNext]_storeVars
    BY <1>2, CallIsStoreStep DEF PatientNext
  <1>3. CASE OperatorEdit
    BY <1>3 DEF OperatorEdit
  <1>4. CASE UNCHANGED vars
    BY <1>4 DEF vars, allVars
  <1> QED  BY <1>1, <1>2, <1>3, <1>4 DEF DaemonNext, Fault

(* The invariant of the store holds in the daemon. *)
LEMMA StoreInvStep ==
  ASSUME StoreInv, CallInv, [DaemonNext]_vars
  PROVE  StoreInv'
  <1>1. [PatientNext]_storeVars
    BY DaemonIsStoreStep
  <1>2. DurableInv'
    BY <1>1, DurableStep DEF StoreInv
  <1>3. StatusInv /\ [Next]_storeVars
    BY <1>1 DEF StoreInv, DurableInv, StatusInv, Next
  <1> QED  BY <1>2, <1>3, StatusStep DEF StoreInv, StatusInv

-------------------------------------------------------------------------------
(* The reconcile calls keep their discipline. *)
LEMMA StoreStepKeepsCalls ==
  ASSUME StoreInv, StoreInv', CallInv, StoreStep \/ \E a \in Writers : IoError(a),
         UNCHANGED applyVars, faults' \in 0..MaxFaults
  PROVE  CallInv'
  <1>1. ApplyTypeOK'
    BY DEF CallInv, ApplyTypeOK, applyVars, callVars, dirVars
  <1>2. ASSUME NEW r \in Reconcilers PROVE CallOK(r)'
    <2>1. CASE rpc[r] = "idle"
      BY <2>1 DEF CallOK, applyVars, callVars, Rendered
    <2>2. CASE rpc[r] # "idle"
      <3>1. phase = "up"
        BY <2>2 DEF CallInv, CallOK
      <3>2. phase' = "up" /\ state'.revision >= state.revision /\ status'.observed = status.observed
        BY <3>1, StoreStepGrows
      <3>3. state.revision \in Nat /\ state'.revision \in Nat /\ seen[r].revision \in Nat
        BY DEF StoreInv, DurableInv, TypeOK, States, CallInv, ApplyTypeOK
      <3>4. UNCHANGED <<rpc, applyLock, seen, rendered>> /\ CallOK(r)
        BY DEF CallInv, applyVars, callVars
      <3>5. rpc[r] \notin {"idle", "read"}
              => seen'[r].revision <= state'.revision /\ status'.observed <= seen'[r].revision
        <4>1. state.revision <= state'.revision
          BY <3>2, <3>3, InOrder
        <4> QED  BY <3>2, <3>3, <3>4, <4>1, InOrder, ZenonT(30) DEF CallOK
      <3>6. TargetHash(r)' = TargetHash(r)
        BY <3>4 DEF TargetHash
      <3> QED  BY <3>1, <3>2, <3>4, <3>5, <3>6 DEF CallOK
    <2> QED  BY <2>1, <2>2
  <1> QED  BY <1>1, <1>2 DEF CallInv

(* reconcile_once starts only with apply_lock free, which it takes. *)
LEMMA BeginKeepsCalls ==
  ASSUME StoreInv, CallInv, NEW r \in Reconcilers, Begin(r), UNCHANGED faults
  PROVE  CallInv'
  <1>1. ApplyTypeOK'
    BY DEF CallInv, ApplyTypeOK, Begin, Goto, dirVars, RpcSteps
  <1>2. ASSUME NEW s \in Reconcilers PROVE CallOK(s)'
    BY ApplyAssumption, ZenonT(30)
       DEF CallInv, CallOK, ApplyTypeOK, Begin, Goto, storeVars, memVars,
       TargetHash, Rendered
  <1> QED  BY <1>1, <1>2 DEF CallInv

(* The other calls are idle while r runs, whatever r does. *)
LEMMA OthersAreIdle ==
  ASSUME CallInv, NEW r \in Reconcilers, rpc[r] # "idle", NEW to,
         rpc' = [rpc EXCEPT ![r] = to]
  PROVE  \A s \in Reconcilers : s # r => rpc[s] = "idle" /\ rpc'[s] = "idle" /\ CallOK(s)'
  <1> SUFFICES ASSUME NEW s \in Reconcilers, s # r
               PROVE  rpc[s] = "idle" /\ rpc'[s] = "idle" /\ CallOK(s)'
    OBVIOUS
  <1>1. rpc[s] = "idle"
    BY OneCall
  <1>2. rpc'[s] = "idle"
    BY <1>1 DEF CallInv, ApplyTypeOK
  <1> QED  BY <1>1, <1>2 DEF CallOK, Rendered

(* A step or a failure of a running reconcile keeps CallInv. *)
LEMMA CallKeepsCalls ==
  ASSUME StoreInv, CallInv, NEW r \in Reconcilers,
         ReconcileStep(r) \/ ReconcileFault(r), faults' \in 0..MaxFaults
  PROVE  CallInv'
  <1> USE DEF CallInv
  <1>0. /\ r \in Reconcilers /\ rpc[r] \in RpcSteps /\ ApplyTypeOK /\ CallOK(r)
        /\ state \in States /\ status.observed \in Nat
        /\ seen[r].revision \in Nat /\ state.revision \in Nat
        /\ phase = "up" => status.observed <= state.revision
    BY DEF ApplyTypeOK, StoreInv, DurableInv, TypeOK, StatusNotAhead, States
  <1>1. ASSUME ApplyTypeOK', CallOK(r)', rpc[r] # "idle", NEW to, rpc' = [rpc EXCEPT ![r] = to]
        PROVE  CallInv'
    BY <1>1, OthersAreIdle, Zenon
  <1>2. CASE ReadState(r)
    <2>1. ApplyTypeOK'
      BY <1>0, <1>2, Zenon DEF ReadState, Goto, ApplyTypeOK, RpcSteps, dirVars
    <2>2. CallOK(r)'
      <3>1. seen'[r] = state /\ rpc'[r] = "check" /\ rpc[r] = "read" /\ UNCHANGED <<phase, state, status, applyLock>>
        BY <1>0, <1>2, ZenonT(30) DEF ReadState, Goto, ApplyTypeOK, storeVars, memVars
      <3>2. phase = "up" /\ applyLock = r
        BY <1>0, <3>1 DEF CallOK
      <3>3. seen'[r].revision <= state'.revision /\ status'.observed <= seen'[r].revision
        BY <1>0, <3>1, <3>2, InOrder
      <3>4. rpc'[r] \notin Rendered
        BY <3>1 DEF Rendered
      <3> QED  BY <3>1, <3>2, <3>3, <3>4, ZenonT(30) DEF CallOK
    <2> QED  BY <1>1, <1>2, <2>1, <2>2, ZenonT(30) DEF ReadState, Goto
  <1>3. CASE Return(r) /\ rpc[r] # "idle" /\ UNCHANGED <<seen, rendered, dirVars>>
    <2>1. ApplyTypeOK'
      BY <1>0, <1>3 DEF Return, ApplyTypeOK, RpcSteps, dirVars
    <2>2. CallOK(r)'
      BY <1>0, <1>3, ZenonT(30) DEF Return, CallOK, ApplyTypeOK, Rendered
    <2> QED  BY <1>1, <1>3, <2>1, <2>2, ZenonT(30) DEF Return
  <1>4. CASE RenderEnd(r)
    <2>1. staging' = Target(r) /\ rendered' = [rendered EXCEPT ![r] = TargetHash(r)]
      BY <1>0, <1>4, TargetFacts, ZenonT(30) DEF RenderEnd, Target
    <2>2. ApplyTypeOK'
      BY <1>0, <1>4, <2>1, TargetFacts, ZenonT(30)
         DEF RenderEnd, Goto, Quiet, ApplyTypeOK, RpcSteps, Closure
    <2>3. CallOK(r)'
      <3>1. rendered'[r] = TargetHash(r) /\ UNCHANGED <<seen, phase, state, status, applyLock>> /\ rpc'[r] = "validate" /\ rpc[r] = "rendering"
        BY <1>0, <1>4, <2>1, ZenonT(30) DEF RenderEnd, Goto, Quiet, ApplyTypeOK, storeVars, memVars
      <3> QED  BY <1>0, <3>1, ZenonT(30) DEF CallOK, TargetHash
    <2> QED  BY <1>1, <1>4, <2>2, <2>3, ZenonT(30) DEF RenderEnd, Goto
  <1>5. ASSUME NEW to \in RpcSteps, rpc' = [rpc EXCEPT ![r] = to],
               rpc[r] \notin {"idle", "read"},
               to \in Rendered => rpc[r] \in Rendered,
               UNCHANGED <<phase, state, applyLock, seen, rendered>>,
               status'.observed = status.observed,
               staging' \in Dirs, runtime' \in Dirs, previous' \in Dirs, nginx' \in Dirs
        PROVE  CallInv'
    <2>1. ApplyTypeOK'
      BY <1>0, <1>5 DEF ApplyTypeOK
    <2>2. rpc'[r] = to
      BY <1>0, <1>5 DEF ApplyTypeOK
    <2>3. CallOK(r)'
      BY <1>0, <1>5, <2>2, ZenonT(30) DEF CallOK, TargetHash
    <2> QED  BY <1>1, <1>5, <2>1, <2>3, ZenonT(30)
  <1>6. staging \in Dirs /\ runtime \in Dirs /\ previous \in Dirs /\ nginx \in Dirs
        /\ Dir(Absent) \in Dirs /\ Dir(Partial) \in Dirs
    BY <1>0 DEF ApplyTypeOK, Dir, Dirs, Contents
  <1>7. CASE Check(r) /\ ~Return(r)
    BY <1>5, <1>6, <1>7, Zenon
       DEF Check, Goto, RpcSteps, Closure, Rendered, storeVars, memVars, dirVars
  <1>8. CASE NoteDrift(r)
    BY <1>0, <1>5, <1>6, <1>8
       DEF NoteDrift, Goto, MarkOutOfSync, StatusOnly, RpcSteps, Closure, Rendered,
       dirVars, StoreInv, DurableInv, TypeOK
  <1>9. CASE NoteApplying(r)
    BY <1>0, <1>5, <1>6, <1>9
       DEF NoteApplying, Goto, MarkApplying, StatusOnly, RpcSteps, Closure, Rendered,
       dirVars, StoreInv, DurableInv, TypeOK
  <1>10. CASE \/ RenderBegin(r) \/ Validate(r) \/ ValidateRefuses(r) \/ Backup(r)
              \/ DropPrevious(r) \/ MoveOld(r) \/ MoveNew(r) \/ DropOld(r) \/ Reload(r)
    BY <1>5, <1>6, <1>10, Zenon
    DEF RenderBegin, Validate, ValidateRefuses, Backup, DropPrevious, MoveOld, MoveNew,
        DropOld, Reload, Goto, Quiet, RpcSteps, Closure, Rendered, storeVars, memVars, dirVars
  <1>11. CASE MoveNewFails(r)
    BY <1>5, <1>6, <1>11
       DEF MoveNewFails, Goto, Quiet, RpcSteps, Closure, Rendered, storeVars, memVars
  <1>12. CASE StepFails(r)
    <2>1. staging' \in Dirs /\ previous' \in Dirs /\ rpc[r] \notin {"idle", "read"}
      BY <1>6, <1>12 DEF StepFails
    <2> QED
      BY <1>5, <1>6, <1>12, <2>1
         DEF StepFails, Quiet, RpcSteps, Closure, Rendered, storeVars, memVars
  <1>13. CASE Succeed(r) \/ Degrade(r) \/ CheckError(r) \/ DropTrigger(r) \/ (Check(r) /\ Return(r))
    BY <1>3, <1>13, Zenon DEF Succeed, Degrade, CheckError, DropTrigger, Check
  <1> QED
    BY <1>2, <1>4, <1>7, <1>8, <1>9, <1>10, <1>11, <1>12, <1>13 DEF ReconcileStep, ReconcileFault

(* A crash ends every reconcile and frees apply_lock. *)
LEMMA CrashKeepsCalls ==
  ASSUME CallInv, DaemonCrash, faults' \in 0..MaxFaults
  PROVE  CallInv'
  <1>1. ApplyTypeOK'
    BY StoreAssumption DEF CallInv, ApplyTypeOK, DaemonCrash, ApplyCrash, dirVars, RpcSteps,
       InitialState, States
  <1>2. ASSUME NEW r \in Reconcilers PROVE CallOK(r)'
    BY DEF CallOK, DaemonCrash, ApplyCrash, Rendered
  <1> QED  BY <1>1, <1>2 DEF CallInv

(* An edit of the runtime directory concerns no call. *)
LEMMA EditKeepsCalls ==
  ASSUME CallInv, OperatorEdit, faults' \in 0..MaxFaults
  PROVE  CallInv'
  <1>1. ApplyTypeOK'
    BY DEF CallInv, ApplyTypeOK, OperatorEdit, callVars, Dir, Dirs, Contents
  <1>2. ASSUME NEW r \in Reconcilers PROVE CallOK(r)'
    BY Zenon DEF CallInv, CallOK, OperatorEdit, callVars, storeVars, memVars, TargetHash
  <1> QED  BY <1>1, <1>2 DEF CallInv

(* Every step of the daemon keeps CallInv. *)
LEMMA CallInvStep ==
  ASSUME StoreInv, CallInv, [DaemonNext]_vars
  PROVE  CallInv'
  <1>1. StoreInv'
    BY StoreInvStep
  <1>2. faults' \in 0..MaxFaults
    BY FaultAssumption DEF DaemonNext, vars, CallInv, ApplyTypeOK
  <1>3. CASE (StoreStep \/ \E a \in Writers : IoError(a)) /\ UNCHANGED applyVars
    BY <1>1, <1>2, <1>3, StoreStepKeepsCalls
  <1>4. ASSUME NEW r \in Reconcilers, Begin(r) /\ UNCHANGED faults PROVE CallInv'
    BY <1>4, BeginKeepsCalls
  <1>5. ASSUME NEW r \in Reconcilers, ReconcileStep(r) \/ ReconcileFault(r) PROVE CallInv'
    BY <1>2, <1>5, CallKeepsCalls
  <1>6. CASE DaemonCrash \/ OperatorEdit
    BY <1>2, <1>6, CrashKeepsCalls, EditKeepsCalls
  <1>7. CASE UNCHANGED vars
    BY <1>7, Zenon DEF vars, allVars, applyVars, callVars, dirVars, storeVars, memVars, CallInv,
       ApplyTypeOK, CallOK, TargetHash
  <1> QED  BY <1>3, <1>4, <1>5, <1>6, <1>7 DEF DaemonNext, Fault

(* At first no call runs, and the invariants of store and calls hold. *)
LEMMA CallInvInit == DaemonInit => StoreInv /\ CallInv
  <1> SUFFICES ASSUME DaemonInit PROVE StoreInv /\ CallInv
    OBVIOUS
  <1>1. DurableInv
    BY DurableInit DEF DaemonInit
  <1>2. StatusNotAhead
    BY DEF DaemonInit, Init, StatusNotAhead
  <1>3. ApplyTypeOK
    BY StoreAssumption, FaultAssumption DEF DaemonInit, ApplyInit, ApplyTypeOK, RpcSteps,
       InitialState, States, Dir, Dirs, Contents
  <1>4. ASSUME NEW r \in Reconcilers PROVE CallOK(r)
    BY DEF DaemonInit, ApplyInit, CallOK, Rendered
  <1> QED  BY <1>1, <1>2, <1>3, <1>4 DEF StoreInv, CallInv

(* The invariants of store and calls hold in every state of the daemon. *)
LEMMA CallInvAlways == DaemonSpec => [](StoreInv /\ CallInv)
  <1>1. StoreInv /\ CallInv /\ [DaemonNext]_vars => (StoreInv /\ CallInv)'
    BY StoreInvStep, CallInvStep
  <1> QED  BY <1>1, CallInvInit, PTL DEF DaemonSpec

(* The daemon keeps its types. *)
THEOREM DaemonTypeCorrect == DaemonSpec => []DaemonTypeOK
  <1>1. StoreInv /\ CallInv => DaemonTypeOK
    BY DEF StoreInv, DurableInv, CallInv, ApplyTypeOK, DaemonTypeOK, Dirs
  <1> QED  BY <1>1, CallInvAlways, PTL

(* The reconcile calls are an environment the store allows: they mark only  *)
(* revisions the store has reached, while the daemon is up.  Whatever is    *)
(* proved of the store holds in the daemon.                                 *)
THEOREM DaemonImplementsStore == DaemonSpec => ImplementsStore
  <1>1. DaemonInit => Init
    BY DEF DaemonInit
  <1>2. StoreInv /\ CallInv /\ [DaemonNext]_vars => [PatientNext]_storeVars
    BY DaemonIsStoreStep
  <1> QED  BY <1>1, <1>2, CallInvAlways, PTL DEF DaemonSpec, ImplementsStore, PatientSpec

(* So the whole daemon, with its reconciles, faults and restarts, keeps what *)
(* the store promises: state.json always loads, no put answered 200 is lost, *)
(* GET answers what a restart would load, state.json moves by one revision   *)
(* at a time and PUT /v1/state is linearizable.                              *)
THEOREM DaemonKeepsStorePromises ==
  DaemonSpec => /\ [](RestartPossible /\ AckedSurvives /\ MemoryIsCommitted)
                /\ RevisionsLinear
                /\ ImplementsRegister
  BY DaemonImplementsStore, StoreDurable, StoreLinear, StoreImplementsRegister, PTL
     DEF ImplementsStore

-------------------------------------------------------------------------------
(* Part 3: the directories and nginx. *)

(* The directories.  What a call has rendered stays in staging until it is  *)
(* committed, since no other call runs; afterwards it is the runtime        *)
(* directory unless somebody edits it.                                      *)
Bad == Rejected \cup {Partial}

DirOK(r) ==
    /\ rpc[r] \in {"validate", "backup", "commit", "moveOld", "moveNew"} => staging = Target(r)
    /\ rpc[r] \in {"dropOld", "reload"} => runtime = Target(r) \/ runtime.config \in {Foreign, Absent}
    /\ rpc[r] = "success" /\ ~DryRun => nginx = Target(r) \/ LoadedAnEdit
    /\ rpc[r] \in Closure => status.sync # "InSync"
    /\ rpc[r] \notin {"idle", "read"} /\ nginx.config \in Configs
          => nginx.revision <= seen[r].revision
    /\ rpc[r] \in {"backup", "commit", "moveOld", "moveNew"} /\ ~DryRun
          => staging.config \notin Bad
    /\ rpc[r] \in {"moveOld", "moveNew"} /\ ~DryRun => previous.config \notin Bad

(* nginx runs a tested configuration of a revision the state has reached,   *)
(* before and after a restart.                                              *)
ServedOK ==
    /\ OnlyTestedIsServed
    /\ InSyncAfterApply
    /\ nginx.config \in Configs =>
          /\ nginx.revision <= Committed.revision
          /\ phase = "up" => nginx.revision <= state.revision

DirInv == ServedOK /\ \A r \in Reconcilers : DirOK(r)

DaemonInv == StoreInv /\ CallInv /\ DirInv

(* The revision in the file is the one in memory or the next. *)
LEMMA CommittedFacts ==
  ASSUME StoreInv
  PROVE  /\ Committed \in States /\ state \in States
         /\ phase = "up" => state.revision <= Committed.revision
  <1> USE StoreAssumption DEF StoreInv, DurableInv
  <1>1. Committed \in States /\ state \in States
    BY DEF FileInv, RestartPossible, Committed, TypeOK, InitialState, States
  <1>2. CASE phase = "up" /\ \A q \in Requests : io[q].step # "renamed"
    BY <1>1, <1>2 DEF MemoryInv, Committed, States
  <1>3. ASSUME phase = "up", NEW q \in Requests, io[q].step = "renamed"
        PROVE  state.revision <= Committed.revision
    <2>1. pc[q] = "renaming" /\ file # None /\ content[file] = data[q]
      BY <1>3 DEF WriterInv, FileInv, Writers
    <2>2. data[q].revision = state.revision + 1
      BY <2>1, Zenon DEF LockInv
    <2> QED  BY <1>1, <2>1, <2>2 DEF Committed, States
  <1> QED  BY <1>1, <1>2, <1>3, ZenonT(30)

(* state.json only moves forward. *)
LEMMA CommittedGrows ==
  ASSUME StoreInv, StoreInv', [PatientNext]_storeVars
  PROVE  Committed'.revision >= Committed.revision
  <1>1. Committed \in States /\ state \in States
    BY CommittedFacts
  <1>2. CASE Committed' = Committed
    BY <1>1, <1>2 DEF States
  <1>3. ASSUME NEW q \in Requests, Committed = state, Committed' = data[q],
               data[q].revision = state.revision + 1
        PROVE  Committed'.revision >= Committed.revision
    BY <1>1, <1>3 DEF States
  <1> QED  BY <1>2, <1>3, CommitStep DEF StoreInv

(* At first there are no directories and nothing is served. *)
LEMMA DirInvInit == DaemonInit => DirInv
  <1> SUFFICES ASSUME DaemonInit PROVE DirInv
    OBVIOUS
  <1>1. runtime = Dir(Absent) /\ nginx = Dir(Absent) /\ phase = "down"
        /\ \A r \in Reconcilers : rpc[r] = "idle"
    BY DEF DaemonInit, Init, ApplyInit
  <1>2. Dir(Absent).config = Absent
    BY DEF Dir
  <1>3. Absent \notin Configs /\ Absent \notin Rejected \cup {Partial}
    BY ApplyAssumption
  <1>4. ServedOK
    BY <1>1, <1>2, <1>3 DEF ServedOK, OnlyTestedIsServed, InSyncAfterApply
  <1> QED  BY <1>1, <1>4 DEF DirInv, DirOK, Closure

(* The store's own steps. *)
LEMMA StoreStepKeepsDirs ==
  ASSUME DaemonInv, StoreInv', StoreStep \/ (\E a \in Writers : IoError(a)), UNCHANGED applyVars
  PROVE  DirInv'
  <1>1. /\ UNCHANGED <<applyLock, rpc, seen, rendered, staging, runtime, previous, nginx>>
        /\ StoreInv /\ CallInv /\ DirInv
    BY DEF DaemonInv, applyVars, callVars, dirVars
  <1>2. [PatientNext]_storeVars
    BY DEF StoreStep, PatientNext
  <1>3. /\ Committed'.revision >= Committed.revision
        /\ Committed \in States /\ Committed' \in States
        /\ state \in States /\ state' \in States
    <2>1. Committed' \in States /\ state' \in States
      BY StoreAssumption DEF StoreInv, DurableInv, FileInv, RestartPossible, Committed, TypeOK,
         InitialState, States
    <2> QED  BY <1>1, <1>2, <2>1, CommittedGrows, CommittedFacts
  <1>4. ASSUME NEW r \in Reconcilers PROVE DirOK(r)'
    <2>1. CASE rpc[r] = "idle"
      BY <1>1, <2>1, ZenonT(30) DEF DirOK, Closure
    <2>2. CASE rpc[r] # "idle"
      <3>1. phase = "up"
        BY <1>1, <2>2, ZenonT(30) DEF CallInv, CallOK
      <3>2. status'.sync = "InSync" => status.sync = "InSync"
        BY <1>1, <3>1, StoreStepGrows, ZenonT(30)
      <3> QED  BY <1>1, <3>2, ZenonT(30) DEF DirInv, DirOK, Target, LoadedAnEdit
    <2> QED  BY <2>1, <2>2
  <1>5. OnlyTestedIsServed'
    BY <1>1, Zenon DEF DirInv, ServedOK, OnlyTestedIsServed
  <1>6. InSyncAfterApply'
    <2>1. CASE phase = "up"
      BY <1>1, <2>1, StoreStepGrows, ZenonT(30)
         DEF DirInv, ServedOK, InSyncAfterApply, NothingApplied, LoadedAnEdit
    <2>2. CASE phase # "up"
      BY <1>1, <2>2, StoreStepGrows, Zenon DEF InSyncAfterApply, NothingApplied
    <2> QED  BY <2>1, <2>2
  <1>7. ASSUME nginx.config \in Configs
        PROVE  /\ nginx.revision <= Committed'.revision
               /\ phase' = "up" => nginx.revision <= state'.revision
    <2>1. nginx.revision \in Nat
      BY <1>1 DEF CallInv, ApplyTypeOK, Dirs
    <2>2. nginx.revision <= Committed.revision
      BY <1>1, <1>7 DEF DirInv, ServedOK
    <2>3. /\ Committed.revision \in Nat /\ Committed'.revision \in Nat
          /\ state.revision \in Nat /\ state'.revision \in Nat
      BY <1>3 DEF States
    <2>4. nginx.revision <= Committed'.revision
      BY <1>3, <2>1, <2>2, <2>3, InOrder
    <2>5. CASE phase = "up"
      <3>1. nginx.revision <= state.revision
        BY <1>1, <1>7, <2>5 DEF DirInv, ServedOK
      <3>2. state'.revision >= state.revision
        BY <1>1, <2>5, StoreStepGrows
      <3> QED  BY <2>1, <2>3, <2>4, <3>1, <3>2, InOrder
    <2>6. CASE phase # "up"
      <3>1. phase' = "up" => state' = Committed
        BY <1>1, <2>6, StoreStepGrows
      <3> QED  BY <2>2, <2>4, <3>1
    <2> QED  BY <2>5, <2>6
  <1> QED  BY <1>1, <1>4, <1>5, <1>6, <1>7 DEF DirInv, ServedOK

(* A step of one call disturbs the clauses of no other. *)
LEMMA CallKeepsDirs ==
  ASSUME CallInv, NEW r \in Reconcilers, rpc[r] # "idle", NEW to,
         rpc' = [rpc EXCEPT ![r] = to], DirOK(r)', ServedOK'
  PROVE  DirInv'
  <1>1. ASSUME NEW s \in Reconcilers, s # r PROVE DirOK(s)'
    <2>1. rpc'[s] = "idle"
      BY <1>1, OthersAreIdle, Zenon
    <2> QED  BY <2>1, Zenon DEF DirOK, Closure
  <1> QED  BY <1>1 DEF DirInv

(* Steps that leave the served directory and nginx alone. *)
LEMMA ServedStays ==
  ASSUME ServedOK, UNCHANGED <<phase, state, file, content, runtime, nginx>>,
         status' = status \/ status'.sync # "InSync"
  PROVE  ServedOK'
  <1>1. Committed' = Committed
    BY DEF Committed
  <1> QED  BY <1>1 DEF ServedOK, OnlyTestedIsServed, InSyncAfterApply, NothingApplied, LoadedAnEdit

(* A step that leaves the store alone leaves each of its variables. *)
LEMMA QuietStays ==
  ASSUME UNCHANGED storeVars
  PROVE  UNCHANGED <<phase, state, status, file, content>>
  BY DEF storeVars, memVars, diskVars

(* The start of a reconcile moves no directory. *)
LEMMA BeginKeepsDirs ==
  ASSUME DaemonInv, NEW r \in Reconcilers, Begin(r)
  PROVE  DirInv'
  <1>1. /\ CallInv /\ DirInv /\ ServedOK /\ rpc' = [rpc EXCEPT ![r] = "read"]
        /\ UNCHANGED <<seen, staging, runtime, previous, nginx>>
        /\ UNCHANGED <<phase, state, status, file, content>>
    BY QuietStays DEF DaemonInv, DirInv, Begin, Goto, dirVars
  <1>2. ServedOK'
    BY <1>1, ServedStays
  <1>3. ASSUME NEW s \in Reconcilers PROVE DirOK(s)'
    <2>1. rpc'[s] \in {"read", "idle"}
      BY <1>1, ApplyAssumption DEF Begin, CallInv, CallOK, ApplyTypeOK
    <2> QED  BY <2>1 DEF DirOK, Closure
  <1> QED  BY <1>2, <1>3 DEF DirInv

(* Every file operation of the pipeline, done or failed, keeps DirInv. *)
LEMMA ReconcileKeepsDirs ==
  ASSUME DaemonInv, NEW r \in Reconcilers, ReconcileStep(r) \/ ReconcileFault(r)
  PROVE  DirInv'
  <1>0. /\ StoreInv /\ CallInv /\ ServedOK /\ DirOK(r) /\ CallOK(r)
        /\ ApplyTypeOK /\ rpc[r] \in RpcSteps
        /\ nginx.revision \in Nat /\ seen[r].revision \in Nat /\ state.revision \in Nat
        /\ Target(r).config \in Configs /\ Target(r).revision = seen[r].revision
        /\ Target(r).config # Partial
        /\ Absent \notin Configs /\ Absent \notin Bad /\ Dir(Absent).config = Absent
    <2>1. StoreInv /\ CallInv /\ ServedOK /\ DirOK(r) /\ CallOK(r) /\ ApplyTypeOK
      BY DEF DaemonInv, DirInv, CallInv
    <2>2. Absent \notin Configs /\ Absent \notin Bad /\ Dir(Absent).config = Absent
      BY ApplyAssumption DEF Bad, Dir
    <2>3. Target(r).config \in Configs /\ Target(r).revision = seen[r].revision
          /\ Target(r).config # Partial
      BY <2>1, TargetFacts, ApplyAssumption, ZenonT(30)
    <2>4. nginx.revision \in Nat /\ seen[r].revision \in Nat /\ state.revision \in Nat
          /\ rpc[r] \in RpcSteps
      BY <2>1 DEF ApplyTypeOK, Dirs, States, StoreInv, DurableInv, TypeOK
    <2> QED  BY <2>1, <2>2, <2>3, <2>4, Zenon
  <1>1. ASSUME rpc[r] # "idle", NEW to, rpc' = [rpc EXCEPT ![r] = to]
        PROVE  rpc'[r] = to
    BY <1>0, <1>1, ZenonT(30) DEF ApplyTypeOK
  (* A call that ends without a mark, or is degraded. *)
  <1>2. CASE /\ rpc[r] # "idle" /\ Return(r) /\ UNCHANGED dirVars
             /\ UNCHANGED <<phase, state, file, content>>
             /\ status' = status \/ status'.sync # "InSync"
    <2>1. ServedOK'
      BY <1>0, <1>2, ServedStays, ZenonT(30) DEF dirVars
    <2>2. DirOK(r)'
      BY <1>1, <1>2, ZenonT(30) DEF Return, DirOK, Closure
    <2> QED  BY <1>0, <1>2, <2>1, <2>2, CallKeepsDirs, ZenonT(30) DEF Return
  <1>3. CASE CheckError(r) \/ DropTrigger(r) \/ (Check(r) /\ Return(r))
    BY <1>2, <1>3, QuietStays, Zenon DEF CheckError, DropTrigger, Check
  <1>4. CASE Degrade(r)
    BY <1>0, <1>2, <1>4
       DEF Degrade, MarkDegraded, StatusOnly, diskVars, StoreInv, DurableInv, TypeOK
  <1>5. CASE Succeed(r)
    <2>1. /\ rpc[r] = "success" /\ rpc'[r] = "idle" /\ rendered[r] = TargetHash(r)
          /\ status' = [desired |-> seen[r].revision, observed |-> seen[r].revision,
                        sync |-> "InSync", hash |-> TargetHash(r)]
          /\ UNCHANGED <<phase, state, file, content, runtime, nginx, seen>>
      BY <1>0, <1>1, <1>5, ZenonT(30)
         DEF Succeed, Return, MarkInSync, StatusOnly, CallOK, Rendered, dirVars, diskVars
    <2>2. ~DryRun => nginx = Target(r) \/ LoadedAnEdit
      BY <1>0, <2>1, ZenonT(30) DEF DirOK
    <2>3. InSyncAfterApply'
      BY <1>0, <2>1, <2>2, TargetFacts, ZenonT(30)
         DEF InSyncAfterApply, NothingApplied, LoadedAnEdit, HashDirectory
    <2>4. Committed' = Committed
      BY <2>1, ZenonT(30) DEF Committed
    <2>5. ServedOK'
      BY <1>0, <2>1, <2>3, <2>4, ZenonT(30) DEF ServedOK, OnlyTestedIsServed
    <2>6. DirOK(r)'
      BY <2>1, ZenonT(30) DEF DirOK, Closure
    <2> QED  BY <1>0, <1>5, <2>1, <2>5, <2>6, CallKeepsDirs, ZenonT(30) DEF Succeed, Return
  <1>6. CASE ReadState(r)
    <2>1. /\ rpc[r] = "read" /\ rpc'[r] = "check" /\ seen'[r] = state
          /\ UNCHANGED <<phase, state, status, file, content, runtime, nginx>>
      BY <1>0, <1>1, <1>6, QuietStays, ZenonT(30) DEF ReadState, Goto, dirVars, ApplyTypeOK
    <2>2. ServedOK'
      BY <1>0, <2>1, ServedStays, ZenonT(30)
    <2>3. DirOK(r)'
      BY <1>0, <2>1, ZenonT(30) DEF DirOK, Closure, ServedOK, CallOK
    <2> QED  BY <1>0, <1>6, <2>1, <2>2, <2>3, CallKeepsDirs, ZenonT(30) DEF ReadState, Goto
  (* Steps that change neither the runtime directory nor nginx. *)
  <1>7. ASSUME NEW from, NEW to, rpc[r] = from, from # "idle", rpc' = [rpc EXCEPT ![r] = to],
               UNCHANGED <<phase, state, file, content, seen, runtime, nginx>>,
               status' = status \/ status'.sync # "InSync",
               DirOK(r)'
        PROVE  DirInv'
    BY <1>0, <1>7, ServedStays, CallKeepsDirs, Zenon
  <1>8. CASE Check(r) /\ ~Return(r)
    <2>1. PICK to \in {"outOfSync", "applying"} : Goto(r, "check", to)
      BY <1>8, Zenon DEF Check
    <2>2. UNCHANGED <<phase, state, status, file, content, seen, staging, runtime, previous, nginx>>
      BY <1>8, QuietStays DEF Check, dirVars
    <2>3. rpc[r] = "check" /\ rpc'[r] = to /\ rpc' = [rpc EXCEPT ![r] = to]
      BY <1>1, <2>1, Zenon DEF Goto
    <2>4. DirOK(r)'
      BY <1>0, <2>2, <2>3, Zenon DEF DirOK, Closure
    <2> QED  BY <1>7, <2>2, <2>3, <2>4, ZenonT(30)
  <1>9. CASE NoteDrift(r) \/ NoteApplying(r)
    <2>1. /\ rpc[r] \in {"outOfSync", "applying"} /\ status'.sync # "InSync"
          /\ UNCHANGED <<phase, state, file, content, seen, staging, runtime, previous, nginx>>
      BY <1>0, <1>9 DEF NoteDrift, NoteApplying, Goto, MarkOutOfSync, MarkApplying, StatusOnly,
         diskVars, dirVars, StoreInv, DurableInv, TypeOK
    <2>2. PICK to \in {"applying", "render"} : rpc' = [rpc EXCEPT ![r] = to]
      BY <1>9 DEF NoteDrift, NoteApplying, Goto
    <2>3. DirOK(r)'
      BY <1>0, <1>1, <2>1, <2>2, Zenon DEF DirOK
    <2> QED  BY <1>7, <2>1, <2>2, <2>3, Zenon
  <1>10. ASSUME Quiet PROVE UNCHANGED <<phase, state, status, file, content, seen>>
    BY <1>10, QuietStays DEF Quiet
  <1>11. CASE RenderBegin(r) \/ ValidateRefuses(r) \/ StepFails(r)
    <2>1. PICK to \in {"rendering", "failure"} : rpc' = [rpc EXCEPT ![r] = to]
      BY <1>11 DEF RenderBegin, ValidateRefuses, StepFails, Goto
    <2>2. rpc[r] \in Closure /\ UNCHANGED <<phase, state, status, file, content, seen, runtime, nginx>>
      BY <1>10, <1>11 DEF RenderBegin, ValidateRefuses, StepFails, Goto, dirVars, Closure
    <2>3. DirOK(r)'
      BY <1>0, <1>1, <2>1, <2>2, Zenon DEF DirOK, Closure
    <2> QED  BY <1>7, <2>1, <2>2, <2>3, ZenonT(30) DEF Closure
  <1>12. CASE RenderEnd(r)
    <2>1. /\ rpc[r] = "rendering" /\ rpc' = [rpc EXCEPT ![r] = "validate"]
          /\ staging' = Target(r)
          /\ UNCHANGED <<phase, state, status, file, content, seen, runtime, nginx>>
      BY <1>10, <1>12, Zenon DEF RenderEnd, Goto, Target
    <2>2. DirOK(r)'
      BY <1>0, <1>1, <2>1, Zenon DEF DirOK, Closure, Target
    <2> QED  BY <1>7, <2>1, <2>2, ZenonT(30)
  <1>13. CASE Validate(r)
    <2>1. /\ rpc[r] = "validate" /\ rpc' = [rpc EXCEPT ![r] = "backup"]
          /\ UNCHANGED <<phase, state, status, file, content, seen, staging, runtime, nginx>>
          /\ DryRun \/ staging.config \notin Rejected
      BY <1>10, <1>13 DEF Validate, Goto, dirVars
    <2>2. DirOK(r)'
      BY <1>0, <1>1, <2>1, ZenonT(30) DEF DirOK, Closure, Target, Bad
    <2> QED  BY <1>7, <2>1, <2>2, Zenon
  <1>14. CASE Backup(r) \/ DropPrevious(r) \/ DropOld(r)
    <2>1. /\ \/ rpc[r] = "backup" /\ rpc' = [rpc EXCEPT ![r] = "commit"]
             \/ rpc[r] = "commit" /\ rpc' = [rpc EXCEPT ![r] = "moveOld"] /\ previous' = Dir(Absent)
             \/ rpc[r] = "dropOld" /\ rpc' = [rpc EXCEPT ![r] = "reload"]
          /\ UNCHANGED <<phase, state, status, file, content, seen, staging, runtime, nginx>>
      BY <1>10, <1>14 DEF Backup, DropPrevious, DropOld, Goto, dirVars
    <2>2. DirOK(r)'
      BY <1>0, <1>1, <2>1, ZenonT(30) DEF DirOK, Closure, Target
    <2> QED  BY <1>7, <2>1, <2>2
  (* Steps that change the runtime directory or nginx. *)
  <1>15. ASSUME UNCHANGED <<phase, state, status, file, content, nginx>>,
                rpc[r] \in {"moveOld", "moveNew"},
                ~DryRun => runtime'.config \notin Bad
         PROVE  ServedOK'
    <2>1. Committed' = Committed
      BY <1>15 DEF Committed
    <2>2. status'.sync # "InSync"
      BY <1>0, <1>15, Zenon DEF DirOK, Closure
    <2> QED  BY <1>0, <1>15, <2>1, <2>2, Zenon DEF ServedOK, OnlyTestedIsServed, InSyncAfterApply, Bad
  <1>16. ~DryRun => runtime.config \notin Bad
    BY <1>0, ZenonT(30) DEF ServedOK, OnlyTestedIsServed, Bad
  <1>17. CASE MoveOld(r)
    <2>1. /\ rpc[r] = "moveOld" /\ rpc' = [rpc EXCEPT ![r] = "moveNew"]
          /\ runtime' = Dir(Absent) /\ previous' \in {previous, runtime}
          /\ UNCHANGED <<phase, state, status, file, content, seen, staging, nginx>>
      BY <1>10, <1>17 DEF MoveOld, Goto
    <2>2. DirOK(r)'
      BY <1>0, <1>1, <1>16, <2>1, ZenonT(30) DEF DirOK, Closure, Target
    <2>3. ServedOK'
      BY <1>0, <1>15, <2>1, ZenonT(30)
    <2> QED  BY <1>0, <2>1, <2>2, <2>3, CallKeepsDirs, Zenon
  <1>18. CASE MoveNew(r)
    <2>1. /\ rpc[r] = "moveNew" /\ rpc' = [rpc EXCEPT ![r] = "dropOld"]
          /\ runtime' = staging
          /\ UNCHANGED <<phase, state, status, file, content, seen, nginx>>
      BY <1>10, <1>18 DEF MoveNew, Goto
    <2>2. DirOK(r)'
      BY <1>0, <1>1, <2>1, ZenonT(30) DEF DirOK, Closure, Target
    <2>3. ServedOK'
      BY <1>0, <1>15, <2>1, ZenonT(30) DEF DirOK
    <2> QED  BY <1>0, <2>1, <2>2, <2>3, CallKeepsDirs, Zenon
  <1>19. CASE MoveNewFails(r)
    <2>1. /\ rpc[r] = "moveNew" /\ rpc' = [rpc EXCEPT ![r] = "failure"]
          /\ runtime' \in {runtime, previous}
          /\ UNCHANGED <<phase, state, status, file, content, seen, nginx>>
      BY <1>10, <1>19 DEF MoveNewFails, Goto
    <2>2. DirOK(r)'
      BY <1>0, <1>1, <2>1, ZenonT(30) DEF DirOK, Closure
    <2>3. ServedOK'
      BY <1>0, <1>15, <1>16, <2>1, Zenon DEF DirOK
    <2> QED  BY <1>0, <2>1, <2>2, <2>3, CallKeepsDirs, Zenon
  <1>20. CASE Reload(r)
    <2>1. /\ rpc[r] = "reload" /\ rpc' = [rpc EXCEPT ![r] = "success"]
          /\ nginx' = IF DryRun THEN nginx ELSE runtime
          /\ UNCHANGED <<phase, state, status, file, content, seen, staging, runtime>>
      BY <1>10, <1>20 DEF Reload, Goto
    <2>2. CASE DryRun
      <3>1. DirOK(r)'
        BY <1>0, <1>1, <2>1, <2>2, Zenon DEF DirOK, Closure
      <3> QED  BY <1>7, <2>1, <2>2, <3>1, ZenonT(30)
    <2>3. CASE ~DryRun
      <3>1. nginx'.config \in Configs => nginx' = Target(r) /\ nginx'.revision = seen[r].revision
        <4>1. runtime = Target(r) \/ runtime.config \in {Foreign, Absent}
          BY <1>0, <2>1, Zenon DEF DirOK
        <4> QED  BY <1>0, <2>1, <2>3, <4>1, ApplyAssumption, ZenonT(30)
      <3>2. DirOK(r)'
        <4>1. rpc'[r] = "success" /\ Target(r)' = Target(r)
          BY <1>1, <2>1, ZenonT(30) DEF Target
        <4>2. status'.sync # "InSync"
          BY <1>0, <2>1, ZenonT(30) DEF DirOK, Closure
        <4>3. nginx'.config \in Configs => nginx'.revision <= seen'[r].revision
          <5>1. seen'[r].revision = seen[r].revision
            BY <2>1
          <5>2. seen[r].revision \in Nat
            BY <1>0
          <5> QED  BY <3>1, <5>1, <5>2, InOrder
        <4>4. nginx' = Target(r)' \/ LoadedAnEdit'
          <5>1. runtime = Target(r) \/ runtime.config \in {Foreign, Absent}
            BY <1>0, <2>1, Zenon DEF DirOK
          <5>2. nginx' = runtime /\ runtime' = runtime
            BY <2>1, <2>3
          <5> QED  BY <4>1, <5>1, <5>2, Zenon DEF LoadedAnEdit
        <4> QED  BY <2>1, <4>1, <4>2, <4>3, <4>4, ZenonT(30) DEF DirOK
      <3>3. Committed' = Committed /\ phase = "up" /\ seen[r].revision <= state.revision
            /\ state.revision <= Committed.revision /\ Committed.revision \in Nat
        BY <1>0, <2>1, CommittedFacts, Zenon DEF Committed, CallOK, States
      <3>4. ServedOK'
        <4>1. OnlyTestedIsServed'
          BY <1>16, <2>1, <2>3 DEF OnlyTestedIsServed, Bad
        <4>2. InSyncAfterApply'
          BY <1>0, <2>1, ZenonT(30) DEF InSyncAfterApply, DirOK, Closure
        <4>3. nginx'.config \in Configs =>
                 nginx'.revision <= Committed'.revision /\ nginx'.revision <= state'.revision
          <5>1. seen[r].revision \in Nat /\ state.revision \in Nat
            BY <1>0, Zenon DEF CallInv, ApplyTypeOK, StoreInv, DurableInv, TypeOK, States
          <5>2. seen[r].revision <= Committed.revision
            BY <3>3, <5>1, InOrder
          <5> QED  BY <2>1, <3>1, <3>3, <5>2, ZenonT(30)
        <4> QED  BY <4>1, <4>2, <4>3 DEF ServedOK
      <3> QED  BY <1>0, <2>1, <3>2, <3>4, CallKeepsDirs, ZenonT(30)
    <2> QED  BY <2>2, <2>3
  <1> QED
    BY <1>3, <1>4, <1>5, <1>6, <1>8, <1>9, <1>11, <1>12, <1>13, <1>14, <1>17, <1>18, <1>19, <1>20
    DEF ReconcileStep, ReconcileFault

(* A crash or an edit keeps DirInv. *)
LEMMA FaultKeepsDirs ==
  ASSUME DaemonInv, DaemonCrash \/ OperatorEdit
  PROVE  DirInv'
  <1>1. CASE DaemonCrash
    <2>1. /\ phase' = "down" /\ UNCHANGED <<file, content, runtime, nginx>>
          /\ \A r \in Reconcilers : rpc'[r] = "idle"
      BY <1>1 DEF DaemonCrash, Crash, ApplyCrash, diskVars, dirVars
    <2>2. Committed' = Committed
      BY <2>1 DEF Committed
    <2>3. ServedOK'
      BY <2>1, <2>2, Zenon DEF DaemonInv, DirInv, ServedOK, OnlyTestedIsServed, InSyncAfterApply
    <2> QED  BY <2>1, <2>3, Zenon DEF DirInv, DirOK, Closure
  <1>2. CASE OperatorEdit
    <2>1. /\ UNCHANGED <<phase, state, status, file, content>>
          /\ UNCHANGED <<rpc, seen, staging, previous, nginx>>
          /\ runtime'.config \in {Foreign, Absent}
      BY <1>2, QuietStays DEF OperatorEdit, callVars, Dir
    <2>2. runtime'.config \notin Configs /\ runtime'.config \notin Rejected \cup {Partial}
      BY <2>1, ApplyAssumption
    <2>3. Committed' = Committed
      BY <2>1 DEF Committed
    <2>4. ServedOK'
      <3>1. ServedOK /\ (LoadedAnEdit => LoadedAnEdit')
        BY <2>1, Zenon DEF DaemonInv, DirInv, LoadedAnEdit
      <3> QED  BY <2>1, <2>2, <2>3, <3>1, ZenonT(30)
              DEF ServedOK, OnlyTestedIsServed, InSyncAfterApply, NothingApplied
    <2>5. ASSUME NEW r \in Reconcilers PROVE DirOK(r)'
      <3>1. LoadedAnEdit => LoadedAnEdit'
        BY <2>1, Zenon DEF LoadedAnEdit
      <3> QED  BY <2>1, <3>1, Zenon DEF DaemonInv, DirInv, DirOK, Target
    <2> QED  BY <2>4, <2>5 DEF DirInv
  <1> QED  BY <1>1, <1>2

(* Every step of the daemon keeps the whole invariant. *)
LEMMA DaemonInvStep ==
  ASSUME DaemonInv, [DaemonNext]_vars
  PROVE  DaemonInv'
  <1>1. StoreInv' /\ CallInv'
    BY StoreInvStep, CallInvStep DEF DaemonInv
  <1>2. CASE (StoreStep \/ \E a \in Writers : IoError(a)) /\ UNCHANGED applyVars
    BY <1>1, <1>2, StoreStepKeepsDirs DEF DaemonInv
  <1>3. ASSUME NEW r \in Reconcilers, Begin(r) \/ ReconcileStep(r) \/ ReconcileFault(r)
        PROVE  DaemonInv'
    BY <1>1, <1>3, BeginKeepsDirs, ReconcileKeepsDirs DEF DaemonInv
  <1>4. CASE DaemonCrash \/ OperatorEdit
    BY <1>1, <1>4, FaultKeepsDirs DEF DaemonInv
  <1>5. CASE UNCHANGED vars
    <2>1. /\ UNCHANGED <<phase, state, status, file, content>>
          /\ UNCHANGED <<rpc, seen, staging, runtime, previous, nginx>>
      BY <1>5, QuietStays DEF vars, allVars, applyVars, callVars, dirVars
    <2>2. ServedOK'
      BY <2>1, ServedStays DEF DaemonInv, DirInv
    <2>3. ASSUME NEW r \in Reconcilers PROVE DirOK(r)'
      BY <2>1, Zenon DEF DaemonInv, DirInv, DirOK, Target, LoadedAnEdit
    <2> QED  BY <1>1, <2>2, <2>3 DEF DaemonInv, DirInv
  <1> QED  BY <1>2, <1>3, <1>4, <1>5 DEF DaemonNext, Fault

(* The whole invariant holds in every state of the daemon. *)
LEMMA DaemonInvAlways == DaemonSpec => []DaemonInv
  <1>1. DaemonInit => DaemonInv
    BY CallInvInit, DirInvInit DEF DaemonInv
  <1>2. DaemonInv /\ [DaemonNext]_vars => DaemonInv'
    BY DaemonInvStep
  <1> QED  BY <1>1, <1>2, PTL DEF DaemonSpec

-------------------------------------------------------------------------------
(* Only a configuration that nginx -t accepted is committed or loaded,      *)
(* whatever crash, failure or second reconcile comes between.               *)
THEOREM TestedIsServed == DaemonSpec => []OnlyTestedIsServed
  <1>1. DaemonInv => OnlyTestedIsServed
    BY DEF DaemonInv, DirInv, ServedOK
  <1> QED  BY <1>1, DaemonInvAlways, PTL

(* What reconcile_once reports as IN_SYNC after an apply is what nginx has  *)
(* loaded, but for files changed from outside between commit and reload.    *)
THEOREM InSyncReportsTheApply == DaemonSpec => []InSyncAfterApply
  <1>1. DaemonInv => InSyncAfterApply
    BY DEF DaemonInv, DirInv, ServedOK
  <1> QED  BY <1>1, DaemonInvAlways, PTL

(* A step of a reconcile call moves nginx and observedRevision forward.     *)
LEMMA CallMovesForward ==
  ASSUME DaemonInv, NEW r \in Reconcilers,
         Begin(r) \/ ReconcileStep(r) \/ ReconcileFault(r)
  PROVE  /\ nginx.config \in Configs /\ nginx'.config \in Configs
               => nginx'.revision >= nginx.revision
         /\ status'.observed >= status.observed
  <1>0. /\ nginx.revision \in Nat /\ status.observed \in Nat /\ seen[r].revision \in Nat
        /\ ApplyTypeOK /\ DirOK(r) /\ CallOK(r)
    BY ZenonT(30)
       DEF DaemonInv, StoreInv, DurableInv, TypeOK, CallInv, ApplyTypeOK, Dirs, States, DirInv
  <1>a. nginx.revision \in Nat /\ status.observed \in Nat
    BY <1>0, Zenon
  <1>n. ASSUME nginx' = nginx
        PROVE  nginx'.revision >= nginx.revision
    BY <1>a, <1>n, InOrder
  <1>s. ASSUME status'.observed = status.observed
        PROVE  status'.observed >= status.observed
    BY <1>a, <1>s, InOrder
  <1>1. CASE Reload(r)
    <2>1. rpc[r] = "reload" /\ nginx' \in {nginx, runtime} /\ status' = status
      BY <1>1, QuietStays DEF Reload, Goto, Quiet
    <2>2. status'.observed >= status.observed
      BY <1>s, <2>1
    <2>3. CASE nginx' = nginx
      BY <1>n, <2>2, <2>3
    <2>4. CASE nginx' = runtime
      <3>1. SUFFICES ASSUME nginx.config \in Configs, runtime.config \in Configs
                     PROVE  runtime.revision >= nginx.revision
        BY <2>2, <2>4
      <3>2. nginx.revision <= seen[r].revision /\ runtime = Target(r)
        <4>1. runtime.config \notin {Foreign, Absent}
          BY <3>1, ApplyAssumption
        <4> QED  BY <1>0, <2>1, <3>1, <4>1, ZenonT(30) DEF DirOK
      <3>3. runtime.revision = seen[r].revision
        BY <1>0, <3>2, TargetFacts, ZenonT(30)
      <3> QED  BY <1>0, <3>2, <3>3, ZenonT(30)
    <2> QED  BY <2>1, <2>3, <2>4
  <1>2. CASE Succeed(r)
    <2>1. rpc[r] = "success" /\ UNCHANGED nginx /\ status'.observed = seen[r].revision
      BY <1>2 DEF Succeed, MarkInSync, dirVars
    <2>2. status.observed <= seen[r].revision
      BY <1>0, <2>1, ZenonT(30) DEF CallOK
    <2>3. status'.observed >= status.observed
      <3>1. seen[r].revision \in Nat
        BY <1>0, Zenon
      <3> QED  BY <1>a, <2>1, <2>2, <3>1, ZenonT(30)
    <2> QED  BY <1>n, <2>1, <2>3, ZenonT(30)
  <1>3. CASE NoteDrift(r) \/ NoteApplying(r) \/ Degrade(r)
    <2>1. UNCHANGED nginx /\ status'.observed = status.observed
      BY <1>3 DEF NoteDrift, NoteApplying, Degrade, MarkOutOfSync, MarkApplying, MarkDegraded,
         dirVars, DaemonInv, StoreInv, DurableInv, TypeOK
    <2> QED  BY <1>n, <1>s, <2>1
  <1>4. CASE UNCHANGED <<storeVars, nginx>>
    <2>1. nginx' = nginx /\ status' = status
      BY <1>4, QuietStays
    <2> QED  BY <1>n, <1>s, <2>1
  <1> QED
    BY <1>1, <1>2, <1>3, <1>4, ZenonT(30)
    DEF Begin, ReconcileStep, ReconcileFault, ReadState, Check, RenderBegin, RenderEnd,
        Validate, ValidateRefuses, Backup, DropPrevious, MoveOld, MoveNew, DropOld,
        CheckError, StepFails, MoveNewFails, DropTrigger, Quiet, dirVars

(* Neither a slow reconcile nor a restart ever takes nginx back to an older *)
(* revision, nor observedRevision within a process.                         *)
THEOREM RevisionsMoveForward == DaemonSpec => NeverGoesBack
  <1> DEFINE Forward ==
        /\ nginx.config \in Configs /\ nginx'.config \in Configs
              => nginx'.revision >= nginx.revision
        /\ phase = "up" /\ phase' = "up" => status'.observed >= status.observed
  <1>1. DaemonInv /\ [DaemonNext]_vars => [Forward]_vars
    <2> SUFFICES ASSUME DaemonInv, DaemonNext PROVE Forward
      OBVIOUS
    <2>0. nginx.revision \in Nat /\ status.observed \in Nat
      BY DEF DaemonInv, StoreInv, DurableInv, TypeOK, CallInv, ApplyTypeOK, Dirs
    <2>1. CASE (StoreStep \/ \E a \in Writers : IoError(a)) /\ UNCHANGED applyVars
      <3>1. nginx' = nginx
        BY <2>1 DEF applyVars, dirVars
      <3>2. phase = "up" => status'.observed = status.observed
        BY <2>1, StoreStepGrows DEF DaemonInv
      <3> QED  BY <2>0, <3>1, <3>2
    <2>2. ASSUME NEW r \in Reconcilers, Begin(r) \/ ReconcileStep(r) \/ ReconcileFault(r)
          PROVE  Forward
      BY <2>2, CallMovesForward
    <2>3. CASE DaemonCrash
      BY <2>0, <2>3 DEF DaemonCrash, Crash, ApplyCrash, dirVars
    <2>4. CASE OperatorEdit
      BY <2>0, <2>4, QuietStays DEF OperatorEdit
    <2> QED  BY <2>1, <2>2, <2>3, <2>4, ZenonT(30) DEF DaemonNext, Fault
  <1> QED  BY <1>1, DaemonInvAlways, PTL DEF DaemonSpec, NeverGoesBack
===============================================================================
