-------------------------- MODULE DesktopStartProofs --------------------------
(***************************************************************************)
(* Proofs about DesktopStart, for any choice of the five variables, in .env *)
(* and in the environments of the launches, and any number of launches,     *)
(* crashes and failures.                                                    *)
(***************************************************************************)
EXTENDS DesktopStart, TLAPS

(* A start: what it is doing tells what is set up, and what is not.         *)
StartInv ==
    /\ TypeOK
    /\ EnvironmentIsClear
    /\ window \/ activate \/ pc \in {"window", "check", "up"} => handlers
    /\ pc \in {"off", "getMarker", "getExisting", "collect", "store", "verify"} => secrets = {}
    /\ pc \in {"collect", "markOnly"} => existing = vault
    /\ pc \in {"verify", "clean"} => vault = Collected(env)
    /\ SecretsAreStored

(* The migration: .env is cleaned only when all of it that was in effect is *)
(* in the keychain, and a launch that migrates sees in its environment what *)
(* .env holds, as long as no launch found one of the keys elsewhere.        *)
MigrationInv ==
    outside \/
    /\ file \in {given, {}}
    /\ file = {} => InEffect(given) \subseteq vault
    /\ pc \in {"getMarker", "getExisting", "collect", "store", "verify", "clean", "markOnly"}
          => env = FromFile(file)
    /\ pc = "store" => Collected(env) # {}
    /\ pc \in {"verify", "clean", "mark"} => InEffect(given) \subseteq vault
    /\ pc \in {"mark", "markOnly"} => file = {}
    /\ marker => file = {}

(* Something of .env is in effect as long as a first line has a value. *)
LEMMA SomethingInEffect ==
  ASSUME NEW lines, lines # {} PROVE InEffect(lines) # {}
  <1>1. PICK k \in lines : TRUE
    OBVIOUS
  <1>2. CASE "SSH_PRIVATE_KEY_PATH" \in lines
    <2>1. <<"file", "SSH_PRIVATE_KEY_PATH">> \in InEffect(lines)
      BY <1>2 DEF InEffect, Collected, FromFile
    <2> QED  BY <2>1
  <1>3. CASE "SSH_PRIVATE_KEY_PATH" \notin lines
    <2>1. <<"file", k>> \in InEffect(lines)
      BY <1>1, <1>3 DEF InEffect, Collected, FromFile
    <2> QED  BY <2>1
  <1> QED  BY <1>2, <1>3

(* No lines, no credentials. *)
LEMMA NothingInEffect == FromFile({}) = {} /\ InEffect({}) = {}
  BY DEF InEffect, Collected, FromFile

(* Before the first start the invariant of the start holds. *)
LEMMA StartInvInit == Init => StartInv
  <1> SUFFICES ASSUME Init PROVE StartInv
    OBVIOUS
  <1>1. settings \in BOOLEAN /\ marker \in BOOLEAN /\ handlers \in BOOLEAN
        /\ window \in BOOLEAN /\ activate \in BOOLEAN /\ darwin \in BOOLEAN
        /\ outside \in BOOLEAN
    BY DEF Init
  <1>2. faults \in 0..MaxFaults
    BY DesktopAssumption DEF Init
  <1>3. TypeOK
    BY <1>1, <1>2 DEF Init, TypeOK
  <1> QED  BY <1>3 DEF Init, StartInv, EnvironmentIsClear, SecretsAreStored

(* Every step of main.ts, a crash included, keeps StartInv. *)
LEMMA StartInvStep == StartInv /\ [Next]_vars => StartInv'
  <1> SUFFICES ASSUME StartInv, [Next]_vars PROVE StartInv'
    OBVIOUS
  <1> USE DesktopAssumption DEF StartInv, TypeOK, EnvironmentIsClear, SecretsAreStored,
          disk, app
  <1>1. CASE Launch
    <2>1. PICK values \in SUBSET Elsewhere, blanks \in SUBSET Elsewhere :
             /\ env' = ({"ambient"} \X values) \cup FromFile(file \ (values \cup blanks))
             /\ outside' = (outside \/ values \cup blanks # {})
      BY <1>1 DEF Launch
    <2>2. outside' \in BOOLEAN
      BY <2>1
    <2>3. env' \in SUBSET Credentials
      BY <2>1 DEF FromFile, Credentials
    <2> QED  BY <1>1, <2>2, <2>3 DEF Launch, Migrating
  <1>2. CASE LaunchFails
    BY <1>2 DEF LaunchFails, Migrating
  <1>3. CASE MigrationFails
    BY <1>3 DEF MigrationFails, Migrating
  <1>4. CASE GetMarker \/ GetExisting \/ Collect
    BY <1>4 DEF GetMarker, GetExisting, Collect, Migrating
  <1>5. CASE Store
    <2>1. vault' \in SUBSET Credentials
      BY <1>5 DEF Store, Merge, Collected
    <2>2. vault' = Collected(env)
      BY <1>5 DEF Store, Merge
    <2> QED  BY <1>5, <2>1, <2>2 DEF Store, Migrating, Collected
  <1>6. CASE Verify \/ Clean
    BY <1>6 DEF Verify, Clean, Migrating
  <1>7. CASE Mark
    <2>1. marker' \in BOOLEAN
      BY <1>7 DEF Mark
    <2> QED  BY <1>7, <2>1 DEF Mark, Migrating
  <1>8. CASE Register
    <2>1. handlers' \in BOOLEAN
      BY <1>8 DEF Register
    <2> QED  BY <1>8, <2>1 DEF Register, Migrating
  <1>9. CASE CreateWindow
    <2>1. window' \in BOOLEAN
      BY <1>9 DEF CreateWindow
    <2> QED  BY <1>9, <2>1 DEF CreateWindow, Migrating
  <1>10. CASE CreateWindowFails
    BY <1>10 DEF CreateWindowFails, Migrating
  <1>11. CASE HealthCheck
    <2>1. activate' \in BOOLEAN
      BY <1>11 DEF HealthCheck
    <2> QED  BY <1>11, <2>1 DEF HealthCheck, Migrating
  <1>12. ASSUME Exit, UNCHANGED <<given, vault, marker>>, faults' \in 0..MaxFaults,
                file' \in SUBSET Keys, shadowed' \in SUBSET Keys,
                settings' \in BOOLEAN
         PROVE  StartInv'
    <2>1. handlers' \in BOOLEAN /\ window' \in BOOLEAN /\ activate' \in BOOLEAN
      BY <1>12 DEF Exit
    <2> QED  BY <1>12, <2>1 DEF Exit, Migrating
  <1>13. CASE Crash
    <2>1. settings' \in BOOLEAN
      BY <1>13 DEF Crash
    <2>2. /\ faults' \in 0..MaxFaults /\ file' \in SUBSET Keys /\ shadowed' \in SUBSET Keys
          /\ Exit /\ UNCHANGED <<given, vault, marker>>
      BY <1>13 DEF Crash
    <2> QED  BY <1>12, <2>1, <2>2
  <1>14. CASE Quit
    BY <1>12, <1>14 DEF Quit
  <1>15. CASE CloseWindow
    <2>1. CASE darwin
      <3>1. window' \in BOOLEAN
        BY <1>15, <2>1 DEF CloseWindow
      <3> QED  BY <1>15, <2>1, <3>1 DEF CloseWindow, Migrating
    <2>2. CASE ~darwin
      BY <1>12, <1>15, <2>2 DEF CloseWindow
    <2> QED  BY <2>1, <2>2
  <1>16. CASE Activate
    <2>1. window' \in BOOLEAN
      BY <1>16 DEF Activate
    <2> QED  BY <1>16, <2>1 DEF Activate, Migrating
  <1>17. CASE UNCHANGED vars
    BY <1>17 DEF vars
  <1> QED
    BY <1>1, <1>2, <1>3, <1>4, <1>5, <1>6, <1>7, <1>8, <1>9, <1>10, <1>11, <1>13, <1>14,
       <1>15, <1>16, <1>17 DEF Next, StartStep

(* StartInv holds in every state of the desktop program. *)
LEMMA StartInvAlways == Spec => []StartInv
  BY StartInvInit, StartInvStep, PTL DEF Spec

(* Every step of the migration keeps MigrationInv. *)
LEMMA MigrationInvStep == StartInv /\ MigrationInv /\ [Next]_vars => MigrationInv'
  <1> SUFFICES ASSUME StartInv, MigrationInv, [Next]_vars PROVE MigrationInv'
    OBVIOUS
  <1>1. CASE Launch
    <2>1. PICK values \in SUBSET Elsewhere, blanks \in SUBSET Elsewhere :
             /\ env' = ({"ambient"} \X values) \cup FromFile(file \ (values \cup blanks))
             /\ outside' = (outside \/ values \cup blanks # {})
      BY <1>1 DEF Launch
    <2>2. CASE outside'
      BY <2>2 DEF MigrationInv
    <2>3. CASE ~outside'
      <3>1. ~outside /\ values = {} /\ blanks = {}
        BY <2>1, <2>3
      <3>2. env' = FromFile(file)
        BY <2>1, <3>1
      <3> QED  BY <1>1, <3>1, <3>2 DEF Launch, MigrationInv, disk, InEffect
    <2> QED  BY <2>2, <2>3
  <1>2. CASE outside /\ ~Launch
    <2>1. outside' = outside
      BY <1>2 DEF Next, StartStep, LaunchFails, MigrationFails, CreateWindowFails, GetMarker,
         GetExisting, Collect, Store, Verify, Clean, Mark, Register, CreateWindow, HealthCheck,
         Crash, Quit, CloseWindow, Activate, Exit, app, vars
    <2> QED  BY <1>2, <2>1 DEF MigrationInv
  <1>3. CASE ~outside /\ ~Launch
    <2> USE DEF MigrationInv, InEffect, disk, app
    <2>1. CASE LaunchFails \/ MigrationFails \/ CreateWindowFails
      BY <1>3, <2>1 DEF LaunchFails, MigrationFails, CreateWindowFails
    <2>2. CASE GetMarker \/ GetExisting
      BY <1>3, <2>2 DEF GetMarker, GetExisting
    <2>3. CASE Collect
      <3>1. Collected(env) = {} => file = {}
        BY <1>3, <2>3, SomethingInEffect DEF Collect
      <3> QED  BY <1>3, <2>3, <3>1 DEF Collect
    <2>4. CASE Store
      <3>1. vault' = Collected(env)
        BY <2>4 DEF Store, Merge
      <3>2. file = given
        BY <1>3, <2>4, NothingInEffect DEF Store
      <3> QED  BY <1>3, <2>4, <3>1, <3>2 DEF Store
    <2>5. CASE Verify \/ Mark
      BY <1>3, <2>5 DEF Verify, Mark
    <2>6. CASE Clean
      BY <1>3, <2>6 DEF Clean
    <2>7. CASE Register \/ CreateWindow \/ HealthCheck
      BY <1>3, <2>7 DEF Register, CreateWindow, HealthCheck
    <2>8. CASE Crash
      BY <1>3, <2>8 DEF Crash, Exit
    <2>9. CASE Quit \/ CloseWindow \/ Activate
      BY <1>3, <2>9 DEF Quit, CloseWindow, Activate, Exit
    <2>10. CASE UNCHANGED vars
      BY <1>3, <2>10 DEF vars
    <2> QED
      BY <1>3, <2>1, <2>2, <2>3, <2>4, <2>5, <2>6, <2>7, <2>8, <2>9, <2>10 DEF Next, StartStep
  <1> QED  BY <1>1, <1>2, <1>3

(* MigrationInv holds in every state. *)
LEMMA MigrationInvAlways == Spec => []MigrationInv
  <1>1. Init => MigrationInv
    BY NothingInEffect DEF Init, MigrationInv
  <1>2. StartInv /\ MigrationInv /\ [Next]_vars => MigrationInv'
    BY MigrationInvStep
  <1> QED  BY <1>1, <1>2, StartInvAlways, PTL DEF Spec

-------------------------------------------------------------------------------
(* The start and the keychain entry keep their types. *)
THEOREM StartTypeCorrect == Spec => []TypeOK
  <1>1. StartInv => TypeOK
    BY DEF StartInv
  <1> QED  BY <1>1, StartInvAlways, PTL

(* However the migration ends, no credential stays in process.env.          *)
THEOREM StartClearsEnvironment == Spec => []EnvironmentIsClear
  <1>1. StartInv => EnvironmentIsClear
    BY DEF StartInv
  <1> QED  BY <1>1, StartInvAlways, PTL

(* A window is open only when the IPC handlers are registered.              *)
THEOREM WindowsHaveHandlers == Spec => []WindowHasHandlers
  <1>1. StartInv => WindowHasHandlers
    BY DEF StartInv, WindowHasHandlers
  <1> QED  BY <1>1, StartInvAlways, PTL

(* The executor is configured from the keychain or not at all.              *)
THEOREM ExecutorUsesStored == Spec => []SecretsAreStored
  <1>1. StartInv => SecretsAreStored
    BY DEF StartInv
  <1> QED  BY <1>1, StartInvAlways, PTL

(* A launch touches .env only when the keychain holds all it has collected, *)
(* whatever environment it found.                                           *)
THEOREM CleansWhatIsStored == Spec => StoredBeforeCleaned
  <1>1. StartInv /\ [Next]_vars =>
          [file' # file \/ shadowed' # shadowed => Collected(env) \subseteq vault]_vars
    <2> SUFFICES ASSUME StartInv, [Next]_vars, file' # file \/ shadowed' # shadowed
                 PROVE  Collected(env) \subseteq vault
      OBVIOUS
    <2>1. pc = "clean"
      BY DEF Next, StartStep, Launch, LaunchFails, MigrationFails, CreateWindowFails, GetMarker,
         GetExisting, Collect, Store, Verify, Clean, Mark, Register, CreateWindow, HealthCheck,
         Crash, Quit, CloseWindow, Activate, disk, vars
    <2> QED  BY <2>1 DEF StartInv
  <1> QED  BY <1>1, StartInvAlways, PTL DEF Spec, StoredBeforeCleaned

(* runDesktopSecretsMigration loses no credential of .env that was in       *)
(* effect, wherever it is stopped, unless a launch found one of the five    *)
(* variables in its environment.                                            *)
THEOREM MigrationLosesNothing == Spec => []NothingLost
  <1>1. MigrationInv => NothingLost
    BY NothingInEffect DEF MigrationInv, NothingLost
  <1> QED  BY <1>1, MigrationInvAlways, PTL

(* The marker is set only when the migration is done, with the same         *)
(* exception.                                                               *)
THEOREM MarkedIsMigrated == Spec => []MarkerMeansDone
  <1>1. MigrationInv => MarkerMeansDone
    BY DEF MigrationInv, MarkerMeansDone
  <1> QED  BY <1>1, MigrationInvAlways, PTL
===============================================================================
