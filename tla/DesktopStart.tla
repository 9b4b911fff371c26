----------------------------- MODULE DesktopStart -----------------------------
(***************************************************************************)
(* The start of the desktop application (apps/desktop/src/main/main.ts):    *)
(* load .env, move its SSH credentials into the system keychain             *)
(* (runDesktopSecretsMigration over KeytarSecretsRepository), register the  *)
(* IPC handlers, open the window, check the host.  The application is       *)
(* started again and again; it can crash at every await, and every          *)
(* operation on the keychain or on the file can fail.                       *)
(*                                                                          *)
(* A credential is the value of one of the five variables, from .env or     *)
(* from the environment of a launch.                                        *)
(***************************************************************************)
EXTENDS Naturals

CONSTANTS
    Keys,       \* the variables of SECRET_ENV_KEYS in use
    Elsewhere,  \* the ones a launch may find in its environment
    MaxFaults   \* bound on crashes and failures

SECRET_ENV_KEYS == {"SSH_USERNAME", "SSH_PASSWORD", "SSH_PRIVATE_KEY",
                    "SSH_PRIVATE_KEY_PATH", "SSH_PASSPHRASE"}

ASSUME DesktopAssumption ==
    /\ Keys \subseteq SECRET_ENV_KEYS /\ Elsewhere \subseteq Keys
    /\ MaxFaults \in Nat

VARIABLES
    file,      \* keys whose first line in .env has a value
    shadowed,  \* keys with a value in a further line of .env
    settings,  \* the other lines of .env are there
    given,     \* file before the first launch
    vault,     \* the keychain entry of the host
    marker,    \* the keychain entry __migration_desktop_env_v1__
    pc,        \* what the launch awaits next
    env,       \* credentials in process.env
    outside,   \* history: a launch found one of the keys in its environment
    existing,  \* the entry as it was read
    secrets,   \* what the SSH executor is configured with
    handlers,  \* IPC handlers are registered
    window,    \* a window is open
    activate,  \* the handler of "activate" is registered
    darwin,    \* process.platform
    faults

disk == <<file, shadowed, settings, given, vault, marker>>
app == <<outside, handlers, window, activate, darwin>>
vars == <<disk, pc, env, existing, secrets, app, faults>>

Credentials == {"file", "ambient"} \X Keys

(* The credentials that lines of .env give to the environment. *)
FromFile(lines) == {<<"file", k>> : k \in lines}

(* collectEnvSecrets: readPrivateKeyFromEnv does not look at                *)
(* SSH_PRIVATE_KEY when SSH_PRIVATE_KEY_PATH is set.                        *)
Collected(e) ==
    {x \in e : x[2] = "SSH_PRIVATE_KEY" => \A y \in e : y[2] # "SSH_PRIVATE_KEY_PATH"}

(* secrets has a password or a private key. *)
HasAuth == \E x \in secrets : x[2] \in {"SSH_PASSWORD", "SSH_PRIVATE_KEY", "SSH_PRIVATE_KEY_PATH"}

Migrating == {"getMarker", "getExisting", "collect", "store", "verify", "clean", "mark", "markOnly"}

Init ==
    /\ file \in SUBSET Keys /\ shadowed \in SUBSET Keys
    /\ given = file
    /\ settings = TRUE
    /\ vault = {} /\ marker = FALSE
    /\ pc = "off"
    /\ env = {} /\ existing = {} /\ secrets = {}
    /\ outside = FALSE
    /\ handlers = FALSE /\ window = FALSE /\ activate = FALSE
    /\ darwin \in BOOLEAN
    /\ faults = 0

(* loadDesktopEnv: the environment of the launch gives values to some keys  *)
(* and defines others as blank.  Both hide the lines of .env, as the first  *)
(* line of a key hides the further ones.                                    *)
Launch ==
    /\ pc = "off"
    /\ \E values, blanks \in SUBSET Elsewhere :
          /\ env' = ({"ambient"} \X values) \cup FromFile(file \ (values \cup blanks))
          /\ outside' = (outside \/ values \cup blanks # {})
    /\ existing' = {} /\ secrets' = {}
    /\ pc' = "getMarker"
    /\ UNCHANGED <<disk, handlers, window, activate, darwin, faults>>

(* parsePort rejects SSH_PORT: whenReady ends before anything is set up. *)
LaunchFails ==
    /\ pc = "getMarker"
    /\ faults < MaxFaults
    /\ faults' = faults + 1
    /\ pc' = "failed"
    /\ UNCHANGED <<disk, env, existing, secrets, app>>

-------------------------------------------------------------------------------
(* runDesktopSecretsMigration, one action per await. *)

GetMarker ==
    /\ pc = "getMarker"
    /\ pc' = "getExisting"
    /\ UNCHANGED <<disk, env, existing, secrets, app, faults>>

(* The second get, and what follows up to the next await. *)
GetExisting ==
    /\ pc = "getExisting"
    /\ existing' = vault
    /\ IF marker
       THEN pc' = "runtime" /\ env' = {} /\ secrets' = vault
       ELSE pc' = "collect" /\ UNCHANGED <<env, secrets>>
    /\ UNCHANGED <<disk, app, faults>>

(* Fault: the file is cleaned before the credentials are stored. *)
CollectAndClean ==
    /\ pc = "collect"
    /\ pc' = IF Collected(env) = {} THEN "markOnly" ELSE "store"
    /\ file' = {} /\ shadowed' = {}
    /\ UNCHANGED <<settings, given, vault, marker, env, existing, secrets, app, faults>>

Collect ==
    /\ pc = "collect"
    /\ pc' = IF Collected(env) = {} THEN "markOnly" ELSE "store"
    /\ UNCHANGED <<disk, env, existing, secrets, app, faults>>

(* {...existing, ...envSecrets}: envSecrets has a key for every field,      *)
(* undefined when the variable is blank, so it decides every field; set     *)
(* drops the undefined ones.                                                *)
Merge(old, new) == {x \in old \cup new : x \in new}

Store ==
    /\ pc = "store"
    /\ vault' = Merge(existing, Collected(env))
    /\ pc' = "verify"
    /\ UNCHANGED <<file, shadowed, settings, given, marker, env, existing, secrets, app, faults>>

(* The entry is read back; without any field it throws. *)
Verify ==
    /\ pc = "verify"
    /\ IF vault # {}
       THEN pc' = "clean" /\ secrets' = vault /\ UNCHANGED env
       ELSE pc' = "runtime" /\ env' = {} /\ UNCHANGED secrets
    /\ UNCHANGED <<disk, existing, app, faults>>

(* cleanupEnvFile drops every line of the keys, whatever was read of them;  *)
(* then clearSecretProcessEnv.                                              *)
Clean ==
    /\ pc = "clean"
    /\ file' = {} /\ shadowed' = {}
    /\ env' = {}
    /\ pc' = "mark"
    /\ UNCHANGED <<settings, given, vault, marker, existing, secrets, app, faults>>

(* Fault: a launch that finds nothing to migrate leaves no marker. *)
MarkMigrated ==
    /\ pc \in {"mark", "markOnly"}
    /\ marker' = (marker \/ pc = "mark")
    /\ env' = {}
    /\ secrets' = IF pc = "mark" THEN secrets ELSE existing
    /\ pc' = "runtime"
    /\ UNCHANGED <<file, shadowed, settings, given, vault, existing, app, faults>>

Mark ==
    /\ pc \in {"mark", "markOnly"}
    /\ marker' = TRUE
    /\ env' = {}
    /\ secrets' = IF pc = "mark" THEN secrets ELSE existing
    /\ pc' = "runtime"
    /\ UNCHANGED <<file, shadowed, settings, given, vault, existing, app, faults>>

(* Fault: a failed migration is not tried again. *)
MigrationFailsForGood ==
    /\ pc \in Migrating
    /\ faults < MaxFaults
    /\ faults' = faults + 1
    /\ env' = {}
    /\ secrets' = {}
    /\ marker' = TRUE
    /\ pc' = "runtime"
    /\ UNCHANGED <<file, shadowed, settings, given, vault, existing, app>>

(* The keychain, the private key file or .env cannot be read or written:    *)
(* createSshRuntime goes on without credentials.                            *)
MigrationFails ==
    /\ pc \in Migrating
    /\ faults < MaxFaults
    /\ faults' = faults + 1
    /\ env' = {}
    /\ secrets' = {}
    /\ pc' = "runtime"
    /\ UNCHANGED <<disk, existing, app>>

-------------------------------------------------------------------------------
(* The rest of whenReady. *)

Register ==
    /\ pc = "runtime"
    /\ handlers' = TRUE
    /\ pc' = "window"
    /\ UNCHANGED <<disk, env, existing, secrets, outside, window, activate, darwin, faults>>

(* createWindow; without credentials whenReady ends here. *)
CreateWindow ==
    /\ pc = "window"
    /\ window' = TRUE
    /\ pc' = IF HasAuth THEN "check" ELSE "up"
    /\ UNCHANGED <<disk, env, existing, secrets, outside, handlers, activate, darwin, faults>>

(* A file it needs is missing: the promise of whenReady is rejected. *)
CreateWindowFails ==
    /\ pc = "window"
    /\ faults < MaxFaults
    /\ faults' = faults + 1
    /\ pc' = "up"
    /\ UNCHANGED <<disk, env, existing, secrets, app>>

(* checkConnection is answered, well or badly. *)
HealthCheck ==
    /\ pc = "check"
    /\ activate' = TRUE
    /\ pc' = "up"
    /\ UNCHANGED <<disk, env, existing, secrets, outside, handlers, window, darwin, faults>>

(* Nothing of the process survives; the keychain and the file do. *)
Exit ==
    /\ pc' = "off"
    /\ env' = {} /\ existing' = {} /\ secrets' = {}
    /\ handlers' = FALSE /\ window' = FALSE /\ activate' = FALSE
    /\ UNCHANGED <<outside, darwin>>

(* window-all-closed quits, except on macOS. *)
CloseWindow ==
    /\ window
    /\ IF darwin
       THEN window' = FALSE /\ UNCHANGED <<pc, env, existing, secrets, outside, handlers, activate, darwin>>
       ELSE Exit
    /\ UNCHANGED <<disk, faults>>

Activate ==
    /\ activate /\ ~window
    /\ window' = TRUE
    /\ UNCHANGED <<disk, pc, env, existing, secrets, outside, handlers, activate, darwin, faults>>

Quit ==
    /\ pc \in {"check", "up", "failed"}
    /\ Exit
    /\ UNCHANGED <<disk, faults>>

(* A crash; in writeFileSync it leaves .env truncated. *)
Crash ==
    /\ pc # "off"
    /\ faults < MaxFaults
    /\ faults' = faults + 1
    /\ Exit
    /\ \/ UNCHANGED <<file, shadowed, settings>>
       \/ pc = "clean" /\ file' = {} /\ shadowed' = {} /\ settings' = FALSE
    /\ UNCHANGED <<given, vault, marker>>

StartStep ==
    \/ GetMarker \/ GetExisting \/ Collect \/ Store \/ Verify \/ Clean \/ Mark
    \/ Register \/ CreateWindow \/ HealthCheck

Next ==
    \/ Launch \/ StartStep
    \/ LaunchFails \/ MigrationFails \/ CreateWindowFails \/ Crash
    \/ CloseWindow \/ Activate \/ Quit

Spec == Init /\ [][Next]_vars

(* A start runs on its own; the user quits and starts again. *)
FairSpec == Spec /\ WF_vars(StartStep) /\ WF_vars(Launch) /\ WF_vars(Quit)

-------------------------------------------------------------------------------
(* Every variable keeps its type: only credentials of a host get into the   *)
(* entry of the host, never the marker's token.                             *)
TypeOK ==
    /\ file \in SUBSET Keys /\ shadowed \in SUBSET Keys /\ given \in SUBSET Keys
    /\ vault \in SUBSET Credentials /\ env \in SUBSET Credentials
    /\ existing \in SUBSET Credentials /\ secrets \in SUBSET Credentials
    /\ settings \in BOOLEAN /\ marker \in BOOLEAN /\ outside \in BOOLEAN
    /\ pc \in Migrating \cup {"off", "failed", "runtime", "window", "check", "up"}
    /\ handlers \in BOOLEAN /\ window \in BOOLEAN
    /\ activate \in BOOLEAN /\ darwin \in BOOLEAN
    /\ faults \in 0..MaxFaults

(* The credentials of .env that are in effect: the first line of each key,  *)
(* and one private key (collectEnvSecrets).                                 *)
InEffect(lines) == Collected(FromFile(lines))

(* "migrates env credentials into the secrets repository": across crashes,  *)
(* failures and further launches, each credential of .env that was in       *)
(* effect is in effect there still or is in the keychain, unless a launch   *)
(* found one of the keys, with a value or blank, in its environment.        *)
NothingLost == outside \/ InEffect(given) \subseteq vault \cup InEffect(file)

(* "does not mark migration complete if the repository write fails": the    *)
(* marker, which stops every later migration, is set only when nothing in   *)
(* .env is in effect any more and the keychain holds all that was, with the *)
(* same exception.                                                          *)
MarkerMeansDone ==
    marker => outside \/ (file = {} /\ InEffect(given) \subseteq vault)

(* No credential stays in the environment of a started application, whose   *)
(* children would inherit it, however the migration ended.                  *)
EnvironmentIsClear == pc \in {"off", "runtime", "window", "check", "up"} => env = {}

(* A window, whose page calls the bootstrap channels at once, is open only  *)
(* when the handlers of these channels are registered.                      *)
WindowHasHandlers == window => handlers

(* The executor works with the credentials the keychain holds, or with none. *)
SecretsAreStored == secrets \subseteq vault

(* Once crashes and failures are over, the launches complete the migration, *)
(* whatever the environments they find.                                     *)
MigrationCompletes == <>[]marker

(* Whatever the environment of a launch, it touches .env only when the      *)
(* keychain holds all it has collected (set and get before cleanupEnvFile). *)
StoredBeforeCleaned ==
    [][file' # file \/ shadowed' # shadowed => Collected(env) \subseteq vault]_vars

(* "migrates env credentials ... and cleans the env file": a line is taken  *)
(* out of .env only when its value is in the keychain.                      *)
OnlyMigratedGoes ==
    [][/\ FromFile(file \ file') \subseteq vault
       /\ shadowed \subseteq shadowed']_vars

(* NothingLost without its exception. *)
NothingLostAnywhere == InEffect(given) \subseteq vault \cup InEffect(file)

(* When the marker is set, .env holds no credential. *)
MarkedFileIsClean == marker => file = {} /\ shadowed = {}

(* "cleans the env file": the lines that are not credentials stay. *)
SettingsKept == settings
===============================================================================
