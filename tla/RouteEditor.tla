------------------------------ MODULE RouteEditor ------------------------------
(***************************************************************************)
(* What the fields of the route dialog, RouteSchema, the JSON in            *)
(* localStorage, updateRoute and the preview of the nginx configuration     *)
(* make of a route (BasicTab, AdvancedTab, PreviewTab, RouteSchema,         *)
(* updateRoute, generateConfigPreview), one operation after the other.      *)
(* A field is Missing when the object has no such key and Undefined when    *)
(* the key is there with the value undefined: JSON drops both, but the      *)
(* spread of an update over the stored route lets only the second one       *)
(* overwrite.  Texts are told apart as far as the schema does.              *)
(***************************************************************************)
EXTENDS Naturals, Sequences

CONSTANTS
    MaxEdits,  \* bound on the changes of fields
    MaxLocs    \* bound on the locations of a route

ASSUME EditorAssumption == MaxEdits \in Nat /\ MaxLocs \in Nat

VARIABLES
    form,     \* the values of the form
    editing,  \* the dialog: "closed", "create" or "edit"
    stored,   \* the route in localStorage, or NoRoute
    crashed,  \* rendering has thrown
    edits     \* changes of fields so far

vars == <<form, editing, stored, crashed, edits>>

Missing == "missing"
Undefined == "undefined"
NoRoute == [port |-> 0]

(* Ports: two with rules of their own, another, and one out of range. *)
Ports == {80, 443, 8080, 70000}
PortParses(p) == p \in 1..65535

(* JavaScript's truth of a field. *)
Truthy(x) == x \notin {Missing, Undefined, ""}

(* createRoute() of the factories. *)
Blank ==
    [domain |-> "sh.ru", port |-> 80, root |-> "path", enabled |-> TRUE, ssl |-> FALSE,
     ssl_certificate |-> "", ssl_certificate_key |-> "", proxy_pass |-> Undefined,
     locations |-> <<>>, client_max_body_size |-> "1m", gzip |-> FALSE, gzip_types |-> Undefined,
     caching |-> FALSE, cache_valid |-> Undefined]

Init ==
    /\ form = Blank
    /\ editing = "closed"
    /\ stored = NoRoute
    /\ crashed = FALSE
    /\ edits = 0

-------------------------------------------------------------------------------
(* The schemas.  LocationConfigSchema: proxy_pass and try_files exclude     *)
(* each other.  ProxyTargetSchema takes a missing target, not an empty one. *)
LocationParses(loc) == ~(loc.proxy_pass /\ loc.try_files)
ProxyParses(x) == x \in {Missing, Undefined, "target"}
TimeParses(x) == x \in {Missing, Undefined, "time"}

(* Fault: cache_valid is not required. *)
AdvancedWithoutCache(r) ==
    /\ r.client_max_body_size = "1m"
    /\ r.gzip => Truthy(r.gzip_types) /\ r.gzip_types # "blanks"
    /\ TimeParses(r.cache_valid)

AdvancedParses(r) ==
    /\ r.client_max_body_size = "1m"
    /\ r.gzip => Truthy(r.gzip_types) /\ r.gzip_types # "blanks"
    /\ TimeParses(r.cache_valid)
    /\ r.caching => Truthy(r.cache_valid)

(* RouteSchema.parse succeeds. *)
RouteParses(r) ==
    /\ r.domain = "sh.ru"
    /\ PortParses(r.port)
    /\ ProxyParses(r.proxy_pass)
    /\ \A n \in 1..Len(r.locations) : LocationParses(r.locations[n])
    /\ AdvancedParses(r)
    /\ r.ssl => Truthy(r.ssl_certificate) /\ Truthy(r.ssl_certificate_key)
    /\ ~(Truthy(r.proxy_pass) /\ r.locations # <<>>)
    /\ ~Truthy(r.proxy_pass) => r.root # ""
    /\ r.port = 443 => r.ssl
    /\ r.port = 80 => ~r.ssl
    /\ \A m, n \in 1..Len(r.locations) :
          r.locations[m].path = r.locations[n].path => m = n

(* Fault: the certificates are removed from the object, not set to          *)
(* undefined.                                                               *)
ParsedDeletes(r) ==
    [r EXCEPT !.ssl_certificate = IF r.ssl THEN @ ELSE Missing,
              !.ssl_certificate_key = IF r.ssl THEN @ ELSE Missing,
              !.gzip_types = IF ~r.gzip /\ Truthy(@) THEN Undefined ELSE @,
              !.cache_valid = IF ~r.caching /\ Truthy(@) THEN Undefined ELSE @]

(* What RouteSchema.parse returns: superRefine clears what does not apply. *)
Parsed(r) ==
    [r EXCEPT !.ssl_certificate = IF r.ssl THEN @ ELSE Undefined,
              !.ssl_certificate_key = IF r.ssl THEN @ ELSE Undefined,
              !.gzip_types = IF ~r.gzip /\ Truthy(@) THEN Undefined ELSE @,
              !.cache_valid = IF ~r.caching /\ Truthy(@) THEN Undefined ELSE @]

(* The fields that may be missing; those of the advanced settings are in    *)
(* one object, which an update replaces.                                    *)
Top == {"ssl_certificate", "ssl_certificate_key", "proxy_pass"}
Nested == {"gzip_types", "cache_valid"}

(* redactPotentialSecrets: what reads like a credential ("token=...") is     *)
(* replaced, and the replacement stays as it is.  Of the texts of a form    *)
(* only gzip_types can be one: the schema refuses it in the others, and     *)
(* the location dialog redacts what is typed (startEditLocation).           *)
Redacted(text) == IF text = "secret" THEN "redacted" ELSE text

(* stringifyWithoutSecrets; JSON.stringify drops undefined. *)
Json(r) ==
    [f \in DOMAIN r |->
        IF f \in Top \cup Nested /\ r[f] = Undefined THEN Missing
        ELSE IF f = "gzip_types" THEN Redacted(r[f]) ELSE r[f]]

(* { ...existing, ...updates } *)
Merge(existing, updates) ==
    [f \in DOMAIN updates |->
        IF f \in Top /\ updates[f] = Missing THEN existing[f] ELSE updates[f]]

-------------------------------------------------------------------------------
OpenForCreate ==
    /\ editing = "closed" /\ ~crashed
    /\ editing' = "create"
    /\ form' = Blank
    /\ UNCHANGED <<stored, crashed, edits>>

OpenForEdit ==
    /\ editing = "closed" /\ ~crashed
    /\ stored # NoRoute
    /\ editing' = "edit"
    /\ form' = stored
    /\ UNCHANGED <<stored, crashed, edits>>

CloseModal ==
    /\ editing # "closed" /\ ~crashed
    /\ editing' = "closed"
    /\ UNCHANGED <<form, stored, crashed, edits>>

(* A field of the dialog is changed to one of the values its control gives. *)
Change(fields) ==
    /\ editing # "closed" /\ ~crashed
    /\ edits < MaxEdits
    /\ form' = fields
    /\ edits' = edits + 1
    /\ UNCHANGED <<editing, stored>>

(* BasicTab.  The port is parsed to be rendered; a text once typed can be   *)
(* emptied but not removed; the certificates show only with ssl.            *)
ChangePort(p) == Change([form EXCEPT !.port = p]) /\ crashed' = ~PortParses(p)

ChangeBasic ==
    /\ \/ \E x \in {"", "sh.ru"} : Change([form EXCEPT !.domain = x])
       \/ \E x \in {"", "path"} : Change([form EXCEPT !.root = x])
       \/ \E x \in {"", "target"} : Change([form EXCEPT !.proxy_pass = x])
       \/ \E b \in BOOLEAN : Change([form EXCEPT !.enabled = b])
       \/ \E b \in BOOLEAN : Change([form EXCEPT !.ssl = b])
       \/ form.ssl /\ \E x \in {"", "path"} : Change([form EXCEPT !.ssl_certificate = x])
       \/ form.ssl /\ \E x \in {"", "path"} : Change([form EXCEPT !.ssl_certificate_key = x])
    /\ UNCHANGED crashed

(* AdvancedTab: turning gzip or caching off forgets its setting. *)
ChangeAdvanced ==
    /\ \/ \E x \in {"", "1m"} : Change([form EXCEPT !.client_max_body_size = x])
       \/ Change([form EXCEPT !.gzip = TRUE])
       \/ Change([form EXCEPT !.gzip = FALSE, !.gzip_types = Undefined])
       \/ form.gzip /\ \E x \in {"", "blanks", "types", "secret"} :
             Change([form EXCEPT !.gzip_types = x])
       \/ Change([form EXCEPT !.caching = TRUE])
       \/ Change([form EXCEPT !.caching = FALSE, !.cache_valid = Undefined])
       \/ form.caching /\ \E x \in {"", "200 302 10m", "time"} :
             Change([form EXCEPT !.cache_valid = x])
    /\ UNCHANGED crashed

(* The location dialog adds what validateLocation lets through. *)
AddLocation(loc) ==
    /\ Len(form.locations) < MaxLocs
    /\ LocationParses(loc)
    /\ Change([form EXCEPT !.locations = Append(@, loc)])
    /\ UNCHANGED crashed

(* Fault: the forced save does not parse. *)
SaveUnparsed ==
    /\ editing # "closed" /\ ~crashed
    /\ stored' = Json(IF editing = "create" THEN form ELSE Merge(stored, form))
    /\ editing' = "closed"
    /\ UNCHANGED <<form, crashed, edits>>

(* The form is saved: createRoute stores the parsed values, updateRoute     *)
(* their spread over the stored route, which it parses again.               *)
Save ==
    LET next == IF editing = "create" THEN Parsed(form) ELSE Merge(stored, Parsed(form)) IN
    /\ editing # "closed" /\ ~crashed
    /\ RouteParses(form) /\ RouteParses(next)
    /\ stored' = Json(next)
    /\ editing' = "closed"
    /\ UNCHANGED <<form, crashed, edits>>

(* toggleRouteStatus: what does not parse is not stored. *)
Toggle ==
    LET next == [stored EXCEPT !.enabled = ~@] IN
    /\ editing = "closed" /\ ~crashed
    /\ stored # NoRoute
    /\ stored' = IF RouteParses(next) THEN Json(next) ELSE stored
    /\ UNCHANGED <<form, editing, crashed, edits>>

(* The page is loaded again. *)
Reload ==
    /\ crashed
    /\ form' = Blank
    /\ editing' = "closed"
    /\ crashed' = FALSE
    /\ UNCHANGED <<stored, edits>>

Next ==
    \/ Reload
    \/ OpenForCreate \/ OpenForEdit \/ CloseModal
    \/ \E p \in Ports : ChangePort(p)
    \/ ChangeBasic \/ ChangeAdvanced
    \/ \E loc \in [path : {"/", "/api"}, proxy_pass : BOOLEAN, try_files : BOOLEAN] :
          AddLocation(loc)
    \/ Save \/ Toggle

Spec == Init /\ [][Next]_vars

-------------------------------------------------------------------------------
(* generateConfigPreview, as the set of its directives and their arguments. *)
RenderLocationBlock(loc) ==
    {<<"location", loc.path>>}
    \cup (IF loc.proxy_pass THEN {<<loc.path, "proxy_pass", "target">>} ELSE {})
    \cup (IF loc.try_files THEN {<<loc.path, "try_files", "files">>} ELSE {})

GenerateConfigPreview(r) ==
    {<<"listen", r.port, IF r.ssl THEN "ssl" ELSE "plain">>, <<"server_name", r.domain>>,
     <<"root", r.root>>, <<"client_max_body_size", r.client_max_body_size>>}
    \cup (IF r.ssl /\ Truthy(r.ssl_certificate) /\ Truthy(r.ssl_certificate_key)
          THEN {<<"ssl_certificate", r.ssl_certificate>>,
                <<"ssl_certificate_key", r.ssl_certificate_key>>}
          ELSE {})
    \cup (IF r.gzip THEN {<<"gzip", "on">>, <<"gzip_types", r.gzip_types>>} ELSE {})
    \cup (IF r.caching THEN {<<"proxy_cache_valid", r.cache_valid>>} ELSE {})
    \cup UNION {RenderLocationBlock(r.locations[n]) : n \in 1..Len(r.locations)}

(* useRoutePreview: the configuration of a form that parses. *)
Preview == IF RouteParses(form) THEN GenerateConfigPreview(Parsed(form)) ELSE {}

Names(config) == {d[1] : d \in config}

-------------------------------------------------------------------------------
(* A stored route is accepted again as it is: it can be toggled and edited  *)
(* for ever, whatever fields RouteSchema cleared and JSON dropped           *)
(* (RouteSchema.parse after loadAll in updateRoute).                        *)
StoredParsesAgain ==
    stored # NoRoute => RouteParses(stored) /\ Json(Parsed(stored)) = stored

(* The preview never shows a setting that is not there: what the generator  *)
(* prints, the schema has required (generateConfigPreview, gzip_types,      *)
(* cache_valid, the certificates of a listener with ssl).                   *)
PreviewIsDefined ==
    /\ \A d \in Preview : d[Len(d)] \notin {Missing, Undefined}
    /\ \A d \in Preview : d[Len(d)] = "ssl" => "ssl_certificate" \in Names(Preview)

(* Something in the form reads like a credential. *)
HasSecret == form.gzip_types = "secret"

(* What the user saw in the preview is what is saved: nothing of the route  *)
(* as it was before comes back through updateRoute's spread.  The one       *)
(* exception is a text that stringifyWithoutSecrets replaces.               *)
SavedIsPreviewed ==
    [][editing # "closed" /\ stored' # stored =>
          /\ HasSecret \/ GenerateConfigPreview(stored') = Preview
          /\ stored' = Json(Parsed(form))]_vars

(* apps/web/README.md: the preview shows all the UI generates, so also the  *)
(* route that is stored.                                                    *)
StoredAsShown ==
    [][editing # "closed" /\ stored' # stored => GenerateConfigPreview(stored') = Preview]_vars

(* The preview is a valid server block: every directive has an argument. *)
DirectivesHaveArguments == \A d \in Preview : d[Len(d)] # ""

(* Everything the user entered can be seen as nginx configuration: a route  *)
(* that forwards to another server shows where.                             *)
PreviewShowsProxy ==
    Preview # {} /\ Truthy(form.proxy_pass) => "proxy_pass" \in Names(Preview)

(* Whatever is typed, the dialog stays: a field that the schema rejects is  *)
(* reported, and nothing is thrown while rendering.                         *)
EditorStaysUp == ~crashed
===============================================================================
