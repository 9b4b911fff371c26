--------------------------- MODULE RouteEditorProofs ---------------------------
(***************************************************************************)
(* Theorems about RouteEditor: a stored route is accepted again, the        *)
(* preview shows only what is set, and what is saved is what it showed.     *)
(***************************************************************************)
EXTENDS RouteEditor, TLAPS

Places == [path : {"/", "/api"}, proxy_pass : BOOLEAN, try_files : BOOLEAN]

Types == {Missing, Undefined, "", "blanks", "types", "secret", "redacted"}

(* The forms the controls of the dialog can produce. *)
Forms ==
    [domain : {"", "sh.ru"}, port : Ports, root : {"", "path"}, enabled : BOOLEAN,
     ssl : BOOLEAN, ssl_certificate : {Missing, Undefined, "", "path"},
     ssl_certificate_key : {Missing, Undefined, "", "path"},
     proxy_pass : {Missing, Undefined, "", "target"}, locations : Seq(Places),
     client_max_body_size : {"", "1m"}, gzip : BOOLEAN,
     gzip_types : Types, caching : BOOLEAN,
     cache_valid : {Missing, Undefined, "", "200 302 10m", "time"}]

(* What RouteSchema leaves and JSON can hold: nothing undefined, and        *)
(* nothing that does not apply or reads like a credential.                  *)
Normal(r) ==
    /\ \A f \in Top \cup Nested : r[f] # Undefined
    /\ ~r.ssl => r.ssl_certificate = Missing /\ r.ssl_certificate_key = Missing
    /\ r.gzip_types # "secret"
    /\ ~r.gzip => ~Truthy(r.gzip_types)
    /\ ~r.caching => ~Truthy(r.cache_valid)

(* The inductive invariant.  A route that is edited has no target of which  *)
(* its form knows nothing: an update could bring that one back.             *)
EditorInv ==
    /\ form \in Forms
    /\ stored # NoRoute => stored \in Forms /\ RouteParses(stored) /\ Normal(stored)
    /\ editing \in {"closed", "create", "edit"}
    /\ editing = "edit" =>
          /\ stored # NoRoute
          /\ form.proxy_pass = Missing => stored.proxy_pass = Missing

-------------------------------------------------------------------------------
Optional == Top \cup Nested

Fields == {"domain", "port", "root", "enabled", "ssl", "ssl_certificate",
           "ssl_certificate_key", "proxy_pass", "locations", "client_max_body_size",
           "gzip", "gzip_types", "caching", "cache_valid"}

LEMMA FormIsFunction ==
  ASSUME NEW r \in Forms
  PROVE  DOMAIN r = Fields /\ r = [f \in Fields |-> r[f]]
  BY DEF Forms, Fields

LEMMA FunctionIsForm ==
  ASSUME NEW r, r = [f \in Fields |-> r[f]],
         r.domain \in {"", "sh.ru"}, r.port \in Ports, r.root \in {"", "path"},
         r.enabled \in BOOLEAN, r.ssl \in BOOLEAN,
         r.ssl_certificate \in {Missing, Undefined, "", "path"},
         r.ssl_certificate_key \in {Missing, Undefined, "", "path"},
         r.proxy_pass \in {Missing, Undefined, "", "target"}, r.locations \in Seq(Places),
         r.client_max_body_size \in {"", "1m"}, r.gzip \in BOOLEAN,
         r.gzip_types \in Types, r.caching \in BOOLEAN,
         r.cache_valid \in {Missing, Undefined, "", "200 302 10m", "time"}
  PROVE  r \in Forms
  BY DEF Forms, Fields

LEMMA SameFields ==
  ASSUME NEW r, NEW s, r = [f \in Fields |-> r[f]], s = [f \in Fields |-> s[f]],
         \A f \in Fields : r[f] = s[f]
  PROVE  r = s
  OBVIOUS

Dropped(x) == IF x = Undefined THEN Missing ELSE x

LEMMA JsonOK ==
  ASSUME NEW r \in Forms
  PROVE  /\ Json(r) = [f \in Fields |-> Json(r)[f]]
         /\ \A f \in Fields : f # "gzip_types" =>
               Json(r)[f] = IF f \in Optional /\ r[f] = Undefined THEN Missing ELSE r[f]
         /\ Json(r)["gzip_types"] = Redacted(Dropped(r["gzip_types"]))
  <1>1. Json(r) = [f \in Fields |-> Json(r)[f]]
        /\ \A f \in Fields : Json(r)[f] = IF f \in Optional /\ r[f] = Undefined THEN Missing
                                         ELSE IF f = "gzip_types" THEN Redacted(r[f]) ELSE r[f]
    BY FormIsFunction DEF Json, Optional
  <1>2. "gzip_types" \in Fields /\ "gzip_types" \in Optional
    BY DEF Fields, Optional, Nested
  <1>3. Redacted(Missing) = Missing
    BY DEF Redacted, Missing
  <1> QED  BY <1>1, <1>2, <1>3 DEF Dropped

(* Field by field. *)
LEMMA JsonFields ==
  ASSUME NEW r \in Forms
  PROVE  /\ Json(r).domain = r.domain /\ Json(r).port = r.port /\ Json(r).root = r.root
         /\ Json(r).enabled = r.enabled /\ Json(r).ssl = r.ssl
         /\ Json(r).ssl_certificate = Dropped(r.ssl_certificate)
         /\ Json(r).ssl_certificate_key = Dropped(r.ssl_certificate_key)
         /\ Json(r).proxy_pass = Dropped(r.proxy_pass)
         /\ Json(r).locations = r.locations
         /\ Json(r).client_max_body_size = r.client_max_body_size
         /\ Json(r).gzip = r.gzip /\ Json(r).gzip_types = Redacted(Dropped(r.gzip_types))
         /\ Json(r).caching = r.caching /\ Json(r).cache_valid = Dropped(r.cache_valid)
  <1>1. \A f \in Optional \ {"gzip_types"} : f \in Fields /\ Json(r)[f] = Dropped(r[f])
    BY JsonOK DEF Optional, Top, Nested, Fields, Dropped
  <1>2. \A f \in Fields \ Optional : Json(r)[f] = r[f]
    <2>1. "gzip_types" \in Optional
      BY DEF Optional, Nested
    <2> QED  BY <2>1, JsonOK
  <1>3. /\ "domain" \in Fields \ Optional /\ "port" \in Fields \ Optional
        /\ "root" \in Fields \ Optional /\ "enabled" \in Fields \ Optional
        /\ "ssl" \in Fields \ Optional /\ "locations" \in Fields \ Optional
        /\ "client_max_body_size" \in Fields \ Optional
        /\ "gzip" \in Fields \ Optional /\ "caching" \in Fields \ Optional
    BY DEF Optional, Top, Nested, Fields
  <1>4. /\ "ssl_certificate" \in Optional /\ "ssl_certificate_key" \in Optional
        /\ "proxy_pass" \in Optional /\ "cache_valid" \in Optional
    BY DEF Optional, Top, Nested
  <1> QED  BY <1>1, <1>2, <1>3, <1>4, JsonOK

LEMMA JsonIsForm ==
  ASSUME NEW r \in Forms
  PROVE  Json(r) \in Forms
  <1> DEFINE q == Json(r)
  <1>1. q = [f \in Fields |-> q[f]]
    BY JsonOK
  <1>2. /\ r.domain \in {"", "sh.ru"} /\ r.port \in Ports /\ r.root \in {"", "path"}
        /\ r.enabled \in BOOLEAN /\ r.ssl \in BOOLEAN
        /\ r.ssl_certificate \in {Missing, Undefined, "", "path"}
        /\ r.ssl_certificate_key \in {Missing, Undefined, "", "path"}
        /\ r.proxy_pass \in {Missing, Undefined, "", "target"} /\ r.locations \in Seq(Places)
        /\ r.client_max_body_size \in {"", "1m"} /\ r.gzip \in BOOLEAN
        /\ r.gzip_types \in Types /\ r.caching \in BOOLEAN
        /\ r.cache_valid \in {Missing, Undefined, "", "200 302 10m", "time"}
    BY DEF Forms
  <1>3. \A x : Dropped(x) \in {x, Missing}
    BY DEF Dropped
  <1>4. /\ q.ssl_certificate \in {Missing, Undefined, "", "path"}
        /\ q.ssl_certificate_key \in {Missing, Undefined, "", "path"}
        /\ q.proxy_pass \in {Missing, Undefined, "", "target"}
        /\ q.gzip_types \in Types
        /\ q.cache_valid \in {Missing, Undefined, "", "200 302 10m", "time"}
    <2>1. /\ q.ssl_certificate \in {r.ssl_certificate, Missing}
          /\ q.ssl_certificate_key \in {r.ssl_certificate_key, Missing}
          /\ q.proxy_pass \in {r.proxy_pass, Missing}
          /\ q.cache_valid \in {r.cache_valid, Missing}
      BY <1>3, JsonFields
    <2>2. q.gzip_types = Redacted(Dropped(r.gzip_types))
      BY JsonFields
    <2> HIDE DEF q
    <2>3. q.gzip_types \in Types
      BY <1>2, <2>2 DEF Types, Redacted, Dropped
    <2> QED  BY <1>2, <2>1, <2>3
  <1>5. /\ q.domain \in {"", "sh.ru"} /\ q.port \in Ports /\ q.root \in {"", "path"}
        /\ q.enabled \in BOOLEAN /\ q.ssl \in BOOLEAN /\ q.locations \in Seq(Places)
        /\ q.client_max_body_size \in {"", "1m"} /\ q.gzip \in BOOLEAN /\ q.caching \in BOOLEAN
    BY <1>2, JsonFields
  <1> HIDE DEF q
  <1>6. q \in Forms
    BY <1>1, <1>4, <1>5, FunctionIsForm
  <1> QED  BY <1>6 DEF q

Cleared == {"ssl_certificate", "ssl_certificate_key", "gzip_types", "cache_valid"}

LEMMA ParsedFields ==
  ASSUME NEW r \in Forms
  PROVE  /\ Parsed(r) \in Forms
         /\ \A f \in Fields \ Cleared : Parsed(r)[f] = r[f]
         /\ Parsed(r).ssl_certificate = IF r.ssl THEN r.ssl_certificate ELSE Undefined
         /\ Parsed(r).ssl_certificate_key = IF r.ssl THEN r.ssl_certificate_key ELSE Undefined
         /\ Parsed(r).gzip_types
              = IF ~r.gzip /\ Truthy(r.gzip_types) THEN Undefined ELSE r.gzip_types
         /\ Parsed(r).cache_valid
              = IF ~r.caching /\ Truthy(r.cache_valid) THEN Undefined ELSE r.cache_valid
  <1> DEFINE p == Parsed(r)
             crt == IF r.ssl THEN r.ssl_certificate ELSE Undefined
             key == IF r.ssl THEN r.ssl_certificate_key ELSE Undefined
             gzt == IF ~r.gzip /\ Truthy(r.gzip_types) THEN Undefined ELSE r.gzip_types
             cav == IF ~r.caching /\ Truthy(r.cache_valid) THEN Undefined ELSE r.cache_valid
  <1>1. p = [r EXCEPT !.ssl_certificate = crt, !.ssl_certificate_key = key,
                      !.gzip_types = gzt, !.cache_valid = cav]
    BY DEF Parsed
  <1>2. /\ crt \in {Missing, Undefined, "", "path"} /\ key \in {Missing, Undefined, "", "path"}
        /\ gzt \in Types
        /\ cav \in {Missing, Undefined, "", "200 302 10m", "time"}
    BY DEF Forms, Types
  <1> HIDE DEF p, crt, key, gzt, cav
  <1>3. p \in Forms
    BY <1>1, <1>2 DEF Forms
  <1>4. p.ssl_certificate = crt /\ p.ssl_certificate_key = key /\ p.gzip_types = gzt /\ p.cache_valid = cav
    BY <1>1, FormIsFunction DEF Fields
  <1>5. \A f \in Fields \ Cleared : p[f] = r[f]
    BY <1>1, FormIsFunction DEF Fields, Cleared
  <1> QED  BY <1>3, <1>4, <1>5 DEF p, crt, key, gzt, cav

LEMMA KeptFields ==
  ASSUME NEW r, NEW p, \A f \in Fields \ Cleared : p[f] = r[f]
  PROVE  /\ p.domain = r.domain /\ p.port = r.port /\ p.root = r.root /\ p.enabled = r.enabled
         /\ p.ssl = r.ssl /\ p.proxy_pass = r.proxy_pass /\ p.locations = r.locations
         /\ p.client_max_body_size = r.client_max_body_size
         /\ p.gzip = r.gzip /\ p.caching = r.caching
  <1>1. /\ "domain" \in Fields \ Cleared /\ "port" \in Fields \ Cleared
        /\ "root" \in Fields \ Cleared /\ "enabled" \in Fields \ Cleared
        /\ "ssl" \in Fields \ Cleared /\ "proxy_pass" \in Fields \ Cleared
        /\ "locations" \in Fields \ Cleared /\ "client_max_body_size" \in Fields \ Cleared
        /\ "gzip" \in Fields \ Cleared /\ "caching" \in Fields \ Cleared
    BY DEF Fields, Cleared
  <1> QED  BY <1>1

-------------------------------------------------------------------------------
LEMMA DroppedOK ==
  \A x : /\ Dropped(x) # Undefined
         /\ Truthy(Dropped(x)) <=> Truthy(x)
         /\ Truthy(x) => Dropped(x) = x
         /\ ProxyParses(Dropped(x)) <=> ProxyParses(x)
         /\ TimeParses(Dropped(x)) <=> TimeParses(x)
  BY DEF Dropped, Truthy, ProxyParses, TimeParses, Missing, Undefined

LEMMA RedactedOK ==
  \A x : /\ Redacted(x) # "secret"
         /\ Truthy(Redacted(x)) <=> Truthy(x)
         /\ Redacted(x) = "blanks" <=> x = "blanks"
         /\ x # Undefined => Redacted(x) # Undefined
         /\ x # "secret" => Redacted(x) = x
  BY DEF Redacted, Truthy, Missing, Undefined

(* What parses still parses when JSON has dropped what is undefined. *)
LEMMA JsonParses ==
  ASSUME NEW r \in Forms, RouteParses(r)
  PROVE  RouteParses(Json(r))
  <1> DEFINE q == Json(r)
  <1>1. /\ q.domain = r.domain /\ q.port = r.port /\ q.root = r.root
        /\ q.ssl = r.ssl /\ q.locations = r.locations
        /\ q.client_max_body_size = r.client_max_body_size
        /\ q.gzip = r.gzip /\ q.caching = r.caching
    BY JsonFields
  <1>2. /\ Truthy(q.ssl_certificate) <=> Truthy(r.ssl_certificate)
        /\ Truthy(q.ssl_certificate_key) <=> Truthy(r.ssl_certificate_key)
        /\ Truthy(q.proxy_pass) <=> Truthy(r.proxy_pass)
        /\ ProxyParses(q.proxy_pass) <=> ProxyParses(r.proxy_pass)
        /\ Truthy(q.gzip_types) <=> Truthy(r.gzip_types)
        /\ Truthy(r.gzip_types) => (q.gzip_types = "blanks" <=> r.gzip_types = "blanks")
        /\ Truthy(q.cache_valid) <=> Truthy(r.cache_valid)
        /\ TimeParses(q.cache_valid) <=> TimeParses(r.cache_valid)
    <2>1. /\ q.ssl_certificate = Dropped(r.ssl_certificate)
          /\ q.ssl_certificate_key = Dropped(r.ssl_certificate_key)
          /\ q.proxy_pass = Dropped(r.proxy_pass)
          /\ q.gzip_types = Redacted(Dropped(r.gzip_types))
          /\ q.cache_valid = Dropped(r.cache_valid)
      BY JsonFields
    <2> HIDE DEF q
    <2> QED  BY <2>1, DroppedOK, RedactedOK
  <1> HIDE DEF q
  <1>3. AdvancedParses(q)
    BY <1>1, <1>2 DEF RouteParses, AdvancedParses
  <1>4. RouteParses(q)
    <2>1. q.domain = "sh.ru" /\ PortParses(q.port) /\ ProxyParses(q.proxy_pass)
      BY <1>1, <1>2 DEF RouteParses
    <2>2. \A n \in 1..Len(q.locations) : LocationParses(q.locations[n])
      BY <1>1 DEF RouteParses
    <2>3. q.ssl => Truthy(q.ssl_certificate) /\ Truthy(q.ssl_certificate_key)
      BY <1>1, <1>2 DEF RouteParses
    <2>4. ~(Truthy(q.proxy_pass) /\ q.locations # <<>>) /\ (~Truthy(q.proxy_pass) => q.root # "")
      BY <1>1, <1>2 DEF RouteParses
    <2>5. (q.port = 443 => q.ssl) /\ (q.port = 80 => ~q.ssl)
      <3>1. (r.port = 443 => r.ssl) /\ (r.port = 80 => ~r.ssl)
        BY DEF RouteParses
      <3> QED  BY <1>1, <3>1
    <2>6. \A m, n \in 1..Len(q.locations) : q.locations[m].path = q.locations[n].path => m = n
      <3>1. \A m, n \in 1..Len(r.locations) : r.locations[m].path = r.locations[n].path => m = n
        BY DEF RouteParses
      <3> QED  BY <1>1, <3>1
    <2> QED  BY <1>3, <2>1, <2>2, <2>3, <2>4, <2>5, <2>6 DEF RouteParses
  <1> QED  BY <1>4 DEF q

(* JSON leaves alone what has nothing undefined and no credential. *)
LEMMA JsonSame ==
  ASSUME NEW r \in Forms, \A f \in Optional : r[f] # Undefined, r["gzip_types"] # "secret"
  PROVE  Json(r) = r
  <1>1. Json(r)["gzip_types"] = r["gzip_types"]
    <2>1. r["gzip_types"] # Undefined
      BY DEF Optional, Nested
    <2> QED  BY <2>1, JsonOK, RedactedOK DEF Dropped
  <1>2. \A f \in Fields : Json(r)[f] = r[f]
    BY <1>1, JsonOK
  <1> QED  BY <1>2, JsonOK, FormIsFunction, SameFields

(* What is stored is normal, and a normal route is stored as it is. *)
LEMMA StoredIsNormal ==
  ASSUME NEW r \in Forms
  PROVE  Normal(Json(Parsed(r)))
  <1> DEFINE p == Parsed(r)
             q == Json(p)
  <1>1. /\ p \in Forms /\ p.ssl = r.ssl /\ p.gzip = r.gzip /\ p.caching = r.caching
        /\ ~r.ssl => p.ssl_certificate = Undefined /\ p.ssl_certificate_key = Undefined
        /\ ~r.gzip => ~Truthy(p.gzip_types)
        /\ ~r.caching => ~Truthy(p.cache_valid)
    <2>1. /\ p.ssl = r.ssl /\ p.gzip = r.gzip /\ p.caching = r.caching
      BY ParsedFields, KeptFields
    <2>2. p \in Forms
      BY ParsedFields
    <2>3. ~r.ssl => p.ssl_certificate = Undefined /\ p.ssl_certificate_key = Undefined
      BY ParsedFields
    <2>4. ~Truthy(Undefined)
      BY DEF Truthy
    <2>5. ~r.gzip => ~Truthy(p.gzip_types)
      BY <2>4, ParsedFields
    <2>6. ~r.caching => ~Truthy(p.cache_valid)
      BY <2>4, ParsedFields
    <2> QED  BY <2>1, <2>2, <2>3, <2>5, <2>6
  <1> HIDE DEF p
  <1>2. \A f \in Optional : q[f] # Undefined
    <2>1. Missing # Undefined /\ Optional \subseteq Fields
      BY DEF Missing, Undefined, Optional, Top, Nested, Fields
    <2>2. q["gzip_types"] # Undefined
      BY <1>1, JsonOK, DroppedOK, RedactedOK
    <2>3. \A f \in Optional : f # "gzip_types" => q[f] # Undefined
      BY <1>1, <2>1, JsonOK
    <2> HIDE DEF q
    <2> QED  BY <2>2, <2>3
  <1>3. /\ q.ssl = r.ssl /\ q.gzip = r.gzip /\ q.caching = r.caching
        /\ q.ssl_certificate = Dropped(p.ssl_certificate)
        /\ q.ssl_certificate_key = Dropped(p.ssl_certificate_key)
        /\ Truthy(q.gzip_types) <=> Truthy(p.gzip_types)
        /\ Truthy(q.cache_valid) <=> Truthy(p.cache_valid)
        /\ q.gzip_types # "secret"
    BY <1>1, JsonFields, DroppedOK, RedactedOK
  <1>4. Dropped(Undefined) = Missing
    BY DEF Dropped
  <1> HIDE DEF q
  <1>5. Normal(q)
    BY <1>1, <1>2, <1>3, <1>4 DEF Normal, Optional
  <1> QED  BY <1>5 DEF p, q

LEMMA NormalIsStored ==
  ASSUME NEW r \in Forms, Normal(r)
  PROVE  Json(Parsed(r)) = r
  <1> DEFINE p == Parsed(r)
             q == Json(p)
  <1>1. /\ p \in Forms
        /\ \A f \in Fields \ Cleared : p[f] = r[f]
        /\ p["ssl_certificate"] = IF r.ssl THEN r["ssl_certificate"] ELSE Undefined
        /\ p["ssl_certificate_key"] = IF r.ssl THEN r["ssl_certificate_key"] ELSE Undefined
        /\ p["gzip_types"] = r["gzip_types"]
        /\ p["cache_valid"] = r["cache_valid"]
    BY ParsedFields DEF Normal
  <1> HIDE DEF p
  <1>2. \A f \in Fields : f # "gzip_types" =>
          q[f] = IF f \in Optional /\ p[f] = Undefined THEN Missing ELSE p[f]
    BY <1>1, JsonOK
  <1>g. q["gzip_types"] = r["gzip_types"]
    <2>1. q["gzip_types"] = Redacted(Dropped(r["gzip_types"]))
      BY <1>1, JsonOK
    <2>2. r["gzip_types"] # Undefined /\ r["gzip_types"] # "secret"
      BY DEF Normal, Nested
    <2> HIDE DEF q
    <2> QED  BY <2>1, <2>2, RedactedOK DEF Dropped
  <1>3. q = [f \in Fields |-> q[f]] /\ r = [f \in Fields |-> r[f]]
    BY <1>1, JsonOK, FormIsFunction
  <1>4. \A f \in Optional : r[f] # Undefined
    BY DEF Normal, Optional
  <1> HIDE DEF q
  <1>5. Cleared \subseteq Optional /\ Cleared \subseteq Fields
    BY DEF Cleared, Optional, Top, Nested, Fields
  <1>6. ASSUME NEW f \in Fields, p[f] = r[f] PROVE q[f] = r[f]
    BY <1>2, <1>4, <1>6, <1>g
  <1>7. ASSUME NEW f \in {"ssl_certificate", "ssl_certificate_key"} PROVE q[f] = r[f]
    <2>1. f \in Fields /\ f \in Optional
      BY <1>5 DEF Cleared
    <2>2. CASE r.ssl
      BY <1>1, <1>6, <2>1, <2>2
    <2>3. CASE ~r.ssl
      <3>1. p[f] = Undefined /\ r[f] = Missing
        BY <1>1, <2>3 DEF Normal
      <3>2. f # "gzip_types"
        OBVIOUS
      <3> QED  BY <1>2, <2>1, <3>1, <3>2
    <2> QED  BY <2>2, <2>3
  <1>8. q["gzip_types"] = r["gzip_types"] /\ q["cache_valid"] = r["cache_valid"]
    BY <1>1, <1>5, <1>6 DEF Cleared
  <1>9. \A f \in Fields : q[f] = r[f]
    BY <1>1, <1>6, <1>7, <1>8 DEF Cleared
  <1>10. q = r
    BY <1>3, <1>9, SameFields
  <1> QED  BY <1>10 DEF p, q

(* The spread of an update lets nothing of the old route through. *)
LEMMA MergeIsUpdate ==
  ASSUME NEW r \in Forms, NEW s \in Forms, RouteParses(r),
         r.proxy_pass = Missing => s.proxy_pass = Missing
  PROVE  Merge(s, Parsed(r)) = Parsed(r)
  <1> DEFINE p == Parsed(r)
             m == Merge(s, p)
  <1>1. p \in Forms /\ p["proxy_pass"] = r["proxy_pass"]
    BY ParsedFields DEF Fields, Cleared
  <1>2. p["ssl_certificate"] # Missing /\ p["ssl_certificate_key"] # Missing
    BY ParsedFields DEF RouteParses, Truthy, Missing, Undefined
  <1> HIDE DEF p
  <1>3. DOMAIN p = Fields /\ p = [f \in Fields |-> p[f]]
    BY <1>1, FormIsFunction
  <1>4. m = [f \in Fields |-> IF f \in Top /\ p[f] = Missing THEN s[f] ELSE p[f]]
    BY <1>3 DEF Merge
  <1>5. ASSUME NEW f \in Fields, f \in Top, p[f] = Missing PROVE s[f] = p[f]
    <2>1. f = "proxy_pass"
      BY <1>2, <1>5 DEF Top
    <2> QED  BY <1>1, <1>5, <2>1
  <1>6. \A f \in Fields : (IF f \in Top /\ p[f] = Missing THEN s[f] ELSE p[f]) = p[f]
    BY <1>5
  <1>7. m = p
    BY <1>3, <1>4, <1>6
  <1> QED  BY <1>7 DEF p, m

-------------------------------------------------------------------------------
(* The parts of the preview. *)
ServerLines(r) ==
    {<<"listen", r.port, IF r.ssl THEN "ssl" ELSE "plain">>, <<"server_name", r.domain>>,
     <<"root", r.root>>, <<"client_max_body_size", r.client_max_body_size>>}
CertificateLines(r) ==
    IF r.ssl /\ Truthy(r.ssl_certificate) /\ Truthy(r.ssl_certificate_key)
    THEN {<<"ssl_certificate", r.ssl_certificate>>,
          <<"ssl_certificate_key", r.ssl_certificate_key>>}
    ELSE {}
GzipLines(r) == IF r.gzip THEN {<<"gzip", "on">>, <<"gzip_types", r.gzip_types>>} ELSE {}
CacheLines(r) == IF r.caching THEN {<<"proxy_cache_valid", r.cache_valid>>} ELSE {}
LocationLines(r) == UNION {RenderLocationBlock(r.locations[n]) : n \in 1..Len(r.locations)}

LEMMA PreviewLines ==
  \A r : GenerateConfigPreview(r)
           = ServerLines(r) \cup CertificateLines(r) \cup GzipLines(r) \cup CacheLines(r)
             \cup LocationLines(r)
  BY DEF GenerateConfigPreview, ServerLines, CertificateLines, GzipLines, CacheLines, LocationLines

(* Without a credential the preview of what is stored is that of what was   *)
(* parsed.                                                                  *)
LEMMA PreviewOfStored ==
  ASSUME NEW r \in Forms, RouteParses(r), r.gzip_types # "secret"
  PROVE  GenerateConfigPreview(Json(Parsed(r))) = GenerateConfigPreview(Parsed(r))
  <1> DEFINE p == Parsed(r)
             q == Json(p)
  <1>1. /\ p \in Forms /\ p.ssl = r.ssl /\ p.gzip = r.gzip /\ p.caching = r.caching
    BY ParsedFields, KeptFields
  <1>2. /\ p.ssl => Truthy(p.ssl_certificate) /\ Truthy(p.ssl_certificate_key)
        /\ p.gzip => Truthy(p.gzip_types) /\ p.gzip_types # "secret"
        /\ p.caching => Truthy(p.cache_valid)
    <2>1. p.ssl => p.ssl_certificate = r.ssl_certificate /\ p.ssl_certificate_key = r.ssl_certificate_key
      BY <1>1, ParsedFields
    <2>2. p.gzip => p.gzip_types = r.gzip_types
      BY <1>1, ParsedFields
    <2>3. p.caching => p.cache_valid = r.cache_valid
      BY <1>1, ParsedFields
    <2> HIDE DEF p
    <2> QED  BY <1>1, <2>1, <2>2, <2>3 DEF RouteParses, AdvancedParses
  <1> HIDE DEF p
  <1>3. /\ q.domain = p.domain /\ q.port = p.port /\ q.root = p.root
        /\ q.ssl = p.ssl /\ q.locations = p.locations
        /\ q.client_max_body_size = p.client_max_body_size
        /\ q.gzip = p.gzip /\ q.caching = p.caching
        /\ q.ssl_certificate = Dropped(p.ssl_certificate)
        /\ q.ssl_certificate_key = Dropped(p.ssl_certificate_key)
        /\ q.gzip_types = Redacted(Dropped(p.gzip_types))
        /\ q.cache_valid = Dropped(p.cache_valid)
    BY <1>1, JsonFields
  <1> HIDE DEF q
  <1>4. /\ p.ssl => q.ssl_certificate = p.ssl_certificate /\ q.ssl_certificate_key = p.ssl_certificate_key
        /\ p.gzip => q.gzip_types = p.gzip_types
        /\ p.caching => q.cache_valid = p.cache_valid
    BY <1>2, <1>3, DroppedOK, RedactedOK
  <1>5. CertificateLines(q) = CertificateLines(p)
    BY <1>1, <1>2, <1>3, <1>4 DEF CertificateLines
  <1>6. GzipLines(q) = GzipLines(p) /\ CacheLines(q) = CacheLines(p)
    BY <1>1, <1>3, <1>4 DEF GzipLines, CacheLines
  <1>7. ServerLines(q) = ServerLines(p) /\ LocationLines(q) = LocationLines(p)
    BY <1>3 DEF ServerLines, LocationLines
  <1>8. GenerateConfigPreview(q) = GenerateConfigPreview(p)
    BY <1>5, <1>6, <1>7, PreviewLines
  <1> QED  BY <1>8 DEF p, q

(* A directive of the preview, and its last argument. *)
Directive(d) ==
    \/ d[Len(d)] \in {"sh.ru", "", "path", "1m", "on", "/", "/api", "target", "files", "plain"}
    \/ d[Len(d)] \in {"types", "secret", "redacted", "time"}

LEMMA LastArgument ==
  /\ \A a, b : <<a, b>>[Len(<<a, b>>)] = b
  /\ \A a, b, c : <<a, b, c>>[Len(<<a, b, c>>)] = c
  OBVIOUS

LEMMA PreviewOfParsed ==
  ASSUME NEW r \in Forms, RouteParses(r)
  PROVE  LET config == GenerateConfigPreview(Parsed(r)) IN
         /\ \A d \in config : Directive(d) \/ (r.ssl /\ d[Len(d)] = "ssl")
         /\ r.ssl => "ssl_certificate" \in Names(config)
  <1> DEFINE p == Parsed(r)
             config == GenerateConfigPreview(p)
  <1>1. /\ p \in Forms /\ p.ssl = r.ssl /\ p.gzip = r.gzip /\ p.caching = r.caching
        /\ p.domain = r.domain /\ p.root = r.root /\ p.locations = r.locations
        /\ p.client_max_body_size = r.client_max_body_size
    BY ParsedFields, KeptFields
  <1>2. /\ p.ssl => p.ssl_certificate = r.ssl_certificate /\ p.ssl_certificate_key = r.ssl_certificate_key
        /\ p.gzip => p.gzip_types = r.gzip_types
        /\ p.caching => p.cache_valid = r.cache_valid
    BY <1>1, ParsedFields
  <1> HIDE DEF p
  <1>3. p.domain = "sh.ru" /\ p.root \in {"", "path"} /\ p.client_max_body_size = "1m"
        /\ p.ssl \in BOOLEAN
    BY <1>1 DEF RouteParses, AdvancedParses, Forms
  <1>a. p.locations \in Seq(Places)
    BY <1>1 DEF Forms
  <1>4. p.ssl => p.ssl_certificate = "path" /\ p.ssl_certificate_key = "path"
    <2>1. r.ssl_certificate \in {Missing, Undefined, "", "path"}
          /\ r.ssl_certificate_key \in {Missing, Undefined, "", "path"}
      BY DEF Forms
    <2> QED  BY <1>1, <1>2, <2>1 DEF RouteParses, Truthy
  <1>5. p.gzip => p.gzip_types \in {"types", "secret", "redacted"}
    <2>1. r.gzip_types \in Types
      BY DEF Forms
    <2> QED  BY <1>1, <1>2, <2>1 DEF RouteParses, AdvancedParses, Truthy, Types
  <1>6. p.caching => p.cache_valid = "time"
    BY <1>1, <1>2 DEF RouteParses, AdvancedParses, Truthy, TimeParses
  <1>7. config = ServerLines(p) \cup CertificateLines(p) \cup GzipLines(p) \cup CacheLines(p)
                 \cup LocationLines(p)
    BY PreviewLines
  <1>8. ASSUME NEW d \in ServerLines(p) PROVE Directive(d) \/ (r.ssl /\ d[Len(d)] = "ssl")
    <2>1. CASE d = <<"listen", p.port, IF p.ssl THEN "ssl" ELSE "plain">>
      <3>1. d[Len(d)] = IF p.ssl THEN "ssl" ELSE "plain"
        BY <2>1, LastArgument
      <3> QED  BY <1>1, <3>1 DEF Directive
    <2>2. CASE d = <<"server_name", p.domain>>
      BY <1>3, <2>2, LastArgument DEF Directive
    <2>3. CASE d = <<"root", p.root>>
      BY <1>3, <2>3, LastArgument DEF Directive
    <2>4. CASE d = <<"client_max_body_size", p.client_max_body_size>>
      BY <1>3, <2>4, LastArgument DEF Directive
    <2> QED  BY <1>8, <2>1, <2>2, <2>3, <2>4 DEF ServerLines
  <1>9. ASSUME NEW d \in CertificateLines(p) \cup GzipLines(p) \cup CacheLines(p)
        PROVE  Directive(d)
    <2>1. \/ d = <<"ssl_certificate", "path">> \/ d = <<"ssl_certificate_key", "path">>
          \/ d = <<"gzip", "on">> \/ d = <<"proxy_cache_valid", "time">>
          \/ p.gzip /\ d = <<"gzip_types", p.gzip_types>>
      <3>1. CASE d \in CertificateLines(p)
        BY <1>4, <3>1 DEF CertificateLines
      <3>2. CASE d \in GzipLines(p)
        BY <3>2 DEF GzipLines
      <3>3. CASE d \in CacheLines(p)
        BY <1>6, <3>3 DEF CacheLines
      <3> QED  BY <1>9, <3>1, <3>2, <3>3
    <2>2. d[Len(d)] \in {"path", "on", "types", "secret", "redacted", "time"}
      <3>1. CASE p.gzip /\ d = <<"gzip_types", p.gzip_types>>
        <4>1. d[Len(d)] = p.gzip_types
          BY <3>1, LastArgument
        <4> QED  BY <1>5, <3>1, <4>1
      <3>2. CASE \/ d = <<"ssl_certificate", "path">> \/ d = <<"ssl_certificate_key", "path">>
                 \/ d = <<"gzip", "on">> \/ d = <<"proxy_cache_valid", "time">>
        BY <3>2, LastArgument
      <3> QED  BY <2>1, <3>1, <3>2
    <2> QED  BY <2>2 DEF Directive
  <1>10. \A d \in LocationLines(p) : Directive(d)
    <2>1. ASSUME NEW loc \in Places, NEW d \in RenderLocationBlock(loc) PROVE Directive(d)
      <3>1. loc.path \in {"/", "/api"}
        BY DEF Places
      <3>2. \/ d = <<"location", loc.path>>
            \/ d = <<loc.path, "proxy_pass", "target">>
            \/ d = <<loc.path, "try_files", "files">>
        BY DEF RenderLocationBlock
      <3>3. d[Len(d)] \in {loc.path, "target", "files"}
        <4>1. CASE d = <<"location", loc.path>>
          BY <4>1, LastArgument
        <4>2. CASE d = <<loc.path, "proxy_pass", "target">>
          BY <4>2, LastArgument
        <4>3. CASE d = <<loc.path, "try_files", "files">>
          BY <4>3, LastArgument
        <4> QED  BY <3>2, <4>1, <4>2, <4>3
      <3> QED  BY <3>1, <3>3 DEF Directive
    <2>2. \A n \in 1..Len(p.locations) : p.locations[n] \in Places
      BY <1>a
    <2> QED  BY <2>1, <2>2 DEF LocationLines
  <1>11. ASSUME r.ssl PROVE "ssl_certificate" \in Names(config)
    <2>1. <<"ssl_certificate", "path">> \in CertificateLines(p)
      BY <1>1, <1>4, <1>11 DEF CertificateLines, Truthy, Missing, Undefined
    <2>2. <<"ssl_certificate", "path">> \in config
      BY <1>7, <2>1
    <2>3. <<"ssl_certificate", "path">>[1] = "ssl_certificate"
      OBVIOUS
    <2> HIDE DEF config
    <2> QED  BY <2>2, <2>3 DEF Names
  <1>12. \A d \in config : Directive(d) \/ (r.ssl /\ d[Len(d)] = "ssl")
    BY <1>7, <1>8, <1>9, <1>10
  <1> QED  BY <1>11, <1>12 DEF p

-------------------------------------------------------------------------------
LEMMA BlankIsForm == Blank \in Forms
  <1>1. 80 \in Ports /\ <<>> \in Seq(Places)
    BY DEF Ports
  <1> QED  BY <1>1 DEF Blank, Forms, Types

LEMMA EditorInit == Init => EditorInv
  <1> SUFFICES ASSUME Init PROVE EditorInv
    OBVIOUS
  <1>1. form = Blank /\ stored = NoRoute /\ editing = "closed"
    BY DEF Init
  <1>2. "closed" # "edit"
    OBVIOUS
  <1> QED  BY <1>1, <1>2, BlankIsForm DEF EditorInv

(* A control changes a field; one that empties the target does not remove it. *)
LEMMA EditorChange ==
  ASSUME EditorInv, NEW fields \in Forms, Change(fields),
         fields.proxy_pass = form.proxy_pass \/ fields.proxy_pass # Missing
  PROVE  EditorInv'
  <1>1. form' = fields /\ editing' = editing /\ stored' = stored
    BY DEF Change
  <1> QED  BY <1>1 DEF EditorInv

LEMMA EditorChanges ==
  ASSUME EditorInv,
         \/ \E p \in Ports : ChangePort(p)
         \/ ChangeBasic \/ ChangeAdvanced
         \/ \E loc \in Places : AddLocation(loc)
  PROVE  EditorInv'
  <1>0. form \in Forms
    BY DEF EditorInv
  <1>1. ASSUME NEW p \in Ports, ChangePort(p) PROVE EditorInv'
    <2>1. [form EXCEPT !.port = p] \in Forms /\ [form EXCEPT !.port = p].proxy_pass = form.proxy_pass
      BY <1>0 DEF Forms
    <2> QED  BY <1>1, <2>1, EditorChange DEF ChangePort
  <1>2. CASE ChangeBasic
    <2>1. ASSUME NEW x \in {"", "sh.ru"}, Change([form EXCEPT !.domain = x]) PROVE EditorInv'
      <3>1. [form EXCEPT !.domain = x] \in Forms /\ [form EXCEPT !.domain = x].proxy_pass = form.proxy_pass
        BY <1>0 DEF Forms
      <3> QED  BY <2>1, <3>1, EditorChange
    <2>2. ASSUME NEW x \in {"", "path"}, Change([form EXCEPT !.root = x]) PROVE EditorInv'
      <3>1. [form EXCEPT !.root = x] \in Forms /\ [form EXCEPT !.root = x].proxy_pass = form.proxy_pass
        BY <1>0 DEF Forms
      <3> QED  BY <2>2, <3>1, EditorChange
    <2>3. ASSUME NEW x \in {"", "target"}, Change([form EXCEPT !.proxy_pass = x]) PROVE EditorInv'
      <3>1. [form EXCEPT !.proxy_pass = x] \in Forms /\ [form EXCEPT !.proxy_pass = x].proxy_pass = x
        BY <1>0 DEF Forms
      <3>2. x # Missing
        BY DEF Missing
      <3> QED  BY <2>3, <3>1, <3>2, EditorChange
    <2>4. ASSUME NEW b \in BOOLEAN, Change([form EXCEPT !.enabled = b]) PROVE EditorInv'
      <3>1. [form EXCEPT !.enabled = b] \in Forms /\ [form EXCEPT !.enabled = b].proxy_pass = form.proxy_pass
        BY <1>0 DEF Forms
      <3> QED  BY <2>4, <3>1, EditorChange
    <2>5. ASSUME NEW b \in BOOLEAN, Change([form EXCEPT !.ssl = b]) PROVE EditorInv'
      <3>1. [form EXCEPT !.ssl = b] \in Forms /\ [form EXCEPT !.ssl = b].proxy_pass = form.proxy_pass
        BY <1>0 DEF Forms
      <3> QED  BY <2>5, <3>1, EditorChange
    <2>6. ASSUME NEW x \in {"", "path"}, Change([form EXCEPT !.ssl_certificate = x]) PROVE EditorInv'
      <3>1. /\ [form EXCEPT !.ssl_certificate = x] \in Forms
            /\ [form EXCEPT !.ssl_certificate = x].proxy_pass = form.proxy_pass
        BY <1>0 DEF Forms
      <3> QED  BY <2>6, <3>1, EditorChange
    <2>7. ASSUME NEW x \in {"", "path"}, Change([form EXCEPT !.ssl_certificate_key = x]) PROVE EditorInv'
      <3>1. /\ [form EXCEPT !.ssl_certificate_key = x] \in Forms
            /\ [form EXCEPT !.ssl_certificate_key = x].proxy_pass = form.proxy_pass
        BY <1>0 DEF Forms
      <3> QED  BY <2>7, <3>1, EditorChange
    <2> QED  BY <1>2, <2>1, <2>2, <2>3, <2>4, <2>5, <2>6, <2>7 DEF ChangeBasic
  <1>3. CASE ChangeAdvanced
    <2>1. ASSUME NEW x \in {"", "1m"}, Change([form EXCEPT !.client_max_body_size = x]) PROVE EditorInv'
      <3>1. /\ [form EXCEPT !.client_max_body_size = x] \in Forms
            /\ [form EXCEPT !.client_max_body_size = x].proxy_pass = form.proxy_pass
        BY <1>0 DEF Forms
      <3> QED  BY <2>1, <3>1, EditorChange
    <2>2. ASSUME Change([form EXCEPT !.gzip = TRUE]) PROVE EditorInv'
      <3>1. [form EXCEPT !.gzip = TRUE] \in Forms /\ [form EXCEPT !.gzip = TRUE].proxy_pass = form.proxy_pass
        BY <1>0 DEF Forms
      <3> QED  BY <2>2, <3>1, EditorChange
    <2>3. ASSUME Change([form EXCEPT !.gzip = FALSE, !.gzip_types = Undefined]) PROVE EditorInv'
      <3>1. /\ [form EXCEPT !.gzip = FALSE, !.gzip_types = Undefined] \in Forms
            /\ [form EXCEPT !.gzip = FALSE, !.gzip_types = Undefined].proxy_pass = form.proxy_pass
        BY <1>0 DEF Forms, Types
      <3> QED  BY <2>3, <3>1, EditorChange
    <2>4. ASSUME NEW x \in {"", "blanks", "types", "secret"}, Change([form EXCEPT !.gzip_types = x]) PROVE EditorInv'
      <3>1. [form EXCEPT !.gzip_types = x] \in Forms /\ [form EXCEPT !.gzip_types = x].proxy_pass = form.proxy_pass
        BY <1>0 DEF Forms, Types
      <3> QED  BY <2>4, <3>1, EditorChange
    <2>5. ASSUME Change([form EXCEPT !.caching = TRUE]) PROVE EditorInv'
      <3>1. [form EXCEPT !.caching = TRUE] \in Forms /\ [form EXCEPT !.caching = TRUE].proxy_pass = form.proxy_pass
        BY <1>0 DEF Forms
      <3> QED  BY <2>5, <3>1, EditorChange
    <2>6. ASSUME Change([form EXCEPT !.caching = FALSE, !.cache_valid = Undefined]) PROVE EditorInv'
      <3>1. /\ [form EXCEPT !.caching = FALSE, !.cache_valid = Undefined] \in Forms
            /\ [form EXCEPT !.caching = FALSE, !.cache_valid = Undefined].proxy_pass = form.proxy_pass
        BY <1>0 DEF Forms
      <3> QED  BY <2>6, <3>1, EditorChange
    <2>7. ASSUME NEW x \in {"", "200 302 10m", "time"}, Change([form EXCEPT !.cache_valid = x]) PROVE EditorInv'
      <3>1. [form EXCEPT !.cache_valid = x] \in Forms /\ [form EXCEPT !.cache_valid = x].proxy_pass = form.proxy_pass
        BY <1>0 DEF Forms
      <3> QED  BY <2>7, <3>1, EditorChange
    <2> QED  BY <1>3, <2>1, <2>2, <2>3, <2>4, <2>5, <2>6, <2>7 DEF ChangeAdvanced
  <1>4. ASSUME NEW loc \in Places, AddLocation(loc) PROVE EditorInv'
    <2> DEFINE next == [form EXCEPT !.locations = Append(form.locations, loc)]
    <2>1. form.locations \in Seq(Places)
      BY <1>0 DEF Forms
    <2>2. Append(form.locations, loc) \in Seq(Places)
      BY <2>1
    <2>3. next \in Forms /\ next.proxy_pass = form.proxy_pass
      BY <1>0, <2>2 DEF Forms
    <2>4. Change(next)
      BY <1>4 DEF AddLocation
    <2> HIDE DEF next
    <2> QED  BY <2>3, <2>4, EditorChange
  <1> QED  BY <1>1, <1>2, <1>3, <1>4

(* What a save stores. *)
LEMMA SaveStores ==
  ASSUME EditorInv, Save
  PROVE  /\ RouteParses(form) /\ stored' = Json(Parsed(form))
         /\ stored' \in Forms /\ RouteParses(stored') /\ Normal(stored')
  <1> DEFINE p == Parsed(form)
  <1>1. form \in Forms /\ RouteParses(form)
    BY DEF EditorInv, Save
  <1>2. p \in Forms
    BY <1>1, ParsedFields
  <1>3. (IF editing = "create" THEN p ELSE Merge(stored, p)) = p
    <2>1. CASE editing = "create"
      BY <2>1
    <2>2. CASE editing # "create"
      <3>1. editing = "edit"
        BY <2>2 DEF Save, EditorInv
      <3>2. stored \in Forms /\ (form.proxy_pass = Missing => stored.proxy_pass = Missing)
        BY <3>1 DEF EditorInv
      <3>3. Merge(stored, p) = p
        BY <1>1, <3>2, MergeIsUpdate
      <3> QED  BY <2>2, <3>3
    <2> QED  BY <2>1, <2>2
  <1>4. RouteParses(p) /\ stored' = Json(p)
    BY <1>3 DEF Save
  <1>5. stored' \in Forms /\ RouteParses(stored')
    BY <1>2, <1>4, JsonIsForm, JsonParses
  <1>6. Normal(stored')
    BY <1>1, <1>4, StoredIsNormal
  <1> QED  BY <1>1, <1>4, <1>5, <1>6

(* The switch in the list. *)
LEMMA ToggleStores ==
  ASSUME EditorInv, Toggle
  PROVE  stored' \in Forms /\ RouteParses(stored') /\ Normal(stored')
  <1> DEFINE next == [stored EXCEPT !.enabled = ~@]
  <1>1. stored \in Forms /\ RouteParses(stored) /\ Normal(stored)
    BY DEF EditorInv, Toggle
  <1>2. stored' = IF RouteParses(next) THEN Json(next) ELSE stored
    BY DEF Toggle
  <1>3. next \in Forms
    BY <1>1 DEF Forms
  <1>4. \A f \in Fields : f # "enabled" => next[f] = stored[f]
    BY <1>1, FormIsFunction
  <1> HIDE DEF next
  <1>5. \A f \in Optional : next[f] = stored[f]
    BY <1>4 DEF Optional, Top, Nested, Fields
  <1>6. Normal(next)
    <2>1. /\ next.ssl = stored.ssl /\ next.ssl_certificate = stored.ssl_certificate
          /\ next.ssl_certificate_key = stored.ssl_certificate_key
          /\ next.gzip = stored.gzip /\ next.gzip_types = stored.gzip_types
          /\ next.caching = stored.caching /\ next.cache_valid = stored.cache_valid
      BY <1>4 DEF Fields
    <2> QED  BY <1>1, <1>5, <2>1 DEF Normal, Optional
  <1>7. Json(next) = next
    BY <1>3, <1>6, JsonSame DEF Normal, Optional
  <1> QED  BY <1>1, <1>2, <1>3, <1>6, <1>7

LEMMA EditorStep == EditorInv /\ [Next]_vars => EditorInv'
  <1> SUFFICES ASSUME EditorInv, [Next]_vars PROVE EditorInv'
    OBVIOUS
  <1>1. CASE UNCHANGED vars
    BY <1>1 DEF EditorInv, vars
  <1>2. CASE Reload \/ OpenForCreate
    <2>1. form' = Blank /\ stored' = stored /\ editing' \in {"closed", "create"}
      BY <1>2 DEF Reload, OpenForCreate
    <2>2. editing' # "edit"
      BY <2>1
    <2> QED  BY <2>1, <2>2, BlankIsForm DEF EditorInv
  <1>3. CASE OpenForEdit
    BY <1>3 DEF OpenForEdit, EditorInv
  <1>4. CASE CloseModal
    <2>1. form' = form /\ stored' = stored /\ editing' = "closed" /\ editing' # "edit"
      BY <1>4 DEF CloseModal
    <2> QED  BY <2>1 DEF EditorInv
  <1>5. CASE Save
    <2>1. form' = form /\ editing' = "closed" /\ editing' # "edit"
      BY <1>5 DEF Save
    <2>2. stored' \in Forms /\ RouteParses(stored') /\ Normal(stored')
      BY <1>5, SaveStores
    <2> QED  BY <2>1, <2>2 DEF EditorInv
  <1>6. CASE Toggle
    <2>1. form' = form /\ editing' = "closed" /\ editing' # "edit"
      BY <1>6 DEF Toggle
    <2>2. stored' \in Forms /\ RouteParses(stored') /\ Normal(stored')
      BY <1>6, ToggleStores
    <2> QED  BY <2>1, <2>2 DEF EditorInv
  <1>7. CASE \/ \E p \in Ports : ChangePort(p)
             \/ ChangeBasic \/ ChangeAdvanced
             \/ \E loc \in Places : AddLocation(loc)
    BY <1>7, EditorChanges
  <1> QED  BY <1>1, <1>2, <1>3, <1>4, <1>5, <1>6, <1>7 DEF Next, Places

LEMMA EditorAlways == Spec => []EditorInv
  BY EditorInit, EditorStep, PTL DEF Spec

(* A stored route can be toggled and edited for ever: RouteSchema accepts   *)
(* what loadAll returns, and storing that again changes nothing.            *)
THEOREM StoredStaysValid == Spec => []StoredParsesAgain
  <1>1. EditorInv => StoredParsesAgain
    BY NormalIsStored DEF EditorInv, StoredParsesAgain
  <1> QED  BY <1>1, EditorAlways, PTL

(* generateConfigPreview prints no setting that is not there, and no        *)
(* listener with ssl without its certificate.                               *)
THEOREM PreviewShowsWhatIsSet == Spec => []PreviewIsDefined
  <1>1. EditorInv => PreviewIsDefined
    <2> SUFFICES ASSUME EditorInv PROVE PreviewIsDefined
      OBVIOUS
    <2>1. CASE ~RouteParses(form)
      <3>1. Preview = {}
        BY <2>1 DEF Preview
      <3> QED  BY <3>1 DEF PreviewIsDefined
    <2>2. CASE RouteParses(form)
      <3>1. /\ \A d \in Preview : Directive(d) \/ (form.ssl /\ d[Len(d)] = "ssl")
            /\ form.ssl => "ssl_certificate" \in Names(Preview)
        <4>1. form \in Forms
          BY DEF EditorInv
        <4>2. Preview = GenerateConfigPreview(Parsed(form))
          BY <2>2 DEF Preview
        <4> QED  BY <2>2, <4>1, <4>2, PreviewOfParsed
      <3>2. ASSUME NEW d, Directive(d) PROVE d[Len(d)] \notin {Missing, Undefined, "ssl"}
        BY <3>2 DEF Directive, Missing, Undefined
      <3>3. "ssl" \notin {Missing, Undefined}
        BY DEF Missing, Undefined
      <3> QED  BY <3>1, <3>2, <3>3 DEF PreviewIsDefined
    <2> QED  BY <2>1, <2>2
  <1> QED  BY <1>1, EditorAlways, PTL

(* What is saved is what the preview showed, but for a text that is         *)
(* redacted: nothing comes back through the spread of updateRoute.          *)
THEOREM WhatIsSavedWasShown == Spec => SavedIsPreviewed
  <1> DEFINE Shown == editing # "closed" /\ stored' # stored =>
                        /\ HasSecret \/ GenerateConfigPreview(stored') = Preview
                        /\ stored' = Json(Parsed(form))
  <1>1. EditorInv /\ [Next]_vars => [Shown]_vars
    <2> SUFFICES ASSUME EditorInv, Next, editing # "closed", stored' # stored
                 PROVE  /\ HasSecret \/ GenerateConfigPreview(stored') = Preview
                        /\ stored' = Json(Parsed(form))
      OBVIOUS
    <2>1. Save
      BY DEF Next, Reload, OpenForCreate, OpenForEdit, CloseModal, ChangePort, ChangeBasic,
             ChangeAdvanced, AddLocation, Change, Toggle
    <2>2. RouteParses(form) /\ stored' = Json(Parsed(form)) /\ form \in Forms
      BY <2>1, SaveStores DEF EditorInv
    <2>3. HasSecret \/ GenerateConfigPreview(Json(Parsed(form))) = GenerateConfigPreview(Parsed(form))
      BY <2>2, PreviewOfStored DEF HasSecret
    <2> QED  BY <2>2, <2>3 DEF Preview
  <1>2. Spec => [][Shown]_vars
    BY <1>1, EditorAlways, PTL DEF Spec
  <1> QED  BY <1>2 DEF SavedIsPreviewed
===============================================================================
