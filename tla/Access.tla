-------------------------------- MODULE Access --------------------------------
(***************************************************************************)
(* From a request to the file it may touch                                   *)
(* (pubky-homeserver/src/client_server: app.rs, middleware/request_tenant,   *)
(* routes/website, cache_policy, auth/authorization, routes/tenants,         *)
(* routes/events).  A request names its owner and its path in several ways;   *)
(* middlewares read it before the handler does, each in its own way.          *)
(***************************************************************************)
EXTENDS StoragePaths

CONSTANTS
  Owners,      \* users of this homeserver
  Homeserver,  \* the key of the homeserver
  RawPaths,    \* paths in a request line, percent-encoded and with dot segments
  Namings,     \* how a request can name a tenant: [host, header, query], a host
               \* being a key with or without a label before it
  StreamPaths, \* paths in the query of an event stream
  Sessions,    \* [user, caps] of an authenticated caller
  CapTexts,    \* texts of capabilities
  MaxTexts,    \* bound on the capabilities in a list
  Files        \* canonical paths of files there are events about

VARIABLES
  acReq,   \* the request
  acAns,   \* what the homeserver did: [status, owner, path, act, cache]
  acList   \* the texts of a list of capabilities

acVars == <<acReq, acAns, acList>>

NoAnswer == [status |-> 0, owner |-> None, paths |-> {}, act |-> None, cache |-> None]
Refused(status, cache) == [NoAnswer EXCEPT !.status = status, !.cache = cache]

AcInit == acReq = None /\ acAns = NoAnswer /\ acList = <<>>

------------------------------------------------------------------------------
(* The tenant of a request.                                                 *)

ApiSegments == {"account", "auth", "events", "events-stream", "info", "priv", "pub", "session",
                "signup", "signup_tokens", "storage"}

\* extract_legacy_pubky: of the host and the pubky-host header the last that is
\* a key; the query only if neither is.  A host with a label is no key.
LegacyPubky(r) ==
  IF r.naming.header # None THEN r.naming.header
  ELSE IF r.naming.host # None /\ r.naming.host.label = None THEN r.naming.host.key ELSE r.naming.query

\* from_storage_route: /storage/<key>/<path>
StorageTenant(r) ==
  IF Len(r.path) < 3 \/ r.path[2] \notin Owners \cup {Homeserver} \/ Tail(Tail(r.path)) = Root
  THEN Failed
  ELSE LET raw == Decode(SubSeq(r.path, 3, Len(r.path))) IN
       IF raw = Failed \/ Normalize(raw) = Failed THEN Failed
       ELSE [key |-> r.path[2], path |-> Normalize(raw)]

\* None is a request without a tenant; a legacy tenant has no path yet.
ResolveTenant(r) ==
  IF r.path[1] = "storage" THEN StorageTenant(r)
  ELSE IF LegacyPubky(r) = None THEN None ELSE [key |-> LegacyPubky(r), path |-> None]

\* Website::from_request: the site of a host, for what is no path of the API.
WebsiteOf(r) ==
  IF \/ r.method # "GET" \/ r.path[1] \in ApiSegments
     \/ r.naming.host = None \/ r.naming.host.key = Homeserver
  THEN None
  ELSE LET raw   == Decode(r.path)
           path  == IF raw = Failed THEN Failed ELSE Normalize(raw)
           label == IF r.naming.host.label = None THEN "_" ELSE r.naming.host.label
           target == <<"pub", "website", label>>
                       \o (IF IsDirectory(path) THEN Append(Front(path), "index") ELSE path)
       IN IF path = Failed \/ ~IsCanonical(target) THEN Failed
          ELSE [key |-> r.naming.host.key, path |-> target, file |-> IsFile(path)]

------------------------------------------------------------------------------
(* Authorization.                                                           *)

HasAction(session, owner, p, act) == session.user = owner /\ Permits(session.caps, p, act)

WriteStatus(session, owner, p) ==
  CASE session = None -> 401
    [] ~IsFile(p) -> 400
    [] ~(StartsWith(p, PublicRoot) \/ StartsWith(p, PrivateRoot)) -> 403
    [] OTHER -> IF HasAction(session, owner, p, "w") THEN 200 ELSE 403

ReadStatus(session, owner, p) ==
  CASE StartsWith(p, PublicRoot) -> 200
    [] ~StartsWith(p, PrivateRoot) -> 403
    [] session = None -> 401
    [] owner = None -> 403
    [] OTHER -> IF HasAction(session, owner, p, "r") THEN 200 ELSE 403

\* private_cache_policy decides on the tenant's path or on the raw one, before
\* the handler has parsed it.
IsPrivateRequest(raw) ==
  LET decoded == IF Decode(raw) = Failed THEN raw ELSE Decode(raw) IN
  \/ StartsWith(raw, PrivateRoot) \/ StartsWith(decoded, PrivateRoot)
  \/ (Normalize(decoded) # Failed /\ StartsWith(Normalize(decoded), PrivateRoot))

CacheHeader(r, tenant) ==
  IF IF tenant # None /\ tenant.path # None THEN StartsWith(tenant.path, PrivateRoot)
     ELSE IsPrivateRequest(r.path)
  THEN "private" ELSE "shared"

------------------------------------------------------------------------------
(* Requests.                                                                *)

Requests ==
  [method : {"GET", "PUT", "DELETE"}, path : RawPaths, session : Sessions \cup {None},
   naming : Namings, websites : BOOLEAN]

\* The extractor of the legacy routes, which parses the path again.
LegacyPath(r) == IF Decode(r.path) = Failed THEN Failed ELSE Normalize(Decode(r.path))

Touch(status, owner, p, act, cache) ==
  IF status = 200
  THEN [status |-> 200, owner |-> owner, paths |-> {p}, act |-> act, cache |-> cache]
  ELSE Refused(status, cache)

\* get, put and delete on an owner and a path.
Operate(r, owner, p, cache) ==
  IF r.method = "GET" THEN Touch(ReadStatus(r.session, owner, p), owner, p, "r", cache)
  ELSE Touch(WriteStatus(r.session, owner, p), owner, p, "w", cache)

Handle(r, ans) == acReq' = r /\ acAns' = ans /\ UNCHANGED acList

\* Website::respond: the page; for the name of a folder a redirection to it;
\* else the site's own page for what is missing.  No session is asked for.
IndexOf(site)   == Append(site.path, "index")
MissingOf(site) == Append(SubSeq(site.path, 1, 3), "404")
SitePages(site) == {p \in {site.path, IndexOf(site), MissingOf(site)} : IsCanonical(p)}

WebsitePage(site, pages) ==
  LET page(p) == Touch(200, site.key, p, "r", "shared") IN
  CASE site.path \in pages -> page(site.path)
    [] site.path \notin pages /\ site.file /\ IndexOf(site) \in pages -> Refused(301, "shared")
    [] OTHER -> IF MissingOf(site) \in pages
                THEN [page(MissingOf(site)) EXCEPT !.status = 404]
                ELSE Refused(404, "shared")

ServeWebsite(r) ==
  /\ r.websites /\ WebsiteOf(r) # None
  /\ IF ResolveTenant(r) = Failed \/ WebsiteOf(r) = Failed THEN Handle(r, Refused(400, None))
     ELSE \E pages \in SUBSET SitePages(WebsiteOf(r)) : Handle(r, WebsitePage(WebsiteOf(r), pages))

StorageRoute(r) ==
  /\ r.path[1] = "storage"
  /\ LET t == ResolveTenant(r) IN
     Handle(r, IF t = Failed THEN Refused(400, None)
               ELSE Operate(r, t.key, t.path, CacheHeader(r, t)))

LegacyRoute(r) ==
  /\ r.path[1] # "storage" /\ ~(r.websites /\ WebsiteOf(r) # None) /\ r.path # Root
  /\ LET t == ResolveTenant(r) IN
     Handle(r, IF t = None \/ LegacyPath(r) = Failed THEN Refused(400, CacheHeader(r, t))
               ELSE Operate(r, t.key, LegacyPath(r), CacheHeader(r, t)))

------------------------------------------------------------------------------
(* The event stream of some users, over some paths.                         *)

\* parse_path: the query's paths are normalized, and need no leading slash.
StreamPath(raw) == IF Decode(raw) = Failed THEN Failed ELSE Normalize(Decode(raw))

\* EventStreamTenantScope: private paths are for a stream of one user.
TenantScope(users, paths) ==
  IF \E p \in paths : StartsWith(p, PrivateRoot)
  THEN IF Cardinality(users) = 1 THEN CHOOSE u \in users : TRUE ELSE None
  ELSE None

\* authorized_paths: one refused path refuses the stream.
StreamStatus(session, users, paths) ==
  LET bad == {p \in paths : ReadStatus(session, TenantScope(users, paths), p) # 200} IN
  IF bad = {} THEN 200 ELSE ReadStatus(session, TenantScope(users, paths), CHOOSE p \in bad : TRUE)

\* PathFilter::matches: a directory selects what is below it, a file itself.
FilterMatches(f, p) == IF IsDirectory(f) THEN StartsWith(p, f) ELSE p = f

EventsStream(session, users, raws) ==
  LET paths  == {StreamPath(raw) : raw \in raws}
      status == IF users = {} \/ Failed \in paths THEN 400 ELSE StreamStatus(session, users, paths)
      filter == IF paths = {} THEN {PublicRoot} ELSE paths
      owner  == IF Cardinality(users) = 1 THEN CHOOSE u \in users : TRUE ELSE None
  IN /\ acReq' = [session |-> session, users |-> users, raws |-> raws]
     /\ acAns' = IF status # 200 THEN Refused(status, "private")
                 ELSE [status |-> 200, owner |-> owner, act |-> "r", cache |-> "private",
                       paths |-> {p \in Files : \E f \in filter : FilterMatches(f, p)}]
     /\ UNCHANGED acList

------------------------------------------------------------------------------
(* A list of capabilities is put together, as a text or with the builder.   *)
AddText(t) ==
  /\ Len(acList) < MaxTexts /\ acList' = Append(acList, t)
  /\ acReq' = None /\ acAns' = NoAnswer

\* The homeserver keeps nothing from one of these requests to the next.
AcNext ==
  /\ acReq = None
  /\ \/ \E t \in CapTexts : AddText(t)
     \/ /\ acList = <<>>
        /\ \/ \E r \in Requests : ServeWebsite(r) \/ StorageRoute(r) \/ LegacyRoute(r)
           \/ \E s \in Sessions \cup {None}, us \in SUBSET Owners :
                \/ EventsStream(s, us, {})
                \/ \E a, b \in StreamPaths : EventsStream(s, us, {a, b})

AcSpec == AcInit /\ [][AcNext]_acVars
------------------------------------------------------------------------------
AcTypeOK ==
  /\ acReq # None => acList = <<>>
  /\ acAns.paths # {} <=> acAns.status \in {200, 404} /\ acAns.act # None
  /\ \A p \in acAns.paths : IsCanonical(p)

\* What the path of a file says: below the directory, or the file itself.
Below(p, scope) == \E k \in 0..(Len(p) - 1) :
  \/ p = scope
  \/ Last(scope) = "" /\ p = Front(scope) \o SubSeq(p, k + 1, Len(p))

\* Whatever form a request gives its path, the file it reads or writes, and
\* every file whose events it streams, is public and read, or is its own and
\* below a scope that the session has with that action.
TouchedIsPermitted ==
  \A p \in acAns.paths :
    LET s == acReq.session IN
    \/ (acAns.act = "r" /\ p[1] = "pub")
    \/ /\ p[1] \in {"pub", "priv"} /\ s # None /\ s.user = acAns.owner
       /\ \E i \in 1..Len(s.caps) : Below(p, s.caps[i].scope) /\ acAns.act \in s.caps[i].acts

\* What was read from private storage never leaves with headers that let a
\* shared cache keep it, although the headers are decided before the path is.
PrivateNotShared ==
  \A p \in acAns.paths : p[1] = "priv" => acAns.cache = "private"

\* Normalizing a list of capabilities changes no permission, and what is left
\* holds no capability that another one covers.
NormalizingKeepsPermissions ==
  LET caps == ParseCapabilities(acList) IN
  caps # Failed =>
    LET norm == NormalizeCaps(caps) IN
    /\ \A p \in Files, a \in Actions :
         Permits(norm, p, a) <=> \E i \in 1..Len(caps) : Below(p, caps[i].scope) /\ a \in caps[i].acts
    /\ \A i, j \in 1..Len(norm) : i # j => ~CapCovers(norm[i], norm[j])

\* Requests touch what their session may, and nothing of it leaks into a shared
\* cache (storage_path.rs, capabilities.rs, auth/authorization.rs, cache_policy.rs).
AccessSound ==
  AcTypeOK /\ TouchedIsPermitted /\ PrivateNotShared /\ NormalizingKeepsPermissions
===============================================================================
