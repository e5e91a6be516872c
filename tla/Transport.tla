------------------------------ MODULE Transport ------------------------------
(***************************************************************************)
(* How the SDK finds the way to a homeserver (pubky-sdk/src/client).  A      *)
(* storage URL names its owner twice, in the host and in the path; it is     *)
(* sent as it is to a homeserver that advertises path-addressed storage, and *)
(* rewritten with a pubky-host header for one that does not.  What a         *)
(* homeserver advertises, and whether it is reached directly or through its  *)
(* domain, is cached while homeservers are upgraded or rolled back and       *)
(* owners move.  Responses has what becomes of the answers.                  *)
(***************************************************************************)
EXTENDS Naturals, Sequences, FiniteSets, Responses

CONSTANTS
  TrOwners, TrServers,
  TrDomains,    \* homeservers whose record names an ICANN domain
  TrDirect,     \* homeservers whose record names an address
  TrRequests,   \* requests of one client
  TrWorlds,     \* [home, offers] the client may start in
  TrCapacity,   \* INFO_CACHE_CAPACITY
  InfoTtl, InfoFailureTtl, TransportTtl,  \* in ticks of the clock
  MaxTrClock, MaxTrChanges, MaxTrRequests

VARIABLES
  trWasm,      \* whether the client runs in a browser
  trHome,      \* owner -> homeserver its record names
  trOffers,    \* homeserver -> "path", "legacy", or "noinfo": it has no /info
  trUp,        \* homeservers whose address can be reached
  trClock, trChanges,
  trLru,       \* cells of the feature cache, last used last: <<homeserver, cell>>
  trCell,      \* cell -> [path, until], None when never filled
  trCache,     \* host name -> [at, via], None when never resolved
  trReq,       \* request -> its state, None when idle
  trBegun,     \* requests so far
  trSent,      \* the request that just left
  trWas,       \* history: owner, homeserver -> the last time the record named it
  trServed,    \* history: homeserver -> the last time it served by path
  trMoved, trFailed  \* history: <<owner, time of a move>>, <<homeserver, time its features were kept>>

trVars == <<trWasm, trHome, trOffers, trUp, trClock, trChanges, trLru, trCell, trCache, trReq,
            trBegun, trWas, trServed, trMoved, trFailed, trSent>>
trWorld == <<trWasm, trHome, trOffers, trUp, trClock, trChanges, trWas, trServed, trMoved>>

------------------------------------------------------------------------------
\* Who holds the lock of a cell, and who the guard of a name: "info" wants the
\* transport of the homeserver it will ask for its features, "probe" resolves it,
\* "ask" has sent the question; "via" and "resolve" are the same for the request.
InCell(c)  == {r \in TrRequests : /\ trReq[r] # None /\ trReq[r].step \in {"info", "probe", "ask"}
                                 /\ trReq[r].cell = c}
NameOf(q)  == IF q.step \in {"info", "probe"} THEN q.server ELSE q.name
InGuard(n) == {r \in TrRequests : /\ trReq[r] # None /\ trReq[r].step \in {"probe", "resolve"}
                                 /\ NameOf(trReq[r]) = n}

\* HomeserverFeatures::cell: the least recently used homeserver goes when a new
\* one needs room; requests that hold its cell keep it.
Entry(s) == {i \in DOMAIN trLru : trLru[i][1] = s}
Without(i) == SubSeq(trLru, 1, i - 1) \o SubSeq(trLru, i + 1, Len(trLru))
Used(s, cell) ==
  LET kept == IF Entry(s) # {} THEN Without(CHOOSE i \in Entry(s) : TRUE)
              ELSE IF Len(trLru) >= TrCapacity THEN Tail(trLru) ELSE trLru
  IN Append(kept, <<s, cell>>)
CellOf(s) == IF Entry(s) # {} THEN trLru[CHOOSE i \in Entry(s) : TRUE][2] ELSE Len(trCell) + 1

\* Fault: features that were once had are used for good.
HadOnce(c) == trCell[c] # None

\* CachedFeatures::current
Current(c) == trCell[c] # None /\ trClock < trCell[c].until

\* TransportResolver::cached
Known(n) == trCache[n] # None /\ trClock - trCache[n].at < TransportTtl

\* resolve_from_pkarr: the address if it answers, else the domain; a record that
\* cannot be had counts as one without a domain.
Resolved(s, found) ==
  IF ~found \/ s \notin TrDomains \/ (s \in TrDirect /\ s \in trUp) THEN "direct" ELSE s

\* A name is the owner's _pubky name or a homeserver's key.
TrNames == TrOwners \cup TrServers
ServerAt(n) == IF n \in TrOwners THEN trHome[n] ELSE n

ASSUME TransportAssumption ==
  /\ TrOwners \cap TrServers = {} /\ "direct" \notin TrServers /\ TrCapacity \in Nat \ {0}
  /\ {InfoTtl, InfoFailureTtl, TransportTtl} \subseteq Nat \ {0}
  /\ \A w \in TrWorlds : /\ w.home \in [TrOwners -> TrServers]
                         /\ w.offers \in [TrServers -> {"path", "legacy", "noinfo"}]

TrTypeOK ==
  /\ Len(trLru) <= TrCapacity
  /\ \A i \in DOMAIN trLru : trLru[i][2] \in DOMAIN trCell
  /\ \A i, j \in DOMAIN trLru : i # j => trLru[i][1] # trLru[j][1]
  /\ \A c \in DOMAIN trCell : Cardinality(InCell(c)) <= 1
  /\ \A n \in TrNames : Cardinality(InGuard(n)) <= 1

TrInit ==
  /\ trWasm \in BOOLEAN /\ \E w \in TrWorlds : trHome = w.home /\ trOffers = w.offers
  /\ trUp = TrDirect /\ trClock = 0 /\ trChanges = 0 /\ trLru = <<>> /\ trCell = <<>>
  /\ trCache = [n \in TrNames |-> None] /\ trReq = [r \in TrRequests |-> None] /\ trBegun = 0
  /\ trWas = [o \in TrOwners |-> [s \in TrServers |-> 0]]
  /\ trServed = [s \in TrServers |-> 0]
  /\ trMoved = {} /\ trFailed = {} /\ trSent = None

------------------------------------------------------------------------------
(* The world.                                                                  *)

TickTransport ==
  /\ trClock < MaxTrClock /\ trClock' = trClock + 1
  /\ trWas' = [o \in TrOwners |-> [trWas[o] EXCEPT ![trHome[o]] = trClock + 1]]
  /\ trServed' = [s \in TrServers |-> IF trOffers[s] = "path" THEN trClock + 1 ELSE trServed[s]]
  /\ UNCHANGED <<trWasm, trHome, trOffers, trUp, trChanges, trLru, trCell, trCache, trReq, trBegun,
                 trMoved, trFailed>> /\ trSent' = None

Change == trChanges < MaxTrChanges /\ trChanges' = trChanges + 1

OwnerMoves(o, s) ==
  /\ Change /\ s # trHome[o] /\ trHome' = [trHome EXCEPT ![o] = s]
  /\ trWas' = [trWas EXCEPT ![o][s] = trClock] /\ trMoved' = trMoved \cup {<<o, trClock>>}
  /\ UNCHANGED <<trWasm, trOffers, trUp, trClock, trLru, trCell, trCache, trReq, trBegun,
                 trServed, trFailed>> /\ trSent' = None

\* An upgrade, or a rollback to a version without path-addressed storage or /info.
VersionChanges(s, v) ==
  /\ Change /\ v # trOffers[s] /\ trOffers' = [trOffers EXCEPT ![s] = v]
  /\ trServed' = IF v = "path" THEN [trServed EXCEPT ![s] = trClock] ELSE trServed
  /\ UNCHANGED <<trWasm, trHome, trUp, trClock, trLru, trCell, trCache, trReq, trBegun, trWas,
                 trMoved, trFailed>> /\ trSent' = None

AddressFails(s) ==
  /\ Change /\ s \in trUp /\ trUp' = trUp \ {s}
  /\ UNCHANGED <<trWasm, trHome, trOffers, trClock, trLru, trCell, trCache, trReq, trBegun, trWas,
                 trServed, trMoved, trFailed>> /\ trSent' = None

------------------------------------------------------------------------------
(* A request.  A browser's resolves its endpoint anew each time.               *)

\* Whose features the legacy form did not need, and when, is forgotten.
AskVia(r, path) ==
  trReq' = [trReq EXCEPT ![r].step = "via", ![r].path = path, ![r].cell = 0,
                         ![r].server = IF path THEN @ ELSE None,
                         ![r].asked = IF path THEN trClock ELSE 0]

\* prepare_storage_addressing: the homeserver is the host, or the one the owner's
\* record names; without one the legacy form is used.
BeginRequest(r, o, n, found) ==
  LET s == ServerAt(n)
      begun == [step |-> "via", owner |-> o, name |-> n, server |-> None, cell |-> 0,
                path |-> FALSE, via |-> "direct", stale |-> 0, since |-> trClock, asked |-> 0]
  IN
  /\ trReq[r] = None /\ trBegun < MaxTrRequests /\ trBegun' = trBegun + 1
  /\ n = o \/ (n \in TrServers /\ found)
  /\ IF found
     THEN /\ trReq' = [trReq EXCEPT ![r] =
               [begun EXCEPT !.step = "cell", !.server = s, !.cell = CellOf(s)]]
          /\ trLru' = Used(s, CellOf(s))
          /\ trCell' = IF CellOf(s) \in DOMAIN trCell THEN trCell ELSE Append(trCell, None)
     ELSE trReq' = [trReq EXCEPT ![r] = begun] /\ UNCHANGED <<trLru, trCell>>
  /\ UNCHANGED <<trWorld, trCache, trFailed>> /\ trSent' = None

\* supports_for: under the cell's lock what is current is used, else asked for.
LookAtCell(r) ==
  /\ trReq[r] # None /\ trReq[r].step = "cell" /\ InCell(trReq[r].cell) = {}
  /\ IF Current(trReq[r].cell) THEN AskVia(r, trCell[trReq[r].cell].path)
     ELSE trReq' = [trReq EXCEPT ![r].step = "info"]
  /\ UNCHANGED <<trWorld, trLru, trCell, trCache, trBegun, trFailed>> /\ trSent' = None

\* GET /info of the homeserver that was looked up; after a failure the last known
\* features are kept for a shorter time.  A browser without a domain to ask fails at
\* once.  The cell may have been evicted meanwhile.
InfoAnswers(r, ok) ==
  /\ trReq[r] # None
  /\ \/ trReq[r].step = "ask"
     \/ trReq[r].step = "info" /\ trWasm /\ trReq[r].server \notin TrDomains /\ ~ok
  /\ LET c == trReq[r].cell
         s == trReq[r].server
         path == IF ok THEN trOffers[s] = "path" ELSE trCell[c] # None /\ trCell[c].path
     IN
     /\ ok => trOffers[s] # "noinfo"
     /\ trCell' = [trCell EXCEPT ![c] =
          [path |-> path, until |-> trClock + (IF ok THEN InfoTtl ELSE InfoFailureTtl)]]
     /\ AskVia(r, path)
     /\ trFailed' = IF ok \/ ~path THEN trFailed ELSE trFailed \cup {<<s, trClock>>}
  /\ UNCHANGED <<trWorld, trLru, trCache, trBegun>> /\ trSent' = None

\* How long ago the owner's record named the homeserver of that domain.
Staleness(q, via) ==
  IF via \in TrServers /\ q.name \in TrOwners THEN trClock - trWas[q.owner][via] ELSE 0

\* Either way /info reaches the homeserver it is asked of.
GoesVia(r, via) ==
  trReq' = IF trReq[r].step \in {"info", "probe"} THEN [trReq EXCEPT ![r].step = "ask"]
           ELSE [trReq EXCEPT ![r].step = "send", ![r].via = via,
                              ![r].stale = Staleness(trReq[r], via)]

\* TransportResolver::resolve: the cache, else the guard of the name.
AskTransport(r) ==
  /\ trReq[r] # None /\ trReq[r].step \in {"info", "via"}
  /\ LET n == NameOf(trReq[r]) IN
     IF trWasm
     THEN ServerAt(n) \in TrDomains /\ GoesVia(r, ServerAt(n))
     ELSE IF Known(n)
     THEN GoesVia(r, trCache[n].via)
     ELSE /\ InGuard(n) = {}
          /\ trReq' = [trReq EXCEPT ![r].step = IF @ = "info" THEN "probe" ELSE "resolve"]
  /\ UNCHANGED <<trWorld, trLru, trCell, trCache, trBegun, trFailed>> /\ trSent' = None

\* The first to come for a name resolves it for the others.
ResolveTransport(r, found) ==
  /\ trReq[r] # None /\ trReq[r].step \in {"probe", "resolve"}
  /\ LET n == NameOf(trReq[r])  via == Resolved(ServerAt(n), found) IN
     /\ trCache' = [trCache EXCEPT ![n] = [at |-> trClock, via |-> via]]
     /\ GoesVia(r, via)
  /\ UNCHANGED <<trWorld, trLru, trCell, trBegun, trFailed>> /\ trSent' = None

\* The request leaves: an address is looked up now, a domain was chosen before.
SendRequest(r) ==
  /\ trReq[r] # None /\ trReq[r].step = "send"
  /\ LET q == trReq[r] IN
     trSent' = [owner |-> q.owner, path |-> q.path, server |-> q.server,
                to |-> IF q.via = "direct" THEN ServerAt(q.name) ELSE q.via,
                stale |-> q.stale, since |-> q.since, asked |-> q.asked]
  /\ trReq' = [trReq EXCEPT ![r] = None]
  /\ UNCHANGED <<trWorld, trLru, trCell, trCache, trBegun, trFailed>>

\* An error, or a request that its caller drops: locks are released.
DropRequest(r) ==
  /\ trReq[r] # None /\ trReq' = [trReq EXCEPT ![r] = None]
  /\ UNCHANGED <<trWorld, trLru, trCell, trCache, trBegun, trFailed>> /\ trSent' = None

TrNext ==
  \/ TickTransport
  \/ \E o \in TrOwners, s \in TrServers : OwnerMoves(o, s)
  \/ \E s \in TrServers : AddressFails(s) \/ \E v \in {"path", "legacy", "noinfo"} : VersionChanges(s, v)
  \/ \E r \in TrRequests :
       \/ LookAtCell(r) \/ AskTransport(r) \/ SendRequest(r) \/ DropRequest(r)
       \/ \E b \in BOOLEAN : InfoAnswers(r, b) \/ ResolveTransport(r, b)
       \/ \E o \in TrOwners, n \in TrNames, f \in BOOLEAN : BeginRequest(r, o, n, f)

TrSpec == TrInit /\ [][TrNext]_trVars

------------------------------------------------------------------------------
\* A request keeps the path-addressed form only for a homeserver that served by path
\* less than the lifetime of its features before they were looked at, or whose /info
\* was asked in vain less than the shorter lifetime before, when the last known
\* features stand.  And it reaches that homeserver, unless the owner moved while the
\* request was under way or less than the lifetime of a transport before: what one
\* homeserver can do is never taken for another, and a rollback or a move is noticed.
PathOnlyWhereUnderstood ==
  trSent # None /\ trSent.path =>
    /\ \/ trServed[trSent.server] + InfoTtl > trSent.asked
       \/ \E f \in trFailed : f[1] = trSent.server /\ f[2] + InfoFailureTtl > trSent.asked
    /\ \/ trSent.to = trSent.server
       \/ \E m \in trMoved : m[1] = trSent.owner /\ m[2] + TransportTtl > trSent.since

\* A request goes through a domain that the owner's record named less than the
\* cache's lifetime before it was chosen: an owner that moved is found again.
DomainIsRecent == trSent # None => trSent.stale < TransportTtl

\* The caches of features.rs and native.rs never send a request to where their
\* own answers say it does not belong.
TransportSound == TrTypeOK /\ PathOnlyWhereUnderstood /\ DomainIsRecent

\* Requests go where the client's caches say they belong, and what comes back is
\* read within its limits and reported with its status.
RequestsSound == TransportSound /\ ResponsesSound
==============================================================================
