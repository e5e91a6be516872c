---------------------------- MODULE EventRequests ----------------------------
(***************************************************************************)
(* How a request for events becomes a subscription or a page               *)
(* (pubky-homeserver/src/services/events_service/{query,service}.rs,        *)
(* client_server/routes/events.rs, admin_server/routes/admin_events.rs).    *)
(* A query is a sequence of parameters in any order and number; the users   *)
(* it names are looked up one after the other while others sign up; and the *)
(* old feed is read page by page while events are committed.                *)
(***************************************************************************)
EXTENDS Naturals, Sequences, SequencesExt, FiniteSets, Values

CONSTANTS
  FqUsers, FqParams,   \* parameters: [key, word, num, on]; None is empty, Failed does not parse
  FqLimits,            \* page sizes that readers of the old feed ask for
  MaxStreamUsers, MaxFqParams, MaxFqEvents,
  DefaultPage, MaxPage

VARIABLES
  fqRoute,    \* "client" or "admin" /events-stream, or the old "feed"
  fqStep,
  fqQuery,    \* the parameters, in order
  fqParsed,   \* what the parser made of them
  fqIds,      \* ids found so far
  fqSub,      \* the subscription that the stream was opened with, or None
  fqKnown,    \* users in order of their ids
  fqLog,      \* public? of the events, in order of their ids
  fqGot,      \* ids that the reader of the feed has got
  fqCursor    \* the last cursor line it has seen

fqVars == <<fqRoute, fqStep, fqQuery, fqParsed, fqIds, fqSub, fqKnown, fqLog, fqGot, fqCursor>>

------------------------------------------------------------------------------
(* ClientStreamQuery::parse and AdminStreamQuery::parse                       *)

NothingParsed == [error |-> None, users |-> <<>>, cursor |-> None, limit |-> None,
                  live |-> FALSE, reverse |-> FALSE, paths |-> {}]

FqError(r, e) == [r EXCEPT !.error = e]

\* Fault: a repeated user keeps the cursor it was given first.
FirstCursor(users, u, cursor) ==
  IF \E i \in 1..Len(users) : users[i].user = u THEN users
  ELSE Append(users, [user |-> u, cursor |-> cursor])

\* A repeated user is one subscription that resumes from the last cursor.
UserCursor(users, u, cursor) ==
  IF \E i \in 1..Len(users) : users[i].user = u
  THEN [i \in 1..Len(users) |-> IF users[i].user = u THEN [users[i] EXCEPT !.cursor = cursor] ELSE users[i]]
  ELSE Append(users, [user |-> u, cursor |-> cursor])

SharedParam(r, p) ==
  CASE p.key = "limit"                   -> IF p.num = Failed THEN FqError(r, "InvalidLimit")
                                            ELSE IF p.num = 0 THEN FqError(r, "ZeroLimit")
                                            ELSE [r EXCEPT !.limit = p.num]
    [] p.key = "live"                    -> [r EXCEPT !.live = p.on]
    [] p.key = "reverse"                 -> [r EXCEPT !.reverse = p.on]
    [] p.key = "path" /\ p.word # None   -> IF p.word = Failed THEN FqError(r, "InvalidPath")
                                            ELSE [r EXCEPT !.paths = @ \cup {p.word}]
    [] OTHER                             -> r

ClientParam(r, p) ==
  IF r.error # None THEN r
  ELSE IF p.key = "user" /\ p.word # None
  THEN IF p.word = Failed THEN FqError(r, "InvalidPublicKey")
       ELSE IF p.num = Failed THEN FqError(r, "InvalidCursor")
       ELSE [r EXCEPT !.users = UserCursor(@, p.word, p.num)]
  ELSE SharedParam(r, p)

\* user=<key>:<cursor> is no key here.
AdminParam(r, p) ==
  IF r.error # None THEN r
  ELSE CASE p.key = "user" /\ p.word # None ->
              (IF p.word = Failed \/ p.num # None THEN FqError(r, "InvalidPublicKey")
               ELSE [r EXCEPT !.users = UserCursor(@, p.word, None)])
         [] p.key = "cursor" /\ p.num # None ->
              (IF p.num = Failed THEN FqError(r, "InvalidCursor") ELSE [r EXCEPT !.cursor = p.num])
         [] OTHER -> SharedParam(r, p)

FqMode(r) == IF r.live THEN "ForwardLive" ELSE IF r.reverse THEN "Reverse" ELSE "Forward"

CheckUserCount(r) == IF Len(r.users) > MaxStreamUsers THEN FqError(r, "TooManyUsers") ELSE r

\* What is left to check after the last parameter.
CheckStreamQuery(route, r) ==
  IF r.error # None THEN r
  ELSE IF r.live /\ r.reverse THEN FqError(r, "LiveWithReverse")
  ELSE IF route = "client" /\ r.users = <<>> THEN FqError(r, "UserRequired")
  ELSE CheckUserCount(r)

------------------------------------------------------------------------------
\* None is no error, no number and no user.
ASSUME RequestsAssumption ==
  /\ {MaxStreamUsers, MaxFqParams, MaxFqEvents, DefaultPage, MaxPage} \subseteq Nat
  /\ FqLimits \subseteq Nat \cup {None} /\ None \notin Nat
  /\ FqUsers \cap {None, Failed} = {}
  /\ None \notin {"InvalidLimit", "ZeroLimit", "InvalidPath", "InvalidPublicKey", "InvalidCursor",
                   "LiveWithReverse", "UserRequired", "TooManyUsers", "UserNotFound"}

FqTypeOK ==
  /\ fqRoute \in {"client", "admin", "feed"}
  /\ fqStep \in {"query", "lookup", "open", "page", "refused"}
  /\ fqIds \in Seq(1..Len(fqKnown)) /\ fqCursor \in 0..Len(fqLog)

FqInit ==
  /\ fqRoute \in {"client", "admin", "feed"} /\ fqStep = "query" /\ fqQuery = <<>>
  /\ fqParsed = NothingParsed /\ fqIds = <<>> /\ fqSub = None
  /\ fqKnown = <<>> /\ fqLog = <<>> /\ fqGot = <<>> /\ fqCursor = 0

FqClient == <<fqRoute, fqStep, fqQuery, fqParsed, fqIds, fqSub, fqGot, fqCursor>>

\* ClientStreamQuery::parse and AdminStreamQuery::parse go through the parameters; an
\* error ends the loop.
ParseParam(p) ==
  /\ fqStep = "query" /\ fqRoute # "feed" /\ Len(fqQuery) < MaxFqParams
  /\ fqQuery' = Append(fqQuery, p)
  /\ fqParsed' = IF fqRoute = "client" THEN ClientParam(fqParsed, p) ELSE AdminParam(fqParsed, p)
  /\ UNCHANGED <<fqRoute, fqStep, fqIds, fqSub, fqKnown, fqLog, fqGot, fqCursor>>

AskStream ==
  /\ fqStep = "query" /\ fqRoute # "feed"
  /\ fqParsed' = CheckStreamQuery(fqRoute, fqParsed)
  /\ fqStep' = IF fqParsed'.error # None THEN "refused" ELSE "lookup"
  /\ UNCHANGED <<fqRoute, fqQuery, fqIds, fqSub, fqKnown, fqLog, fqGot, fqCursor>>

IdOf(u) == CHOOSE i \in 1..Len(fqKnown) : fqKnown[i] = u

\* get_ids: one key after the other; an unknown one ends the request with 404.
LookupUser ==
  /\ fqStep = "lookup" /\ Len(fqIds) < Len(fqParsed.users)
  /\ LET u == fqParsed.users[Len(fqIds) + 1].user
     IN IF Contains(fqKnown, u) THEN fqIds' = Append(fqIds, IdOf(u)) /\ UNCHANGED <<fqStep, fqParsed>>
        ELSE fqStep' = "refused" /\ fqParsed' = FqError(fqParsed, "UserNotFound") /\ UNCHANGED fqIds
  /\ UNCHANGED <<fqRoute, fqQuery, fqSub, fqKnown, fqLog, fqGot, fqCursor>>

AllFound == fqStep = "lookup" /\ Len(fqIds) = Len(fqParsed.users)

\* user_events_stream, all_events_stream
Subscription(from, paths) ==
  [from |-> from, mode |-> FqMode(fqParsed), limit |-> fqParsed.limit, paths |-> paths]

\* resolve_user_ids and user_events_stream: the ids are paired with the cursors.  Who
\* may ask for a private path is decided in module Access.
OpenUserStream ==
  /\ AllFound /\ fqRoute = "client" /\ fqStep' = "open"
  /\ fqSub' = Subscription([id \in Range(fqIds) |->
                              fqParsed.users[CHOOSE i \in 1..Len(fqIds) : fqIds[i] = id].cursor],
                           IF fqParsed.paths = {} THEN {"/pub/"} ELSE fqParsed.paths)
  /\ UNCHANGED <<fqRoute, fqQuery, fqParsed, fqIds, fqKnown, fqLog, fqGot, fqCursor>>

\* resolve_filter and all_events_stream: no user means all of them, then and later.
OpenAllStream ==
  /\ AllFound /\ fqRoute = "admin" /\ fqStep' = "open"
  /\ fqSub' = Subscription([id \in Range(fqIds) |-> fqParsed.cursor], fqParsed.paths)
  /\ UNCHANGED <<fqRoute, fqQuery, fqParsed, fqIds, fqKnown, fqLog, fqGot, fqCursor>>

------------------------------------------------------------------------------
(* GET /events/                                                              *)

PageSize(limit) == LET n == IF limit = None THEN DefaultPage ELSE limit
                   IN IF n > MaxPage THEN MaxPage ELSE n

\* get_public_by_cursor: in order of their ids.
PublicPage(cursor, limit) ==
  LET ids   == {i \in 1..Len(fqLog) : i > cursor /\ fqLog[i]}
      order == CHOOSE s \in [1..Cardinality(ids) -> ids] : \A i, j \in DOMAIN s : i < j => s[i] < s[j]
  IN SubSeq(order, 1, IF Len(order) > PageSize(limit) THEN PageSize(limit) ELSE Len(order))

\* feed: the cursor line names the last event; without events there is no line.
ReadFeed(limit) ==
  /\ fqRoute = "feed"
  /\ \E page \in {PublicPage(fqCursor, limit)} :
       /\ fqGot' = fqGot \o page
       /\ fqCursor' = IF page = <<>> THEN fqCursor ELSE page[Len(page)]
  /\ fqStep' = "page"
  /\ UNCHANGED <<fqRoute, fqQuery, fqParsed, fqIds, fqSub, fqKnown, fqLog>>

SignUpUser(u) ==
  /\ ~Contains(fqKnown, u) /\ fqKnown' = Append(fqKnown, u) /\ UNCHANGED <<FqClient, fqLog>>

CommitOne(public) ==
  /\ Len(fqLog) < MaxFqEvents /\ fqRoute = "feed"
  /\ fqLog' = Append(fqLog, public) /\ UNCHANGED <<FqClient, fqKnown>>

FqNext ==
  \/ \E p \in FqParams : ParseParam(p)
  \/ AskStream \/ LookupUser \/ OpenUserStream \/ OpenAllStream
  \/ \E limit \in FqLimits : ReadFeed(limit)
  \/ \E u \in FqUsers : SignUpUser(u)
  \/ \E public \in BOOLEAN : CommitOne(public)

FqSpec == FqInit /\ [][FqNext]_fqVars

------------------------------------------------------------------------------
\* The last mention of a user in the query, 0 when there is none.
LastMention(u) ==
  LET at == {i \in 1..Len(fqQuery) : fqQuery[i].key = "user" /\ fqQuery[i].word = u}
  IN IF at = {} THEN 0 ELSE CHOOSE i \in at : \A j \in at : j <= i

\* A client's stream is opened for exactly the users its query names, each from the
\* cursor the query gives it last, wherever the other parameters stand and whoever signs
\* up while they are looked up: "A repeated user is one subscription that resumes from
\* the last cursor given for it" (query.rs).
SubscribedAsAsked ==
  fqRoute = "client" /\ fqSub # None =>
    /\ \A u \in FqUsers : LastMention(u) # 0 <=> \E id \in DOMAIN fqSub.from : fqKnown[id] = u
    /\ \A id \in DOMAIN fqSub.from :
         fqSub.from[id] = fqQuery[LastMention(fqKnown[id])].num

\* A reader of the old feed that goes on from the cursor line has got every public event
\* up to its cursor, once and in order, and no private one, whatever the sizes of its
\* pages and while events are committed between them.
FeedPagesJoin ==
  /\ Range(fqGot) = {i \in 1..fqCursor : fqLog[i]}
  /\ \A i, j \in DOMAIN fqGot : i < j => fqGot[i] < fqGot[j]

\* Event requests are served as they were asked (query.rs, events.rs).
FeedRequestsSound == FqTypeOK /\ SubscribedAsAsked /\ FeedPagesJoin
===============================================================================
