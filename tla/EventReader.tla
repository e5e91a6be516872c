----------------------------- MODULE EventReader -----------------------------
(***************************************************************************)
(* The SDK's event stream (pubky-sdk/src/actors/event_stream.rs and its JS   *)
(* wrapper) read by an application that subscribes again, from the last      *)
(* event it got, whenever a stream ends, and the homeserver's side of such a *)
(* stream (services/events_service/stream.rs).  The homeserver sends an event *)
(* as a block of lines; a connection may break between any two of them.  The *)
(* homeserver of a user is looked up for every subscription, and a user may  *)
(* have moved to another one, which numbers its events from one again.       *)
(***************************************************************************)
EXTENDS Naturals, Sequences, FiniteSets, Values

CONSTANTS
  EsUsers, EsServers,
  EsKinds,      \* event types the homeservers send; "PUT", "DEL" are the known ones
  EsPaths,      \* what path filters tell apart: "pub", "priv", ...
  EsQueries,    \* [users, server, limit, live, reverse, paths, session, max, js]
  MaxEsUsers,   \* 50
  MaxEsJs,      \* u32::MAX
  MaxEsEvents, MaxEsMoves

VARIABLES
  esLog,      \* server -> its events [user, kind, path]; the index is the cursor
  esSkipped,  \* history: <<server, cursor>> a stream went past without sending it
  esHome,     \* user -> server its PKARR record names
  esSession,  \* user -> server that issued its session
  esConn,     \* the open stream, None when there is none
  esCursor,   \* user -> cursor of the last event of the user that was delivered, 0 for none
  esGot,      \* what the application got: <<server, cursor>>
  esMoves, esMoved  \* moves so far; users that moved

ASSUME ReaderAssumption ==
  /\ MaxEsEvents \in Nat /\ None \notin EsServers
  /\ \A q \in EsQueries : q.users \in Seq(EsUsers) /\ q.server \in EsServers \cup {None}
  /\ \A u \in EsUsers, i \in 1..MaxEsEvents : Failed # [user |-> u, id |-> i]

esVars == <<esLog, esSkipped, esHome, esSession, esConn, esCursor, esGot, esMoves, esMoved>>

------------------------------------------------------------------------------
(* Lines of a block.  Data lines are known by their prefix; the first that     *)
(* has none is the path.                                                       *)

Line(t, v) == [t |-> t, v |-> v]

\* How the homeserver writes an event; a comment keeps the connection open.
Block(ev, id) ==
  <<Line("comment", None), Line("event", ev.kind), Line("path", ev.user), Line("cursor", id)>>
    \o (IF ev.kind = "PUT" THEN <<Line("hash", None)>> ELSE <<>>) \o <<Line("end", None)>>

EmptyBlock == [kind |-> "message", data |-> <<>>]

\* SseDecoder: comments and unknown fields are dropped.
DecodedEvent(block, line) ==
  CASE line.t = "event"                     -> [block EXCEPT !.kind = line.v]
    [] line.t \in {"path", "cursor", "hash"} -> [block EXCEPT !.data = Append(@, line)]
    [] OTHER                                -> block

\* with_limit: the data of a block, here its lines.
TooLarge(block, max) == max # None /\ Len(block.data) > max

DataOf(block, t) == {block.data[i] : i \in {j \in DOMAIN block.data : block.data[j].t = t}}

\* decode_content_hash: needed by a PUT.
HasHash(block) == DataOf(block, "hash") # {}

\* parse_sse_event: a block without path on its first line, without cursor or of
\* an unknown type is no event.
Parsed(block) ==
  IF /\ block.data # <<>> /\ block.data[1].t = "path" /\ DataOf(block, "cursor") # {}
     /\ block.kind \in {"PUT", "DEL"} /\ (block.kind = "PUT" => HasHash(block))
  THEN [user |-> block.data[1].v, id |-> (CHOOSE l \in DataOf(block, "cursor") : TRUE).v]
  ELSE Failed

------------------------------------------------------------------------------
(* The builder.                                                                *)

\* EventStreamBuilder of the JS bindings: maxEventBytes is an integer of a u32.
JsAccepts(q) == q.js => q.max = None \/ q.max \in 1..MaxEsJs

\* add_users, subscribe_internal
ValidQuery(q) ==
  /\ JsAccepts(q) /\ (q.max # None => q.max > 0)
  /\ ~(q.live /\ q.reverse)
  /\ q.users # <<>> /\ Len(q.users) <= MaxEsUsers

\* require_homeserver_of the first user, unless a homeserver was given.
ServerOf(q) == IF q.server # None THEN q.server ELSE esHome[q.users[1]]

\* has_private_path_filter
PrivateFilter(q) == "priv" \in q.paths

\* auth_scope, should_attach_credential: private events of one user, its own.
AttachesSession(q) == q.session # None /\ PrivateFilter(q) /\ q.users = <<q.session>>

\* can_attach_to
MayAttach(q) == AttachesSession(q) => esSession[q.session] = ServerOf(q)

\* The homeserver refuses private paths without a session (401).
Authorized(q) == PrivateFilter(q) => AttachesSession(q)

\* Without a filter a stream is of the public events.
Matches(q, ev) == ev.path \in (IF q.paths = {} THEN {"pub"} ELSE q.paths)

\* Fault: the cursor is taken for the first event that is wanted.
NextCursors(q) == [u \in {q.users[i] : i \in DOMAIN q.users} |-> esCursor[u] + 1]

\* build_request_url: a cursor for every user, the last one that was given for it.
RequestCursors(q) == [u \in {q.users[i] : i \in DOMAIN q.users} |-> esCursor[u]]

\* sse_stream: every response has a decoder of its own.
FirstBlock(q) == EmptyBlock

------------------------------------------------------------------------------
EsTypeOK ==
  /\ \A s \in EsServers : Len(esLog[s]) <= MaxEsEvents
  /\ esConn # None => /\ esConn.server \in EsServers /\ esConn.next \in 1..(MaxEsEvents + 1)
                      /\ {esConn.open, esConn.tail} \subseteq BOOLEAN /\ Len(esConn.block.data) <= 3
  /\ esCursor \in [EsUsers -> 0..MaxEsEvents]

EsInit ==
  /\ esLog = [s \in EsServers |-> <<>>] /\ esSkipped = {} /\ esMoves = 0
  /\ esMoved = {}
  /\ esHome \in [EsUsers -> EsServers] /\ esSession = esHome
  /\ esConn = None /\ esCursor = [u \in EsUsers |-> 0] /\ esGot = <<>>

\* A user writes to or deletes from its homeserver.
LogEvent(u, k, p) ==
  /\ Len(esLog[esHome[u]]) < MaxEsEvents
  /\ esLog' = [esLog EXCEPT ![esHome[u]] = Append(@, [user |-> u, kind |-> k, path |-> p])]
  /\ UNCHANGED <<esSkipped, esHome, esSession, esConn, esCursor, esGot, esMoves, esMoved>>

\* A user signs up elsewhere and publishes its new homeserver; it may sign in there.
MoveUser(u, s, signin) ==
  /\ esMoves < MaxEsMoves /\ esMoves' = esMoves + 1 /\ s # esHome[u]
  /\ esHome' = [esHome EXCEPT ![u] = s] /\ esMoved' = esMoved \cup {u}
  /\ esSession' = IF signin THEN [esSession EXCEPT ![u] = s] ELSE esSession
  /\ UNCHANGED <<esLog, esSkipped, esConn, esCursor, esGot>>

\* subscribe: refused queries open nothing.
Subscribe(q) ==
  /\ (esConn # None => ~esConn.open)
  /\ ValidQuery(q) /\ MayAttach(q) /\ Authorized(q)
  /\ esConn' = [server |-> ServerOf(q), query |-> q, cursors |-> RequestCursors(q),
                next |-> 1, sent |-> 0, wire |-> <<>>, line |-> 1, block |-> FirstBlock(q),
                open |-> TRUE, closing |-> FALSE, tail |-> FALSE]
  /\ UNCHANGED <<esLog, esSkipped, esHome, esSession, esCursor, esGot, esMoves, esMoved>>

\* get_by_user_cursors, accepts_live: of a user of the stream, behind its cursor and
\* under its paths.
Wanted(c, i) ==
  LET ev == esLog[c.server][i] IN
  ev.user \in DOMAIN c.cursors /\ i > c.cursors[ev.user] /\ Matches(c.query, ev)

\* A reverse stream is of no use to an application that goes on from its last
\* event: it is opened, not read.
Streaming == esConn # None /\ esConn.open /\ ~esConn.closing /\ ~esConn.query.reverse

\* stream_events: the next event, or the end of the stream: at the limit, or at the
\* end of the history unless the stream is live and goes on with the live tail.
SendNext ==
  /\ Streaming
  /\ LET c == esConn  i == c.next IN
     IF c.query.limit # None /\ c.sent >= c.query.limit
     THEN esConn' = [c EXCEPT !.closing = TRUE]
     ELSE IF i > Len(esLog[c.server])
     THEN /\ ~c.tail
          /\ esConn' = IF c.query.live THEN [c EXCEPT !.tail = TRUE] ELSE [c EXCEPT !.closing = TRUE]
     ELSE esConn' = [c EXCEPT !.next = i + 1, !.sent = IF Wanted(c, i) THEN @ + 1 ELSE @,
                       !.wire = IF Wanted(c, i) THEN Append(@, i) ELSE @]
  /\ UNCHANGED <<esLog, esSkipped, esHome, esSession, esCursor, esGot, esMoves, esMoved>>

\* A page of the history cannot be read: a live stream goes on with the live tail, at
\* the first event n that was broadcast after its channel was drained; any other ends.
HistoryFails(n) ==
  /\ Streaming /\ ~esConn.tail
  /\ LET c == esConn IN
     /\ n \in c.next..(Len(esLog[c.server]) + 1)
     /\ IF c.query.live
        THEN /\ esConn' = [c EXCEPT !.tail = TRUE, !.next = n]
             /\ esSkipped' = esSkipped \cup {<<c.server, i>> : i \in {k \in c.next..(n - 1) : Wanted(c, k)}}
        ELSE esConn' = [c EXCEPT !.closing = TRUE] /\ UNCHANGED esSkipped
  /\ UNCHANGED <<esLog, esHome, esSession, esCursor, esGot, esMoves, esMoved>>

\* The application gets an event and keeps its cursor.
DeliverEvent(ev) ==
  /\ esCursor' = [esCursor EXCEPT ![ev.user] = ev.id]
  /\ esGot' = Append(esGot, <<esConn.server, ev.id>>)

\* The stream carries the blocks of the events in `wire`, of the first from line `line` on.
NextLine(c) == Block(esLog[c.server][Head(c.wire)], Head(c.wire))[c.line]

\* response_event_stream: one line more is decoded; at the end of a block its
\* event is delivered, or skipped when it does not parse; a block too large ends
\* the stream with an error.
ReceiveLine ==
  /\ esConn # None /\ esConn.open /\ esConn.wire # <<>>
  /\ LET line == NextLine(esConn)
         block == DecodedEvent(esConn.block, line)
         ev == Parsed(block)
     IN
     IF line.t = "end"
     THEN /\ esConn' = [esConn EXCEPT !.wire = Tail(@), !.line = 1, !.block = EmptyBlock]
          /\ IF ev = Failed THEN UNCHANGED <<esCursor, esGot>>
             ELSE DeliverEvent(ev)
     ELSE /\ esConn' = [esConn EXCEPT !.line = @ + 1, !.block = block,
                          !.open = ~TooLarge(block, esConn.query.max)]
          /\ UNCHANGED <<esCursor, esGot>>
  /\ UNCHANGED <<esLog, esSkipped, esHome, esSession, esMoves, esMoved>>

\* The end of the body, or an error of the transport: what is left of a block is
\* dropped.
EndStream(broken) ==
  /\ esConn # None /\ esConn.open /\ (broken \/ (esConn.closing /\ esConn.wire = <<>>))
  /\ esConn' = [esConn EXCEPT !.open = FALSE, !.wire = <<>>, !.line = 1]
  /\ UNCHANGED <<esLog, esSkipped, esHome, esSession, esCursor, esGot, esMoves, esMoved>>

EsNext ==
  \/ \E u \in EsUsers, k \in EsKinds, p \in EsPaths : LogEvent(u, k, p)
  \/ \E u \in EsUsers, s \in EsServers, b \in BOOLEAN : MoveUser(u, s, b)
  \/ \E q \in EsQueries : Subscribe(q)
  \/ SendNext \/ \E n \in 1..(MaxEsEvents + 1) : HistoryFails(n)
  \/ ReceiveLine \/ \E b \in BOOLEAN : EndStream(b)

EsSpec == EsInit /\ [][EsNext]_esVars

------------------------------------------------------------------------------
\* Events of a user that the application asks for in all of its queries, of a type it
\* knows, and that no stream skipped.
Promised(ev)   == ev.kind \in {"PUT", "DEL"} /\ \A q \in EsQueries : Matches(q, ev)
EventsOf(u, s) == {i \in DOMAIN esLog[s] : /\ esLog[s][i].user = u /\ Promised(esLog[s][i])
                                           /\ <<s, i>> \notin esSkipped}
GotOf(u, s)    == {j \in DOMAIN esGot : esGot[j][1] = s /\ esLog[s][esGot[j][2]].user = u}

\* An application that subscribes again from the last event it got misses no event
\* of a user, gets none twice and none out of order, however streams break inside
\* an event, with two exceptions.  Of a user that moved nothing is promised: a cursor
\* of one homeserver means another event on the next.  And an event is missed for
\* good when a live stream could not read a page of the history, went past it to the
\* live tail, and the application got a later one.
ResumedReaderMissesNothing ==
  \A u \in EsUsers \ esMoved, s \in EsServers :
    LET got == {esGot[j][2] : j \in GotOf(u, s)} IN
    /\ \A i, j \in GotOf(u, s) : i < j => esGot[i][2] < esGot[j][2]
    /\ \A i \in got : \A e \in EventsOf(u, s) : e < i => e \in got

\* What event_stream.rs promises an application that keeps a cursor.
ReaderSound == EsTypeOK /\ ResumedReaderMissesNothing
==============================================================================
