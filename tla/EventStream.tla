----------------------------- MODULE EventStream -----------------------------
(***************************************************************************)
(* One event stream (GET /events-stream, client or admin) on top of        *)
(* EventFeed: it replays the events table in pages, then tails the         *)
(* broadcast channel in live mode.  The receiver of the channel is a       *)
(* position in `sent`; a receiver that is more than Capacity behind has    *)
(* lagged.  The credential check of the stream is StreamRevocation's; here *)
(* it may fail at any of its calls.                                        *)
(***************************************************************************)
EXTENDS EventFeed

CONSTANTS
    StreamUsers,   \* the users streamed
    Filter,        \* the paths the filters select
    Queries,       \* the requests a client may make
    Starts,        \* the cursors it may resume from
    PageLimit,     \* DEFAULT_LIST_LIMIT
    MaxPageLimit,  \* DEFAULT_MAX_LIST_LIMIT
    Capacity,      \* of the broadcast channel
    None

\* The mode; StreamCursor::PerUser (or Global); the events to send before
\* closing, None for no limit.
QueryType == [mode : {"forward", "live", "reverse"}, perUser : BOOLEAN,
              limit : (Nat \ {0}) \cup {None}]

ASSUME StreamAssumption ==
    /\ StreamUsers \subseteq Users /\ Filter \subseteq EventPaths
    /\ Queries \subseteq QueryType
    /\ Starts \subseteq Nat \cup {None}
    /\ {PageLimit, MaxPageLimit, Capacity} \subseteq Nat \ {0}
    /\ None \notin Nat

VARIABLES
    query,    \* what the client asked for
    spc,      \* the step of the stream
    start,    \* the cursors it resumed from
    cursor,   \* per user, where the stream has got to
    pos,      \* the next message of the channel
    page,     \* the rest of the page being replayed
    out,      \* what the client was sent
    why,      \* why the stream closed
    failed,   \* a history query has failed
    atOpen    \* what was committed when the stream was opened

streamVars == <<query, spc, start, cursor, pos, page, out, why, failed, atOpen>>
vars == <<feedVars, streamVars>>

TypeOK ==
    /\ table \subseteq Events /\ sent \in Seq(Events) /\ lastBroadcast \in 0..MaxId
    /\ query \in Queries
    /\ spc \in {"closed", "drain", "fetch", "replay", "tail", "opening"}
    /\ start \in [StreamUsers -> Nat \cup {None}]
    /\ cursor \in [StreamUsers -> Nat \cup {None}]
    /\ pos \in Nat \ {0}
    /\ page \subseteq table
    /\ out \in Seq(Events)
    /\ why \in {"open", "caughtup", "limit", "lagged", "guard", "dberror"}
    /\ failed \in BOOLEAN
    /\ atOpen \subseteq table

Init ==
    /\ FeedInit
    /\ query \in Queries
    /\ spc = "opening"
    /\ start \in [StreamUsers -> Starts]
    /\ query.perUser \/ \A u, v \in StreamUsers : start[u] = start[v]
    /\ cursor = start
    /\ pos = 1
    /\ page = {}
    /\ out = <<>>
    /\ why = "open"
    /\ failed = FALSE
    /\ atOpen = {}

-----------------------------------------------------------------------------
(* Helpers *)

Reverse == query.mode = "reverse"
Live == query.mode = "live"
PerUser == query.perUser
Limit == query.limit

\* The streamed users and the path filters, in SQL and in accepts_live.
Matches(e) == e.user \in StreamUsers /\ e.path \in Filter

\* WHERE id > cursor, or id < cursor in reverse.
Beyond(e, c) == c = None \/ (IF Reverse THEN e.id < c ELSE e.id > c)

\* get_by_user_cursors / get_all_filtered_by_cursor.
History == {e \in table : Matches(e) /\ Beyond(e, cursor[e.user])}

\* ORDER BY id [DESC] LIMIT n.
FirstPage(S, n) ==
    IF Reverse THEN {e \in S : Cardinality({f \in S : f.id >= e.id}) <= n}
               ELSE FirstN(S, n)

\* batch_limit and effective_list_limit.
PageSize ==
    LET n == IF Limit = None THEN PageLimit ELSE Limit - Len(out)
    IN  IF n < MaxPageLimit THEN n ELSE MaxPageLimit

\* StreamCursor::advance.
Advance(e) ==
    cursor' = [u \in StreamUsers |-> IF PerUser /\ u # e.user THEN cursor[u] ELSE e.id]

\* Mutant: a user without a cursor has nothing to tail.
MutAcceptsOnlyKnown(e) ==
    Matches(e) /\ (cursor[e.user] = None => FALSE) /\ e.id > cursor[e.user]

\* StreamCursor::accepts_live.
AcceptsLive(e) ==
    /\ Matches(e)
    /\ cursor[e.user] # None => e.id > cursor[e.user]

\* The channel has dropped the message at pos.
Lagging == pos + Capacity <= Len(sent)

Close(reason) == spc' = "closed" /\ why' = reason

\* Yield the event; close at the limit.
Send(e, next) ==
    /\ Advance(e)
    /\ out' = Append(out, e)
    /\ IF Limit # None /\ Len(out) + 1 >= Limit
          THEN Close("limit")
          ELSE spc' = next /\ UNCHANGED why

-----------------------------------------------------------------------------
(* stream_events *)

\* Subscribe before the first query.
Open ==
    /\ spc = "opening" /\ started
    /\ pos' = Len(sent) + 1
    /\ atOpen' = table
    /\ spc' = "drain"
    /\ UNCHANGED <<query, start, cursor, page, out, why, failed>>

\* guard.is_valid, before a page and before each event, and next_check.
GuardFails ==
    /\ spc \in {"drain", "replay", "tail"}
    /\ Close("guard")
    /\ UNCHANGED <<query, start, cursor, pos, page, out, failed, atOpen>>

\* while rx.try_recv().is_ok() {}: a lagged receiver moves to the oldest
\* message and the loop ends.
Drain ==
    /\ spc = "drain"
    /\ pos' = IF Lagging THEN Len(sent) - Capacity + 1 ELSE Len(sent) + 1
    /\ spc' = "fetch"
    /\ UNCHANGED <<query, start, cursor, page, out, why, failed, atOpen>>

\* An empty page means caught up.
Fetch ==
    /\ spc = "fetch"
    /\ page' = FirstPage(History, PageSize)
    /\ \/ /\ page' # {}
          /\ spc' = "replay"
          /\ UNCHANGED why
       \/ /\ page' = {} /\ Live
          /\ spc' = "tail"
          /\ UNCHANGED why
       \/ /\ page' = {} /\ ~Live
          /\ Close("caughtup")
    /\ UNCHANGED <<query, start, cursor, pos, out, failed, atOpen>>

\* A failed query leaves the replay: a live stream goes on with the tail.
FetchFails ==
    /\ spc = "fetch"
    /\ failed' = TRUE
    /\ IF Live THEN spc' = "tail" /\ UNCHANGED why ELSE Close("dberror")
    /\ UNCHANGED <<query, start, cursor, pos, page, out, atOpen>>

Replay ==
    /\ spc = "replay"
    /\ \E e \in page :
          /\ \A f \in page : IF Reverse THEN f.id <= e.id ELSE e.id <= f.id
          /\ page' = page \ {e}
          /\ Send(e, IF page = {e} THEN "drain" ELSE "replay")
    /\ UNCHANGED <<query, start, pos, failed, atOpen>>

Receive ==
    /\ spc = "tail"
    /\ pos <= Len(sent) /\ ~Lagging
    /\ pos' = pos + 1
    /\ \/ /\ AcceptsLive(sent[pos])
          /\ Send(sent[pos], "tail")
       \/ /\ ~AcceptsLive(sent[pos])
          /\ UNCHANGED <<spc, cursor, out, why>>
    /\ UNCHANGED <<query, start, page, failed, atOpen>>

\* Mutant: a lagged receiver goes on with the oldest message there is.
MutSlowClient ==
    /\ spc = "tail"
    /\ Lagging
    /\ pos' = Len(sent) - Capacity + 1
    /\ UNCHANGED <<query, spc, start, cursor, page, out, why, failed, atOpen>>

\* RecvError::Lagged.
SlowClient ==
    /\ spc = "tail"
    /\ Lagging
    /\ Close("lagged")
    /\ UNCHANGED <<query, start, cursor, pos, page, out, failed, atOpen>>

-----------------------------------------------------------------------------
(* Specification *)

StreamStep ==
    \/ Open \/ GuardFails \/ Drain \/ Fetch \/ FetchFails \/ Replay
    \/ Receive \/ SlowClient

Next ==
    \/ FeedNext /\ UNCHANGED streamVars
    \/ StreamStep /\ UNCHANGED feedVars

Spec == Init /\ [][Next]_vars

\* A client that reads: its stream takes what the channel has for it.
FairSpec ==
    /\ Spec
    /\ WF_vars(BroadcastNext /\ UNCHANGED streamVars)
    /\ WF_vars((Receive \/ SlowClient) /\ UNCHANGED feedVars)

-----------------------------------------------------------------------------
(* Properties *)

Delivered(e) == \E i \in DOMAIN out : out[i] = e

\* The events of the stream between where it resumed and where it has got to; in
\* reverse mode, those it could know of when it was opened.
Passed ==
    {e \in table : /\ Matches(e)
                   /\ Reverse => e \in atOpen
                   /\ Beyond(e, start[e.user])
                   /\ cursor[e.user] # None /\ ~Beyond(e, cursor[e.user])}

(***************************************************************************)
(* A client that resumes from the last cursor it got misses nothing: every *)
(* event of the stream between the cursor it came with and the one it has  *)
(* now was sent, whether it came from the history, from the channel or was *)
(* committed while one gave way to the other ("Drain buffered events; this *)
(* or a later query covers them", stream.rs).                              *)
(***************************************************************************)
StreamHasNoGaps == \A e \in Passed : Delivered(e)

(***************************************************************************)
(* The only gaps are those of a live stream one of whose history queries   *)
(* failed.                                                                 *)
(***************************************************************************)
GapNeedsFailedQuery == failed \/ StreamHasNoGaps

(***************************************************************************)
(* Each event once and in order, over all users of the stream: oldest      *)
(* first, where the live tail neither repeats nor overtakes the replay     *)
(* (StreamCursor), and newest first in reverse mode (Mode::Reverse).  In   *)
(* reverse mode with cursors of each user, an event committed during the   *)
(* replay may come late: a user none of whose events were sent has no      *)
(* bound yet (get_by_user_cursors).                                        *)
(***************************************************************************)
DeliveredInOrder ==
    \A i, j \in DOMAIN out : i < j =>
       IF ~Reverse THEN out[i].id < out[j].id
                   ELSE PerUser \/ out[i].id > out[j].id

(***************************************************************************)
(* A stream that says it has caught up, or that has gone live, has sent    *)
(* every event that was committed when it was opened, page limits, other   *)
(* users' cursors and concurrent commits notwithstanding.                  *)
(***************************************************************************)
CaughtUpIsComplete ==
    why = "caughtup" \/ (spc = "tail" /\ ~failed) =>
       \A e \in atOpen : Matches(e) /\ Beyond(e, start[e.user]) => Delivered(e)

(***************************************************************************)
(* An event committed while a live stream is open reaches the client or    *)
(* the stream closes: a client is never left open and silent.              *)
(***************************************************************************)
EventReachesStream ==
    \A id \in 1..MaxId :
       (/\ spc = "tail" /\ ~failed
        /\ \E e \in table \ atOpen : e.id = id /\ Matches(e) /\ Beyond(e, start[e.user]))
          ~> (spc = "closed" \/ \E e \in table : e.id = id /\ Delivered(e))

(***************************************************************************)
(* A stream delivers in order, without a gap, and all there is.            *)
(***************************************************************************)
StreamDelivers == TypeOK /\ GapNeedsFailedQuery /\ DeliveredInOrder /\ CaughtUpIsComplete
=============================================================================
