--------------------------- MODULE EventBroadcast ---------------------------
(***************************************************************************)
(* How committed events reach the subscribers of one homeserver instance.  *)
(*                                                                         *)
(* Transactions of any instance insert events under an advisory lock, and  *)
(* send a NOTIFY after the commit, best effort.  PgEventListener turns     *)
(* NOTIFYs into wake-ups of a poll loop, which reads the events table from *)
(* its last broadcast id in batches and sends them to the broadcast        *)
(* channel.  Each writer inserts one event.                                *)
(***************************************************************************)
EXTENDS EventOrder, Sequences

CONSTANTS
    Writers,       \* the transactions that insert an event
    BatchSize,     \* PgEventListener::BATCH_SIZE
    MaxBatches     \* PgEventListener::MAX_BATCHES_PER_WAKE

ASSUME BroadcastAssumption ==
    /\ BatchSize \in Nat \ {0}
    /\ MaxBatches \in Nat \ {0}

VARIABLES
    table,      \* the committed events
    lastId,     \* the last id the table's sequence gave out
    wpc,        \* the step of each writer
    row,        \* the event each writer inserts, id 0 before the insert
    listening,  \* run_listener has a connection that LISTENs
    notified,   \* a NOTIFY is on its way to that connection
    wake,       \* the permit of `wake: Notify`
    ppc,        \* the step of poll_loop
    batches,    \* batches left in this wake cycle
    batch,      \* the rest of the batch being broadcast
    full,       \* is_full_batch
    startId,    \* last_broadcast_id at start
    lastBroadcast,
    sent        \* everything sent to the broadcast channel

writerVars == <<table, lastId, wpc, row>>
listenVars == <<listening, notified>>
pollVars == <<ppc, batches, batch, full, startId, lastBroadcast, sent>>
feedVars == <<table, lastId, wpc, row, listening, notified, wake, ppc, batches,
              batch, full, startId, lastBroadcast, sent>>

\* A writer's row, with id 0 until it is inserted.
Rows == [id : 0..MaxId, user : Users, path : EventPaths]

FeedTypeOK ==
    /\ table \in SUBSET Events /\ IsFiniteSet(table)
    /\ lastId \in 0..MaxId
    /\ wpc \in [Writers -> {"idle", "locked", "inserted", "committed", "done"}]
    /\ row \in [Writers -> Rows]
    /\ listening \in BOOLEAN /\ notified \in BOOLEAN /\ wake \in BOOLEAN
    /\ ppc \in {"start", "wait", "query", "send"}
    /\ batches \in Nat
    /\ batch \in SUBSET Events
    /\ full \in BOOLEAN
    /\ startId \in Nat
    /\ lastBroadcast \in Nat
    /\ sent \in Seq(Events)

FeedInit ==
    /\ table = {}
    /\ lastId = 0
    /\ wpc = [w \in Writers |-> "idle"]
    /\ row \in [Writers -> [id : {0}, user : Users, path : EventPaths]]
    /\ listening = FALSE
    /\ notified = FALSE
    /\ wake = FALSE
    /\ ppc = "start"
    /\ batches = 0
    /\ batch = {}
    /\ full = FALSE
    /\ startId = 0
    /\ lastBroadcast = 0
    /\ sent = <<>>

-----------------------------------------------------------------------------
(* Helpers *)

\* Mutant: no advisory lock.
MutInsertLockFree == TRUE

\* pg_advisory_xact_lock(EVENT_INSERT_LOCK_ID) is free: no transaction that
\* took it is still open.
InsertLockFree == \A w \in Writers : wpc[w] \notin {"locked", "inserted"}

-----------------------------------------------------------------------------
(* Writers: EventRepository::create within a transaction *)

LockInserts(w) ==
    /\ wpc[w] = "idle"
    /\ InsertLockFree
    /\ wpc' = [wpc EXCEPT ![w] = "locked"]
    /\ UNCHANGED <<table, lastId, row, listenVars, wake, pollVars>>

\* The INSERT takes the next id of the sequence, for good.
InsertEvent(w) ==
    /\ wpc[w] = "locked"
    /\ lastId < MaxId
    /\ lastId' = lastId + 1
    /\ row' = [row EXCEPT ![w].id = lastId + 1]
    /\ wpc' = [wpc EXCEPT ![w] = "inserted"]
    /\ UNCHANGED <<table, listenVars, wake, pollVars>>

CommitEvent(w) ==
    /\ wpc[w] = "inserted"
    /\ table' = table \cup {row[w]}
    /\ wpc' = [wpc EXCEPT ![w] = "committed"]
    /\ UNCHANGED <<lastId, row, listenVars, wake, pollVars>>

RollbackEvent(w) ==
    /\ wpc[w] \in {"locked", "inserted"}
    /\ wpc' = [wpc EXCEPT ![w] = "done"]
    /\ UNCHANGED <<table, lastId, row, listenVars, wake, pollVars>>

\* notify_event, after the commit: lost if it fails, if the writer dies first
\* or if nobody LISTENs.
NotifyEvent(w) ==
    /\ wpc[w] = "committed"
    /\ wpc' = [wpc EXCEPT ![w] = "done"]
    /\ notified' \in {notified, notified \/ listening}
    /\ UNCHANGED <<table, lastId, row, listening, wake, pollVars>>

-----------------------------------------------------------------------------
(* PgEventListener *)

\* start_with_poll_interval: begin after the events that are there.
StartListener ==
    /\ ppc = "start"
    /\ IsMaxId(startId', table)
    /\ lastBroadcast' = startId'
    /\ ppc' = "wait"
    /\ UNCHANGED <<writerVars, listenVars, wake, batches, batch, full, sent>>

\* run_listener: a new connection LISTENs, and wakes the poll loop.
Listen ==
    /\ ppc # "start" /\ ~listening
    /\ listening' = TRUE
    /\ wake' = TRUE
    /\ UNCHANGED <<writerVars, notified, pollVars>>

ReceiveNotify ==
    /\ notified
    /\ notified' = FALSE
    /\ wake' = TRUE
    /\ UNCHANGED <<writerVars, listening, pollVars>>

\* listen_loop: the connection is lost, or could not be made.
ListenFails ==
    /\ ppc # "start"
    /\ listening' = FALSE
    /\ notified' = FALSE
    /\ wake' = TRUE
    /\ UNCHANGED <<writerVars, pollVars>>

\* Mutant: the loop waits for a wake-up only.
MutFallbackDue == FALSE

\* timeout(fallback_poll_interval, wake.notified()): without a permit.
FallbackDue == ~wake

WakeUp ==
    /\ ppc = "wait"
    /\ wake \/ FallbackDue
    /\ wake' = FALSE
    /\ ppc' = "query"
    /\ batches' = MaxBatches
    /\ UNCHANGED <<writerVars, listenVars, batch, full, startId, lastBroadcast, sent>>

\* broadcast_new_events: one batch after the last broadcast id.
QueryBatch ==
    /\ ppc = "query"
    /\ batch' = FirstN(After(table, lastBroadcast), BatchSize)
    /\ full' = (Cardinality(batch') = BatchSize)
    /\ ppc' = IF batch' = {} THEN "wait" ELSE "send"
    /\ UNCHANGED <<writerVars, listenVars, wake, batches, startId, lastBroadcast, sent>>

QueryFails ==
    /\ ppc = "query"
    /\ ppc' = "wait"
    /\ UNCHANGED <<writerVars, listenVars, wake, batches, batch, full, startId,
                   lastBroadcast, sent>>

\* broadcast_event, and *last_broadcast_id = event.id.
Broadcast(e) ==
    /\ sent' = Append(sent, e)
    /\ lastBroadcast' = e.id
    /\ batch' = batch \ {e}

\* The for loop over MAX_BATCHES_PER_WAKE has no batch left after this one.
LastOfCycle == batches = 1

\* The last event of a batch ends the cycle, unless the batch was full; at the
\* batch cap the loop wakes itself.
BroadcastNext ==
    /\ ppc = "send"
    /\ \E e \in batch : IsNext(e, batch) /\ Broadcast(e)
    /\ \/ /\ batch' # {}
          /\ UNCHANGED <<ppc, batches, wake>>
       \/ /\ batch' = {} /\ ~full
          /\ ppc' = "wait"
          /\ UNCHANGED <<batches, wake>>
       \/ /\ batch' = {} /\ full
          /\ batches' = batches - 1
          /\ ppc' = IF LastOfCycle THEN "wait" ELSE "query"
          /\ wake' = (wake \/ LastOfCycle)
    /\ UNCHANGED <<writerVars, listenVars, full, startId>>

-----------------------------------------------------------------------------
(* Specification *)

WriterStep(w) ==
    \/ LockInserts(w) \/ InsertEvent(w) \/ CommitEvent(w) \/ RollbackEvent(w)
    \/ NotifyEvent(w)

FeedNext ==
    \/ \E w \in Writers : WriterStep(w)
    \/ StartListener \/ Listen \/ ReceiveNotify \/ ListenFails
    \/ WakeUp \/ QueryBatch \/ QueryFails \/ BroadcastNext

FeedSpec == FeedInit /\ [][FeedNext]_feedVars

\* The poll loop is never stuck, and the database does not fail it for ever.
\* Nothing is assumed of NOTIFY or of the LISTEN connection.
PollFairness ==
    /\ WF_feedVars(WakeUp)
    /\ SF_feedVars(QueryBatch)
    /\ WF_feedVars(BroadcastNext)

FairFeedSpec == FeedSpec /\ PollFairness

-----------------------------------------------------------------------------
(* Properties *)

\* Ids become visible in order: what is not committed yet will come after
\* everything that is.
IdsCommitInOrder ==
    /\ \A e \in table : e.id <= lastId
    /\ \A e, f \in table : e.id = f.id => e = f
    /\ \A w \in Writers : wpc[w] = "inserted" =>
          /\ 0 < row[w].id /\ row[w].id <= lastId
          /\ \A e \in table : e.id < row[w].id
    /\ \A v, w \in Writers : {wpc[v], wpc[w]} \subseteq {"locked", "inserted"} => v = w

\* The batch is the next stretch of the table.
BatchIsNext ==
    /\ \A e \in batch : e \in table /\ e.id > lastBroadcast
    /\ \A e \in batch, f \in table :
          f.id > lastBroadcast /\ f.id < e.id => f \in batch

\* A wake cycle that is on has a batch left; none is on before the start.
CycleIsOn ==
    /\ ppc \in {"query", "send"} => batches > 0
    /\ ppc = "start" => batch = {} /\ sent = <<>>

\* The last broadcast id is one that was visible.
PositionVisible ==
    /\ startId <= lastBroadcast
    /\ lastBroadcast <= lastId
    /\ \A w \in Writers : wpc[w] = "inserted" => lastBroadcast < row[w].id

(***************************************************************************)
(* "This design guarantees sequential delivery with no gaps"               *)
(* (pg_event_listener.rs): the channel has carried exactly the events with *)
(* ids between the start and the last broadcast id, each once and in the   *)
(* order of their ids, however many transactions were writing.             *)
(***************************************************************************)
BroadcastHasNoGaps ==
    /\ \A e \in table : startId < e.id /\ e.id <= lastBroadcast
          => \E i \in DOMAIN sent : sent[i] = e
    /\ \A i \in DOMAIN sent : /\ sent[i] \in table
                              /\ startId < sent[i].id
                              /\ sent[i].id <= lastBroadcast
    /\ \A i, j \in DOMAIN sent : i < j => sent[i].id < sent[j].id

(***************************************************************************)
(* Why: the advisory lock makes ids visible in order, so a batch is a      *)
(* stretch of the table that nothing can be inserted into later.           *)
(***************************************************************************)
BroadcastInv ==
    /\ IdsCommitInOrder
    /\ BatchIsNext
    /\ CycleIsOn
    /\ PositionVisible
    /\ BroadcastHasNoGaps

(***************************************************************************)
(* notify_event: a missed NOTIFY "never causes missed events".  Every      *)
(* committed event the listener did not find at its start is broadcast,    *)
(* whatever happens to NOTIFYs and to the LISTEN connection.               *)
(***************************************************************************)
EveryEventBroadcast ==
    \A w \in Writers :
       (wpc[w] = "committed" /\ ppc # "start")
          ~> (row[w].id <= startId \/ \E i \in DOMAIN sent : sent[i] = row[w])

-----------------------------------------------------------------------------
(* Refinement *)

Feed == INSTANCE EventFeed WITH started <- ppc # "start"

(***************************************************************************)
(* The writers and the listener implement EventFeed: a batch read earlier  *)
(* and broadcast event by event still broadcasts, at each step, the next   *)
(* event of the table as it is by then.                                    *)
(***************************************************************************)
ImplementsFeed == Feed!FeedSpec

(***************************************************************************)
(* With the poll loop's fairness they also broadcast every event, lost     *)
(* NOTIFYs, listener reconnections and failed queries notwithstanding.     *)
(***************************************************************************)
ImplementsFairFeed == Feed!FairFeedSpec

=============================================================================
