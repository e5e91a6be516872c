# TLA+ models of the Pubky homeserver and its SDK

This directory holds TLA+ specifications of `pubky-homeserver`, of the SDK that talks to
it (`pubky-sdk`, with its JavaScript bindings) and of what both share (`pubky-common`).
They cover the parts in which several actors change the same state: a file change that
spans a database and an object store, the event log and its readers, authentication and
revocation, locks, quotas, limits, startup, and on the client side sessions shared by
browser tabs, authorization flows over a relay, caches and cursors. TLC checks each
specification on small instances; TLAPS proves the central invariants for every instance.

Paths below are relative to the repository; `hs/` stands for `pubky-homeserver/src/` and
`sdk/` for `pubky-sdk/src/`. `PROJECT.json` maps every definition to the lines it models.

## 1. Inventory

A homeserver stores the public and private files of its users. Clients talk to it over
HTTP; state lives in PostgreSQL and in a blob backend (the local file system, memory, or
Google Cloud Storage through OpenDAL). Several processes may share one database, so a
`Mutex` protects nothing across instances: what orders requests is row locks, an advisory
lock, unique indexes, and `NOTIFY`.

| Component | State | Operations | Hard behaviour | What makes it correct |
|---|---|---|---|---|
| File finalization (`hs/persistence/files/`) | `entries` rows, `users.used_bytes`, events; blobs and their generations | PUT, DELETE, admin writes | the backend cannot join the transaction; a store request may execute after it was given up on; a transaction may die unnoticed; the client may leave | a row never loses its blob; a stale request never lands on a newer file; used bytes are exact; quota and collisions hold at commit; events replay to the entries |
| Path locks (`hs/persistence/sql/entities/entry_lock.rs`, `hs/client_server/routes/tenants/lock.rs`) | `entry_locks` rows with an expiry | LOCK, refresh, UNLOCK, sweep, keep-alive, hold | expiry during an upload; statements that wait for a held row with an old clock; keep-alives that fail | a finalization commits under the lock it checked; a promised lifetime is kept; an abandoned lock ends |
| Event log and broadcaster (`hs/persistence/sql/pg_event_listener.rs`, `entities/events/`) | `events` table, its sequence, the broadcast channel | append inside a transaction, `NOTIFY`, `LISTEN`, poll in batches | sequence values are taken before they are visible; lost notifications; failing queries | every event once, in order, no gaps, eventually |
| Event streams (`hs/services/events_service/`) | parsed query, cursors, a receiver | parse, look up users, history replay, live tail, reverse, limits, pages of the old feed | handover from the table to the channel; a channel that overruns a slow client | served as asked; resuming from the last cursor misses nothing; no stream stays open and silent |
| Grant authentication (`hs/client_server/auth/grant/`) | `grants`, `grant_sessions`, `pop_nonces` | exchange, signup, use, signout, revoke | check and use are separate statements; exchange races revocation; grant ids are chosen by clients | a revoked grant has no session; one bearer per grant; a proof is used once but for the edges of its window |
| Revocation of open streams (`hs/client_server/auth/revocation/`, `stream_auth.rs`) | listener actor, its channel, receivers | subscribe, validate, forward, restart | lost connections, overruns, subscription racing revocation | a revoked stream closes; others do not |
| Signup and codes (`hs/client_server/auth/signup_service.rs`) | `users`, `signup_codes` | signup, generate | two signups with one code or one key | a code makes one user |
| Quota cache (`hs/services/user_service/`) | cached entries with TTLs | resolve, patch, signup | a read inserted after the eviction that should have removed it; a patch dropped in its commit | what an answered patch changed is used, or its change raced a read; bounded staleness |
| Cookie authentication (`hs/client_server/auth/cookie/`, `sdk/actors/auth/cookie/`) | session rows, replay guard, browser jar | signin, use, signout, restart | the guard is in memory; the jar is shared; a failed lookup counts as no session | a token opens one session; a signout ends it unless its lookup failed |
| Authorization, paths, websites (`hs/client_server/`, `pubky-common/src/{storage_path,capabilities}.rs`) | none | name the tenant, normalise, authorize, cache headers, website pages | several readers of one path; encodings, dot segments | what is touched is what was authorized; nothing private is cached for all |
| Reading and listing (`hs/client_server/routes/tenants/read.rs`) | rows and blobs | GET, conditional GET, HEAD, LIST by pages | row and blob are read in two steps; files come and go between pages | a body is whole; a listing is complete |
| Quotas and rate limiters (`hs/shared/quota/`, `hs/client_server/middleware/rate_limiter/`) | limiter pool, counters, quota rows | patch, take a cell, cleanup, count a request | cleanup drops a limiter in use; units and widths | no more than the rate; what is reported is enforced |
| Republishers and homeserver record (`hs/republishers/`, `sdk/actors/pkdns.rs`) | DHT packets, caches, a queue of keys | publish, resolve, retry, run over all keys | no compare-and-swap; partial publication; stale caches | a move is not undone by those who know of it; no key is left out |
| Storage repair, migrations, start (`gcs_name_repair.rs`, `migrator.rs`, `homeserver_app.rs`) | objects, rows, migrations table, schema | repair, migrate, start, stop | crash at any step; two at once; an older version still writing | nothing is lost; a server only serves a schema it knows |
| Admin server (`hs/admin_server/`) | accounts, codes | disable, patch, generate, list | read-modify-write of rows; pages over changing rows | no change is lost; a listing is exact |
| SDK grant session, browser store (`sdk/actors/auth/grant/credential.rs`, `bindings/js/src/actors/session_store.rs`) | bearer, shared record, leases | send, refresh, save, restore, sign out | refresh replaces everyone's bearer; tabs close | leases protect requests; logout is final; no call is stuck |
| SDK authorization flow (`sdk/actors/auth/`) | request, listener, relay box | start, resume, post, poll, acknowledge | lost acknowledgements, foreign messages, resumed flows, answers of a link channel that are lost | the approval answers the request, and is not lost on the inbox channel |
| SDK event stream (`sdk/actors/event_stream.rs`, `hs/services/events_service/stream.rs`) | cursor, connection | subscribe, send, decode, resume | broken blocks; a user that moves; a history page that cannot be read | a resumed reader misses nothing but what a stream skipped after such a page |
| SDK transport, responses (`sdk/client/`, `sdk/util.rs`, `sdk/errors.rs`) | feature and transport caches; partial bodies | address, fetch, read, report | stale caches; bodies that stop | requests go where they are understood; failures keep their status |
| SDK storage (`sdk/actors/storage/`) | lock handles | put, get, list, lock | several layers of percent-encoding | a listed file is reached; a locked write is under its lock |
| Deep links; grant material (`sdk/actors/auth/deep_links/`, `pubky-common/src/encryption_keys.rs`, `sdk/custom_pop/`) | links; keys and proofs | build, extend, parse; derive, save, prove | appended parameters; clocks of three parties; overlapping scopes | a link keeps its meaning; a file has one key; a proof convinces |

How they interact:

* A PUT or DELETE is authorized on its normalised path, passes the lock check, uploads
  under a keep-alive, and is finalized by a spawned task. The task opens a transaction,
  takes the user row, holds the lock row, publishes to the backend and commits the entry,
  `used_bytes` and the event.
* The event of that transaction becomes visible at its commit. The poll loop of every
  instance reads it and sends it to the broadcast channel, from which live streams read.
* A private stream also has a receiver of revocations. Revoking a grant or a session
  commits with a `NOTIFY` that the listener actor forwards to that receiver.
* Storage limits come from the user row through the quota cache; signup writes that row
  and refreshes the cache.
* The SDK finds a homeserver through the record in the DHT, decides how to address it from
  what it advertises, and attaches a bearer or a cookie that other tabs may share.

## 2. Modules and what they stand for

| Module | Stands for |
|---|---|
| `FileFinalization` | one owner's PUTs and DELETEs, from the lock check to the reply |
| `EntryLocks`, `QuotaCache` | the lock row of one path, the cached quota of one user, on their clocks |
| `EventOrder`, `EventFeed` | what it means to be next; the abstract feed: a table that grows in id order and a channel that carries it |
| `EventBroadcast` | the writers' advisory lock and sequence, `NOTIFY`/`LISTEN`, `PgEventListener`'s poll loop; implements `EventFeed` |
| `EventStream`, `EventRequests` | one stream (EXTENDS `EventFeed`); from query parameters to a subscription or a page |
| `GrantAuth`, `GrantChecks` | every statement of an exchange, a bearer request, a signout, a revocation; what is verified of any grant and proof |
| `StreamRevocation`, `Signup` | listener actors and receivers; the signup transaction |
| `StoragePaths`, `Access` | paths and capabilities as pure operators; from a request to the file it may touch |
| `TenantFiles`, `Listing` | reads beside writes of one file; pages of a directory |
| `RateLimits`, `Accounts` | bandwidth, request counts, and rows as the administrator changes and lists them |
| `NameRepair`, `Startup` | repair of misnamed objects; migrations and start |
| `HomeserverRecord` | the `_pubky` record in the DHT; the homeserver's run over all keys |
| `SharedSession`, `AuthFlow`, `CookieSessions` | the SDK's credentials and flows |
| `EventReader`, `Transport`, `Responses`, `SdkStorage`, `GrantMaterial`, `DeepLinks` | the rest of the SDK, one module per component |
| `Values` | two values that are no other: `None` and `Failed` |
| `*Proofs`, `SumTheorems` | theorems about the modules they extend; sums over finite sets |
| `MC*` | instances for TLC: model values, scenarios, symmetry |

Conventions. A step of a model is what the code does between two points where it gives up
control: an `await` on the database, the store, the network or a channel. `pc` (`rvPc`,
`lsPc`, ...) says which of these points an actor is at. Row locks are not variables: a row
is locked by whoever is between the statement that took it and the end of its transaction
(`LockRowHeld`, `UserRowFree`, `GrantRowFree`, `CodeRowFree`), and a statement that must
wait is not enabled. Under READ COMMITTED it then looks at the row again, so guard and
effect belong to one step. Content is named after the request that produced it, a bearer
after the call that minted it, a client after its lock token. Variables of a component
have its prefix, so that several components can be extended by one module. A definition
with a comment that begins "Mutant:" or "Fault:" is an altered form of the one below it; it is not
part of any specification and shows that a property can fail.

**FileFinalization.** `CheckLock`, `Upload`, `CheckExists` and `Disconnect` are the HTTP
part, `TakeUserRow` to `CommitWrite` a PUT's finalization, `StageDelete`, `CommitDelete`,
`RecheckRow` and the removal a DELETE's. `ReadGeneration` stats the object under the row
lock; `ProveAlive` is the statement that shows the transaction still has the row;
`SendToStore`, `Execute`, `NeverExecutes`, `ReceiveAnswer` and `GiveUp` split the
publication into what the homeserver does and what the store does, possibly after nobody
waits any more. `TransactionDies` may happen at any moment and is noticed only by the next
statement; `Crash` ends the process while its request is still at the store. `Staged`
chooses between the conditional publication of `StagedPublishLayer` and the local
backends, which publish at once.

**EventBroadcast, EventFeed, EventStream.** A writer takes the advisory lock, then an id
from the sequence (which a rollback does not give back), then commits; its `NOTIFY` may be
lost. The poll loop wakes up on a notification or its fallback timer, reads a batch above
`last_broadcast`, sends it one event at a time, and pauses after `MaxBatches` batches. The
refinement maps `started` to `ppc # "start"`; the other variables are the same. A stream
sees the feed through `EventFeed` alone, which the refinement justifies.

**GrantAuth, GrantChecks.** `GrantAuth` interleaves the statements of valid requests;
`GrantChecks` makes a request one step and lets its tokens be anybody's, with times at the
ends of the clock and of the columns that hold them. `clock[c]` is the second a call read
before it awaited something. Both collect old nonces before they track a new one, as
`check_nonce_replay` does. `GrantAuth` counts half seconds, since the age of a nonce row is
exact while freshness is counted in whole seconds; `GrantChecks` counts seconds, and a row
as old as the threshold may or may not be collected.

**StreamRevocation, EntryLocks, QuotaCache, Signup.** Actors of the listener are numbered,
each with its own channel. `EntryLocks` has the `STATEMENT_TIMESTAMP` of a statement that
waits for the row; its `LkTick` cannot overtake a timer or a statement that is not
blocked, so a delay is always one the code causes itself. The quota row is a version
number; a patch whose client goes away during its COMMIT changes the row and evicts nothing
(`Abandon`). Signup's actions are the statements of its transaction; a failure is any of them
failing, or a client that goes away.

**SharedSession.** A job is one call of the SDK in one tab; its `pc` walks through lease,
record, mutex, exchange and request. Bearers age by phase instead of by seconds. Closing a
tab releases its leases and leaves its exchange on the way to the homeserver.

**AuthFlow, CookieSessions.** The relay keeps one message per channel; polls time out,
acknowledgements are lost, and signers of other versions post other formats. A link
channel hands its message over with the answer, so an answer that is lost loses it
(`LinkPollLost`). A token of the cookie kind has a timestamp; the homeserver's guard forgets
it when collected or when the process restarts. A cookie whose lookup fails at the database
is no session, and the request goes on without one.

**EventReader, Transport, Responses.** `EventReader` has the reader and the homeserver's
side of its stream: history, live tail, path filters, and a page that cannot be read
(`HistoryFails`), after which a live stream goes on with what is broadcast next. In
`Transport` a question for `/info` resolves and caches the homeserver's transport as any
request does; the answer counts from its arrival, the time of flight (at most
`INFO_TIMEOUT`) is not counted. `Responses` has requests that are answered, cut off, fail on
the way, or cannot be prepared at all.

**HomeserverRecord.** A packet is a timestamp and a host; a call reaches
some of the nodes. Workers of a run share a queue.

**Access, StoragePaths, SdkStorage, DeepLinks.** Text is a sequence of segments, a name
with the number of times it has been percent-encoded, or a sequence of query pairs: what
parsing and encoding do to them is kept, the characters are not. A path is decoded as a
whole, so a segment with an encoded slash decodes to several. A signer that hands a link on
keeps its callbacks or replaces all of them (`WithXCallback`).

**NameRepair, Startup.** Every run of the repair and every start may be cut at any step.
The initial states of a repair include the conflict that `gcs_name_repair.rs:17-22`
describes, an object of other content at the path of an entry whose own is misnamed.
Startup's migrations are those that change rows or that a version's queries depend on.

## 3. Runs

Every run finishes within five minutes with two workers. Bounds are constants of a cfg or
operators of an `MC` module; none is built into a specification. Runs of several
components (`endings`, `clocks`, `sdk`, `server`) choose a `part` in the initial state:
that component runs, the others stay in one initial state, so the states of the run are
those of its components side by side and not their product.

| Run | Instance | Checks |
|---|---|---|
| `finalization_store` | 3 requests on one path, any mix of PUT and DELETE, each with either of 2 lock tokens or none; object store | `RowHasBlob`, `DivergenceNeedsFailure`, `StoreChangesOnlyPreparedFile`, `CommittedRowHasItsBlob`, `CommitUnderItsLock` |
| `finalization_account` | 3 requests on two paths that collide, an administrator among them, quota switched between none and 5; local backend | `AccountAgrees`, `CommitRespectsLimits` |
| `endings` | fairness; 2 requests on an object store; 3 writers, 4 ids, batches of 2; 3 signups, 2 keys, 2 codes | `FinalizationEnds`, `ImplementsFeed`, `ImplementsFairFeed`, `SignupsSound`, `SignupEnds` |
| `stream_modes` | 3 events of 2 users, one path filtered out; live, forward and reverse queries, global and per-user cursors, limits; capacity 1; fairness | `StreamDelivers`, `EventReachesStream` |
| `grant_races` | 4 calls in three scenarios: exchanges racing revocations, users that share a grant id, one nonce used again and again | `SessionsSound`, `StaleBearerRefused`, `StepsAuthorized` |
| `revocation_closes` | 2 private streams, another credential, capacity 1, 2 listener actors, fairness | `StreamsSound`, `RevokedStreamCloses` |
| `clocks` | 2 clients and 1 write, or 1 client and 2 writes, lifetimes at both extremes; 2 resolvers, patches and a signup; 2 devices and 2 DHT nodes; 3 keys and 2 workers | `LocksSound`, `CachedQuotaSound`, `RecordsKeptUp` |
| `sdk` | 2 tabs and 3 calls; 2 flow handles; 3 cookie holders; 2 homeservers; ... | `LeasesProtect`, `CallsNeverStuck`, `FlowSound`, `CookieSessionsSound`, `ReaderSound`, `RequestsSound`, `StorageSound`, `MaterialSound`, `LinkSound` |
| `server` | paths of up to 4 segments with encoded and dot segments; 2 PUTs of a file; 5 files and pages of 1 to 3; 2 repairs; 2 homeservers and 3 older versions; ... | `AccessSound`, `ReadsSound`, `ListingComplete`, `LimitsHold`, `AccountsSound`, `StartSound`, `FeedRequestsSound`, `GrantChecksSound`, `RepairSound` |
| `stream_gap` | a live stream | `StreamHasNoGaps`, which does **not** hold (section 6) |
| `grant_signout` | 2 calls | `SignoutRevokes`, which does **not** hold (section 6) |
| `session_paths` | 2 clients, a name with a space | `PublicReadsWhatSessionStored`, which does **not** hold (section 6) |

Why these bounds are enough to be worth something:

* *Finalization.* Three requests is the least number with which a stale publication, the
  write that replaced its target and a delete that removes it can meet. Lock tokens are
  two so that a lock can be lost to somebody else. Two colliding paths and lengths 0 and 2
  with a metadata size of 2 put two files under a quota of 5 only if the accounting is
  wrong. The proofs of section 5 cover any number.
* *Events.* With three writers one id can be rolled back while another is waiting for the
  advisory lock and a third is visible; 4 ids and batches of 2 make a full batch, a short
  one and one left for the next cycle. Streams need several pages, and the receiver lags
  with three events.
* *Grants.* The clock bound depends on the scenario (`ClockBound`): nonces need six half
  seconds, the window and its garbage collection twice over, so that a proof of the first
  half second meets the collection of its nonce while it is still fresh.
* *Signups* are alike up to the names of keys and codes, so `EndInit` fixes what the first
  asks for.
* *Locks.* A horizon of 3 with an interval of 1 lets a keep-alive fail twice and the lock
  expire; `TwoClientsOrTwoWrites` cuts the product of both dimensions.
* *SharedSession.* Two calls in one tab contend for its mutex, a call in another for the
  leases; three exchanges let a bearer be replaced and its replacement too. One job may send
  or save, one send, refresh or sign out, one restore or remove (`SdkCallsOf`), so that a
  signout of a joined credential takes the exclusive lease, marks the pending logout, erases
  or restores it, beside a request that still has its shared lease.
* *Constraints* (`CONSTRAINT` in a cfg) cut a product of two dimensions where each is
  explored on its own: three bearers, or two and a stray exchange
  (`ThreeBearersOrStray`); two messages for one open flow, or one for two
  (`TwoMessagesOrFlows`); two devices that publish, or one and the homeserver
  (`TwoPublishers`); two repairers, or one and a writer, and three runs and
  writes in all (`TwoRepairersOrWriter`); two changes of accounts, or one during a listing, and
  codes while accounts stay (`TwoChangesOrListing`); two cookie calls at
  once (`TwoCallers`); one event of an unknown type or under a path not every query
  asks for, or a user that moves (`OneOddity`); two requests in transport of which one lets
  time pass, with one homeserver addressed by its key (`FirstRequestFirst`).
* *Transport.* The clock has one tick more than the lifetimes, so that a cache can be used
  too long; one homeserver has a domain only, the other is also reached directly.
* *SdkStorage.* `TwoRequestsOrLocks`: two requests of any kind, or three about a lock
  (lock, lose, use).
* *NameRepair.* Names 0 and 1 make the misnamed object of one entry the proper name of
  another, and every entry may start in place, misnamed, or misnamed with another object
  in its place; two repairers and two runs make a repair meet another and its own remains; two
  writes let one overwrite what a repair has put in place for the other.
* *Startup.* Versions 0, 5 and 10 are before, between and after the migrations that
  rewrite rows.

Symmetry is used in runs that check safety only, for sets the specification does not tell
apart. `CHECK_DEADLOCK FALSE` is set where requests are finite in number, so that a
behaviour may end.

Each property is also run against an altered definition listed in `PROJECT.json`
(a missing row lock, a stat without the round trip that follows it, a cursor moved too
far, a lease that is kept, ...), and TLC finds it violated.

## 4. Fairness

Safety properties use specifications in which any actor may stop for ever. Liveness needs:

* `FileFinalization!Fairness`: finalization runs in a spawned task, which a disconnecting
  client cannot cancel, and so takes its next step; on a local backend the call returns;
  on a remote one it is bounded by `BACKEND_IO_TIMEOUT` (`GiveUp`). Nothing is assumed
  about uploads, lock holders, or what the store does with a request it was sent.
* `EventBroadcast!PollFairness`: the loop wakes up (the fallback timer, weak fairness),
  sends what it has read (weak), and its query succeeds infinitely often if it is tried
  infinitely often (strong). Nothing is assumed of `NOTIFY` or `LISTEN`.
* `EventStream`: the feed broadcasts, and a client that reads gets what its receiver holds.
  A failed history query may still happen.
* `StreamRevocation`: a running actor forwards and notices a lost connection (the driver
  reports it), and streams are polled. The supervisor owes nobody a new actor.
* `Signup`: the database serves a statement that is not waiting for a row.

`CallsNeverStuck` needs none: it says that a call under way, or another one, can go on.

## 5. Proofs

`tlapm` checks eight modules. What is assumed of the constants are the `ASSUME`s of the
component modules, which TLC evaluates in the runs above. A proof has the same shape
everywhere: the type invariant, an inductive invariant whose conjuncts are named for what
they say, a step for each action, and the property as a consequence.

**FileFinalizationProofs.** `TypeCorrect`, for both kinds of backend. Then, for a
conditional store (`Staged = TRUE`), `PublicationInvariant` proves `PublishInv` inductive:
one transaction at a time has the user row (`OneRowHolder`), so the row it loaded stays
(`RowUnchanged`); a request is sent once and answered once (`SentOnce`), generations
only grow (`GenerationsBounded`). `PendingGuarded` carries the argument: a request that
is pending and whose generation is still the live one finds no entry row but the one it
was prepared against. It holds when the request becomes pending because `ProveAlive`
shows that the row lock outlived the stat, and it is kept since a row is committed
only after a publication, which made a newer generation (`PublishedStays`). From it
follow `RowNeverLosesBlob`, `StaleRequestsRefused` and `CommitMatchesBlob`. None of
`RowHasBlob` and its like is inductive: they say nothing of requests that are still at
the store.

`ChecksLast` (for both backends) proves `CheckedInv`: from the moment a finalization has
checked its path lock, its quota and its collisions under the row locks until it commits,
nobody else can change what it read (`OneRowHolder`, `LockStays`, `ChecksStay`). A
transaction may die in between; the invariant speaks only of live ones, and a commit
needs a live one. `LockedCommitHasItsLock` and `CommitsRespectLimits` follow.
`RowAndBlobAgree` proves `DivergenceNeedsFailure` over a conditional store from
`AccountedInv`: while no request on a path failed, its row describes its blob, or the PUT
that published the blob still has its commit before it, or a DELETE that removed the row
still has the blob before it; and a request the store may execute after it is over was
told that it failed (`ToldOnce`). `FeedReplaysToEntries` proves `ReplayInv`: the last committed
event of a path says what its row is. It needs no induction over the sequence, only that
a commit appends at the end, that a path with events has a last one, and that a deletion
which has been staged still sees its row (`RowToDelete`). `AccountsAgree` adds the other half
of the account: `used` is the sum of what the rows are charged for (`UsedInv`), since the
size a finalization is about to subtract is that of the row as it still is when it commits
(`EffectsStay`); it holds for both backends and for any lengths, failures and crashes.

The last section extends `EventBroadcast`. `BroadcastInvariant` proves `FeedTypeOK /\ BroadcastInv`: the
advisory lock makes ids visible in order (`IdsCommitInOrder`), so the batch is the next
stretch of the table, into which nothing can be inserted later (`BatchIsNext`), and the
position is one that was visible (`PositionVisible`). `NoGaps` is a conjunct;
`Implementation` shows each step to be a step of `EventFeed` or a stutter.

**SumTheorems.** Sums over a finite set, as `MapThenSumSet` defines them, without the
library's induction theorems, which take an operator: were there a set for which a lemma
fails, there would be a smallest one (`SmallestPart`, from the well-foundedness of strict
inclusion), and its parts satisfy the lemma. So a sum exists, does not depend on the order
in which members are chosen, and changes with a member or a weight as it should
(`SumFacts`, `SumOfChange`). `SmallestNumber` is the same for natural numbers.
`CanBeSorted` shows in that way that a finite set can be put in order, and
`FirstOnesOfSorted` what a page of such an order has: each of its members once, and
exactly those up to its last.

**StreamProofs.** `StreamsDeliver` is proved about `EventFeed`'s channel and one stream,
so that with `Implementation` it holds of the real broadcaster. In `StreamInv`, a cursor is
the client's own until an event moves it on (`CursorInv`); a page of the history is the
first of what is left of it (`PageInv`); what was not sent is beyond the cursors
(`GapInv`); what may still be sent comes after what was sent (`OrderInv`). `TailInv` is
the handover: after the replay every event still to be sent is ahead of the receiver in
the channel, or not in the channel yet. It holds because the receiver is taken before the
history is read and the replay ends on an empty page; without it `GapInv` would not
survive the first live event. First and last events of a set exist because the set is
finite: `SmallestDownset` derives that from the well-foundedness of strict inclusion,
which `FiniteSetTheorems` states without an operator parameter.

**GrantAuthProofs.** `TypeCorrect`; `TransactionsSerialize` (`RowLockInv`: two calls
never lock one `grants` row, and what a call read under it still holds at its commit),
from which `RevocationIsFinal` and `OneBearerAtATime` follow; `SessionsAreOfTheirGrant`
needs `MatchInv` besides: the stored grant an exchange has compared with its own no
longer changes. `StaleBearersRefused` rests on `StaleInv`: a bearer is minted once
(`MintedOnce`), a grant's session is the last one minted (`SessionIsLast`), and a bearer
that was replaced or revoked before a request began stays over (`StaleIsOver`), so that
reading session and grant in two statements loses nothing. `ProofsServeOnce`
proves `NonceInv`: a nonce that was accepted is in the table or is older than the age at
which it is collected, so calls with one nonce are accepted further apart than that
(`FarApart`). A proof is fresh for that age and one second, as freshness is counted in whole
seconds; hence it is accepted twice only in the first and the last second of its window.
`RevocationsAreTheirUsers` proves `UserInv`: the grant of a bearer is the stored one
(`BearerIsOfStored`), and a call about to revoke has found its target to be its user's
(`TargetIsItsUsers`). `StepsAreAuthorized` has both.

The last section extends `StreamRevocation`. `StreamsAreSound` proves `RvInv`: every
message tells of a committed revocation (`MessagesTrue`), only the running actor has
`NOTIFY`s on their way (`ListenerInv`), a receiver's position is one of its actor's channel
(`ReceiverInv`), and a response begins after the validation (`OpenedInv`). Hence a stream
that goes on after a revocation has the message ahead of it or has lost its listener, and
one that closes has a reason.

**ServerProofs.** `TypeCorrect` of `Signup`; `OneUserPerCode` and `OneAccountPerKey` rest
on `RowsReserved`: what a transaction saw of its code and key when it wrote them still
holds when it commits.

`NoChangeIsLost` (`Accounts`) proves `AdInv`: a change under way has the row lock, so no
other operation is on its row and what it is about to write is its change applied to the
row as it is now (`OpInv`). `AppliedIsWritten` is the other half: the columns that the
`UPDATE` of a kind writes are all that the change touched.
`AccountsAreSound` adds the listings. `ListInv`: of the rows that were there when a listing
began and stayed at their places, those up to where it has come were shown once and those
after it not at all (`ListedSoFar`). It survives the changes between two pages because a
row that moves is counted as moved, and a page because it is the first of the rows that
follow, in their order (`PageFacts`); it is claimed only while each cursor's row was still
at the place where the page before had ended, as a list by used bytes does not promise more.

`RepairIsSound` (`NameRepair`) proves `NrInv`, from any objects of any content at both
names of an entry, the documented conflict included. `StoreInv`: a PUT publishes before it
commits and a DELETE removes its row first, so an old entry whose object is gone was not
written by this version. `DeleteInv`: a run about to delete has the object in place, and
an entry that is by now at the name it deletes is younger than its question. `CoverInv`:
entries a run has passed no longer wait, or it noted a failure; with it
`MarkedMeansRepaired` is inductive. `PlacesInv` is why a delete takes no last copy: an
object keeps its content for as long as it keeps its generation, a run deletes the
generation it has read, and the object it has found in place of it, compared or copied,
held the entry's content under the generation the run has noted (`PlacedInv`); so the
content is still there unless that object was replaced since. `Gentle` says once for every step that no old entry is
added, loses the object at its path or comes to wait. The assumptions are that names are
finitely many numbers, standing for entries in the order of their ids, and that batches
and attempts are not 0.

Two exceptions are part of `RepairLosesNoContent`, and neither can be dropped: the entry of
a late PUT (its object was published before the repair looked, its row committed after it
asked) may lose its object, and an entry whose PUT publishes over the copy that the repair
has compared, and then rolls back, may lose the old content. Every other entry keeps its
content, also where the object at its path is another's.

`RateLimitsHold` (`RateLimits`) has two parts. `RlInv`: a key none of whose requests held a
limiter that the pool dropped has the pool's limiter alone, which has left what a single
limiter would have (`OneLimiter`). `PlInv` needs that the evaluation order, defined by the
place of each limit, is one: places are taken once, all of them, and by window
(`PlacedByWindow`, `PlacesTaken`). The limits are any sequence.

`ReadsAreSound` (`TenantFiles`) proves `TfInv`: a version is published before its row and a
row removed before its blob (`ChangeInv`), so the blob a read still has before it, if there
is one, is no older than the row it has read (`ReadInv`). On a store with ETags the length
that stat saw is that of the version which the read opens.

`GrantChecksAreSound` (`GrantChecks`) proves `GcInv`: a session is one of a grant that its
user signed and whose row is there, and the nonce of a proof that was let through is in the
table or old enough to be collected (`SpentInv`); the collection that precedes every check
may fail, and decides about rows just as old as the threshold either way. Grants and proofs
are any, signed by anybody.

`StartsAreSound` (`Startup`) proves `SuInv`, for any number of homeservers of any two
versions. A migration that a homeserver has left behind is in the table (`AppliedInv`), and
what is in the table has made its columns (`SchemaInv`); that is why one that finds every
migration applied by another may serve. For the rows that migrations rewrite: the newest
event of a file that is there is a PUT (`NewestInv`), so that a backfill from the entries
gives every event it reads a hash and the newest the right one (`HashInv`); and a session
that the pages of the sanitizing migration did not reach was written late by an older
version (`SeenInv`, `CapsInv`). The model had the pending migrations as a sequence; it
now has the set of their numbers, of which the first runs next, as in the loop over the
filtered list.

`FeedRequestsAreSound` (`EventRequests`) joins two invariants. `FqClientInv`: after any
number of parameters the users found are those the query has named so far, each with the
cursor of its last mention (`FqUsersInv`), the ids looked up are those of the first users
(`FqIdsInv`), and a stream is opened with just these (`FqSubInv`); it is kept by one lemma on
a query that is appended to (`AppendedMention`) and one on a user that is named again
(`UserCursorFacts`). `FqFeedInv`: a page holds the public events up to its last one
(`FirstIds`) and goes on behind the last page (`PagesJoin`). For this proof the parser goes
through the parameters one step at a time, as its loop does, where the model first parsed
a whole query in one step.

**ClockProofs.** Three components with a clock each, for any horizon and any timeouts the
assumptions allow. `LocksAreSound` proves `LkInv`. `RequestInv` relates a client to the
row: what it was promised and counts on is in the row, unless its statement came late.
`KeptInv` is the arithmetic of the keep-alive: as long as at most one extension failed and
none was delayed, the row outlives the next one, by two intervals if none failed and by
one otherwise. It uses that three intervals fit into the horizon, which is how the code
defines the interval (`lock.rs:53`). `CachedQuotasAreSound` proves `QcInv`: a version about
to be inserted is the row's or the row has changed since it was read (`ReadsCurrent`), an
entry was inserted no later than a query takes after it was read (`EntryAge`), and an
entry older than what an answered patch wrote raced that patch (`StaleExplained`). A patch
that was abandoned in its commit is not counted among the answered ones; for what it leaves
behind there is the TTL.
`MovesAreUndoneBlindly` proves `HrInv`: a packet on a node, in a cache or with the
republisher that is later than the move and points elsewhere was signed blindly
(`Sound`), and what a device is about to publish has the host of the record it went on
from (`DeviceSound`). Two things came out of trying to prove it: blindness is inherited, as
a device that goes on from a blind packet repeats its host; and what a device has seen are
both the packet it read and the one it cached, since `most_recent` chooses between them.
`RunsCountEveryKey` proves `BrInv` of the homeserver's run over all keys: while it goes on,
the summary, the workers' own summaries, the keys they have in hand and the queue add up to
the keys of the run (`Carried` is a sum over the workers), so at its end every key was
counted once. `RecordsAreKeptUp` has both.

**SdkProofs.** `CookieSessionsAreSound` proves `CkInv`: an id that was spent is in the
guard's map, was lost by a restart, or is too old for its token to be accepted
(`Remembered`), so that at most one call or one session stands for it (`CkTokenInv`). A
signout that is answered has deleted the row of the secret it sent, or there was none, or
the lookup of its cookie failed (`blind`), which is the exception the property names.

`LeasesDoProtect` is the longest proof of the project. `SSInv` has six layers, each proved
inductive from those before it. `SSBase` says what lease, credential, mutex and record a
call has at each of its steps. `SSPath` says that a session is saved once: next to a
credential that is not saved there is no other and no shared state (`SavedOnce`); and that
a call which is sent again refreshes where it was sent. `SSBounds`: bearers are known only
once they were minted. `SSWorn`: an exchange replaces only a bearer that is refused or no
longer new, and a shared one is marked in the record. `SSKnown` says who knows the
homeserver's bearer: the record unless it is marked, the unsaved credential, the call
about to store a new one. `SSRetry` is why one retry is enough. As long as the grant lives
and nothing happened outside the lease, the stored bearer is the homeserver's or the call
will have it replaced (`SharedRetry`); the credential of a call that began before the
session was saved has a good bearer or follows the record (`LocalRetry`), where a bearer is
good if it is the homeserver's or came to age (`Good`). Each step of `SSNext` is first
reduced to what it does to one call and to the rest (`SharedSteps`), so that a layer is
proved once for the steps that touch only their call (`QuietSteps`), once for the others
(`LoudSteps`), for the server's own (`Outer`) and for a tab that closes (`Closes`).

The attempt corrected the model. `RefusedTwiceHasCause` and `LogoutRevokes` were false as
first stated: a record that was removed and saved again also lets a request be refused
twice, which the history variable `ssLapses` now counts per call. And two `CASE`s of
`Answer` and `Erase` had overlapping guards that were meant to be read in order.

`FlowIsSound` proves `AFInv`: a listener has a message in hand just while it
acknowledges it, and what a handle keeps as approval or session was decoded against the
request of its flow (`FlowInv`); there is nothing before the request; and a posted message
is in the relay's box, in the hands of a flow, taken by the application, or one of the
causes the property excuses has happened. Each listener or call step is first shown to
change one flow (`FlowStep`), then to keep the invariant of that flow. What was decoded is
within the scopes and the actions that the flow asked for. A link channel whose answer is
lost is one of the causes, the inbox channel is not. Of a message that
strays into the channel it is assumed only that it has the fields of a message and that
a grant carries no keys.

`ReadersAreSound` (`EventReader`) proves `EsInv`. What the application got of a user, up to
its cursor, is all there is and in order (`GotInv`); of what a stream has passed, every
event was delivered, is under way or was skipped after a page of the history could not be
read, and none comes twice (`PassedInv`); the events under way are
in order and the first of them is decoded up to its line (`WireInv`, with `BlockAfter` for
the decoder's state after each line). So a stream may break inside an event and the next
one begins behind the last that was delivered. It covers every kind of event, also `PUT`s
with their hash line, which the run leaves out for its size.

**SdkRequestProofs.** `RequestsAreSound` joins two results. `TransportIsSound` proves
`TrInv`: a cell of the features cache belongs to one homeserver for good, also when it was
evicted while requests still waited for it (`Holds`, `CellsInv`), a cell's lock and a name's
guard have one holder (`LocksInv`), and what a request has decided so far fits the
homeserver its name leads to, unless its owner moved after the request began or less than
the lifetime of a transport before (`AskOk`). Features in a cell are backed (`CellOk`): the
homeserver served by path, or its `/info` failed, less than their lifetime before the moment
until which they are used; both lifetimes are any numbers but 0, so a rollback is noticed
in that time. The least recently used list is a sequence without one of
its entries (`WithoutFacts`), for a cache of any size but 0. `ResponsesAreSound` proves
`RpInv`: a call that goes on has kept all it has seen and no more than its limit
(`CallOpen`), and the error it ends with says the status and the length of what was
answered (`ErrorFits`), for every use, status, cause and way a body is cut into chunks;
a refresh that fails has the name of one, or failed before anything was sent.

`StorageIsSound` proves `StInv`: every lock has a token that was granted and that no other
lock has (`StLocksInv`), and a request through a handle carries the handle's token, which
stays while it is under way (`StOpsInv`); so a request that the server lets through with a
token is one on the file that has it. `TextFacts` has what encoding and decoding do to a
name. The attempt found a fault of the model: refreshing an older lock set the counter of
granted tokens back, so that a later lock could be given a token already in use. The run
grants one token and could not show it; the counter now advances with new locks only.

`LinksAreSound` proves `DlInv`: whatever was appended, renamed and handed on, the first
value that the URL has for a key is the one that is meant (`UrlInv`): what the app wrote,
and of a callback what was last attached (`Meant`), as attaching callbacks replaces them
all. The first is the one that is read (`FirstRead`, `LinkParseFacts`). It assumes of what apps build that
the required parameters are there and that a grant names one channel, as the constructors
of the links do.

`MaterialIsSound` (`GrantMaterial`) proves `GmInv`. Of the keys: to derive for a path in two
stages is to derive for it at once (`DeriveComposes`), two scopes that cover one file are
nested (`CoveringNested`), so once overlaps are consistent every scope gives the file the
same key (`ScopesAgree`); and the keys an application holds, saves and restores are those of
a grant whose bundle was checked (`GmHeldInv`, `GmKeptInv`). Of the proofs: none is older than
its grant by more than the clocks of wallet and app differ (`GmProofsInv`), which with two
inequalities between three clocks is what `verify_at` asks for.

Model-checked only:

* liveness (`FinalizationEnds`, `ImplementsFairFeed`, `EventReachesStream`,
  `RevokedStreamCloses`, `SignupEnds`) and `CallsNeverStuck`, which need fairness or
  `ENABLED`;
* `ListingComplete` and `AccessSound`. These compare what an operator on short sequences
  computes with a definition that does not go step by step, where a proof would be an
  induction over the sequence.

## 6. Where code and comments differ

Three runs show a disagreement between the code and what its comments say.

* `stream_gap`. "Drain buffered events; this or a later query covers them"
  (`hs/services/events_service/stream.rs:155`). When a history query fails, the loop is
  left with the channel already drained, a live stream goes on with what comes next, and
  the cursor passes events that were never sent. `GapNeedsFailedQuery` shows that this is
  the only way.
* `grant_signout`. Signout "idempotently revokes the grant (if any)", and an absent
  session stands for "an already-revoked bearer" (`hs/client_server/auth/grant/routes.rs:105-109`).
  The middleware (`middleware.rs:97`) also forwards the request without a session when
  its query fails; signout then answers 200 and the grant lives on.
* `session_paths`. "Paths under `/pub/` are **publicly readable** by anyone via
  `PublicStorage`" (`sdk/actors/storage/core.rs:32`). `SessionStorage::request` encodes a
  path that is already encoded (`core.rs:103`), so a name with a space is stored under
  another name than the one public storage asks for. The JavaScript `putBlobLocked`
  encodes the lock's path once more (its write is then refused with 412), and the paths
  that `list` returns are encoded again by whoever reads them.

Smaller ones. Where a property would not hold because of one, its comment says what it
leaves out:

* *Finalization.* Local backends publish without a generation condition
  (`opendal_service.rs:155`), so the claim at `hs/persistence/files/mod.rs:45-48` is one
  about the object store only.
* *Streams.* Reverse streams with per-user cursors may send an event committed meanwhile
  after older ones (`entities/events/repository.rs:139`). A stream whose revocation
  receiver overran validates its exact session row again, so it may end because its bearer
  was replaced or expired (`stream_auth.rs:104`). The old feed with `limit=0` returns an
  empty page without a cursor line.
* *Locks.* A LOCK that waited for a held row is granted less than the lifetime it reports
  (`entry_lock.rs:84`), and a refresh to a short lifetime may lose the lock during an
  upload. "Three chances per horizon" (`lock.rs:52-53`) are two: the third falls on the
  instant at which the lock expires.
* *Quota cache.* "Quota changes made via the admin API are **not** actively invalidated in
  the cache — they take effect once this TTL expires" (`quota_cache.rs:16-17`) is not what the
  code does: `patch_quota` evicts the entry after its commit, and says so
  (`service.rs:217-218`, `243-244`). `CachedQuotaSound` follows the code; the comment only
  describes what is left over: a quota read before a patch and inserted after its eviction
  stays for the TTL (`service.rs:196`), and so do the absence of a user who has just
  signed up and an entry whose patch was dropped while it awaited its COMMIT.
* *Grants.* "Reject replayed PoP nonces" (`grant/service.rs:374`) has an edge. A proof is
  fresh from 180 seconds before its `iat` to 180 after it, in whole seconds
  (`pop_verifier.rs:102-107`); its nonce is collected 360 seconds, to the fraction, after it
  was tracked (`pop_nonce.rs:64-68`). A proof accepted at `iat` − 180.0 s is accepted
  again at `iat` + 180.5 s. `ProofServesOnce` shows that this is the only way, in
  `GrantAuth` and in `GrantChecks`. `POST /auth/grant/session` does not refuse the client id `pubky.signup`
  (comment at `grant/service.rs:40`).
* *Listing.* The SDK sends the percent-encoded name as cursor and the homeserver compares
  it undecoded (`read.rs:169`), so names between the two forms are skipped or repeated; a
  shallow listing of a directory whose name is special in a regular expression is not cut.
* *Reading.* Conditional requests have the granularity of a second, and none of an ETag on
  the file system; a PUT whose row is deleted before its last look at it answers 404.
* *Rate limits.* For a user with a rate of its own and no burst, the effective burst that
  the admin API reports differs from the one enforced. A limiter dropped by the cleanup
  while a request holds it lets that key spend twice.
* *Accounts.* A listing by used bytes looks its cursor up again for every page, so a user
  whose bytes changed moves it; the command line client reports every 400 as an invalid
  public key and cannot clear `allowed_write_paths`.
* *Cookies.* The replay guard is in memory; a token is spent even if a later step fails;
  a signout in an older browser handle deletes the jar's newer session. A database error
  while the cookie is resolved is dropped (`cookie/service.rs:79-83`), and `DELETE /session`
  then answers 200 with the row in place (`cookie/routes.rs:102-122`), as for grants.
* *Homeserver record.* A failed `resolve` counts as no packet, so a device with an old
  cache republishes an old host; there is no compare-and-swap; a failed publication after
  `signup_cookie` loses the session.
* *SharedSession.* A signout returns without calling the homeserver when another tab has
  removed the record (`credential.rs:593-596`).
* *AuthFlow.* `tryPollOnce` returns nothing for ever after an error; an acknowledgement
  deletes whatever message is there; the cookie flow does not compare the token's
  capabilities with the request. A poll of a link channel whose answer is lost after the
  relay handed the message over loses the approval (`http_relay_link_channel.rs:95-98`,
  `140-150`); the inbox channel keeps it until it is acknowledged.
* *EventReader.* An event that a stream skipped after a history page failed (`stream_gap`) is
  missed for good once the application has a later one: its cursor is behind it. A cursor belongs to a homeserver, but the homeserver of a user is looked
  up again; an event above the size limit ends the stream at every attempt.
* *Transport, Responses.* A homeserver that was rolled back is still addressed by path
  until the cache expires, and one whose `/info` keeps failing keeps its last known features
  for as long as it does; an owner that moved is reached at the old homeserver for the
  lifetime of a transport; an error of a refresh before it is sent (no record, no URL) keeps
  its own name; a grant exchange whose body times out is reported as a decoding
  failure; a failed decoding after a refresh reports status 200.
* *DeepLinks.* Of a repeated parameter the first counts; a `signup_grant` link has no `spk`;
  `with_x_callback` replaces all callbacks, so one that sets only some drops the app's others.
* *NameRepair.* An object that a PUT published at the misnamed name, with the same content,
  before a repair looked is lost when its row commits after the repair asked whose it is
  (`gcs_name_repair.rs:541-556`). And when a PUT of the entry itself publishes over the copy
  that a repair has just compared and then rolls back, the delete that follows takes the last
  copy of the old content.
* *GrantMaterial.* Custom proofs are not checked against revocation and have no maximum
  age; keys survive the expiry of their grant.
* *Startup.* Of two homeservers that migrate at once one fails to start; a start fails when
  the first DHT publication fails, after its sockets were served; the migration of 2025-10
  gives every older PUT event of a path the current hash; an older version that still runs
  writes rows in the old form; a crash while the secret file is written stops later starts.

## 7. Not modelled

Left out because no property here depends on it: HTTP headers and XML bodies; JWS and
hash algorithms (a signature is its signer); content bytes and mime types; metrics and
tracing; recovery files and other byte formats; the testnet and the end-to-end tests. The
WebDAV handler's own locks and properties are those of a library. Every component, with
its reason, is in `PROJECT.json`.

Limits of what is modelled: `FileFinalization` has one owner and `EntryLocks` one path;
transactions of different owners or rows of different paths share nothing but the sweep.
One `EventStream` is checked at a time; streams do not influence each other. The
administrator's DELETE is a DELETE without a token. `Lock` in `FileFinalization`
collapses the sweep and the acquisition, which `EntryLocks` splits. The components of the
runs `sdk` and `server` are checked one by one; they meet through operations that are
modelled on both sides (an exchange in `SharedSession` is the one of `GrantAuth`).

## 8. Plan

Done: every component of the inventory has a module except those of section 7; each run
above passes; the invariants of finalization and its account, locks, broadcast, streams and
their readers, grants, revocation, signup, quotas and rate limits, accounts, reads, starts,
the repair of names, the homeserver record and its republisher, the authorization flow,
requests for events, and the SDK's two kinds of session, its requests, its storage, its
links and its grant material are proved.

Next, in this order:

1. `Listing`: a page goes on where the last one ended (`ListingComplete`).
2. `Access`: that a normalised path means what the request named (`AccessSound`), for
   paths of any length.

