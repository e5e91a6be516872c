--------------------------- MODULE HomeserverRecord ---------------------------
(***************************************************************************)
(* Where a user's data lives: the _pubky record in the DHT.  The user's      *)
(* devices publish it at signup, at signin and on request                    *)
(* (pubky-sdk/src/actors/{pkdns,signer/session}.rs), and the homeserver      *)
(* publishes it again for its users (pubky-homeserver/src/republishers).     *)
(* The DHT and the pkarr client are external: a node keeps the packet with   *)
(* the latest timestamp it was given, a client never downgrades its cache,   *)
(* and a call reaches some of the nodes.                                     *)
(***************************************************************************)
EXTENDS Naturals, FiniteSets, Values

CONSTANTS
  Nodes,      \* nodes of the DHT
  Devices,    \* of one user
  Servers,    \* homeservers
  Here,       \* the one that republishes
  MinNodes,   \* min_sufficient_node_publish_count
  MaxPublish,  \* attempts of publish_with_retries (3 in the code)
  MaxAttempts, \* RetrySettings::max_attempts (4 by default)
  MaxSigned    \* bound on the packets the user signs

Packets  == [ts : 1..MaxSigned, host : Servers]

ASSUME RecordAssumption ==
  /\ {MaxPublish, MaxAttempts, MaxSigned} \subseteq Nat \ {0}
  /\ Here \in Servers /\ None \notin Servers \cup Packets

VARIABLES
  hrNode,     \* node -> the user's packet
  hrSigned,   \* timestamp of the packet signed last
  hrAged,     \* packets up to this timestamp are stale
  hrCache,    \* device -> packet its pkarr client has cached
  hrDev,      \* device -> the publication in progress
  hrMove,     \* the packet of the last signup at a homeserver
  hrBlind,    \* packets whose signer had not seen that move: by the time of its
              \* signature, or because it went on from such a packet
  hrJob       \* the republisher's work on the user's key

hrUser == <<hrSigned, hrAged, hrCache, hrDev, hrMove, hrBlind>>
hrVars == <<hrNode, hrUser, hrJob>>

Host     == Servers \cup {None}
Resting  == [pc |-> "idle", moves |-> FALSE, seen |-> 0, host |-> None, tries |-> 0]
Unused   == [pc |-> "idle", cached |-> None, tries |-> 0]

HrTypeOK ==
  /\ hrNode \in [Nodes -> Packets \cup {None}] /\ hrCache \in [Devices -> Packets \cup {None}]
  /\ hrSigned \in 1..MaxSigned /\ hrAged \in 0..MaxSigned
  /\ hrDev \in [Devices -> [pc : {"idle", "publish"}, moves : BOOLEAN, seen : 0..MaxSigned,
                            host : Host, tries : 0..MaxPublish]]
  /\ hrMove \in Packets /\ hrBlind \subseteq 1..MaxSigned
  /\ hrJob \in [pc : {"idle", "latest", "publish", "failed"}, cached : Packets \cup {None},
                 tries : 0..MaxAttempts]

\* The user signed up here a while ago; the record reached the nodes.
HrInit ==
  LET p == [ts |-> 1, host |-> Here] IN
  /\ hrNode = [n \in Nodes |-> p]
  /\ hrSigned = 1 /\ hrAged = 0 /\ hrMove = p /\ hrBlind = {}
  /\ hrCache = [d \in Devices |-> None] /\ hrDev = [d \in Devices |-> Resting]
  /\ hrJob = Unused

------------------------------------------------------------------------------
(* Packets.                                                                 *)

TsOf(p) == IF p = None THEN 0 ELSE p.ts

\* most_recent_packet: the second one wins a tie.
MostRecent(first, second) ==
  IF first # None /\ (second = None \/ first.ts > second.ts) THEN first ELSE second

\* A node refuses a packet older than its own.
StoreAt(ns, p) == hrNode' = [n \in Nodes |-> IF n \in ns /\ TsOf(hrNode[n]) <= p.ts
                                             THEN p ELSE hrNode[n]]

\* What a resolution over the network can find: the latest packet of the nodes
\* it reaches, which may be any of them.
Findable == {hrNode[n] : n \in Nodes} \cup {None}

------------------------------------------------------------------------------
(* A device of the user.                                                    *)

\* determine_host: the override, or the host of the existing record.
DetermineHost(over, existing) ==
  IF over # None THEN over ELSE IF existing = None THEN None ELSE existing.host

SkipDueToAge(mode, existing) == mode = "stale" /\ existing # None /\ existing.ts > hrAged

\* publish_homeserver, in a mode and with or without a host to publish: a
\* resolution over the network updates the cache, its error being dropped; the
\* record to go on from is the later of the resolved and the cached one.  `seen`
\* is history: the time of the latest packet the device has read or cached.
BeginPublish(d, call, network) ==
  LET existing == MostRecent(network, hrCache[d])
      host == DetermineHost(call.over, existing)
      read == TsOf(network)
      cached == TsOf(hrCache[d])
  IN /\ hrDev[d].pc = "idle" /\ hrSigned < MaxSigned
     /\ hrCache' = [hrCache EXCEPT ![d] = existing]
     /\ hrDev' = [hrDev EXCEPT ![d] =
          IF host = None \/ SkipDueToAge(call.mode, existing) THEN Resting
          ELSE [Resting EXCEPT !.pc = "publish", !.host = host, !.moves = call.over # None,
                               !.seen = IF read > cached THEN read ELSE cached]]
     /\ UNCHANGED <<hrNode, hrSigned, hrAged, hrMove, hrBlind, hrJob>>

\* A signup forces the new homeserver, a signin publishes the known one if it
\* is stale, and a caller may publish in either way.
SignupAt            == [mode : {"force"}, over : Servers]
SignupCookieAt      == [mode : {"force"}, over : Servers]
SigninPublish       == [mode : {"stale"}, over : {None}]
SigninCookiePublish == [mode : {"stale"}, over : {None}]
PublishForce        == [mode : {"force"}, over : {None}]
PublishIfStale      == [mode : {"stale"}, over : Servers]

PublishCalls == SignupAt \cup SignupCookieAt \cup SigninPublish \cup SigninCookiePublish
                  \cup PublishForce \cup PublishIfStale

\* An attempt signs a packet of its own, with the time at which it signs.
Publish(d, ns, ok) ==
  LET f == hrDev[d]
      p == [ts |-> hrSigned + 1, host |-> f.host]
  IN /\ f.pc = "publish" /\ hrSigned < MaxSigned
     /\ ok => ns # {}
     /\ hrSigned' = p.ts /\ StoreAt(ns, p)
     /\ hrBlind' = IF f.seen < hrMove.ts \/ f.seen \in hrBlind
                   THEN hrBlind \cup {p.ts} ELSE hrBlind
     /\ hrCache' = IF ok THEN [hrCache EXCEPT ![d] = p] ELSE hrCache
     /\ hrMove' = IF f.moves THEN p ELSE hrMove
     /\ \/ ok /\ hrDev' = [hrDev EXCEPT ![d] = Resting]
        \/ ~ok /\ hrDev' = [hrDev EXCEPT ![d] = IF f.tries + 1 < MaxPublish
                                               THEN [f EXCEPT !.tries = @ + 1] ELSE Resting]
     /\ UNCHANGED <<hrAged, hrJob>>

\* An error that no retry can mend.
PublishFails(d) ==
  /\ hrDev[d].pc = "publish"
  /\ hrDev' = [hrDev EXCEPT ![d] = Resting]
  /\ UNCHANGED <<hrNode, hrSigned, hrAged, hrCache, hrMove, hrBlind, hrJob>>

\* An hour passes.
GetStale ==
  /\ hrAged < hrSigned /\ hrAged' = hrSigned
  /\ UNCHANGED <<hrNode, hrSigned, hrCache, hrDev, hrMove, hrBlind, hrJob>>

------------------------------------------------------------------------------
(* The homeserver republishes the key, retrying.  The worker's client is new, *)
(* so its cache starts empty.                                                 *)

TakeKey ==
  /\ hrJob.pc = "idle" /\ hrJob' = [Unused EXCEPT !.pc = "latest", !.tries = 1]
  /\ UNCHANGED <<hrNode, hrUser>>

\* packet_points_to_homeserver
ShouldRepublish(p) == p # None /\ p.host = Here

\* The later of the cached packet and the network's, if it points here: any
\* other outcome ends the work on the key.
GoOnFrom(network) ==
  LET p == MostRecent(hrJob.cached, network) IN
  hrJob' = IF ShouldRepublish(p) THEN [hrJob EXCEPT !.pc = "publish", !.cached = p] ELSE Unused

RepublishLatest(network) ==
  /\ hrJob.pc = "latest" /\ GoOnFrom(network)
  /\ UNCHANGED <<hrNode, hrUser>>

\* A packet that is invalid on the network counts as none unless it is newer
\* than the cached one.
InvalidOnNetwork(newer) ==
  /\ hrJob.pc = "latest"
  /\ newer \/ hrJob.cached # None
  /\ IF newer THEN hrJob' = Unused ELSE GoOnFrom(None)
  /\ UNCHANGED <<hrNode, hrUser>>

\* The packet is published as it is, under its own timestamp.
RepublishPacket(ns) ==
  /\ hrJob.pc = "publish" /\ StoreAt(ns, hrJob.cached)
  /\ hrJob' = IF Cardinality(ns) < MinNodes THEN [hrJob EXCEPT !.pc = "failed"] ELSE Unused
  /\ UNCHANGED hrUser

NetworkError ==
  /\ hrJob.pc \in {"latest", "publish"} /\ hrJob' = [hrJob EXCEPT !.pc = "failed"]
  /\ UNCHANGED <<hrNode, hrUser>>

\* Every error is retried from the start, the cache being filled by now.
RetryKey ==
  /\ hrJob.pc = "failed"
  /\ hrJob' = IF hrJob.tries < MaxAttempts
              THEN [hrJob EXCEPT !.pc = "latest", !.tries = @ + 1] ELSE Unused
  /\ UNCHANGED <<hrNode, hrUser>>

HrNext ==
  \/ \E d \in Devices :
       \/ PublishFails(d)
       \/ \E call \in PublishCalls, network \in Findable : BeginPublish(d, call, network)
       \/ \E ns \in SUBSET Nodes, ok \in BOOLEAN : Publish(d, ns, ok)
  \/ GetStale \/ TakeKey \/ NetworkError \/ RetryKey
  \/ \E network \in Findable : RepublishLatest(network)
  \/ \E ns \in SUBSET Nodes : RepublishPacket(ns)
  \/ \E newer \in BOOLEAN : InvalidOnNetwork(newer)

HrSpec == HrInit /\ [][HrNext]_hrVars

------------------------------------------------------------------------------
\* A move to another homeserver is not undone by those who knew of it: when a
\* later packet points elsewhere, it was signed by a device that had neither
\* read nor cached the move's packet, or that went on from the packet of such a
\* device.  In particular a device whose network reads an older packet than its
\* cache goes on from the cache, and the republisher never brings the old
\* homeserver back.
MoveUndoneOnlyBlindly ==
  \A n \in Nodes : LET p == hrNode[n] IN
    p # None /\ p.ts > hrMove.ts /\ p.host # hrMove.host => p.ts \in hrBlind
------------------------------------------------------------------------------
(* The homeserver's run over the keys of all its users                       *)
(* (republishers/{user_keys_republisher, pkarr_republisher/batch_republisher, *)
(* republish_summary,retrying_republisher}.rs): workers take keys from one   *)
(* queue, retry each, and the summary counts how each ended.  What an attempt *)
(* does to a record is above.                                                *)

CONSTANTS
  UserKeys,      \* keys the users table can hold
  MaxWorkers,    \* max_concurrent_workers
  MaxTries       \* RetrySettings::max_attempts

ASSUME RunAssumption ==
  /\ IsFiniteSet(UserKeys) /\ None \notin UserKeys
  /\ {MaxWorkers, MaxTries} \subseteq Nat \ {0}

VARIABLES
  brUsers,    \* keys in the users table
  brRun,      \* wait, active, done or failed
  brKeys,     \* keys the run was given
  brQueue,    \* keys no worker has taken
  brWorker,   \* worker -> ready, busy with a key, or ended, with its own summary
  brSummary   \* the merged summary of the workers that ended

brVars == <<brUsers, brRun, brKeys, brQueue, brWorker, brSummary>>

Outcomes   == {"published", "missing", "skipped", "invalid", "failed"}
NoSummary  == [o \in Outcomes |-> 0]
FreshWorker == [pc |-> "build", key |-> None, tries |-> 0, sum |-> NoSummary]

TotalCount(s) == s["published"] + s["missing"] + s["skipped"] + s["invalid"] + s["failed"]
MergeSummaries(a, b) == [o \in Outcomes |-> a[o] + b[o]]
HasIssues(s) == s["missing"] + s["invalid"] + s["failed"] > 0

Worker == [pc : {"build", "ready", "busy", "ended"}, key : UserKeys \cup {None},
           tries : 0..MaxTries, sum : [Outcomes -> Nat]]

BrTypeOK ==
  /\ brUsers \subseteq UserKeys /\ brKeys \subseteq UserKeys /\ brQueue \subseteq brKeys
  /\ brRun \in {"wait", "active", "done", "failed"}
  /\ \E n \in 0..MaxWorkers : brWorker \in [1..n -> Worker]
  /\ brSummary \in [Outcomes -> 0..Cardinality(UserKeys)]

BrInit ==
  /\ brUsers = {} /\ brRun = "wait" /\ brKeys = {} /\ brQueue = {}
  /\ brWorker = <<>> /\ brSummary = NoSummary

\* Users sign up while a run goes on.
NewUser(u) ==
  /\ u \notin brUsers /\ brUsers' = brUsers \cup {u}
  /\ UNCHANGED <<brRun, brKeys, brQueue, brWorker, brSummary>>

\* A tick of the interval: the loop runs one run at a time, over the keys the
\* table holds now.  No key, no run.
TickRun ==
  /\ brRun # "active" /\ brUsers # {}
  /\ brRun' = "active" /\ brKeys' = brUsers /\ brQueue' = brUsers
  /\ LET n == Cardinality(brUsers) IN
     brWorker' = [w \in 1..(IF n < MaxWorkers THEN n ELSE MaxWorkers) |-> FreshWorker]
  /\ brSummary' = NoSummary /\ UNCHANGED brUsers

\* Listing the users fails: this tick does nothing.
ListFails ==
  /\ brRun # "active" /\ brRun' = "failed"
  /\ UNCHANGED <<brUsers, brKeys, brQueue, brWorker, brSummary>>

\* run_worker builds a client of its own; a failure ends the run for all, the
\* try_fold dropping the other workers where they are.
BuildClient(w, ok) ==
  /\ brRun = "active" /\ brWorker[w].pc = "build"
  /\ IF ok THEN brWorker' = [brWorker EXCEPT ![w].pc = "ready"] /\ UNCHANGED brRun
     ELSE brRun' = "failed" /\ UNCHANGED brWorker
  /\ UNCHANGED <<brUsers, brKeys, brQueue, brSummary>>

\* Fault: the key is read under the mutex and removed after the attempt.
PeekKey(w) ==
  /\ brRun = "active" /\ brWorker[w].pc = "ready"
  /\ \E u \in brQueue, left \in BOOLEAN :
       /\ brQueue' = IF left THEN brQueue ELSE brQueue \ {u}
       /\ brWorker' = [brWorker EXCEPT ![w] = [@ EXCEPT !.pc = "busy", !.key = u, !.tries = 1]]
  /\ UNCHANGED <<brUsers, brRun, brKeys, brSummary>>

\* Keys are taken under the mutex of the queue.
PopKey(w) ==
  /\ brRun = "active" /\ brWorker[w].pc = "ready"
  /\ \E u \in brQueue :
       /\ brQueue' = brQueue \ {u}
       /\ brWorker' = [brWorker EXCEPT ![w] = [@ EXCEPT !.pc = "busy", !.key = u, !.tries = 1]]
  /\ UNCHANGED <<brUsers, brRun, brKeys, brSummary>>

CountOutcome(sum, o) == [sum EXCEPT ![o] = @ + 1]

RecordOutcome(w, o) ==
  brWorker' = [brWorker EXCEPT ![w] =
                 [@ EXCEPT !.pc = "ready", !.key = None, !.tries = 0,
                           !.sum = CountOutcome(brWorker[w].sum, o)]]

\* An attempt that succeeds, or ends with an outcome that is no error.
AttemptEnds(w, o) ==
  /\ brRun = "active" /\ brWorker[w].pc = "busy"
  /\ RecordOutcome(w, o)
  /\ UNCHANGED <<brUsers, brRun, brKeys, brQueue, brSummary>>

\* Every error is retried, max_attempts - 1 times.
AttemptFails(w) ==
  /\ brRun = "active" /\ brWorker[w].pc = "busy"
  /\ IF brWorker[w].tries < MaxTries
     THEN brWorker' = [brWorker EXCEPT ![w].tries = @ + 1]
     ELSE RecordOutcome(w, "failed")
  /\ UNCHANGED <<brUsers, brRun, brKeys, brQueue, brSummary>>

\* The queue is empty: the worker's summary is merged, and the last one ends
\* the run.
EndWorker(w) ==
  /\ brRun = "active" /\ brWorker[w].pc = "ready" /\ brQueue = {}
  /\ brWorker' = [brWorker EXCEPT ![w].pc = "ended"]
  /\ brSummary' = MergeSummaries(brSummary, brWorker[w].sum)
  /\ brRun' = IF \A v \in DOMAIN brWorker : brWorker'[v].pc = "ended" THEN "done" ELSE brRun
  /\ UNCHANGED <<brUsers, brKeys, brQueue>>

BrNext ==
  \/ \E u \in UserKeys : NewUser(u)
  \/ TickRun \/ ListFails
  \/ \E w \in DOMAIN brWorker :
       \/ \E ok \in BOOLEAN : BuildClient(w, ok)
       \/ PopKey(w) \/ AttemptFails(w) \/ EndWorker(w)
       \/ \E o \in Outcomes \ {"failed"} : AttemptEnds(w, o)

BrSpec == BrInit /\ [][BrNext]_brVars

------------------------------------------------------------------------------
\* A run that ends without an error counts every key it was given exactly once,
\* however its workers interleave, retry and fail, and it warns if a key could
\* not be republished.
RunCountsEveryKey ==
  brRun = "done" => /\ TotalCount(brSummary) = Cardinality(brKeys)
                    /\ brSummary["failed"] > 0 => HasIssues(brSummary)

\* The record of a user's homeserver is kept up: the user's devices do not undo a
\* move they know of, and the homeserver's runs over all keys leave none out.
RecordsKeptUp ==
  HrTypeOK /\ BrTypeOK /\ MoveUndoneOnlyBlindly /\ RunCountsEveryKey
==============================================================================
