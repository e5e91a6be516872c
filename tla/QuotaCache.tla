------------------------------ MODULE QuotaCache ------------------------------
(***************************************************************************)
(* The cached quota of one user in one process: requests that resolve it,  *)
(* administrators that patch it, the signup that creates the user.  The    *)
(* user's row is a version number, 0 while there is no such user; what a   *)
(* quota says is left out.                                                 *)
(***************************************************************************)
EXTENDS Integers, Values

CONSTANTS
    Resolvers,    \* requests that resolve the quota
    Patches,      \* PATCH requests
    CacheTtl,     \* CACHE_TTL
    NegativeTtl,  \* NEGATIVE_CACHE_TTL
    MaxQuery,     \* bound on the time between a query and what follows it
    QcMaxNow      \* bound of the clock

ASSUME QuotaAssumption ==
    /\ {CacheTtl, NegativeTtl, MaxQuery, QcMaxNow} \subseteq Nat
    /\ None \notin Nat /\ "signup" \notin Patches
    /\ Resolvers \cap (Patches \cup {"signup"}) = {}

Writers == Patches \cup {"signup"}

VARIABLES
    qcNow,
    qcDb,       \* the committed version of the user's row
    qcCache,    \* the user's CachedEntry, or None
    qcRpc,      \* the step of each resolver
    qcRead,     \* the version it has
    qcWpc,      \* the step of each writer
    qcWrote,    \* the version it committed
    qcAt        \* when a resolver or a writer was at the database

qcVars == <<qcNow, qcDb, qcCache, qcRpc, qcRead, qcWpc, qcWrote, qcAt>>

\* `from` is history: when the version was read from the row.
Entry == [val : Nat, cachedAt : Nat, from : Nat]

QcTypeOK ==
    /\ qcNow \in Nat
    /\ qcDb \in Nat
    /\ qcCache \in Entry \cup {None}
    /\ qcRpc \in [Resolvers -> {"get", "miss", "query", "insert", "done", "error"}]
    /\ qcRead \in [Resolvers -> Nat]
    /\ qcWpc \in [Writers -> {"idle", "committed", "done", "gone"}]
    /\ qcWrote \in [Writers -> Nat]
    /\ qcAt \in [Resolvers \cup Writers -> Nat]

QcInit ==
    /\ qcNow = 0
    /\ qcDb = 0
    /\ qcCache = None
    /\ qcRpc = [r \in Resolvers |-> "get"]
    /\ qcRead = [r \in Resolvers |-> 0]
    /\ qcWpc = [w \in Writers |-> "idle"]
    /\ qcWrote = [w \in Writers |-> 0]
    /\ qcAt = [x \in Resolvers \cup Writers |-> 0]

-----------------------------------------------------------------------------
(* QuotaCache *)

\* Mutant: a negative entry lives as long as any.
MutTtl(v) == CacheTtl

\* CachedEntry::found and not_found.
Ttl(v) == IF v = 0 THEN NegativeTtl ELSE CacheTtl

\* is_expired: elapsed() > ttl.
Expired(e) == qcNow - e.cachedAt > Ttl(e.val)

\* insert.
Insert(v, from) == qcCache' = [val |-> v, cachedAt |-> qcNow, from |-> from]

\* remove.
Remove == None

-----------------------------------------------------------------------------
(* resolve_quota *)

Goto(r, step) == qcRpc' = [qcRpc EXCEPT ![r] = step]

\* The cached entry, unless it has expired.
Get(r) ==
    /\ qcRpc[r] = "get"
    /\ \/ /\ qcCache # None /\ ~Expired(qcCache)
          /\ qcRead' = [qcRead EXCEPT ![r] = qcCache.val]
          /\ Goto(r, "done")
       \/ /\ qcCache # None => Expired(qcCache)
          /\ Goto(r, "miss")
          /\ UNCHANGED qcRead
    /\ UNCHANGED <<qcNow, qcDb, qcCache, qcWpc, qcWrote, qcAt>>

\* remove and make_room: another thread may have inserted an entry by now.
Miss(r) ==
    /\ qcRpc[r] = "miss"
    /\ qcCache' = None
    /\ Goto(r, "query")
    /\ UNCHANGED <<qcNow, qcDb, qcRead, qcWpc, qcWrote, qcAt>>

\* The query, which may fail.
Query(r) ==
    /\ qcRpc[r] = "query"
    /\ \/ /\ qcRead' = [qcRead EXCEPT ![r] = qcDb]
          /\ qcAt' = [qcAt EXCEPT ![r] = qcNow]
          /\ Goto(r, "insert")
       \/ /\ Goto(r, "error")
          /\ UNCHANGED <<qcRead, qcAt>>
    /\ UNCHANGED <<qcNow, qcDb, qcCache, qcWpc, qcWrote>>

InsertRead(r) ==
    /\ qcRpc[r] = "insert"
    /\ Insert(qcRead[r], qcAt[r])
    /\ Goto(r, "done")
    /\ UNCHANGED <<qcNow, qcDb, qcRead, qcWpc, qcWrote, qcAt>>

\* make_room for another user, or the cleanup task.
Evict ==
    /\ qcCache # None
    /\ qcCache' = None
    /\ UNCHANGED <<qcNow, qcDb, qcRpc, qcRead, qcWpc, qcWrote, qcAt>>

-----------------------------------------------------------------------------
(* patch_quota and the signup *)

\* The transaction commits.  A patch without a user is answered with 404, and
\* one that does not validate or fails changes nothing either.
Commit(w) ==
    /\ qcWpc[w] = "idle" /\ (w = "signup" <=> qcDb = 0)
    /\ qcDb' = qcDb + 1
    /\ qcWpc' = [qcWpc EXCEPT ![w] = "committed"]
    /\ qcWrote' = [qcWrote EXCEPT ![w] = qcDb + 1]
    /\ qcAt' = [qcAt EXCEPT ![w] = qcNow]
    /\ UNCHANGED <<qcNow, qcCache, qcRpc, qcRead>>

\* patch_quota removes the entry, the signup inserts one: cache_user_quota.
AfterCommit(w) ==
    /\ qcWpc[w] = "committed"
    /\ \/ w # "signup" /\ qcCache' = Remove
       \/ w = "signup" /\ Insert(qcWrote[w], qcAt[w])
    /\ qcWpc' = [qcWpc EXCEPT ![w] = "done"]
    /\ UNCHANGED <<qcNow, qcDb, qcRpc, qcRead, qcWrote, qcAt>>

\* The client goes away while the handler awaits the COMMIT, or its answer is
\* lost: the row has changed and the cache is not told.
Abandon(w) ==
    /\ qcWpc[w] = "committed"
    /\ qcWpc' = [qcWpc EXCEPT ![w] = "gone"]
    /\ UNCHANGED <<qcNow, qcDb, qcCache, qcRpc, qcRead, qcWrote, qcAt>>

-----------------------------------------------------------------------------
(* Specification *)

QcTick ==
    /\ qcNow < QcMaxNow
    /\ \A r \in Resolvers : qcRpc[r] = "insert" => qcNow < qcAt[r] + MaxQuery
    /\ \A w \in Writers : qcWpc[w] = "committed" => qcNow < qcAt[w] + MaxQuery
    /\ qcNow' = qcNow + 1
    /\ UNCHANGED <<qcDb, qcCache, qcRpc, qcRead, qcWpc, qcWrote, qcAt>>

QcNext ==
    \/ QcTick \/ Evict
    \/ \E r \in Resolvers : Get(r) \/ Miss(r) \/ Query(r) \/ InsertRead(r)
    \/ \E w \in Writers : Commit(w) \/ AfterCommit(w) \/ Abandon(w)

QcSpec == QcInit /\ [][QcNext]_qcVars

-----------------------------------------------------------------------------
(* Properties *)

(***************************************************************************)
(* "they take effect once this TTL expires" (quota_cache.rs): a version is *)
(* used no longer than its TTL after it was read, plus the time a query    *)
(* may take; the absence of a user no longer than the negative TTL.        *)
(***************************************************************************)
StaleForTtlAtMost ==
    qcCache # None /\ ~Expired(qcCache) =>
       qcNow <= qcCache.from + MaxQuery + (IF qcCache.val = 0 THEN NegativeTtl ELSE CacheTtl)

(***************************************************************************)
(* "The cached entry is actively invalidated after commit" (patch_quota):  *)
(* an entry older than what a PATCH that was answered has written was read *)
(* before that PATCH committed and inserted after it, by a resolver that   *)
(* raced it, however many PATCHes, signups and evictions overlap.  A PATCH *)
(* that was abandoned in its COMMIT promises nothing but the TTL.          *)
(***************************************************************************)
StaleNeedsRace ==
    qcCache # None =>
       \A w \in Writers : qcWpc[w] = "done" /\ qcWrote[w] > qcCache.val =>
          qcCache.cachedAt >= qcAt[w] /\ qcCache.from <= qcAt[w]

(***************************************************************************)
(* A cached quota is the row's, or was until a change that raced its query *)
(* or was abandoned, and not for longer than the cache keeps it            *)
(* (quota_cache.rs).                                                       *)
(***************************************************************************)
CachedQuotaSound == QcTypeOK /\ StaleForTtlAtMost /\ StaleNeedsRace
===============================================================================
