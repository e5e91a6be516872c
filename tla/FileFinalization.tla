-------------------------- MODULE FileFinalization --------------------------
(***************************************************************************)
(* How a homeserver changes a file: the WebDAV write lock checked by the   *)
(* HTTP layer, the finalization of a PUT or DELETE in a database           *)
(* transaction that holds the owner's user row, and the blob published to  *)
(* (or removed from) a backend that cannot join that transaction.          *)
(*                                                                         *)
(* One owner.  A request's content is identified with the request, so an   *)
(* entry row or a blob holds the name of the PUT that produced it.  A      *)
(* database transaction may die at any moment; its request only learns of  *)
(* it from its next statement.  A request sent to the object store may be  *)
(* given up on and still be executed later.  Times are abstracted: a live  *)
(* lock may expire at any moment (EntryLocks has the clock).               *)
(***************************************************************************)
EXTENDS Integers, Sequences, FiniteSets, FiniteSetsExt, Values

CONSTANTS
    Ops,            \* the requests, each of them served once
    Paths,          \* the owner's file paths
    Tokens,         \* the lock tokens (UUIDs) that LOCK hands out
    Lengths,        \* content lengths
    Jobs,           \* what a request may ask for
    Quotas,         \* the storage limits an administrator sets
    MetadataSize,   \* FILE_METADATA_SIZE
    Collides,       \* pairs of paths that cannot both be files
    Staged          \* TRUE on an object store under StagedPublishLayer

JobType == [kind : {"put", "delete"}, path : Paths, len : Lengths,
            token : Tokens \cup {None}, admin : BOOLEAN]

ASSUME ConstantsAssumption ==
    /\ Jobs \subseteq JobType
    /\ \A j \in Jobs : j.admin => j.token = None
    /\ Lengths \subseteq Nat
    /\ Quotas \subseteq Nat \cup {None}
    /\ MetadataSize \in Nat \ {0}
    /\ Collides \subseteq Paths \X Paths
    /\ \A p, q \in Paths : <<p, q>> \in Collides => <<q, p>> \in Collides
    /\ Staged \in BOOLEAN
    /\ None \notin Ops \cup Tokens \cup Nat

VARIABLES
    \* Database
    entry,      \* entry[p]: the PUT the entry row of p describes, or None
    used,       \* users.used_bytes
    quota,      \* the owner's storage limit, None for unlimited
    events,     \* the committed events, in id order
    lock,       \* lock[p]: the entry_locks row of p
    issued,     \* the tokens handed out so far
    open,       \* the requests whose finalization transaction is alive
    \* Object store
    blob,       \* blob[p]: whose bytes are at p, and their generation
    lastGen,    \* the last generation the store gave out
    inflight,   \* the requests whose publish or removal may still execute
    \* Requests
    job,        \* what each request asks for
    pc,         \* the step each request is at
    prep,       \* what the finalization read under the user row
    expected,   \* the generation the publish or removal is made under
    answer,     \* the store's answer to it
    reply       \* what the client was told

dbVars == <<entry, used, events>>
lockVars == <<lock, issued>>
storeVars == <<blob, lastGen, inflight>>
reqVars == <<prep, expected, answer>>
vars == <<entry, used, quota, events, lock, issued, open, blob, lastGen,
          inflight, job, pc, prep, expected, answer, reply>>

-----------------------------------------------------------------------------
(* State *)

NoLock == [token |-> None, live |-> FALSE]
Absent == [by |-> None, gen |-> 0]
NoPrep == [entry |-> None, used |-> 0, delta |-> 0]

Steps == {"idle", "upload", "exists", "close", "prepare", "stat", "prove",
          "publish", "sent", "commit", "clear", "recheck", "done"}
Replies == {"none", "ok", "locked", "mismatch", "quota", "collision",
            "aborted", "notfound", "locklost", "conflict", "error", "crashed"}

PrepType == [entry : Ops \cup {None}, used : Nat, delta : Int]
BlobType == [by : Ops \cup {None}, gen : Nat]

TypeOK ==
    /\ entry \in [Paths -> Ops \cup {None}]
    /\ used \in Nat
    /\ quota \in Quotas
    /\ events \in Seq([type : {"PUT", "DEL"}, path : Paths, by : Ops])
    /\ lock \in [Paths -> [token : Tokens \cup {None}, live : BOOLEAN]]
    /\ issued \in SUBSET Tokens
    /\ open \in SUBSET Ops
    /\ blob \in [Paths -> BlobType]
    /\ lastGen \in Nat
    /\ inflight \in SUBSET Ops
    /\ job \in [Ops -> Jobs]
    /\ pc \in [Ops -> Steps]
    /\ prep \in [Ops -> PrepType]
    /\ expected \in [Ops -> Nat]
    /\ answer \in [Ops -> {"none", "done", "conflict", "error"}]
    /\ reply \in [Ops -> Replies]

Init ==
    /\ entry = [p \in Paths |-> None]
    /\ used = 0
    /\ quota \in Quotas
    /\ events = <<>>
    /\ lock = [p \in Paths |-> NoLock]
    /\ issued = {}
    /\ open = {}
    /\ blob = [p \in Paths |-> Absent]
    /\ lastGen = 0
    /\ inflight = {}
    /\ job \in [Ops -> Jobs]
    /\ pc = [o \in Ops |-> "idle"]
    /\ prep = [o \in Ops |-> NoPrep]
    /\ expected = [o \in Ops |-> 0]
    /\ answer = [o \in Ops |-> "none"]
    /\ reply = [o \in Ops |-> "none"]

PathOf(o) == job[o].path
IsPut(o) == job[o].kind = "put"

-----------------------------------------------------------------------------
(* Helpers *)

\* EntryRepository::has_file_folder_collision.
HasCollision(p) == \E q \in Paths : <<p, q>> \in Collides /\ entry[q] # None

\* The bytes a PUT of `len` adds to the account, given the existing row.
BytesDelta(len, existing) ==
    IF existing = None THEN len + MetadataSize ELSE len - job[existing].len

\* Mutant: the limit is compared with the account as it was before the write.
MutWouldExceedLimit(current, delta, max) == max # None /\ current > max

\* quota.rs: would_exceed_limit.
WouldExceedLimit(current, delta, max) ==
    /\ max # None
    /\ current + delta > 0
    /\ current + delta > max

SaturatingAdd(n, delta) == IF n + delta < 0 THEN 0 ELSE n + delta
SaturatingSub(n, m) == IF m > n THEN 0 ELSE n - m

\* EntryLockRepository::hold: `token` holds the live lock on p.
HoldsLiveLock(p, token) == lock[p].token = token /\ lock[p].live

\* Mutant: hold reads the lock row without FOR UPDATE.
MutLockRowHeld(p) == FALSE

\* The lock row of p is taken FOR UPDATE by a finalization, from its hold to
\* the end of its transaction.
LockRowHeld(p) ==
    \E o \in open : /\ PathOf(o) = p
                    /\ job[o].token # None
                    /\ \/ IsPut(o) /\ pc[o] \notin {"close", "prepare"}
                       \/ ~IsPut(o) /\ pc[o] = "commit"

\* Mutant: a request that ends leaves its transaction open.
MutFinish(o, r) ==
    /\ pc' = [pc EXCEPT ![o] = "done"]
    /\ reply' = [reply EXCEPT ![o] = r]
    /\ UNCHANGED open

\* End the request, and its transaction if it has one.
Finish(o, r) ==
    /\ pc' = [pc EXCEPT ![o] = "done"]
    /\ reply' = [reply EXCEPT ![o] = r]
    /\ open' = open \ {o}

Goto(o, step) == pc' = [pc EXCEPT ![o] = step]

-----------------------------------------------------------------------------
(* The request, before its finalization *)

\* with_write_lock / check_lock.  A token must name the live lock of the path;
\* without a token the path must not be locked.  The administrator's operator
\* is not behind this check.
CheckLock(o) ==
    /\ pc[o] = "idle"
    /\ LET p == PathOf(o)
           t == job[o].token
       IN  \/ /\ job[o].admin \/ IF t = None THEN ~lock[p].live
                                             ELSE HoldsLiveLock(p, t)
              /\ Goto(o, IF IsPut(o) THEN "upload" ELSE "exists")
              /\ UNCHANGED <<reply, open>>
           \/ /\ ~job[o].admin /\ t = None /\ lock[p].live
              /\ Finish(o, "locked")
           \/ /\ t # None /\ ~HoldsLiveLock(p, t)
              /\ Finish(o, "mismatch")
           \* fail_if_size_hint_exceeds_quota: only with a Content-Length.
           \/ /\ IsPut(o) /\ ~job[o].admin
              /\ WouldExceedLimit(used, BytesDelta(job[o].len, entry[p]), quota)
              /\ Finish(o, "quota")
    /\ UNCHANGED <<dbVars, quota, lockVars, storeVars, job, reqVars>>

\* CheckedWriter: the collision check before the first byte, then the body.
Upload(o) ==
    /\ pc[o] = "upload"
    /\ \/ /\ ~job[o].admin /\ HasCollision(PathOf(o))
          /\ Finish(o, "collision")
       \/ /\ job[o].admin \/ ~HasCollision(PathOf(o))
          /\ Goto(o, "close")
          /\ UNCHANGED <<reply, open>>
    /\ UNCHANGED <<dbVars, quota, lockVars, storeVars, job, reqVars>>

\* FileService::delete: a path without a blob is not found.
CheckExists(o) ==
    /\ pc[o] = "exists"
    /\ \/ /\ blob[PathOf(o)] = Absent
          /\ Finish(o, "notfound")
       \/ /\ blob[PathOf(o)] # Absent
          /\ Goto(o, "close")
          /\ UNCHANGED <<reply, open>>
    /\ UNCHANGED <<dbVars, quota, lockVars, storeVars, job, reqVars>>

\* The client goes away before the finalization task is spawned.
Disconnect(o) ==
    /\ pc[o] \in {"upload", "exists"}
    /\ Finish(o, "aborted")
    /\ UNCHANGED <<dbVars, quota, lockVars, storeVars, job, reqVars>>

-----------------------------------------------------------------------------
(* Finalization *)

\* Mutant: the user row is read without a row lock.
MutUserRowFree == TRUE

\* BEGIN and SELECT ... FOR NO KEY UPDATE on the user row: waits for every
\* other transaction that holds the row.
UserRowFree == open = {}

TakeUserRow(o) ==
    /\ pc[o] \in {"close", "clear"}
    /\ UserRowFree
    /\ open' = open \cup {o}
    /\ Goto(o, IF pc[o] = "close" THEN "prepare" ELSE "recheck")
    /\ UNCHANGED <<dbVars, quota, lockVars, storeVars, job, reqVars, reply>>

\* A statement of a transaction that has died fails, and the request with it.
\* Whether the failure is before or after publication, the client gets an
\* error and nothing is committed.
StatementFails(o) ==
    /\ pc[o] \in {"prepare", "prove", "commit", "recheck"}
    /\ o \notin open
    /\ Finish(o, "error")
    /\ UNCHANGED <<dbVars, quota, lockVars, storeVars, job, reqVars>>

\* write_lock::hold, refused.
LockLost(o) ==
    /\ pc[o] = "prepare"
    /\ o \in open
    /\ job[o].token # None /\ ~HoldsLiveLock(PathOf(o), job[o].token)
    /\ Finish(o, "locklost")
    /\ UNCHANGED <<dbVars, quota, lockVars, storeVars, job, reqVars>>

HoldPasses(o) ==
    \/ job[o].token = None
    \/ HoldsLiveLock(PathOf(o), job[o].token)

\* check_no_path_collision, again under the user row.
CollisionRefused(o) == ~job[o].admin /\ HasCollision(PathOf(o))

\* Finalizer::prepare_write after the user row: hold the lock, check for a
\* collision, load the existing entry, check the quota.
PrepareWrite(o) ==
    /\ pc[o] = "prepare" /\ IsPut(o)
    /\ o \in open
    /\ HoldPasses(o)
    /\ LET p == PathOf(o)
           delta == BytesDelta(job[o].len, entry[p])
       IN  \/ /\ CollisionRefused(o)
              /\ Finish(o, "collision")
              /\ UNCHANGED prep
           \/ /\ ~CollisionRefused(o)
              /\ WouldExceedLimit(used, delta, quota)
              /\ Finish(o, "quota")
              /\ UNCHANGED prep
           \/ /\ ~CollisionRefused(o)
              /\ ~WouldExceedLimit(used, delta, quota)
              /\ prep' = [prep EXCEPT ![o] = [entry |-> entry[p],
                                              used  |-> used,
                                              delta |-> delta]]
              /\ Goto(o, "stat")
              /\ UNCHANGED <<reply, open>>
    /\ UNCHANGED <<dbVars, quota, lockVars, storeVars, job, expected, answer>>

\* generation_under_lock: the stat of the live object ...
ReadGeneration(o) ==
    /\ pc[o] = "stat"
    /\ \/ /\ expected' = [expected EXCEPT ![o] = blob[PathOf(o)].gen]
          /\ Goto(o, "prove")
          /\ UNCHANGED <<reply, open>>
       \/ /\ Finish(o, "error")          \* the stat failed
          /\ UNCHANGED expected
    /\ UNCHANGED <<dbVars, quota, lockVars, storeVars, job, prep, answer>>

\* Mutant: no round trip after the stat.
MutTransactionAlive(o) == TRUE

\* ... and SELECT 1, which succeeds only if the transaction is still alive.
TransactionAlive(o) == o \in open

\* A delete that finds no object is done.
ProveAlive(o) ==
    /\ pc[o] = "prove"
    /\ TransactionAlive(o)
    /\ \/ /\ ~IsPut(o) /\ expected[o] = 0
          /\ Finish(o, "ok")
       \/ /\ IsPut(o) \/ expected[o] # 0
          /\ Goto(o, "publish")
          /\ UNCHANGED <<reply, open>>
    /\ UNCHANGED <<dbVars, quota, lockVars, storeVars, job, reqVars>>

\* StagedWriter::close / ConditionalDeleter::delete: finish the staged upload
\* and send the copy, or send the removal.  An upload the store did not
\* confirm sends no copy.
SendToStore(o) ==
    /\ pc[o] = "publish"
    /\ \/ /\ inflight' = inflight \cup {o}
          /\ Goto(o, "sent")
          /\ UNCHANGED <<reply, open>>
       \/ /\ IsPut(o)
          /\ Finish(o, "error")
          /\ UNCHANGED inflight
    /\ UNCHANGED <<dbVars, quota, lockVars, blob, lastGen, job, reqVars>>

\* Mutant: the copy and the removal carry no generation condition.
MutConditionHolds(o) == TRUE

\* The store executes a request, however late, under its generation condition.
ConditionHolds(o) == Staged => blob[PathOf(o)].gen = expected[o]

Execute(o) ==
    /\ o \in inflight
    /\ inflight' = inflight \ {o}
    /\ \/ /\ ConditionHolds(o)
          /\ \/ /\ IsPut(o)
                /\ lastGen' = lastGen + 1
                /\ blob' = [blob EXCEPT ![PathOf(o)] =
                                [by |-> o, gen |-> lastGen + 1]]
             \/ /\ ~IsPut(o)
                /\ blob' = [blob EXCEPT ![PathOf(o)] = Absent]
                /\ UNCHANGED lastGen
          /\ answer' = [answer EXCEPT ![o] = "done"]
       \/ /\ ~ConditionHolds(o)
          /\ answer' = [answer EXCEPT ![o] = "conflict"]
          /\ UNCHANGED <<blob, lastGen>>
    /\ UNCHANGED <<dbVars, quota, lockVars, open, job, pc, prep, expected, reply>>

\* A request that never executes: it was lost, or its staging object is gone.
NeverExecutes(o) ==
    /\ o \in inflight
    /\ inflight' = inflight \ {o}
    /\ answer' = [answer EXCEPT ![o] = "error"]
    /\ UNCHANGED <<dbVars, quota, lockVars, open, blob, lastGen, job, pc, prep,
                   expected, reply>>

\* A publish that answered goes on to the commit; a refused one is a conflict.
\* The removal of a delete is done whether it was executed or refused.
ReceiveAnswer(o) ==
    /\ pc[o] = "sent"
    /\ answer[o] # "none"
    /\ \/ /\ answer[o] = "error"
          /\ Finish(o, "error")
       \/ /\ IsPut(o) /\ answer[o] = "conflict"
          /\ Finish(o, "conflict")
       \/ /\ IsPut(o) /\ answer[o] = "done"
          /\ Goto(o, "commit")
          /\ UNCHANGED <<reply, open>>
       \/ /\ ~IsPut(o) /\ answer[o] \in {"done", "conflict"}
          /\ Finish(o, "ok")
    /\ UNCHANGED <<dbVars, quota, lockVars, storeVars, job, reqVars>>

\* BACKEND_IO_TIMEOUT, remote backends only: the request stays with the store.
GiveUp(o) ==
    /\ Staged
    /\ pc[o] = "sent"
    /\ Finish(o, "error")
    /\ UNCHANGED <<dbVars, quota, lockVars, storeVars, job, reqVars>>

\* apply_write_effects and COMMIT, from what prepare_write read.  The answer
\* to the commit may be lost.
CommitWrite(o) ==
    /\ pc[o] = "commit" /\ IsPut(o)
    /\ o \in open
    /\ entry' = [entry EXCEPT ![PathOf(o)] = o]
    /\ used' = SaturatingAdd(prep[o].used, prep[o].delta)
    /\ events' = Append(events, [type |-> "PUT", path |-> PathOf(o), by |-> o])
    /\ \/ Finish(o, "ok")
       \/ Finish(o, "error")
    /\ UNCHANGED <<quota, lockVars, storeVars, job, reqVars>>

-----------------------------------------------------------------------------
(* Delete *)

\* stage_delete: hold the lock and load the row.  Without a row there is
\* nothing to finalize, and the blob is looked at next.
StageDelete(o) ==
    /\ pc[o] = "prepare" /\ ~IsPut(o)
    /\ o \in open
    /\ HoldPasses(o)
    /\ \/ /\ entry[PathOf(o)] = None
          /\ Goto(o, "clear")
          /\ open' = open \ {o}
          /\ UNCHANGED prep
       \/ /\ entry[PathOf(o)] # None
          /\ prep' = [prep EXCEPT ![o] =
                         [entry |-> entry[PathOf(o)], used |-> used,
                          delta |-> job[entry[PathOf(o)]].len + MetadataSize]]
          /\ Goto(o, "commit")
          /\ UNCHANGED open
    /\ UNCHANGED <<dbVars, quota, lockVars, storeVars, job, expected, answer, reply>>

\* apply_delete_effects and COMMIT; then the blob.
CommitDelete(o) ==
    /\ pc[o] = "commit" /\ ~IsPut(o)
    /\ o \in open
    /\ entry' = [entry EXCEPT ![PathOf(o)] = None]
    /\ used' = SaturatingSub(prep[o].used, prep[o].delta)
    /\ events' = Append(events, [type |-> "DEL", path |-> PathOf(o), by |-> o])
    /\ \/ /\ Goto(o, "clear")
          /\ open' = open \ {o}
          /\ UNCHANGED reply
       \/ Finish(o, "error")
    /\ UNCHANGED <<quota, lockVars, storeVars, job, reqVars>>

\* Mutant: the blob of a finalized delete is removed without a second look.
MutRowIsBack(p) == FALSE

\* remove_blob_in_transaction: under the user row again, a path that has a row
\* by now keeps its blob.
RowIsBack(p) == entry[p] # None

RecheckRow(o) ==
    /\ pc[o] = "recheck"
    /\ o \in open
    /\ \/ /\ RowIsBack(PathOf(o))
          /\ Finish(o, "ok")
       \/ /\ ~RowIsBack(PathOf(o))
          /\ Goto(o, "stat")
          /\ UNCHANGED <<reply, open>>
    /\ UNCHANGED <<dbVars, quota, lockVars, storeVars, job, reqVars>>

-----------------------------------------------------------------------------
(* Failures *)

\* The connection of a finalization dies; the database rolls it back.
TransactionDies(o) ==
    /\ o \in open
    /\ open' = open \ {o}
    /\ UNCHANGED <<dbVars, quota, lockVars, storeVars, job, pc, reqVars, reply>>

\* The process dies.
Crash(o) ==
    /\ pc[o] \notin {"idle", "done"}
    /\ Finish(o, "crashed")
    /\ UNCHANGED <<dbVars, quota, lockVars, storeVars, job, reqVars>>

-----------------------------------------------------------------------------
(* Locks and quota *)

\* create_lock: sweep every expired lock, then take the path's.  Both
\* statements wait for the rows that a finalization holds.
Lock(p, t) ==
    /\ t \notin issued
    /\ ~lock[p].live
    /\ \A q \in Paths : ~lock[q].live => ~LockRowHeld(q)
    /\ issued' = issued \cup {t}
    /\ lock' = [q \in Paths |-> IF q = p THEN [token |-> t, live |-> TRUE]
                                ELSE IF lock[q].live THEN lock[q] ELSE NoLock]
    /\ UNCHANGED <<dbVars, quota, open, storeVars, job, pc, reqVars, reply>>

\* EntryLockRepository::release, expired or not.
Unlock(p, t) ==
    /\ lock[p].token = t
    /\ ~LockRowHeld(p)
    /\ lock' = [lock EXCEPT ![p] = NoLock]
    /\ UNCHANGED <<dbVars, quota, issued, open, storeVars, job, pc, reqVars, reply>>

\* The database clock passes the lock's expires_at.
Expire(p) ==
    /\ lock[p].live
    /\ lock' = [lock EXCEPT ![p].live = FALSE]
    /\ UNCHANGED <<dbVars, quota, issued, open, storeVars, job, pc, reqVars, reply>>

\* UserService::patch_quota, under the user row.
PatchQuota(q) ==
    /\ UserRowFree
    /\ q # quota
    /\ quota' = q
    /\ UNCHANGED <<dbVars, lockVars, open, storeVars, job, pc, reqVars, reply>>

-----------------------------------------------------------------------------
(* Specification *)

FinalizationStep(o) ==
    \/ TakeUserRow(o) \/ StatementFails(o) \/ LockLost(o)
    \/ PrepareWrite(o) \/ StageDelete(o) \/ RecheckRow(o)
    \/ ReadGeneration(o) \/ ProveAlive(o) \/ SendToStore(o)
    \/ ReceiveAnswer(o) \/ GiveUp(o)
    \/ CommitWrite(o) \/ CommitDelete(o)

Next ==
    \/ \E o \in Ops :
        \/ CheckLock(o) \/ Upload(o) \/ CheckExists(o) \/ Disconnect(o)
        \/ FinalizationStep(o)
        \/ Execute(o) \/ NeverExecutes(o)
        \/ TransactionDies(o) \/ Crash(o)
    \/ \E p \in Paths, t \in Tokens : Lock(p, t) \/ Unlock(p, t)
    \/ \E p \in Paths : Expire(p)
    \/ \E q \in Quotas : PatchQuota(q)

Spec == Init /\ [][Next]_vars

\* A finalization task that was spawned runs to its end; a local backend
\* always answers, and a remote one is given up on.
Fairness ==
    \A o \in Ops : /\ WF_vars(FinalizationStep(o))
                   /\ WF_vars(~Staged /\ (Execute(o) \/ NeverExecutes(o)))

FairSpec == Spec /\ Fairness

-----------------------------------------------------------------------------
(* Properties *)

\* The entry row a request's change was prepared against: what a PUT loaded
\* under the user row, and no row for the blob removal of a DELETE.
PreparedAgainst(o) == IF IsPut(o) THEN prep[o].entry ELSE None

\* A request that the store may yet execute, or that is about to be sent.
Pending(o) == o \in inflight \/ pc[o] = "publish"

\* A PUT whose bytes were published and whose row is not committed yet.
Published(o) ==
    /\ IsPut(o)
    /\ pc[o] = "commit" \/ (pc[o] = "sent" /\ answer[o] = "done")

\* One transaction holds the user row.
OneRowHolder == \A a, b \in open : a = b

\* While a finalization lives, the row it loaded is the row of its path.
RowUnchanged ==
    \A o \in open :
       pc[o] \in {"stat", "prove", "publish", "sent"} \/ (IsPut(o) /\ pc[o] = "commit")
          => entry[PathOf(o)] = PreparedAgainst(o)

\* A request is sent to the store once, and answered once.
SentOnce ==
    /\ \A o \in inflight : pc[o] \in {"sent", "done"} /\ answer[o] = "none"
    /\ \A o \in Ops : answer[o] # "none" =>
          pc[o] \in {"sent", "done"} \/ (IsPut(o) /\ pc[o] = "commit")

\* Generations are given out in order, and 0 is the generation of no object.
GenerationsBounded ==
    /\ \A p \in Paths : blob[p].gen <= lastGen /\ (blob[p].gen = 0 => blob[p] = Absent)
    /\ \A o \in Ops : expected[o] <= lastGen

\* A pending request that finds its generation finds no row but its own.
PendingGuarded ==
    \A o \in Ops : Pending(o) /\ blob[PathOf(o)].gen = expected[o]
                      => entry[PathOf(o)] \in {None, PreparedAgainst(o)}

\* Nothing pending can replace what a live transaction has published.
PublishedStays ==
    \A w \in open : Published(w) =>
       /\ blob[PathOf(w)].by = w
       /\ \A o \in Ops : Pending(o) /\ PathOf(o) = PathOf(w)
                            => expected[o] # blob[PathOf(w)].gen

(***************************************************************************)
(* Why a stale request cannot land (generation_under_lock in layer.rs and  *)
(* staged_publish_layer.rs): the parts above, together.                    *)
(***************************************************************************)
PublishInv ==
    /\ OneRowHolder
    /\ RowUnchanged
    /\ SentOnce
    /\ GenerationsBounded
    /\ PendingGuarded
    /\ PublishedStays

(***************************************************************************)
(* "A locked write is never replaced by one that was prepared against an   *)
(* older file" (persistence/files/mod.rs).  Whenever the store executes a  *)
(* publish or a removal, however late and whatever became of the           *)
(* transaction it was made under, the path has no entry row or the very    *)
(* row the request was prepared against.                                   *)
(***************************************************************************)
StoreChangesOnlyPreparedFile ==
    [][\A o \in Ops :
          Execute(o) /\ blob' # blob
             => entry[PathOf(o)] \in {None, PreparedAgainst(o)}]_vars

(***************************************************************************)
(* finalize_write publishes before it commits, and nothing gets in between:*)
(* when an entry row is committed, the blob at the path is the one that    *)
(* row describes.  So a write that succeeds also heals a path whose blob   *)
(* and row disagreed.                                                      *)
(***************************************************************************)
CommittedRowHasItsBlob ==
    [][\A p \in Paths :
          entry'[p] # entry[p] /\ entry'[p] # None => blob[p].by = entry'[p]]_vars

(***************************************************************************)
(* An entry row never loses its blob: a delete commits the row removal     *)
(* first, and removes the blob only under the user row, if the path still  *)
(* has no row, and under the generation it saw.                            *)
(***************************************************************************)
RowHasBlob == \A p \in Paths : entry[p] # None => blob[p] # Absent

(***************************************************************************)
(* The only ways row and blob can disagree are the ones mod.rs lists: once *)
(* every request on a path is over, and none of them failed with an error  *)
(* or died with its process, the row describes the blob and there is no    *)
(* blob without a row.                                                     *)
(***************************************************************************)
DivergenceNeedsFailure ==
    \A p \in Paths :
       (\A o \in Ops : PathOf(o) = p =>
            /\ pc[o] \in {"idle", "upload", "exists", "close", "done"}
            /\ reply[o] \notin {"error", "crashed"})
       => blob[p].by = entry[p]

(***************************************************************************)
(* users.used_bytes is the size of the owner's entries, each with its      *)
(* metadata: concurrent finalizations never lose each other's accounting.  *)
(***************************************************************************)
UsedBytesExact ==
    used = MapThenSumSet(LAMBDA p : job[entry[p]].len + MetadataSize,
                         {p \in Paths : entry[p] # None})

(***************************************************************************)
(* No write is committed that takes the account over the limit in force,   *)
(* although the limit and the account may both change while it uploads.    *)
(***************************************************************************)
QuotaHoldsAtCommit ==
    [][\A o \in Ops : CommitWrite(o) => quota = None \/ used' <= quota]_vars

(***************************************************************************)
(* Replaying the event feed gives the entries: the last event of a path    *)
(* names the PUT its row describes, or is a DEL, or there is none; and a   *)
(* DEL is only ever written for a file that was there.                     *)
(***************************************************************************)
LastEventBefore(p, i) ==
    LET I == {j \in 1..(i - 1) : events[j].path = p}
    IN  IF I = {} \/ events[Max(I)].type = "DEL" THEN None ELSE events[Max(I)].by

EventsReplayToEntries ==
    /\ \A p \in Paths : LastEventBefore(p, Len(events) + 1) = entry[p]
    /\ \A i \in DOMAIN events :
          events[i].type = "DEL" => LastEventBefore(events[i].path, i) # None

(***************************************************************************)
(* An app-facing write never makes a file where another entry needs a      *)
(* folder, or the other way round, though two uploads that collide may     *)
(* both have passed the check before their first byte.                     *)
(***************************************************************************)
NoCollisionCommitted ==
    [][\A o \in Ops : CommitWrite(o) /\ ~job[o].admin
                         => ~HasCollision(PathOf(o))]_vars

(***************************************************************************)
(* A change made under a lock is committed while that lock is still the    *)
(* path's: hold keeps the row until the transaction ends, so the lock      *)
(* cannot be released, swept or taken over by someone else first.          *)
(***************************************************************************)
CommitUnderItsLock ==
    [][\A o \in Ops : (CommitWrite(o) \/ CommitDelete(o)) /\ job[o].token # None
                         => lock[PathOf(o)].token = job[o].token]_vars

(***************************************************************************)
(* Every finalization ends: no failure keeps the user row, and a store     *)
(* that does not answer is given up on.                                    *)
(***************************************************************************)
FinalizationEnds ==
    \A o \in Ops : pc[o] = "close" ~> pc[o] = "done"

(***************************************************************************)
(* The user's account agrees with the user's files at every commit.        *)
(***************************************************************************)
AccountAgrees == UsedBytesExact /\ EventsReplayToEntries

(***************************************************************************)
(* No commit leaves the user over the quota or with a file at the path of  *)
(* a folder, though the checks of racing writes precede their commits.     *)
(***************************************************************************)
CommitRespectsLimits == QuotaHoldsAtCommit /\ NoCollisionCommitted
=============================================================================
