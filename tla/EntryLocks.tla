------------------------------ MODULE EntryLocks ------------------------------
(***************************************************************************)
(* The write lock of one storage path on the database clock: LOCK, its     *)
(* refresh and UNLOCK, writes that run under the lock and keep it alive,   *)
(* and finalizations that hold its row.                                    *)
(*                                                                         *)
(* A statement keeps the clock it started with (STATEMENT_TIMESTAMP) while *)
(* it waits for a row that a finalization holds; nothing else delays one,  *)
(* nor a timer.  Clients that hold a token are named after it.  What a     *)
(* finalization does with blobs and entries is FileFinalization's part.    *)
(***************************************************************************)
EXTENDS Integers, Values

CONSTANTS
    Tokens,          \* the tokens of the LOCK requests
    Writes,          \* the PUT and DELETE requests that present one
    Asked,           \* Timeout headers, NoTimeout for an unusable one
    NoTimeout,
    DefaultTimeout,  \* DEFAULT_LOCK_TIMEOUT_SECS
    MaxTimeout,      \* MAX_LOCK_TIMEOUT_SECS
    Horizon,         \* WRITE_LOCK_HORIZON_SECS
    Interval,        \* KEEPALIVE_INTERVAL
    LkMaxNow         \* bound of the clock

ASSUME LockAssumption ==
    /\ {DefaultTimeout, MaxTimeout, Horizon, Interval} \subseteq Nat \ {0}
    /\ DefaultTimeout <= MaxTimeout /\ Horizon <= MaxTimeout /\ 3 * Interval <= Horizon
    /\ LkMaxNow \in Nat
    /\ Asked \ {NoTimeout} \subseteq Int /\ NoTimeout \notin Int
    /\ None \notin Tokens \cup Writes

VARIABLES
    lkNow,
    lkRow,      \* the entry_locks row: its token (None: no row) and expires_at
    holder,     \* the finalization that holds the row FOR UPDATE
    req,        \* req[t]: the request its client is making
    asked,      \* the lifetime it asked for
    clock,      \* the clock its statement started with
    wr,         \* wr[w]: what a write is doing
    lockOf,     \* the token it presented
    ka,         \* its KeepAlive task
    due,        \* when that task wakes up
    kclock,     \* the clock its keep_alive started with
    \* History
    until,      \* until when its client was told to have the lock
    late,       \* that grant waited for the row
    ended,      \* the client has asked to unlock, or for less than the horizon
    goneAt,     \* when the client disappeared
    lkFailed,   \* keep-alives that failed since one was good
    delayed     \* a keep-alive of the write waited for the row

reqVars == <<req, asked, clock>>
writeVars == <<wr, lockOf, ka, due, kclock, lkFailed, delayed>>
lkVars == <<lkNow, lkRow, holder, req, asked, clock, wr, lockOf, ka, due, kclock,
            until, late, ended, goneAt, lkFailed, delayed>>

LkTypeOK ==
    /\ lkNow \in Nat
    /\ lkRow \in [token : Tokens \cup {None}, exp : Nat]
    /\ holder \in Writes \cup {None}
    /\ req \in [Tokens -> {"new", "sweep", "acquire", "idle", "refresh", "unlock",
                           "refused", "gone"}]
    /\ asked \in [Tokens -> Nat]
    /\ clock \in [Tokens -> Nat]
    /\ wr \in [Writes -> {"idle", "check", "upload", "hold", "done"}]
    /\ lockOf \in [Writes -> Tokens \cup {None}]
    /\ ka \in [Writes -> {"off", "sleep", "extend"}]
    /\ due \in [Writes -> Nat]
    /\ kclock \in [Writes -> Nat]
    /\ until \in [Tokens -> Nat]
    /\ late \in [Tokens -> BOOLEAN]
    /\ ended \in [Tokens -> BOOLEAN]
    /\ goneAt \in [Tokens -> Nat]
    /\ lkFailed \in [Writes -> Nat]
    /\ delayed \in [Writes -> BOOLEAN]

LkInit ==
    /\ lkNow = 0
    /\ lkRow = [token |-> None, exp |-> 0]
    /\ holder = None
    /\ req = [t \in Tokens |-> "new"]
    /\ asked = [t \in Tokens |-> 0]
    /\ clock = [t \in Tokens |-> 0]
    /\ wr = [w \in Writes |-> "idle"]
    /\ lockOf = [w \in Writes |-> None]
    /\ ka = [w \in Writes |-> "off"]
    /\ due = [w \in Writes |-> 0]
    /\ kclock = [w \in Writes |-> 0]
    /\ until = [t \in Tokens |-> 0]
    /\ late = [t \in Tokens |-> FALSE]
    /\ ended = [t \in Tokens |-> FALSE]
    /\ goneAt = [t \in Tokens |-> 0]
    /\ lkFailed = [w \in Writes |-> 0]
    /\ delayed = [w \in Writes |-> FALSE]

-----------------------------------------------------------------------------
(* Helpers *)

\* requested_timeout: clamp(1, MAX_LOCK_TIMEOUT_SECS).
RequestedTimeout(a) ==
    IF a = NoTimeout THEN DefaultTimeout
    ELSE IF a < 1 THEN 1 ELSE IF a > MaxTimeout THEN MaxTimeout ELSE a

\* Mutant: the finalization checks the lock and does not hold it.
MutRowHeld == FALSE

\* EntryLockRepository::hold: the row is locked until its transaction ends.
RowHeld == holder # None

\* The row that carries token t.
IsRow(t) == lkRow.token = t

\* `expires_at > c`.
LiveAt(c) == lkRow.token # None /\ lkRow.exp > c

\* set_expiry_of_live_lock: the SELECT ... FOR UPDATE has absorbed the wait.
UpdateClock(started) == lkNow

\* keep_alive: GREATEST(expires_at, now + horizon).
KeptAlive(c) == IF lkRow.exp > c + Horizon THEN lkRow.exp ELSE c + Horizon

\* Drop for KeepAlive: the task is aborted, and its statement with it.
AfterDrop(k) == "off"

\* The request's statement waits for the row.
Blocked(t) ==
    /\ RowHeld
    /\ \/ req[t] = "sweep" /\ lkRow.exp <= clock[t]
       \/ req[t] = "acquire"
       \/ req[t] \in {"refresh", "unlock"} /\ IsRow(t)

\* So does the write's keep_alive.
WriteBlocked(w) == RowHeld /\ IsRow(lockOf[w])

-----------------------------------------------------------------------------
(* LOCK and UNLOCK *)

Begin(t, stmt) ==
    /\ req' = [req EXCEPT ![t] = stmt]
    /\ clock' = [clock EXCEPT ![t] = lkNow]

AnswerLock(t, r) == req' = [req EXCEPT ![t] = r] /\ UNCHANGED clock

\* lock, without a token: create_lock.
Lock(t, a) ==
    /\ req[t] = "new"
    /\ asked' = [asked EXCEPT ![t] = RequestedTimeout(a)]
    /\ Begin(t, "sweep")
    /\ UNCHANGED <<lkNow, lkRow, holder, writeVars, until, late, ended, goneAt>>

\* delete_expired; acquire is a statement of its own.
Sweep(t) ==
    /\ req[t] = "sweep" /\ ~Blocked(t)
    /\ lkRow' = IF lkRow.exp <= clock[t] THEN [token |-> None, exp |-> 0] ELSE lkRow
    /\ Begin(t, "acquire")
    /\ UNCHANGED <<lkNow, holder, asked, writeVars, until, late, ended, goneAt>>

\* acquire: INSERT ... ON CONFLICT DO UPDATE ... WHERE expires_at <= now.
Acquire(t) ==
    /\ req[t] = "acquire" /\ ~Blocked(t)
    /\ \/ /\ ~LiveAt(clock[t])
          /\ lkRow' = [token |-> t, exp |-> clock[t] + asked[t]]
          /\ until' = [until EXCEPT ![t] = lkNow + asked[t]]
          /\ late' = [late EXCEPT ![t] = lkNow > clock[t]]
          /\ AnswerLock(t, "idle")
       \/ /\ LiveAt(clock[t])
          /\ AnswerLock(t, "refused")
          /\ UNCHANGED <<lkRow, until, late>>
    /\ UNCHANGED <<lkNow, holder, asked, writeVars, ended, goneAt>>

\* lock, with the token: the lifetime begins anew, and may be shorter.
Refresh(t, a) ==
    /\ req[t] = "idle"
    /\ asked' = [asked EXCEPT ![t] = RequestedTimeout(a)]
    /\ Begin(t, "refresh")
    /\ until' = [until EXCEPT ![t] = 0]
    /\ ended' = [ended EXCEPT ![t] = @ \/ RequestedTimeout(a) < Horizon]
    /\ UNCHANGED <<lkNow, lkRow, holder, writeVars, late, goneAt>>

\* EntryLockRepository::refresh.
SetExpiry(t) ==
    /\ req[t] = "refresh" /\ ~Blocked(t)
    /\ LET c == UpdateClock(clock[t])
       IN  \/ /\ IsRow(t) /\ LiveAt(c)
              /\ lkRow' = [lkRow EXCEPT !.exp = c + asked[t]]
              /\ until' = [until EXCEPT ![t] = lkNow + asked[t]]
              /\ late' = [late EXCEPT ![t] = FALSE]
           \/ /\ ~(IsRow(t) /\ LiveAt(c))
              /\ UNCHANGED <<lkRow, until, late>>
    /\ AnswerLock(t, "idle")
    /\ UNCHANGED <<lkNow, holder, asked, writeVars, ended, goneAt>>

Unlock(t) ==
    /\ req[t] = "idle"
    /\ Begin(t, "unlock")
    /\ until' = [until EXCEPT ![t] = 0]
    /\ ended' = [ended EXCEPT ![t] = TRUE]
    /\ UNCHANGED <<lkNow, lkRow, holder, asked, writeVars, late, goneAt>>

\* EntryLockRepository::release: expired or not.
Release(t) ==
    /\ req[t] = "unlock" /\ ~Blocked(t)
    /\ lkRow' = IF IsRow(t) THEN [token |-> None, exp |-> 0] ELSE lkRow
    /\ AnswerLock(t, "idle")
    /\ UNCHANGED <<lkNow, holder, asked, writeVars, until, late, ended, goneAt>>

\* The statement fails; a LOCK that fails has no token.
RequestFails(t) ==
    /\ \/ req[t] \in {"sweep", "acquire"} /\ AnswerLock(t, "refused")
       \/ req[t] \in {"refresh", "unlock"} /\ AnswerLock(t, "idle")
    /\ UNCHANGED <<lkNow, lkRow, holder, asked, writeVars, until, late, ended, goneAt>>

-----------------------------------------------------------------------------
(* Writes under a lock *)

\* with_write_lock: the request presents a token.
StartWrite(w, t) ==
    /\ wr[w] = "idle" /\ req[t] \in {"idle", "refresh", "unlock"}
    /\ wr' = [wr EXCEPT ![w] = "check"]
    /\ lockOf' = [lockOf EXCEPT ![w] = t]
    /\ kclock' = [kclock EXCEPT ![w] = lkNow]
    /\ UNCHANGED <<lkNow, lkRow, holder, reqVars, ka, due, until, late, ended, goneAt,
                   lkFailed, delayed>>

\* The keep_alive statement of write w, and the task's next sleep.
KeepAlive(w) ==
    LET c == UpdateClock(kclock[w])
        good == IsRow(lockOf[w]) /\ LiveAt(c)
    IN  /\ ~WriteBlocked(w)
        /\ lkRow' = IF good THEN [lkRow EXCEPT !.exp = KeptAlive(c)] ELSE lkRow
        /\ ka' = [ka EXCEPT ![w] = IF good THEN "sleep" ELSE "off"]
        /\ due' = [due EXCEPT ![w] = lkNow + Interval]
        /\ lkFailed' = [lkFailed EXCEPT ![w] = IF good THEN 0 ELSE @]
        /\ delayed' = [delayed EXCEPT ![w] = @ \/ lkNow > kclock[w]]

\* check_lock: checks and extends; 412 if the token names no live lock.
CheckLock(w) ==
    /\ wr[w] = "check"
    /\ KeepAlive(w)
    /\ wr' = [wr EXCEPT ![w] = IF ka'[w] = "sleep" THEN "upload" ELSE "done"]
    /\ UNCHANGED <<lkNow, holder, reqVars, lockOf, kclock, until, late, ended, goneAt>>

\* KeepAlive::spawn: the sleep is over.
WakeUp(w) ==
    /\ ka[w] = "sleep" /\ due[w] <= lkNow
    /\ ka' = [ka EXCEPT ![w] = "extend"]
    /\ kclock' = [kclock EXCEPT ![w] = lkNow]
    /\ UNCHANGED <<lkNow, lkRow, holder, reqVars, wr, lockOf, due, until, late, ended,
                   goneAt, lkFailed, delayed>>

\* It extends the lock, or ends because the lock is lost.
Extend(w) ==
    /\ ka[w] = "extend"
    /\ KeepAlive(w)
    /\ UNCHANGED <<lkNow, holder, reqVars, wr, lockOf, kclock, until, late, ended, goneAt>>

\* "Try again on the next tick."
ExtendFails(w) ==
    /\ ka[w] = "extend"
    /\ ka' = [ka EXCEPT ![w] = "sleep"]
    /\ due' = [due EXCEPT ![w] = lkNow + Interval]
    /\ lkFailed' = [lkFailed EXCEPT ![w] = @ + 1]
    /\ delayed' = [delayed EXCEPT ![w] = @ \/ lkNow > kclock[w]]
    /\ UNCHANGED <<lkNow, lkRow, holder, reqVars, wr, lockOf, kclock, until, late, ended,
                   goneAt>>

\* write_lock::hold, in the finalization, which has the user's row.
Hold(w) ==
    /\ wr[w] = "upload" /\ ~RowHeld
    /\ \/ /\ IsRow(lockOf[w]) /\ LiveAt(lkNow)
          /\ holder' = w
          /\ wr' = [wr EXCEPT ![w] = "hold"]
          /\ UNCHANGED ka
       \/ /\ ~(IsRow(lockOf[w]) /\ LiveAt(lkNow))
          /\ wr' = [wr EXCEPT ![w] = "done"]
          /\ ka' = [ka EXCEPT ![w] = AfterDrop(@)]
          /\ UNCHANGED holder
    /\ UNCHANGED <<lkNow, lkRow, reqVars, lockOf, due, kclock, until, late, ended, goneAt,
                   lkFailed, delayed>>

\* The upload fails, or the finalization commits, fails or loses its transaction.
EndLockedWrite(w) ==
    /\ wr[w] \in {"upload", "hold"}
    /\ wr' = [wr EXCEPT ![w] = "done"]
    /\ holder' = IF holder = w THEN None ELSE holder
    /\ ka' = [ka EXCEPT ![w] = AfterDrop(@)]
    /\ UNCHANGED <<lkNow, lkRow, reqVars, lockOf, due, kclock, until, late, ended, goneAt,
                   lkFailed, delayed>>

\* The client disappears, and the requests it had open are dropped.  A
\* finalization goes on without its KeepAlive.
Disappear(t) ==
    /\ req[t] \in {"idle", "refresh", "unlock"}
    /\ AnswerLock(t, "gone")
    /\ goneAt' = [goneAt EXCEPT ![t] = lkNow]
    /\ wr' = [w \in Writes |-> IF lockOf[w] = t /\ wr[w] \in {"check", "upload"}
                               THEN "done" ELSE wr[w]]
    /\ ka' = [w \in Writes |-> IF lockOf[w] = t THEN AfterDrop(ka[w]) ELSE ka[w]]
    /\ UNCHANGED <<lkNow, lkRow, holder, asked, lockOf, due, kclock, until, late, ended,
                   lkFailed, delayed>>

-----------------------------------------------------------------------------
(* Specification *)

\* Time passes while every statement waits for the row and every timer runs.
LkTick ==
    /\ lkNow < LkMaxNow
    /\ \A t \in Tokens : req[t] \in {"sweep", "acquire", "refresh", "unlock"} => Blocked(t)
    /\ \A w \in Writes :
          /\ wr[w] = "check" \/ ka[w] = "extend" => WriteBlocked(w)
          /\ ka[w] = "sleep" => lkNow < due[w]
    /\ lkNow' = lkNow + 1
    /\ UNCHANGED <<lkRow, holder, reqVars, writeVars, until, late, ended, goneAt>>

RequestStep(t) ==
    \/ Sweep(t) \/ Acquire(t) \/ SetExpiry(t) \/ Release(t) \/ RequestFails(t)
    \/ Unlock(t) \/ Disappear(t)
    \/ \E a \in Asked : Lock(t, a) \/ Refresh(t, a)

WriteStep(w) ==
    \/ CheckLock(w) \/ WakeUp(w) \/ Extend(w) \/ ExtendFails(w)
    \/ Hold(w) \/ EndLockedWrite(w)
    \/ \E t \in Tokens : StartWrite(w, t)

LkNext ==
    \/ LkTick
    \/ \E t \in Tokens : RequestStep(t)
    \/ \E w \in Writes : WriteStep(w)

LkSpec == LkInit /\ [][LkNext]_lkVars

-----------------------------------------------------------------------------
(* Properties *)

\* Token t holds the path's lock.
HoldsLock(t) == IsRow(t) /\ LiveAt(lkNow)

(***************************************************************************)
(* "nobody can take, refresh or release the lock before then, even once it *)
(* expires" (entry_lock.rs): a finalization that holds the row commits     *)
(* under the lock it checked, though statements of other clients wait.     *)
(***************************************************************************)
HoldKeepsLock == holder # None => wr[holder] = "hold" /\ IsRow(lockOf[holder])

(***************************************************************************)
(* A client that was told a lifetime has the lock for that long, unless it *)
(* unlocks it or asks for another: neither a wait for a finalization nor a *)
(* keep-alive, which is "never shortening it", takes time off.  A LOCK     *)
(* that waited for the row is left out: acquire is a lone statement, whose *)
(* lifetime counts from before the wait.                                   *)
(***************************************************************************)
GrantedLifetimeKept ==
    \A t \in Tokens : until[t] > lkNow /\ ~late[t] => IsRow(t) /\ lkRow.exp >= until[t]

(***************************************************************************)
(* "a client that disappears blocks a path for at most                     *)
(* MAX_LOCK_TIMEOUT_SECS" (lock.rs), whatever its writes were doing.       *)
(***************************************************************************)
AbandonedLockEnds ==
    lkRow.token # None /\ req[lkRow.token] = "gone" =>
       lkRow.exp <= goneAt[lkRow.token] + MaxTimeout

(***************************************************************************)
(* A slow upload keeps its lock over one keep-alive that fails, unless it  *)
(* is unlocked or refreshed for less than the horizon, or a keep-alive has *)
(* to wait for the finalization of another write under the same lock.      *)
(***************************************************************************)
UploadKeepsLock ==
    \A w \in Writes :
       /\ wr[w] = "upload" /\ ~ended[lockOf[w]] /\ lkFailed[w] <= 1
       /\ ~delayed[w] /\ (ka[w] = "extend" => kclock[w] = lkNow)
       => HoldsLock(lockOf[w])

(***************************************************************************)
(* What a path lock promises its client, and everyone else (entry_lock.rs, *)
(* write_lock.rs).                                                         *)
(***************************************************************************)
LocksSound ==
    LkTypeOK /\ HoldKeepsLock /\ GrantedLifetimeKept /\ UploadKeepsLock /\ AbandonedLockEnds
===============================================================================
