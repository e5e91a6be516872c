----------------------------- MODULE ClockProofs -----------------------------
(***************************************************************************)
(* Proofs about the components that keep something up against a clock:      *)
(* that a path lock protects its holder for as long as the holder was       *)
(* promised, that a cached quota is stale only for a while and only after a *)
(* race, that the record of a moved user does not point back, and that a    *)
(* run over all keys leaves none out.                                       *)
(***************************************************************************)
EXTENDS EntryLocks, QuotaCache, HomeserverRecord, SumTheorems, TLAPS

-----------------------------------------------------------------------------
(* Path locks *)

\* What holds of a request: a statement never has a clock of the future, no one
\* is granted more than the maximum, and a client that asks to unlock, or to
\* refresh, no longer counts on what it was told.
RequestInv(t) ==
    /\ clock[t] <= lkNow /\ asked[t] <= MaxTimeout
    /\ req[t] \in {"refresh", "unlock"} => until[t] = 0
    /\ req[t] = "unlock" => ended[t]
    /\ req[t] = "refresh" /\ ~ended[t] => asked[t] >= Horizon
    /\ until[t] > lkNow /\ ~late[t] => IsRow(t) /\ lkRow.exp >= until[t]

\* The keep-alives of an upload have not failed it.
Kept(w) ==
    /\ wr[w] = "upload" /\ ~ended[lockOf[w]] /\ lkFailed[w] <= 1
    /\ ~delayed[w] /\ (ka[w] = "extend" => kclock[w] = lkNow)

\* Then its task sleeps or extends on time, and the row outlives the next
\* keep-alive and one more.
KeptInv(w) ==
    Kept(w) =>
       /\ ka[w] \in {"sleep", "extend"} /\ IsRow(lockOf[w])
       /\ lkNow <= due[w] /\ due[w] <= lkNow + Interval
       /\ ka[w] = "extend" => due[w] = lkNow
       /\ lkFailed[w] = 0 => lkRow.exp + Interval >= due[w] + Horizon
       /\ lkRow.exp + 2 * Interval >= due[w] + Horizon

\* What holds of a write: it presented a token, and nothing keeps the lock of a
\* client alive that is gone.
WriteInv(w) ==
    /\ kclock[w] <= lkNow
    /\ wr[w] # "idle" => lockOf[w] \in Tokens
    /\ ka[w] # "off" => wr[w] # "idle"
    /\ lockOf[w] \in Tokens /\ req[lockOf[w]] = "gone" =>
          ka[w] = "off" /\ wr[w] \notin {"check", "upload"}
    /\ KeptInv(w)

RowInv ==
    /\ lkRow.token # None => lkRow.exp <= lkNow + MaxTimeout
    /\ AbandonedLockEnds /\ HoldKeepsLock

LkInv ==
    /\ LkTypeOK /\ RowInv
    /\ \A t \in Tokens : RequestInv(t)
    /\ \A w \in Writes : WriteInv(w)

\* The constants.
LEMMA LockConstants ==
    /\ DefaultTimeout \in Nat /\ MaxTimeout \in Nat /\ Horizon \in Nat /\ Interval \in Nat
    /\ MaxTimeout > 0 /\ Interval > 0 /\ Horizon > 2 * Interval /\ Horizon <= MaxTimeout
    /\ None \notin Tokens /\ None \notin Writes
  BY LockAssumption

\* The state, element by element.
LEMMA LkTyped ==
    ASSUME LkTypeOK
    PROVE  /\ lkNow \in Nat /\ lkRow.exp \in Nat /\ lkRow.token \in Tokens \cup {None}
           /\ \A t \in Tokens : /\ clock[t] \in Nat /\ asked[t] \in Nat /\ until[t] \in Nat
                                /\ goneAt[t] \in Nat
           /\ \A w \in Writes : due[w] \in Nat /\ kclock[w] \in Nat /\ lkFailed[w] \in Nat
  BY DEF LkTypeOK

\* requested_timeout: between a second and the maximum.
LEMMA TimeoutBound ==
    ASSUME NEW a \in Asked
    PROVE  RequestedTimeout(a) \in Nat /\ RequestedTimeout(a) <= MaxTimeout
<1>1. a = NoTimeout \/ a \in Int
  BY LockAssumption
<1> QED
  BY <1>1, LockAssumption DEF RequestedTimeout

\* A row whose lifetime counts is live: it is neither swept nor taken over.
LEMMA KeptIsLive ==
    ASSUME LkInv, NEW w \in Writes, Kept(w)
    PROVE  HoldsLock(lockOf[w]) /\ lkRow.token \in Tokens /\ lkRow.exp > lkNow
<1>1. /\ IsRow(lockOf[w]) /\ lkNow <= due[w] /\ lkRow.exp + 2 * Interval >= due[w] + Horizon
      /\ lockOf[w] \in Tokens
  BY DEF LkInv, WriteInv, KeptInv, Kept
<1>2. lkRow.exp > lkNow
  BY <1>1, LockConstants, LkTyped DEF LkInv
<1> QED
  BY <1>1, <1>2, LockConstants DEF HoldsLock, IsRow, LiveAt

\* A write that is left alone keeps what holds of it, if its row is left or
\* lives longer.
LEMMA WriteLeftAlone ==
    ASSUME LkInv, LkTypeOK', NEW w \in Writes, lkNow' = lkNow,
           wr'[w] = wr[w], lockOf'[w] = lockOf[w], ka'[w] = ka[w], due'[w] = due[w],
           kclock'[w] = kclock[w], lkFailed'[w] = lkFailed[w], delayed'[w] = delayed[w],
           lockOf[w] \in Tokens /\ req'[lockOf[w]] = "gone" => req[lockOf[w]] = "gone",
           lockOf[w] \in Tokens /\ ended[lockOf[w]] => ended'[lockOf[w]],
           Kept(w) => \/ ended'[lockOf[w]]
                      \/ lkRow'.token = lkRow.token
                         /\ (lkRow'.exp >= lkRow.exp \/ lkRow'.exp >= lkNow + Horizon)
    PROVE  WriteInv(w)'
<1>1. WriteInv(w) /\ LkTypeOK
  BY DEF LkInv
<1>2. wr[w] = "upload" => lockOf[w] \in Tokens
  BY <1>1 DEF WriteInv
<1>3. Kept(w)' => Kept(w) /\ ~ended'[lockOf[w]]
  BY <1>2 DEF Kept
<1>4. KeptInv(w)'
  <2> SUFFICES ASSUME Kept(w)' PROVE KeptInv(w)'
    BY DEF KeptInv
  <2>1. /\ Kept(w) /\ lkRow'.token = lkRow.token
        /\ (lkRow'.exp >= lkRow.exp \/ lkRow'.exp >= lkNow + Horizon)
    BY <1>3
  <2>2. /\ ka[w] \in {"sleep", "extend"} /\ IsRow(lockOf[w])
        /\ lkNow <= due[w] /\ due[w] <= lkNow + Interval
        /\ ka[w] = "extend" => due[w] = lkNow
        /\ lkFailed[w] = 0 => lkRow.exp + Interval >= due[w] + Horizon
        /\ lkRow.exp + 2 * Interval >= due[w] + Horizon
    BY <1>1, <2>1 DEF WriteInv, KeptInv
  <2>3. /\ lkFailed[w] = 0 => lkRow'.exp + Interval >= due[w] + Horizon
        /\ lkRow'.exp + 2 * Interval >= due[w] + Horizon
    BY <1>1, <2>1, <2>2, LkTyped, LockConstants DEF LkTypeOK
  <2> QED
    BY <2>1, <2>2, <2>3 DEF KeptInv, IsRow
<1> QED
  BY <1>1, <1>2, <1>4 DEF WriteInv

\* So does a request.
LEMMA RequestLeftAlone ==
    ASSUME LkInv, NEW t \in Tokens, lkNow' = lkNow,
           req'[t] = req[t], asked'[t] = asked[t], clock'[t] = clock[t],
           until'[t] = until[t], late'[t] = late[t], ended'[t] = ended[t],
           until[t] > lkNow /\ ~late[t] =>
              lkRow'.token = lkRow.token /\ lkRow'.exp >= lkRow.exp,
           lkRow'.exp \in Nat
    PROVE  RequestInv(t)'
<1>1. RequestInv(t) /\ LkTypeOK
  BY DEF LkInv
<1>2. (until[t] > lkNow /\ ~late[t] => IsRow(t) /\ lkRow.exp >= until[t])'
  BY <1>1, LkTyped DEF RequestInv, IsRow
<1> QED
  BY <1>1, <1>2 DEF RequestInv

\* The steps that begin, answer or drop a request and leave the row alone.
LEMMA RequestKeeps ==
    ASSUME LkInv, NEW t \in Tokens,
           \/ \E a \in Asked : Lock(t, a) \/ Refresh(t, a)
           \/ Unlock(t) \/ RequestFails(t)
    PROVE  LkInv'
<1> USE DEF Begin, AnswerLock, reqVars, writeVars
<1>t. LkTypeOK /\ RequestInv(t)
  BY DEF LkInv
<1>1. /\ UNCHANGED <<lkNow, lkRow, holder, wr, lockOf, ka, due, kclock, lkFailed, delayed,
                     late, goneAt>>
      /\ \A u \in Tokens : u # t => /\ req'[u] = req[u] /\ asked'[u] = asked[u]
                                    /\ clock'[u] = clock[u] /\ until'[u] = until[u]
                                    /\ ended'[u] = ended[u]
      /\ req[t] # "gone" /\ req'[t] # "gone" /\ (ended[t] => ended'[t])
      /\ \A w \in Writes : wr'[w] = wr[w]
    BY <1>t DEF Lock, Refresh, Unlock, RequestFails, LkTypeOK
<1>2. LkTypeOK' /\ RequestInv(t)'
  <2>1. ASSUME NEW a \in Asked, Lock(t, a) PROVE LkTypeOK' /\ RequestInv(t)'
    <3>1. RequestedTimeout(a) \in Nat /\ RequestedTimeout(a) <= MaxTimeout
      BY TimeoutBound
    <3>2. LkTypeOK'
      BY <1>t, <2>1, <3>1 DEF Lock, LkTypeOK
    <3>3. RequestInv(t)'
      BY <1>t, <2>1, <3>1, LkTyped DEF Lock, RequestInv, LkTypeOK, IsRow
    <3> QED
      BY <3>2, <3>3
  <2>2. ASSUME NEW a \in Asked, Refresh(t, a) PROVE LkTypeOK' /\ RequestInv(t)'
    <3>1. RequestedTimeout(a) \in Nat /\ RequestedTimeout(a) <= MaxTimeout
      BY TimeoutBound
    <3>2. (ended[t] \/ RequestedTimeout(a) < Horizon) \in BOOLEAN
      BY <1>t DEF LkTypeOK
    <3>3. ended' \in [Tokens -> BOOLEAN]
      BY <1>t, <2>2, <3>2 DEF Refresh, LkTypeOK
    <3>4. LkTypeOK'
      BY <1>t, <2>2, <3>1, <3>3 DEF Refresh, LkTypeOK
    <3>5. /\ req'[t] = "refresh" /\ until'[t] = 0 /\ asked'[t] = RequestedTimeout(a)
          /\ clock'[t] = lkNow /\ (ended'[t] <=> ended[t] \/ RequestedTimeout(a) < Horizon)
      BY <1>t, <2>2, <3>2 DEF Refresh, LkTypeOK
    <3>6. RequestInv(t)'
      BY <1>1, <1>t, <3>1, <3>5, LkTyped, LockConstants DEF RequestInv
    <3> QED
      BY <3>4, <3>6
  <2>3. CASE Unlock(t)
    <3>1. LkTypeOK'
      BY <1>t, <2>3 DEF Unlock, LkTypeOK
    <3>2. RequestInv(t)'
      BY <1>t, <2>3, LkTyped DEF Unlock, RequestInv, LkTypeOK, IsRow
    <3> QED
      BY <3>1, <3>2
  <2>4. CASE RequestFails(t)
    <3>1. LkTypeOK'
      BY <1>t, <2>4 DEF RequestFails, LkTypeOK
    <3>2. RequestInv(t)'
      BY <1>t, <2>4, LkTyped DEF RequestFails, RequestInv, LkTypeOK, IsRow
    <3> QED
      BY <3>1, <3>2
  <2> QED
    BY <2>1, <2>2, <2>3, <2>4
<1>3. \A u \in Tokens : RequestInv(u)'
  <2> SUFFICES ASSUME NEW u \in Tokens, u # t PROVE RequestInv(u)'
    BY <1>2
  <2>1. lkRow'.exp \in Nat /\ lkRow'.exp >= lkRow.exp
    BY <1>1, <1>t, LkTyped
  <2> QED
    BY <1>1, <2>1, RequestLeftAlone
<1>4. \A w \in Writes : WriteInv(w)'
  <2> SUFFICES ASSUME NEW w \in Writes PROVE WriteInv(w)'
    OBVIOUS
  <2>1. lkRow'.exp >= lkRow.exp
    BY <1>1, <1>t, LkTyped
  <2>2. /\ lockOf[w] \in Tokens /\ req'[lockOf[w]] = "gone" => req[lockOf[w]] = "gone"
        /\ lockOf[w] \in Tokens /\ ended[lockOf[w]] => ended'[lockOf[w]]
    BY <1>1
  <2> QED
    BY <1>1, <1>2, <2>1, <2>2, WriteLeftAlone
<1>5. RowInv'
  BY <1>1, <1>t DEF LkInv, RowInv, AbandonedLockEnds, HoldKeepsLock, LkTypeOK, IsRow
<1> QED
  BY <1>2, <1>3, <1>4, <1>5 DEF LkInv

\* The client disappears: what it holds ends within the maximum.
LEMMA DisappearKeeps ==
    ASSUME LkInv, NEW t \in Tokens, Disappear(t)
    PROVE  LkInv'
<1> USE DEF AnswerLock
<1>t. LkTypeOK
  BY DEF LkInv
<1>1. /\ UNCHANGED <<lkNow, lkRow, holder, asked, clock, lockOf, due, kclock, until, late,
                     ended, lkFailed, delayed>>
      /\ req'[t] = "gone" /\ goneAt'[t] = lkNow
      /\ \A u \in Tokens : u # t => req'[u] = req[u] /\ goneAt'[u] = goneAt[u]
      /\ \A w \in Writes : lockOf[w] # t => wr'[w] = wr[w] /\ ka'[w] = ka[w]
      /\ \A w \in Writes : lockOf[w] = t => /\ ka'[w] = "off" /\ wr'[w] \notin {"check", "upload"}
                                            /\ wr'[w] = "idle" => wr[w] = "idle"
      /\ \A w \in Writes : wr[w] = "hold" => wr'[w] = "hold"
  BY <1>t DEF Disappear, LkTypeOK, AfterDrop
<1>2. LkTypeOK'
  BY <1>t DEF Disappear, LkTypeOK, AfterDrop
<1>3. \A u \in Tokens : RequestInv(u)'
  BY <1>1 DEF LkInv, RequestInv, IsRow
<1>4. \A w \in Writes : WriteInv(w)'
  <2> SUFFICES ASSUME NEW w \in Writes PROVE WriteInv(w)'
    OBVIOUS
  <2>1. CASE lockOf[w] = t
    BY <1>1, <2>1 DEF LkInv, WriteInv, KeptInv, Kept
  <2>2. CASE lockOf[w] # t
    <3>1. lkRow'.exp >= lkRow.exp
      BY <1>1, <1>t, LkTyped
    <3> QED
      BY <1>1, <1>2, <2>2, <3>1, WriteLeftAlone
  <2> QED
    BY <2>1, <2>2
<1>5. RowInv'
  BY <1>1, <1>t, LkTyped DEF LkInv, RowInv, AbandonedLockEnds, HoldKeepsLock, LkTypeOK, IsRow
<1> QED
  BY <1>2, <1>3, <1>4, <1>5 DEF LkInv

\* delete_expired and the release: a row that goes is not held, and nobody
\* counts on it.
LEMMA RowGoes ==
    ASSUME LkInv, LkTypeOK', holder = None,
           lkRow' = [token |-> None, exp |-> 0],
           \A w \in Writes : Kept(w) => ended[lockOf[w]],
           \A u \in Tokens : ~(until[u] > lkNow /\ ~late[u]),
           UNCHANGED <<lkNow, holder, asked, wr, lockOf, ka, due, kclock, lkFailed, delayed,
                       until, late, ended, goneAt>>,
           NEW t \in Tokens, RequestInv(t)',
           \A u \in Tokens : u # t => req'[u] = req[u] /\ clock'[u] = clock[u],
           req'[t] # "gone"
    PROVE  LkInv'
<1>1. lkRow'.token = None /\ lkRow'.exp = 0
  OBVIOUS
<1>2. \A u \in Tokens : RequestInv(u)'
  BY <1>1, RequestLeftAlone
<1>3. \A w \in Writes : WriteInv(w)'
  BY <1>1, WriteLeftAlone
<1>4. RowInv'
  BY <1>1 DEF RowInv, AbandonedLockEnds, HoldKeepsLock
<1> QED
  BY <1>2, <1>3, <1>4 DEF LkInv

LEMMA SweepKeeps ==
    ASSUME LkInv, NEW t \in Tokens, Sweep(t)
    PROVE  LkInv'
<1> USE DEF Begin, reqVars, writeVars
<1>t. LkTypeOK /\ RequestInv(t)
  BY DEF LkInv
<1>1. /\ req[t] = "sweep" /\ req'[t] = "acquire" /\ clock'[t] = lkNow
      /\ \A u \in Tokens : u # t => req'[u] = req[u] /\ clock'[u] = clock[u]
      /\ UNCHANGED <<lkNow, holder, asked, wr, lockOf, ka, due, kclock, lkFailed, delayed,
                     until, late, ended, goneAt>>
  BY <1>t DEF Sweep, LkTypeOK
<1>2. LkTypeOK'
  BY <1>t DEF Sweep, LkTypeOK
<1>3. CASE lkRow.exp > clock[t]
  <2>1. lkRow' = lkRow
    BY <1>3, <1>t, LkTyped DEF Sweep
  <2>2. lkRow.exp \in Nat /\ lkRow'.exp >= lkRow.exp
    BY <1>t, <2>1, LkTyped
  <2>3. RequestInv(t)'
    BY <1>1, <1>t, <2>1, LkTyped DEF RequestInv, IsRow
  <2>4. \A u \in Tokens : RequestInv(u)'
    BY <1>1, <2>1, <2>2, <2>3, RequestLeftAlone
  <2>5. \A w \in Writes : WriteInv(w)'
    BY <1>1, <1>2, <2>1, <2>2, WriteLeftAlone
  <2>6. RowInv'
    BY <1>1, <1>t, <2>1 DEF LkInv, RowInv, AbandonedLockEnds, HoldKeepsLock, LkTypeOK, IsRow
  <2> QED
    BY <1>2, <2>4, <2>5, <2>6 DEF LkInv
<1>4. CASE lkRow.exp <= clock[t]
  <2>1. lkRow' = [token |-> None, exp |-> 0] /\ holder = None
    BY <1>4 DEF Sweep, Blocked, RowHeld
  <2>2. lkRow.exp <= lkNow
    BY <1>4, <1>t, LkTyped DEF RequestInv
  <2>3. \A w \in Writes : ~Kept(w)
    BY <1>t, <2>2, KeptIsLive, LkTyped
  <2>4. \A u \in Tokens : ~(until[u] > lkNow /\ ~late[u])
    BY <1>t, <2>2, LkTyped DEF LkInv, RequestInv
  <2>5. RequestInv(t)'
    BY <1>1, <1>t, <2>4, LkTyped DEF RequestInv
  <2> QED
    BY <1>1, <1>2, <2>1, <2>3, <2>4, <2>5, RowGoes
<1> QED
  BY <1>3, <1>4, <1>t, LkTyped

LEMMA ReleaseKeeps ==
    ASSUME LkInv, NEW t \in Tokens, Release(t)
    PROVE  LkInv'
<1> USE DEF AnswerLock, reqVars, writeVars
<1>t. LkTypeOK /\ RequestInv(t)
  BY DEF LkInv
<1>1. /\ req[t] = "unlock" /\ req'[t] = "idle" /\ clock' = clock /\ ended[t] /\ until[t] = 0
      /\ \A u \in Tokens : u # t => req'[u] = req[u] /\ clock'[u] = clock[u]
      /\ UNCHANGED <<lkNow, holder, asked, wr, lockOf, ka, due, kclock, lkFailed, delayed,
                     until, late, ended, goneAt>>
  BY <1>t DEF Release, LkTypeOK, RequestInv
<1>2. LkTypeOK'
  BY <1>t DEF Release, LkTypeOK
<1>3. RequestInv(t)'
  BY <1>1, <1>t, LkTyped DEF RequestInv
<1>4. CASE lkRow' = lkRow
  <2>1. lkRow.exp \in Nat /\ lkRow'.exp >= lkRow.exp
    BY <1>4, <1>t, LkTyped
  <2>2. \A u \in Tokens : RequestInv(u)'
    BY <1>1, <1>3, <1>4, <2>1, RequestLeftAlone
  <2>3. \A w \in Writes : WriteInv(w)'
    BY <1>1, <1>2, <1>4, <2>1, WriteLeftAlone
  <2>4. RowInv'
    BY <1>1, <1>4, <1>t DEF LkInv, RowInv, AbandonedLockEnds, HoldKeepsLock, LkTypeOK, IsRow
  <2> QED
    BY <1>2, <2>2, <2>3, <2>4 DEF LkInv
<1>5. CASE IsRow(t) /\ lkRow' = [token |-> None, exp |-> 0]
  <2>1. holder = None
    BY <1>1, <1>5 DEF Release, Blocked, RowHeld
  <2>2. \A w \in Writes : Kept(w) => ended[lockOf[w]]
    BY <1>1, <1>5 DEF LkInv, WriteInv, KeptInv, IsRow
  <2>3. \A u \in Tokens : ~(until[u] > lkNow /\ ~late[u])
    BY <1>1, <1>5, <1>t, LkTyped DEF LkInv, RequestInv, IsRow
  <2> QED
    BY <1>1, <1>2, <1>3, <1>5, <2>1, <2>2, <2>3, RowGoes
<1> QED
  BY <1>4, <1>5 DEF Release

\* acquire: only a row that has expired is taken over, and none that is held.
LEMMA AcquireKeeps ==
    ASSUME LkInv, NEW t \in Tokens, Acquire(t)
    PROVE  LkInv'
<1> USE DEF AnswerLock, reqVars, writeVars
<1>t. LkTypeOK /\ RequestInv(t)
  BY DEF LkInv
<1>1. /\ req[t] = "acquire" /\ req'[t] \in {"idle", "refused"}
      /\ \A u \in Tokens : u # t => /\ req'[u] = req[u] /\ until'[u] = until[u]
                                    /\ late'[u] = late[u]
      /\ UNCHANGED <<lkNow, holder, asked, clock, wr, lockOf, ka, due, kclock, lkFailed,
                     delayed, ended, goneAt>>
      /\ holder = None
  BY <1>t DEF Acquire, LkTypeOK, Blocked, RowHeld
<1>2. CASE /\ ~LiveAt(clock[t]) /\ lkRow' = [token |-> t, exp |-> clock[t] + asked[t]]
           /\ until' = [until EXCEPT ![t] = lkNow + asked[t]]
           /\ late' = [late EXCEPT ![t] = lkNow > clock[t]]
  <2>1. /\ lkRow'.token = t /\ lkRow'.exp = clock[t] + asked[t]
        /\ until'[t] = lkNow + asked[t] /\ (late'[t] <=> lkNow > clock[t])
        /\ clock[t] \in Nat /\ asked[t] \in Nat /\ lkNow \in Nat
        /\ clock[t] <= lkNow /\ asked[t] <= MaxTimeout
    BY <1>2, <1>t, LkTyped DEF LkTypeOK, RequestInv
  <2>2. (lkNow > clock[t]) \in BOOLEAN
    BY <2>1
  <2>3. LkTypeOK'
    <3>1. late' \in [Tokens -> BOOLEAN]
      BY <1>2, <1>t, <2>2 DEF LkTypeOK
    <3>2. until' \in [Tokens -> Nat]
      BY <1>2, <1>t, <2>1 DEF LkTypeOK
    <3>3. lkRow' \in [token : Tokens \cup {None}, exp : Nat]
      BY <1>2, <2>1
    <3> QED
      BY <1>1, <1>t, <3>1, <3>2, <3>3 DEF Acquire, LkTypeOK
  <2>4. lkRow.token # None => lkRow.exp <= lkNow
    BY <1>2, <1>t, <2>1, LkTyped DEF LiveAt
  <2>5. \A w \in Writes : ~Kept(w)
    BY <1>t, <2>4, KeptIsLive, LkTyped, LockConstants
  <2>6. \A u \in Tokens : ~(until[u] > lkNow /\ ~late[u])
    BY <1>t, <2>4, LkTyped, LockConstants DEF LkInv, RequestInv, IsRow
  <2>7. RequestInv(t)'
    BY <1>1, <1>t, <2>1, LkTyped DEF RequestInv, IsRow
  <2>8. lkRow'.exp \in Nat
    BY <2>1
  <2>9. \A u \in Tokens : RequestInv(u)'
    BY <1>1, <2>6, <2>7, <2>8, RequestLeftAlone
  <2>10. \A w \in Writes : WriteInv(w)'
    BY <1>1, <2>3, <2>5, WriteLeftAlone
  <2>11. RowInv'
    BY <1>1, <2>1, LockConstants DEF RowInv, AbandonedLockEnds, HoldKeepsLock
  <2> QED
    BY <2>3, <2>9, <2>10, <2>11 DEF LkInv
<1>3. CASE UNCHANGED <<lkRow, until, late>>
  <2>1. lkRow'.exp \in Nat /\ lkRow'.exp >= lkRow.exp
    BY <1>3, <1>t, LkTyped
  <2>2. LkTypeOK'
    BY <1>3, <1>t DEF Acquire, LkTypeOK
  <2>3. RequestInv(t)'
    BY <1>1, <1>3, <1>t DEF RequestInv, IsRow
  <2>4. \A u \in Tokens : RequestInv(u)'
    BY <1>1, <1>3, <2>1, <2>3, RequestLeftAlone
  <2>5. \A w \in Writes : WriteInv(w)'
    BY <1>1, <1>3, <2>1, <2>2, WriteLeftAlone
  <2>6. RowInv'
    BY <1>1, <1>3, <1>t DEF LkInv, RowInv, AbandonedLockEnds, HoldKeepsLock, LkTypeOK, IsRow
  <2> QED
    BY <2>2, <2>4, <2>5, <2>6 DEF LkInv
<1> QED
  BY <1>2, <1>3 DEF Acquire

\* refresh: the lifetime begins when the row is there, not when it was asked for.
LEMMA SetExpiryKeeps ==
    ASSUME LkInv, NEW t \in Tokens, SetExpiry(t)
    PROVE  LkInv'
<1> USE DEF AnswerLock, reqVars, writeVars
<1>t. LkTypeOK /\ RequestInv(t)
  BY DEF LkInv
<1>1. /\ req[t] = "refresh" /\ req'[t] = "idle"
      /\ \A u \in Tokens : u # t => /\ req'[u] = req[u] /\ until'[u] = until[u]
                                    /\ late'[u] = late[u]
      /\ UNCHANGED <<lkNow, holder, asked, clock, wr, lockOf, ka, due, kclock, lkFailed,
                     delayed, ended, goneAt>>
  BY <1>t DEF SetExpiry, LkTypeOK
<1>2. CASE /\ IsRow(t) /\ lkRow' = [lkRow EXCEPT !.exp = lkNow + asked[t]]
           /\ until' = [until EXCEPT ![t] = lkNow + asked[t]]
           /\ late' = [late EXCEPT ![t] = FALSE]
  <2>1. /\ lkRow'.token = lkRow.token /\ lkRow'.exp = lkNow + asked[t] /\ lkRow.token = t
        /\ until'[t] = lkNow + asked[t] /\ ~late'[t] /\ asked[t] \in Nat /\ lkNow \in Nat
        /\ asked[t] <= MaxTimeout /\ (~ended[t] => asked[t] >= Horizon)
    BY <1>1, <1>2, <1>t, LkTyped DEF LkTypeOK, RequestInv, IsRow
  <2>2. LkTypeOK'
    BY <1>1, <1>2, <1>t, <2>1 DEF SetExpiry, LkTypeOK
  <2>3. lkRow'.exp \in Nat
    BY <2>1
  <2>4. RequestInv(t)'
    BY <1>1, <1>t, <2>1, LkTyped DEF RequestInv, IsRow
  <2>5. \A u \in Tokens : u # t => ~(until[u] > lkNow /\ ~late[u])
    BY <2>1 DEF LkInv, RequestInv, IsRow
  <2>6. \A u \in Tokens : RequestInv(u)'
    BY <1>1, <2>3, <2>4, <2>5, RequestLeftAlone
  <2>7. \A w \in Writes : WriteInv(w)'
    <3> SUFFICES ASSUME NEW w \in Writes PROVE WriteInv(w)'
      OBVIOUS
    <3>1. Kept(w) => lockOf[w] = t /\ ~ended[t]
      BY <2>1 DEF LkInv, WriteInv, KeptInv, Kept, IsRow
    <3>2. Kept(w) => lkRow'.exp >= lkNow + Horizon
      BY <2>1, <3>1, LockConstants
    <3>3. /\ lockOf[w] \in Tokens /\ req'[lockOf[w]] = "gone" => req[lockOf[w]] = "gone"
      BY <1>1
    <3> QED
      BY <1>1, <2>1, <2>2, <3>2, <3>3, WriteLeftAlone
  <2>8. RowInv'
    BY <1>1, <2>1, LockConstants DEF LkInv, RowInv, AbandonedLockEnds, HoldKeepsLock, IsRow
  <2> QED
    BY <2>2, <2>6, <2>7, <2>8 DEF LkInv
<1>3. CASE UNCHANGED <<lkRow, until, late>>
  <2>1. lkRow'.exp \in Nat /\ lkRow'.exp >= lkRow.exp
    BY <1>3, <1>t, LkTyped
  <2>2. LkTypeOK'
    BY <1>3, <1>t DEF SetExpiry, LkTypeOK
  <2>3. RequestInv(t)'
    BY <1>1, <1>3, <1>t DEF RequestInv, IsRow
  <2>4. \A u \in Tokens : RequestInv(u)'
    BY <1>1, <1>3, <2>1, <2>3, RequestLeftAlone
  <2>5. \A w \in Writes : WriteInv(w)'
    BY <1>1, <1>3, <2>1, <2>2, WriteLeftAlone
  <2>6. RowInv'
    BY <1>1, <1>3, <1>t DEF LkInv, RowInv, AbandonedLockEnds, HoldKeepsLock, LkTypeOK, IsRow
  <2> QED
    BY <2>2, <2>4, <2>5, <2>6 DEF LkInv
<1> QED
  BY <1>2, <1>3 DEF SetExpiry, UpdateClock

\* check_lock and the keep-alive task: the lock is never shortened, and lasts for
\* the horizon from now.
LEMMA KeepAliveKeeps ==
    ASSUME LkInv, NEW w \in Writes, CheckLock(w) \/ Extend(w)
    PROVE  LkInv'
<1> USE DEF reqVars
<1>t. LkTypeOK /\ WriteInv(w)
  BY DEF LkInv
<1> DEFINE good == IsRow(lockOf[w]) /\ LiveAt(lkNow)
<1>1. /\ lkRow' = (IF good THEN [lkRow EXCEPT !.exp = KeptAlive(lkNow)] ELSE lkRow)
      /\ ka' = [ka EXCEPT ![w] = IF good THEN "sleep" ELSE "off"]
      /\ due' = [due EXCEPT ![w] = lkNow + Interval]
      /\ lkFailed' = [lkFailed EXCEPT ![w] = IF good THEN 0 ELSE lkFailed[w]]
      /\ delayed' = [delayed EXCEPT ![w] = delayed[w] \/ lkNow > kclock[w]]
      /\ UNCHANGED <<lkNow, holder, req, asked, clock, lockOf, kclock, until, late, ended,
                     goneAt>>
      /\ \/ wr[w] = "check" /\ wr' = [wr EXCEPT ![w] = IF ka'[w] = "sleep" THEN "upload" ELSE "done"]
         \/ ka[w] = "extend" /\ wr' = wr
  BY DEF CheckLock, Extend, KeepAlive, UpdateClock
<1>2. lkNow \in Nat /\ lkRow.exp \in Nat /\ Horizon \in Nat /\ Interval \in Nat
      /\ kclock[w] \in Nat /\ lkFailed[w] \in Nat /\ kclock[w] <= lkNow
  BY <1>t, LkTyped, LockConstants DEF WriteInv
<1>3. /\ KeptAlive(lkNow) \in Nat /\ KeptAlive(lkNow) >= lkRow.exp
      /\ KeptAlive(lkNow) >= lkNow + Horizon
      /\ KeptAlive(lkNow) = lkRow.exp \/ KeptAlive(lkNow) = lkNow + Horizon
  BY <1>2 DEF KeptAlive
<1>4. /\ lkRow'.token = lkRow.token /\ lkRow'.exp \in Nat /\ lkRow'.exp >= lkRow.exp
      /\ good => lkRow'.exp >= lkNow + Horizon
      /\ lkRow'.exp = lkRow.exp \/ lkRow'.exp = lkNow + Horizon
      /\ ~good => lkRow' = lkRow
      /\ lkRow' \in [token : Tokens \cup {None}, exp : Nat]
  <2> HIDE DEF good
  <2> QED
    BY <1>1, <1>2, <1>3, <1>t DEF LkTypeOK
<1>5. /\ ka'[w] = (IF good THEN "sleep" ELSE "off") /\ due'[w] = lkNow + Interval
      /\ lkFailed'[w] = (IF good THEN 0 ELSE lkFailed[w])
      /\ (delayed'[w] <=> delayed[w] \/ lkNow > kclock[w])
      /\ \A v \in Writes : v # w => /\ ka'[v] = ka[v] /\ due'[v] = due[v]
                                    /\ lkFailed'[v] = lkFailed[v]
                                    /\ delayed'[v] = delayed[v] /\ wr'[v] = wr[v]
      /\ \/ wr[w] = "check" /\ wr'[w] = (IF good THEN "upload" ELSE "done")
         \/ ka[w] = "extend" /\ wr'[w] = wr[w]
      /\ wr[w] = "hold" => wr'[w] = "hold"
  <2> HIDE DEF good
  <2>1. (delayed[w] \/ lkNow > kclock[w]) \in BOOLEAN
    BY <1>2, <1>t DEF LkTypeOK
  <2> QED
    BY <1>1, <1>t, <2>1 DEF LkTypeOK
<1>6. LkTypeOK'
  <2> HIDE DEF good
  <2>1. (delayed[w] \/ lkNow > kclock[w]) \in BOOLEAN
    BY <1>2, <1>t DEF LkTypeOK
  <2>2. ka' \in [Writes -> {"off", "sleep", "extend"}] /\ due' \in [Writes -> Nat]
        /\ lkFailed' \in [Writes -> Nat] /\ delayed' \in [Writes -> BOOLEAN]
    BY <1>1, <1>2, <1>t, <2>1 DEF LkTypeOK
  <2>3. wr' \in [Writes -> {"idle", "check", "upload", "hold", "done"}]
    BY <1>1, <1>t DEF LkTypeOK
  <2> QED
    BY <1>1, <1>4, <1>t, <2>2, <2>3 DEF LkTypeOK
<1>7. \A u \in Tokens : RequestInv(u)'
  BY <1>1, <1>4, RequestLeftAlone
<1>8. ASSUME NEW v \in Writes, v # w PROVE WriteInv(v)'
  BY <1>1, <1>4, <1>5, <1>6, <1>8, WriteLeftAlone
<1>9. WriteInv(w)'
  <2>1. KeptInv(w)'
    <3> SUFFICES ASSUME Kept(w)' PROVE KeptInv(w)'
      BY DEF KeptInv
    <3>1. good
      <4> SUFFICES ASSUME ~good PROVE FALSE
        OBVIOUS
      <4>1. ka[w] = "extend" /\ wr[w] = "upload" /\ lkFailed'[w] = lkFailed[w]
        BY <1>5 DEF Kept
      <4>2. ~delayed[w] /\ kclock[w] = lkNow
        BY <1>2, <1>5 DEF Kept
      <4>3. Kept(w)
        BY <1>1, <4>1, <4>2 DEF Kept
      <4> QED
        BY <4>3, KeptIsLive DEF HoldsLock
    <3>2. /\ ka'[w] = "sleep" /\ lkRow'.token = lockOf'[w] /\ lkRow'.exp >= lkNow + Horizon
          /\ due'[w] = lkNow + Interval
      BY <1>1, <1>4, <1>5, <3>1 DEF IsRow
    <3> HIDE DEF good
    <3> QED
      BY <1>1, <1>2, <1>4, <3>2, LockConstants DEF KeptInv, IsRow
  <2> HIDE DEF good
  <2>2. lockOf[w] \in Tokens /\ req[lockOf[w]] # "gone" /\ wr[w] # "idle"
    BY <1>1, <1>t DEF WriteInv
  <2>3. /\ kclock'[w] <= lkNow' /\ lockOf'[w] \in Tokens /\ wr'[w] # "idle"
        /\ req'[lockOf'[w]] # "gone"
    BY <1>1, <1>2, <1>5, <2>2
  <2> QED
    BY <2>1, <2>3 DEF WriteInv
<1>10. RowInv'
  <2> HIDE DEF good
  <2>1. lkRow'.token # None => lkRow'.exp <= lkNow' + MaxTimeout
    BY <1>1, <1>2, <1>4, LockConstants DEF LkInv, RowInv
  <2>2. AbandonedLockEnds'
    <3>1. CASE lkRow' = lkRow
      BY <1>1, <3>1 DEF LkInv, RowInv, AbandonedLockEnds
    <3>2. CASE lkRow.token = lockOf[w]
      <4>1. req[lockOf[w]] # "gone"
        BY <1>1, <1>t DEF WriteInv
      <4> QED
        BY <1>1, <1>4, <3>2, <4>1 DEF AbandonedLockEnds
    <3> QED
      BY <1>4, <3>1, <3>2 DEF good, IsRow
  <2>3. HoldKeepsLock'
    BY <1>1, <1>4, <1>5, <1>t DEF LkInv, RowInv, HoldKeepsLock, IsRow, LkTypeOK
  <2> QED
    BY <2>1, <2>2, <2>3 DEF RowInv
<1> QED
  BY <1>6, <1>7, <1>8, <1>9, <1>10 DEF LkInv

\* The steps of write w that leave the row alone: what they have to show of w.
LEMMA WriteKeeps ==
    ASSUME LkInv, LkTypeOK', NEW w \in Writes, WriteInv(w)',
           \A v \in Writes : v # w => /\ wr'[v] = wr[v] /\ lockOf'[v] = lockOf[v]
                                      /\ ka'[v] = ka[v] /\ due'[v] = due[v]
                                      /\ kclock'[v] = kclock[v]
                                      /\ lkFailed'[v] = lkFailed[v]
                                      /\ delayed'[v] = delayed[v],
           UNCHANGED <<lkNow, lkRow, req, asked, clock, until, late, ended, goneAt>>,
           HoldKeepsLock'
    PROVE  LkInv'
<1>1. lkRow'.exp \in Nat /\ lkRow'.exp >= lkRow.exp
  BY LkTyped DEF LkInv
<1>2. \A t \in Tokens : RequestInv(t)'
  BY <1>1, RequestLeftAlone
<1>3. \A v \in Writes : WriteInv(v)'
  BY <1>1, WriteLeftAlone
<1>4. RowInv'
  BY DEF LkInv, RowInv, AbandonedLockEnds
<1> QED
  BY <1>2, <1>3, <1>4 DEF LkInv

\* A write begins, its task wakes up or fails to extend, or it is over.
LEMMA WriteStepKeeps ==
    ASSUME LkInv, NEW w \in Writes,
           \/ \E t \in Tokens : StartWrite(w, t)
           \/ WakeUp(w) \/ ExtendFails(w) \/ Hold(w) \/ EndLockedWrite(w)
    PROVE  LkInv'
<1> USE DEF reqVars
<1>t. LkTypeOK /\ WriteInv(w) /\ HoldKeepsLock
  BY DEF LkInv, RowInv
<1>c. /\ lkNow \in Nat /\ lkRow.exp \in Nat /\ Horizon \in Nat /\ Interval \in Nat
      /\ kclock[w] \in Nat /\ lkFailed[w] \in Nat /\ due[w] \in Nat /\ Interval > 0
  BY <1>t, LkTyped, LockConstants
<1> DEFINE Others ==
      /\ \A v \in Writes : v # w => /\ wr'[v] = wr[v] /\ lockOf'[v] = lockOf[v]
                                    /\ ka'[v] = ka[v] /\ due'[v] = due[v]
                                    /\ kclock'[v] = kclock[v]
                                    /\ lkFailed'[v] = lkFailed[v]
                                    /\ delayed'[v] = delayed[v]
      /\ UNCHANGED <<lkNow, lkRow, req, asked, clock, until, late, ended, goneAt>>
<1>0. ASSUME LkTypeOK', WriteInv(w)', Others, HoldKeepsLock' PROVE LkInv'
  BY <1>0, WriteKeeps
<1>1. ASSUME NEW t \in Tokens, StartWrite(w, t) PROVE LkInv'
  <2>1. LkTypeOK' /\ Others
    BY <1>1, <1>t DEF StartWrite, LkTypeOK
  <2>2. /\ wr'[w] = "check" /\ wr[w] = "idle" /\ lockOf'[w] = t /\ kclock'[w] = lkNow
        /\ req[t] # "gone" /\ UNCHANGED <<ka, holder, lkNow, req, lkRow>>
    BY <1>1, <1>t DEF StartWrite, LkTypeOK
  <2>3. WriteInv(w)'
    BY <1>c, <1>t, <2>2 DEF WriteInv, KeptInv, Kept
  <2>4. HoldKeepsLock'
    BY <1>t, <2>1, <2>2 DEF HoldKeepsLock, IsRow, LkTypeOK
  <2> HIDE DEF Others
  <2> QED
    BY <1>0, <2>1, <2>3, <2>4
<1>2. CASE WakeUp(w)
  <2>1. LkTypeOK' /\ Others
    BY <1>2, <1>t DEF WakeUp, LkTypeOK
  <2>2. /\ ka[w] = "sleep" /\ due[w] <= lkNow /\ ka'[w] = "extend" /\ kclock'[w] = lkNow
        /\ UNCHANGED <<wr, lockOf, due, holder, lkFailed, delayed, lkNow, req, lkRow, ended>>
    BY <1>2, <1>t DEF WakeUp, LkTypeOK
  <2>3. Kept(w)' => Kept(w)
    BY <2>2 DEF Kept
  <2>4. KeptInv(w)'
    <3> SUFFICES ASSUME Kept(w)' PROVE KeptInv(w)'
      BY DEF KeptInv
    <3> QED
      BY <1>c, <1>t, <2>2, <2>3 DEF WriteInv, KeptInv, IsRow
  <2>5. WriteInv(w)'
    BY <1>c, <1>t, <2>2, <2>4 DEF WriteInv
  <2>6. HoldKeepsLock'
    BY <1>t, <2>2 DEF HoldKeepsLock, IsRow
  <2> HIDE DEF Others
  <2> QED
    BY <1>0, <2>1, <2>5, <2>6
<1>3. CASE ExtendFails(w)
  <2>1. (delayed[w] \/ lkNow > kclock[w]) \in BOOLEAN
    BY <1>c, <1>t DEF LkTypeOK
  <2>2. delayed' \in [Writes -> BOOLEAN]
    BY <1>3, <1>t, <2>1 DEF ExtendFails, LkTypeOK
  <2>3. LkTypeOK' /\ Others
    BY <1>3, <1>c, <1>t, <2>2 DEF ExtendFails, LkTypeOK
  <2>4. /\ ka[w] = "extend" /\ ka'[w] = "sleep" /\ due'[w] = lkNow + Interval
        /\ lkFailed'[w] = lkFailed[w] + 1
        /\ (delayed'[w] <=> delayed[w] \/ lkNow > kclock[w])
        /\ UNCHANGED <<wr, lockOf, kclock, holder, lkNow, req, lkRow, ended>>
    BY <1>3, <1>t, <2>1 DEF ExtendFails, LkTypeOK
  <2>5. kclock[w] <= lkNow
    BY <1>t DEF WriteInv
  <2>6. Kept(w)' => Kept(w) /\ lkFailed[w] = 0
    BY <1>c, <2>4, <2>5 DEF Kept
  <2>7. KeptInv(w)'
    <3> SUFFICES ASSUME Kept(w)' PROVE KeptInv(w)'
      BY DEF KeptInv
    <3>1. /\ IsRow(lockOf[w]) /\ due[w] = lkNow /\ lkRow.exp + Interval >= due[w] + Horizon
      BY <1>t, <2>4, <2>6 DEF WriteInv, KeptInv
    <3>2. lkFailed'[w] = 1
      BY <2>4, <2>6
    <3> QED
      BY <1>c, <2>4, <3>1, <3>2 DEF KeptInv, IsRow
  <2>8. WriteInv(w)'
    BY <1>c, <1>t, <2>4, <2>5, <2>7 DEF WriteInv
  <2>9. HoldKeepsLock'
    BY <1>t, <2>4 DEF HoldKeepsLock, IsRow
  <2> HIDE DEF Others
  <2> QED
    BY <1>0, <2>3, <2>8, <2>9
<1>4. CASE Hold(w)
  <2>1. LkTypeOK' /\ Others
    BY <1>4, <1>t DEF Hold, LkTypeOK, AfterDrop
  <2>2. /\ wr[w] = "upload" /\ holder = None /\ wr'[w] \in {"hold", "done"}
        /\ wr'[w] = "hold" => ka'[w] = ka[w] /\ IsRow(lockOf[w]) /\ holder' = w
        /\ wr'[w] = "done" => ka'[w] = "off" /\ holder' = None
        /\ UNCHANGED <<lockOf, kclock, lkNow, req, lkRow>>
    BY <1>4, <1>t DEF Hold, LkTypeOK, AfterDrop, RowHeld
  <2>3. WriteInv(w)'
    BY <1>t, <2>2 DEF WriteInv, KeptInv, Kept
  <2>4. HoldKeepsLock'
    BY <2>2 DEF HoldKeepsLock, IsRow
  <2> HIDE DEF Others
  <2> QED
    BY <1>0, <2>1, <2>3, <2>4
<1>5. CASE EndLockedWrite(w)
  <2>1. LkTypeOK' /\ Others
    BY <1>5, <1>t DEF EndLockedWrite, LkTypeOK, AfterDrop
  <2>2. /\ wr[w] \in {"upload", "hold"} /\ wr'[w] = "done" /\ ka'[w] = "off"
        /\ holder' = (IF holder = w THEN None ELSE holder)
        /\ UNCHANGED <<lockOf, kclock, lkNow, req, lkRow>>
    BY <1>5, <1>t DEF EndLockedWrite, LkTypeOK, AfterDrop
  <2>3. WriteInv(w)'
    BY <1>t, <2>2 DEF WriteInv, KeptInv, Kept
  <2>4. HoldKeepsLock'
    <3>1. holder' # None => holder' # w /\ holder' = holder /\ holder \in Writes
      BY <1>t, <2>2 DEF LkTypeOK
    <3>2. holder' # None => wr'[holder'] = wr[holder]
      BY <2>1, <3>1
    <3> QED
      BY <1>t, <2>2, <3>1, <3>2 DEF HoldKeepsLock, IsRow
  <2> HIDE DEF Others
  <2> QED
    BY <1>0, <2>1, <2>3, <2>4
<1> QED
  BY <1>1, <1>2, <1>3, <1>4, <1>5

\* Time passes no further than a sleeping task's next keep-alive.
LEMMA LkTickKeeps ==
    ASSUME LkInv, LkTick
    PROVE  LkInv'
<1> USE DEF reqVars, writeVars
<1>t. LkTypeOK
  BY DEF LkInv
<1>1. /\ lkNow' = lkNow + 1 /\ lkNow \in Nat
      /\ UNCHANGED <<lkRow, holder, req, asked, clock, wr, lockOf, ka, due, kclock, until,
                     late, ended, goneAt, lkFailed, delayed>>
      /\ \A w \in Writes : ka[w] = "sleep" => lkNow < due[w]
  BY <1>t DEF LkTick, LkTypeOK
<1>2. LkTypeOK'
  BY <1>1, <1>t DEF LkTypeOK
<1>3. \A t \in Tokens : RequestInv(t)'
  BY <1>1, <1>t, LkTyped, LockConstants DEF LkInv, RequestInv, IsRow
<1>4. \A w \in Writes : WriteInv(w)'
  <2> SUFFICES ASSUME NEW w \in Writes PROVE WriteInv(w)'
    OBVIOUS
  <2>1. WriteInv(w) /\ kclock[w] \in Nat /\ due[w] \in Nat /\ Interval \in Nat
    BY <1>t, LkTyped, LockConstants DEF LkInv
  <2>2. Kept(w)' => Kept(w) /\ ka[w] # "extend"
    BY <1>1, <2>1 DEF Kept, WriteInv
  <2>3. KeptInv(w)'
    <3> SUFFICES ASSUME Kept(w)' PROVE KeptInv(w)'
      BY DEF KeptInv
    <3>1. ka[w] = "sleep" /\ lkNow < due[w]
      BY <1>1, <2>1, <2>2 DEF WriteInv, KeptInv
    <3> QED
      BY <1>1, <2>1, <2>2, <3>1 DEF WriteInv, KeptInv, IsRow
  <2> QED
    BY <1>1, <2>1, <2>3 DEF WriteInv
<1>5. RowInv'
  BY <1>1, <1>t, LkTyped, LockConstants DEF LkInv, RowInv, AbandonedLockEnds, HoldKeepsLock, IsRow
<1> QED
  BY <1>2, <1>3, <1>4, <1>5 DEF LkInv

(***************************************************************************)
(* A path lock keeps its promises for any number of clients and writes and *)
(* any timeouts: a finalization commits under the lock it checked, a       *)
(* client has the lock for as long as it was told, an upload keeps it over *)
(* a keep-alive that fails, and it ends with the client that disappears    *)
(* (entry_lock.rs, lock.rs).                                               *)
(***************************************************************************)
THEOREM LocksAreSound == LkSpec => []LocksSound
<1>1. LkInit => LkInv
  <2> SUFFICES ASSUME LkInit PROVE LkInv
    OBVIOUS
  <2>1. LkTypeOK
    BY DEF LkInit, LkTypeOK
  <2>2. \A t \in Tokens : RequestInv(t)
    BY LockConstants DEF LkInit, RequestInv
  <2>3. \A w \in Writes : WriteInv(w)
    BY LockConstants DEF LkInit, WriteInv, KeptInv, Kept
  <2>4. RowInv
    BY DEF LkInit, RowInv, AbandonedLockEnds, HoldKeepsLock
  <2> QED
    BY <2>1, <2>2, <2>3, <2>4 DEF LkInv
<1>2. LkInv /\ [LkNext]_lkVars => LkInv'
  <2> SUFFICES ASSUME LkInv, [LkNext]_lkVars PROVE LkInv'
    OBVIOUS
  <2>1. CASE UNCHANGED lkVars
    BY <2>1 DEF lkVars, LkInv, LkTypeOK, RequestInv, WriteInv, KeptInv, Kept, RowInv,
       AbandonedLockEnds, HoldKeepsLock, IsRow
  <2>2. ASSUME NEW t \in Tokens, RequestStep(t) PROVE LkInv'
    BY <2>2, SweepKeeps, AcquireKeeps, SetExpiryKeeps, ReleaseKeeps, RequestKeeps,
       DisappearKeeps DEF RequestStep
  <2>3. ASSUME NEW w \in Writes, WriteStep(w) PROVE LkInv'
    BY <2>3, KeepAliveKeeps, WriteStepKeeps DEF WriteStep
  <2> QED
    BY <2>1, <2>2, <2>3, LkTickKeeps DEF LkNext
<1>3. LkInv => LocksSound
  <2> SUFFICES ASSUME LkInv PROVE LocksSound
    OBVIOUS
  <2>1. GrantedLifetimeKept
    BY DEF LkInv, RequestInv, GrantedLifetimeKept
  <2>2. UploadKeepsLock
    BY KeptIsLive DEF UploadKeepsLock, Kept
  <2> QED
    BY <2>1, <2>2 DEF LkInv, RowInv, LocksSound
<1> QED
  BY <1>1, <1>2, <1>3, PTL DEF LkSpec

-----------------------------------------------------------------------------
(* The cached quota *)

\* Nobody is at the database later than now, nor for longer than a query takes.
QueryTimes ==
    /\ \A x \in Resolvers \cup Writers : qcAt[x] <= qcNow
    /\ \A r \in Resolvers : qcRpc[r] = "insert" => qcNow <= qcAt[r] + MaxQuery
    /\ \A w \in Writers : qcWpc[w] = "committed" => qcNow <= qcAt[w] + MaxQuery

\* An entry is inserted no later than a query takes after it was read.
EntryAge == qcCache # None => qcCache.cachedAt <= qcCache.from + MaxQuery

\* A writer that has not committed has written nothing.
NothingWritten == \A w \in Writers : qcWpc[w] = "idle" => qcWrote[w] = 0

\* What was written after version v was written after time `at`, when v was read.
CurrentSince(v, at) == \A w \in Writers : qcWrote[w] > v => qcAt[w] >= at

\* So it is for every version that is about to be inserted; the row's is the last.
ReadsCurrent ==
    /\ \A w \in Writers : qcWrote[w] <= qcDb
    /\ \A r \in Resolvers : qcRpc[r] = "insert" => CurrentSince(qcRead[r], qcAt[r])
    /\ \A w \in Writers : qcWpc[w] = "committed" => CurrentSince(qcWrote[w], qcAt[w])

\* An entry older than what a writer wrote that is done raced it.
StaleExplained ==
    qcCache # None =>
       \A w \in Writers : qcWpc[w] = "done" /\ qcWrote[w] > qcCache.val =>
          qcCache.cachedAt >= qcAt[w] /\ qcCache.from <= qcAt[w]

QcInv ==
    QcTypeOK /\ QueryTimes /\ EntryAge /\ NothingWritten /\ ReadsCurrent /\ StaleExplained

\* A step of a resolver that neither reads nor changes the row and inserts
\* nothing.
LEMMA QuietResolver ==
    ASSUME QcInv, QcTypeOK', UNCHANGED <<qcNow, qcDb, qcWpc, qcWrote, qcAt>>,
           qcCache' \in {qcCache, None},
           \A r \in Resolvers : qcRpc'[r] = "insert" =>
              qcRpc[r] = "insert" /\ qcRead'[r] = qcRead[r]
    PROVE  QcInv'
  BY DEF QcInv, QueryTimes, EntryAge, NothingWritten, ReadsCurrent, CurrentSince,
     StaleExplained

\* Inserting a version that was current since it was read.
LEMMA InsertExplained ==
    ASSUME QcInv, NEW v \in Nat, NEW at \in Nat, CurrentSince(v, at), at <= qcNow,
           qcNow <= at + MaxQuery, Insert(v, at), UNCHANGED <<qcNow, qcDb, qcWrote, qcAt>>
    PROVE  /\ qcCache' \in Entry \cup {None}
           /\ EntryAge' /\ StaleExplained'
<1>1. /\ qcCache' = [val |-> v, cachedAt |-> qcNow, from |-> at] /\ qcNow \in Nat
      /\ qcCache'.val = v /\ qcCache'.cachedAt = qcNow /\ qcCache'.from = at
  BY DEF Insert, QcInv, QcTypeOK
<1>2. qcCache' \in Entry \cup {None}
  BY <1>1 DEF Entry
<1>3. EntryAge'
  BY <1>1 DEF EntryAge
<1>4. StaleExplained'
  <2> SUFFICES ASSUME NEW w \in Writers, qcWrote[w] > v
               PROVE  qcNow >= qcAt[w] /\ at <= qcAt[w]
    BY <1>1 DEF StaleExplained
  <2>1. qcAt[w] >= at
    BY DEF CurrentSince
  <2>2. qcAt[w] <= qcNow /\ qcAt[w] \in Nat
    BY DEF QcInv, QueryTimes, QcTypeOK
  <2> QED
    BY <1>1, <2>1, <2>2
<1> QED
  BY <1>2, <1>3, <1>4

\* Each request's steps.
LEMMA ResolverKeeps ==
    ASSUME QcInv, NEW r \in Resolvers, Get(r) \/ Miss(r) \/ Query(r) \/ InsertRead(r)
    PROVE  QcInv'
<1> USE DEF Goto
<1>t. QcTypeOK
  BY DEF QcInv
<1>1. CASE Get(r)
  <2>1. /\ UNCHANGED <<qcNow, qcDb, qcCache, qcWpc, qcWrote, qcAt>>
        /\ \/ qcRead' = [qcRead EXCEPT ![r] = qcCache.val] /\ qcCache # None
              /\ qcRpc' = [qcRpc EXCEPT ![r] = "done"]
           \/ UNCHANGED qcRead /\ qcRpc' = [qcRpc EXCEPT ![r] = "miss"]
    BY <1>1 DEF Get
  <2>2. qcCache # None => qcCache.val \in Nat
    BY <1>t DEF QcTypeOK, Entry
  <2>3. QcTypeOK'
    BY <1>t, <2>1, <2>2 DEF QcTypeOK
  <2>4. \A q \in Resolvers : qcRpc'[q] = "insert" => qcRpc[q] = "insert" /\ qcRead'[q] = qcRead[q]
    BY <1>t, <2>1 DEF QcTypeOK
  <2> QED
    BY <2>1, <2>3, <2>4, QuietResolver
<1>2. CASE Miss(r)
  <2>1. QcTypeOK'
    BY <1>t, <1>2 DEF Miss, QcTypeOK
  <2>2. \A q \in Resolvers : qcRpc'[q] = "insert" => qcRpc[q] = "insert" /\ qcRead'[q] = qcRead[q]
    BY <1>t, <1>2 DEF Miss, QcTypeOK
  <2> QED
    BY <1>2, <2>1, <2>2, QuietResolver DEF Miss
<1>3. CASE Query(r)
  <2>1. CASE qcRpc' = [qcRpc EXCEPT ![r] = "error"] /\ UNCHANGED <<qcRead, qcAt>>
    <3>1. QcTypeOK' /\ UNCHANGED <<qcNow, qcDb, qcCache, qcWpc, qcWrote>>
      BY <1>t, <1>3, <2>1 DEF Query, QcTypeOK
    <3>2. \A q \in Resolvers : qcRpc'[q] = "insert" => qcRpc[q] = "insert" /\ qcRead'[q] = qcRead[q]
      BY <1>t, <2>1 DEF QcTypeOK
    <3> QED
      BY <2>1, <3>1, <3>2, QuietResolver
  <2>2. CASE /\ qcRead' = [qcRead EXCEPT ![r] = qcDb] /\ qcAt' = [qcAt EXCEPT ![r] = qcNow]
             /\ qcRpc' = [qcRpc EXCEPT ![r] = "insert"]
    <3>1. QcTypeOK' /\ UNCHANGED <<qcNow, qcDb, qcCache, qcWpc, qcWrote>>
      BY <1>t, <1>3, <2>2 DEF Query, QcTypeOK
    <3>2. /\ qcRead'[r] = qcDb /\ qcAt'[r] = qcNow /\ r \notin Writers
          /\ \A x \in (Resolvers \cup Writers) \ {r} : qcAt'[x] = qcAt[x]
          /\ \A q \in Resolvers \ {r} : qcRead'[q] = qcRead[q] /\ qcRpc'[q] = qcRpc[q]
      BY <1>t, <2>2, QuotaAssumption DEF QcTypeOK, Writers
    <3>3. \A w \in Writers : qcAt'[w] = qcAt[w]
      BY <3>2
    <3>4. qcNow \in Nat /\ MaxQuery \in Nat
      BY <1>t, QuotaAssumption DEF QcTypeOK
    <3>5. QueryTimes'
      BY <3>1, <3>2, <3>3, <3>4 DEF QcInv, QueryTimes
    <3>6. EntryAge' /\ NothingWritten' /\ StaleExplained'
      BY <3>1, <3>3 DEF QcInv, EntryAge, NothingWritten, StaleExplained
    <3>7. ReadsCurrent'
      <4>1. \A w \in Writers : qcWrote[w] <= qcDb /\ qcWrote[w] \in Nat /\ qcDb \in Nat
        BY <1>t DEF QcInv, ReadsCurrent, QcTypeOK
      <4>2. CurrentSince(qcRead[r], qcAt[r])'
        BY <3>1, <3>2, <3>3, <4>1 DEF CurrentSince
      <4>3. ASSUME NEW q \in Resolvers \ {r}, qcRpc'[q] = "insert"
            PROVE  CurrentSince(qcRead[q], qcAt[q])'
        BY <3>1, <3>2, <3>3, <4>3 DEF QcInv, ReadsCurrent, CurrentSince
      <4>4. ASSUME NEW w \in Writers, qcWpc'[w] = "committed"
            PROVE  CurrentSince(qcWrote[w], qcAt[w])'
        BY <3>1, <3>3, <4>4 DEF QcInv, ReadsCurrent, CurrentSince
      <4> QED
        BY <3>1, <4>1, <4>2, <4>3, <4>4 DEF ReadsCurrent
    <3> QED
      BY <3>1, <3>5, <3>6, <3>7 DEF QcInv
  <2> QED
    BY <1>3, <2>1, <2>2 DEF Query
<1>4. CASE InsertRead(r)
  <2>1. /\ qcRpc[r] = "insert" /\ Insert(qcRead[r], qcAt[r])
        /\ qcRpc' = [qcRpc EXCEPT ![r] = "done"]
        /\ UNCHANGED <<qcNow, qcDb, qcRead, qcWpc, qcWrote, qcAt>>
    BY <1>4 DEF InsertRead
  <2>2. /\ qcRead[r] \in Nat /\ qcAt[r] \in Nat /\ qcAt[r] <= qcNow
        /\ qcNow <= qcAt[r] + MaxQuery /\ CurrentSince(qcRead[r], qcAt[r])
    BY <2>1 DEF QcInv, QcTypeOK, QueryTimes, ReadsCurrent
  <2>3. qcCache' \in Entry \cup {None} /\ EntryAge' /\ StaleExplained'
    BY <2>1, <2>2, InsertExplained
  <2>4. QcTypeOK'
    BY <1>t, <2>1, <2>3 DEF QcTypeOK
  <2>5. QueryTimes' /\ NothingWritten' /\ ReadsCurrent'
    BY <1>t, <2>1 DEF QcInv, QueryTimes, NothingWritten, ReadsCurrent, CurrentSince, QcTypeOK
  <2> QED
    BY <2>3, <2>4, <2>5 DEF QcInv
<1> QED
  BY <1>1, <1>2, <1>3, <1>4

\* patch_quota and the signup commit: whoever has read the row before has raced
\* them, and so has the entry, until they are done with the cache.
LEMMA CommitKeeps ==
    ASSUME QcInv, NEW w \in Writers, Commit(w)
    PROVE  QcInv'
<1>t. QcTypeOK
  BY DEF QcInv
<1>1. /\ qcWpc[w] = "idle" /\ qcDb' = qcDb + 1
      /\ qcWpc' = [qcWpc EXCEPT ![w] = "committed"]
      /\ qcWrote' = [qcWrote EXCEPT ![w] = qcDb + 1] /\ qcAt' = [qcAt EXCEPT ![w] = qcNow]
      /\ UNCHANGED <<qcNow, qcCache, qcRpc, qcRead>>
  BY DEF Commit
<1>2. QcTypeOK'
  BY <1>t, <1>1 DEF QcTypeOK
<1>3. /\ qcWpc'[w] = "committed" /\ qcWrote'[w] = qcDb + 1 /\ qcAt'[w] = qcNow
      /\ \A v \in Writers \ {w} : /\ qcWpc'[v] = qcWpc[v] /\ qcWrote'[v] = qcWrote[v]
                                  /\ qcAt'[v] = qcAt[v]
      /\ \A r \in Resolvers : qcAt'[r] = qcAt[r]
      /\ qcWrote[w] = 0
  BY <1>t, <1>1, QuotaAssumption DEF QcTypeOK, Writers, QcInv, NothingWritten
<1>4. /\ qcNow \in Nat /\ qcDb \in Nat /\ MaxQuery \in Nat
      /\ \A x \in Resolvers \cup Writers : qcAt[x] \in Nat /\ qcAt[x] <= qcNow
      /\ \A r \in Resolvers : qcRead[r] \in Nat
      /\ \A v \in Writers : qcWrote[v] \in Nat
  BY <1>t, QuotaAssumption DEF QcTypeOK, QcInv, QueryTimes
<1>5. QueryTimes'
  BY <1>1, <1>3, <1>4 DEF QcInv, QueryTimes
<1>6. EntryAge' /\ NothingWritten'
  BY <1>1, <1>3 DEF QcInv, EntryAge, NothingWritten
<1>7. ASSUME NEW v \in Nat, NEW at \in Nat, at <= qcNow, CurrentSince(v, at)
      PROVE  \A u \in Writers : qcWrote'[u] > v => qcAt'[u] >= at
  BY <1>3, <1>4, <1>7 DEF CurrentSince
<1>8. ReadsCurrent'
  <2>1. ASSUME NEW r \in Resolvers, qcRpc'[r] = "insert"
        PROVE  CurrentSince(qcRead[r], qcAt[r])'
    <3>1. CurrentSince(qcRead[r], qcAt[r])
      BY <1>1, <2>1 DEF QcInv, ReadsCurrent
    <3> QED
      BY <1>1, <1>3, <1>4, <1>7, <3>1 DEF CurrentSince
  <2>2. ASSUME NEW v \in Writers, qcWpc'[v] = "committed"
        PROVE  CurrentSince(qcWrote[v], qcAt[v])'
    <3>1. CASE v = w
      <4>1. \A u \in Writers : qcWrote'[u] <= qcDb + 1
        BY <1>3, <1>4 DEF QcInv, ReadsCurrent
      <4>2. \A u \in Writers : qcWrote'[u] \in Nat
        BY <1>3, <1>4
      <4> QED
        BY <1>3, <1>4, <3>1, <4>1, <4>2 DEF CurrentSince
    <3>2. CASE v # w
      <4>1. CurrentSince(qcWrote[v], qcAt[v])
        BY <1>3, <2>2, <3>2 DEF QcInv, ReadsCurrent
      <4> QED
        BY <1>3, <1>4, <1>7, <3>2, <4>1 DEF CurrentSince
    <3> QED
      BY <3>1, <3>2
  <2>3. \A v \in Writers : qcWrote'[v] <= qcDb'
    BY <1>1, <1>3, <1>4 DEF QcInv, ReadsCurrent
  <2> QED
    BY <2>1, <2>2, <2>3 DEF ReadsCurrent
<1>9. StaleExplained'
  BY <1>1, <1>3 DEF QcInv, StaleExplained
<1> QED
  BY <1>2, <1>5, <1>6, <1>8, <1>9 DEF QcInv

\* The writer evicts the entry, or replaces it by its own.
LEMMA AfterCommitKeeps ==
    ASSUME QcInv, NEW w \in Writers, AfterCommit(w)
    PROVE  QcInv'
<1>t. QcTypeOK
  BY DEF QcInv
<1>1. /\ qcWpc[w] = "committed" /\ qcWpc' = [qcWpc EXCEPT ![w] = "done"]
      /\ qcCache' = None \/ Insert(qcWrote[w], qcAt[w])
      /\ UNCHANGED <<qcNow, qcDb, qcRpc, qcRead, qcWrote, qcAt>>
  BY DEF AfterCommit, Remove
<1>2. /\ qcWrote[w] \in Nat /\ qcAt[w] \in Nat /\ qcAt[w] <= qcNow
      /\ qcNow <= qcAt[w] + MaxQuery /\ CurrentSince(qcWrote[w], qcAt[w])
  BY <1>1 DEF QcInv, QcTypeOK, QueryTimes, ReadsCurrent
<1>3. CASE qcCache' = None
  <2>1. QcTypeOK'
    BY <1>t, <1>1, <1>3 DEF QcTypeOK
  <2>2. EntryAge' /\ StaleExplained'
    BY <1>3 DEF EntryAge, StaleExplained
  <2>3. QueryTimes' /\ NothingWritten' /\ ReadsCurrent'
    BY <1>t, <1>1 DEF QcInv, QueryTimes, NothingWritten, ReadsCurrent, CurrentSince, QcTypeOK
  <2> QED
    BY <2>1, <2>2, <2>3 DEF QcInv
<1>4. CASE Insert(qcWrote[w], qcAt[w])
  <2>1. qcCache' \in Entry \cup {None} /\ EntryAge' /\ StaleExplained'
    <3>1. \A v, at \in Nat : CurrentSince(v, at) /\ at <= qcNow /\ qcNow <= at + MaxQuery /\ Insert(v, at)
             => qcCache' \in Entry \cup {None} /\ EntryAge' /\ StaleExplained'
      BY <1>1, InsertExplained
    <3> QED
      BY <1>2, <1>4, <3>1
  <2>2. QcTypeOK'
    BY <1>t, <1>1, <2>1 DEF QcTypeOK
  <2>3. QueryTimes' /\ NothingWritten' /\ ReadsCurrent'
    BY <1>t, <1>1 DEF QcInv, QueryTimes, NothingWritten, ReadsCurrent, CurrentSince, QcTypeOK
  <2> QED
    BY <2>1, <2>2, <2>3 DEF QcInv
<1> QED
  BY <1>1, <1>3, <1>4

\* The writer goes away: it does not count as done.
LEMMA AbandonKeeps ==
    ASSUME QcInv, NEW w \in Writers, Abandon(w)
    PROVE  QcInv'
<1>t. QcTypeOK
  BY DEF QcInv
<1>1. /\ qcWpc[w] = "committed" /\ qcWpc' = [qcWpc EXCEPT ![w] = "gone"]
      /\ UNCHANGED <<qcNow, qcDb, qcCache, qcRpc, qcRead, qcWrote, qcAt>>
  BY DEF Abandon
<1>2. QcTypeOK'
  BY <1>t, <1>1 DEF QcTypeOK
<1>3. QueryTimes' /\ EntryAge' /\ NothingWritten' /\ ReadsCurrent' /\ StaleExplained'
  BY <1>t, <1>1 DEF QcInv, QueryTimes, EntryAge, NothingWritten, ReadsCurrent, CurrentSince,
     StaleExplained, QcTypeOK
<1> QED
  BY <1>2, <1>3 DEF QcInv

\* Time passes, but not beyond what a query may take.
LEMMA QcTickKeeps ==
    ASSUME QcInv, QcTick
    PROVE  QcInv'
<1>1. /\ qcNow' = qcNow + 1 /\ qcNow \in Nat /\ MaxQuery \in Nat
      /\ \A x \in Resolvers \cup Writers : qcAt[x] \in Nat
      /\ UNCHANGED <<qcDb, qcCache, qcRpc, qcRead, qcWpc, qcWrote, qcAt>>
  BY QuotaAssumption DEF QcTick, QcInv, QcTypeOK
<1>2. QcTypeOK'
  BY <1>1 DEF QcInv, QcTypeOK
<1>3. QueryTimes'
  BY <1>1 DEF QcTick, QcInv, QueryTimes
<1> QED
  BY <1>1, <1>2, <1>3
  DEF QcInv, EntryAge, NothingWritten, ReadsCurrent, CurrentSince, StaleExplained

(***************************************************************************)
(* An entry older than an answered PATCH was read by a request that raced  *)
(* it, and no entry is used for longer than its TTL and a query, though a  *)
(* PATCH may be abandoned in its COMMIT: for any number of requests and    *)
(* patches at once, and any TTLs (quota_cache.rs).                         *)
(***************************************************************************)
THEOREM CachedQuotasAreSound == QcSpec => []CachedQuotaSound
<1>1. QcInit => QcInv
  <2> SUFFICES ASSUME QcInit PROVE QcInv
    OBVIOUS
  <2>1. QcTypeOK
    BY DEF QcInit, QcTypeOK
  <2>2. QueryTimes
    BY DEF QcInit, QueryTimes
  <2> QED
    BY <2>1, <2>2
    DEF QcInit, QcInv, EntryAge, NothingWritten, ReadsCurrent, StaleExplained
<1>2. QcInv /\ [QcNext]_qcVars => QcInv'
  <2> SUFFICES ASSUME QcInv, [QcNext]_qcVars PROVE QcInv'
    OBVIOUS
  <2>1. CASE UNCHANGED qcVars
    BY <2>1 DEF qcVars, QcInv, QcTypeOK, QueryTimes, EntryAge, NothingWritten, ReadsCurrent,
       CurrentSince, StaleExplained
  <2>2. CASE Evict
    <3>1. QcTypeOK'
      BY <2>2 DEF Evict, QcInv, QcTypeOK
    <3> QED
      BY <2>2, <3>1, QuietResolver DEF Evict
  <2> QED
    BY <2>1, <2>2, QcTickKeeps, ResolverKeeps, CommitKeeps, AfterCommitKeeps, AbandonKeeps DEF QcNext
<1>3. QcInv => CachedQuotaSound
  <2> SUFFICES ASSUME QcInv PROVE StaleForTtlAtMost /\ StaleNeedsRace
    BY DEF QcInv, CachedQuotaSound
  <2>1. StaleForTtlAtMost
    <3> SUFFICES ASSUME qcCache # None, ~Expired(qcCache)
                 PROVE  qcNow <= qcCache.from + MaxQuery + Ttl(qcCache.val)
      BY DEF StaleForTtlAtMost, Ttl
    <3>1. /\ qcCache.cachedAt \in Nat /\ qcCache.from \in Nat /\ qcNow \in Nat
          /\ MaxQuery \in Nat /\ Ttl(qcCache.val) \in Nat
      BY QuotaAssumption DEF QcInv, QcTypeOK, Entry, Ttl
    <3>2. qcCache.cachedAt <= qcCache.from + MaxQuery
      BY DEF QcInv, EntryAge
    <3> QED
      BY <3>1, <3>2 DEF Expired
  <2>2. StaleNeedsRace
    BY DEF QcInv, StaleExplained, StaleNeedsRace
  <2> QED
    BY <2>1, <2>2
<1> QED
  BY <1>1, <1>2, <1>3, PTL DEF QcSpec

-----------------------------------------------------------------------------
(* The record of a user's homeserver *)

\* A packet wherever it is kept, on a node, in a cache or by the republisher: it
\* was signed, it is the move's if it has the move's time, and if it came after
\* the move and points elsewhere it was signed blindly.
Sound(p) ==
    p # None =>
       /\ p.ts <= hrSigned
       /\ p.ts = hrMove.ts => p.host = hrMove.host
       /\ p.ts > hrMove.ts /\ p.host # hrMove.host => p.ts \in hrBlind

PacketsSound ==
    /\ \A n \in Nodes : Sound(hrNode[n])
    /\ \A d \in Devices : Sound(hrCache[d])
    /\ Sound(hrJob.cached)

\* What a device is about to publish: the host of the record it went on from,
\* unless it moves.
DeviceSound ==
    \A d \in Devices : LET f == hrDev[d] IN
       f.pc = "publish" =>
          /\ f.seen <= hrSigned /\ f.host \in Servers
          /\ ~f.moves /\ f.seen >= hrMove.ts => f.host = hrMove.host \/ f.seen \in hrBlind

HrInv == HrTypeOK /\ hrMove.ts <= hrSigned /\ PacketsSound /\ DeviceSound
             /\ (hrJob.pc = "publish" => hrJob.cached # None)

LEMMA HrConstants ==
    /\ MaxPublish \in Nat /\ MaxAttempts \in Nat /\ MaxSigned \in Nat
    /\ MaxPublish > 0 /\ MaxAttempts > 0 /\ MaxSigned > 0
    /\ Here \in Servers /\ None \notin Servers /\ None \notin Packets
  BY RecordAssumption

\* Of two packets that are kept somewhere the one to go on from is such a packet.
LEMMA MostRecentKept ==
    ASSUME NEW p \in Packets \cup {None}, NEW q \in Packets \cup {None}, Sound(p), Sound(q)
    PROVE  MostRecent(p, q) \in Packets \cup {None} /\ Sound(MostRecent(p, q))
  BY DEF MostRecent

LEMMA FindableKept ==
    ASSUME HrInv, NEW p \in Findable
    PROVE  p \in Packets \cup {None} /\ Sound(p)
<1>1. CASE p = None
  BY <1>1 DEF Sound
<1>2. CASE \E n \in Nodes : p = hrNode[n]
  BY <1>2 DEF HrInv, HrTypeOK, PacketsSound
<1> QED
  BY <1>1, <1>2 DEF Findable

\* A node that stores a packet keeps one that is sound.
LEMMA StoreKeeps ==
    ASSUME HrInv, NEW ns \in SUBSET Nodes, NEW p \in Packets, StoreAt(ns, p)
    PROVE  /\ hrNode' \in [Nodes -> Packets \cup {None}]
           /\ \A n \in Nodes : hrNode'[n] \in {p, hrNode[n]}
  BY DEF HrInv, HrTypeOK, StoreAt

LEMMA BeginPublishKeeps ==
    ASSUME HrInv, NEW d \in Devices, NEW call \in PublishCalls, NEW network \in Findable,
           BeginPublish(d, call, network)
    PROVE  HrInv'
<1> DEFINE existing == MostRecent(network, hrCache[d])
           host == DetermineHost(call.over, existing)
           seen == IF TsOf(network) > TsOf(hrCache[d]) THEN TsOf(network) ELSE TsOf(hrCache[d])
           f == IF host = None \/ SkipDueToAge(call.mode, existing) THEN Resting
                ELSE [Resting EXCEPT !.pc = "publish", !.host = host, !.moves = call.over # None,
                                     !.seen = seen]
<1>1. existing \in Packets \cup {None} /\ Sound(existing)
  <2>1. hrCache[d] \in Packets \cup {None} /\ Sound(hrCache[d])
    BY DEF HrInv, HrTypeOK, PacketsSound
  <2> QED
    BY <2>1, FindableKept, MostRecentKept
<1>2. /\ hrCache' = [hrCache EXCEPT ![d] = existing] /\ hrDev' = [hrDev EXCEPT ![d] = f]
      /\ UNCHANGED <<hrNode, hrSigned, hrAged, hrMove, hrBlind, hrJob>>
  BY DEF BeginPublish
<1>3. call.over \in Servers \cup {None}
  BY DEF PublishCalls, SignupAt, SignupCookieAt, SigninPublish, SigninCookiePublish,
         PublishForce, PublishIfStale
<1>4. host \in Host
  BY <1>1, <1>3, HrConstants DEF DetermineHost, Host, Packets
\* The record to go on from is the latest that it knows of.
<1>5. seen = TsOf(existing) /\ seen \in 0..hrSigned
  <2>1. network \in Packets \cup {None} /\ hrCache[d] \in Packets \cup {None}
    BY FindableKept DEF HrInv, HrTypeOK
  <2>2. seen = TsOf(existing)
    BY <2>1, HrConstants DEF TsOf, MostRecent, Packets
  <2>3. TsOf(existing) \in 0..hrSigned
    BY <1>1, HrConstants DEF TsOf, Packets, Sound, HrInv, HrTypeOK
  <2> QED
    BY <2>2, <2>3
<1>6. (call.over # None) \in BOOLEAN
  OBVIOUS
<1>7. /\ f.pc \in {"idle", "publish"} /\ f.moves \in BOOLEAN /\ f.seen \in 0..MaxSigned
      /\ f.host \in Host /\ f.tries \in 0..MaxPublish
      /\ f \in [pc : {"idle", "publish"}, moves : BOOLEAN, seen : 0..MaxSigned,
                host : Host, tries : 0..MaxPublish]
      /\ f.pc = "publish" => f.seen = seen /\ f.host = host /\ f.host \in Servers
                               /\ f.moves = (call.over # None)
  <2> HIDE DEF existing, host, seen
  <2>1. None \in Host /\ 0 \in 0..MaxPublish /\ 0 \in 0..MaxSigned
    BY HrConstants DEF Host
  <2>2. seen \in 0..MaxSigned
    BY <1>5, HrConstants DEF HrInv, HrTypeOK
  <2>3. CASE f = Resting
    BY <2>3, <2>1 DEF Resting
  <2>4. CASE f = [Resting EXCEPT !.pc = "publish", !.host = host, !.moves = call.over # None,
                                 !.seen = seen] /\ host # None
    BY <2>4, <2>1, <2>2, <1>4, <1>6 DEF Resting, Host
  <2> QED
    BY <2>3, <2>4
<1>8. f.pc = "publish" /\ ~f.moves /\ f.seen >= hrMove.ts =>
         f.host = hrMove.host \/ f.seen \in hrBlind
  <2> HIDE DEF f, seen
  <2>1. SUFFICES ASSUME call.over = None, host # None, TsOf(existing) >= hrMove.ts
                 PROVE  host = hrMove.host \/ TsOf(existing) \in hrBlind
    BY <1>5, <1>7, HrConstants
  <2> HIDE DEF existing
  <2>2. existing # None /\ host = existing.host /\ TsOf(existing) = existing.ts
    BY <2>1 DEF DetermineHost, TsOf
  <2> QED
    <3>1. existing.ts \in Nat /\ hrMove.ts \in Nat
      BY <2>2, <1>1, HrConstants DEF HrInv, HrTypeOK, Packets
    <3> QED
      BY <2>1, <2>2, <3>1, <1>1 DEF Sound
<1> HIDE DEF existing, host, seen, f
<1>9. /\ \A e \in Devices : hrCache'[e] = (IF e = d THEN existing ELSE hrCache[e])
      /\ \A e \in Devices : hrDev'[e] = (IF e = d THEN f ELSE hrDev[e])
  BY <1>2 DEF HrInv, HrTypeOK
<1>10. HrTypeOK'
  BY <1>1, <1>2, <1>7 DEF HrInv, HrTypeOK
<1>11. \A p : Sound(p)' = Sound(p)
  BY <1>2 DEF Sound
<1>12. PacketsSound'
  BY <1>1, <1>2, <1>9, <1>11 DEF HrInv, PacketsSound
<1>13. DeviceSound'
  BY <1>2, <1>5, <1>7, <1>8, <1>9 DEF HrInv, DeviceSound
<1> QED
  BY <1>2, <1>10, <1>12, <1>13 DEF HrInv

LEMMA PublishKeeps ==
    ASSUME HrInv, NEW d \in Devices, NEW ns \in SUBSET Nodes, NEW ok \in BOOLEAN,
           Publish(d, ns, ok)
    PROVE  HrInv'
<1> DEFINE f == hrDev[d]
           p == [ts |-> hrSigned + 1, host |-> f.host]
           g == IF ok THEN Resting
                ELSE IF f.tries + 1 < MaxPublish THEN [f EXCEPT !.tries = @ + 1] ELSE Resting
           blind == f.seen < hrMove.ts \/ f.seen \in hrBlind
<1>1. /\ f.pc = "publish" /\ hrSigned < MaxSigned /\ StoreAt(ns, p) /\ hrSigned' = hrSigned + 1
      /\ hrBlind' = (IF blind THEN hrBlind \cup {hrSigned + 1} ELSE hrBlind)
      /\ hrCache' = (IF ok THEN [hrCache EXCEPT ![d] = p] ELSE hrCache)
      /\ hrMove' = (IF f.moves THEN p ELSE hrMove)
      /\ hrDev' = [hrDev EXCEPT ![d] = g] /\ UNCHANGED <<hrAged, hrJob>>
  BY DEF Publish
<1>2. /\ f \in [pc : {"idle", "publish"}, moves : BOOLEAN, seen : 0..MaxSigned,
                host : Host, tries : 0..MaxPublish]
      /\ hrSigned \in Nat /\ hrMove.ts \in Nat /\ hrMove.ts <= hrSigned /\ hrMove \in Packets
      /\ f.host \in Servers /\ f.seen <= hrSigned /\ f.seen \in Nat
      /\ ~f.moves /\ f.seen >= hrMove.ts => f.host = hrMove.host \/ f.seen \in hrBlind
  BY <1>1, HrConstants DEF HrInv, HrTypeOK, DeviceSound, Packets
<1>3. p \in Packets /\ p.ts = hrSigned + 1 /\ p.host = f.host /\ p # None
  BY <1>1, <1>2, HrConstants DEF Packets
<1>4. /\ g \in [pc : {"idle", "publish"}, moves : BOOLEAN, seen : 0..MaxSigned,
                host : Host, tries : 0..MaxPublish]
      /\ g.pc = "publish" => g.seen = f.seen /\ g.host = f.host /\ g.moves = f.moves
  <2> HIDE DEF f
  <2>1. Resting \in [pc : {"idle", "publish"}, moves : BOOLEAN, seen : 0..MaxSigned,
                     host : Host, tries : 0..MaxPublish] /\ Resting.pc = "idle"
    BY HrConstants DEF Resting, Host
  <2>2. CASE f.tries + 1 < MaxPublish
    <3>1. f.tries + 1 \in 0..MaxPublish
      BY <1>2, <2>2, HrConstants
    <3> QED
      BY <3>1, <2>1, <1>2
  <2> QED
    BY <2>1, <2>2
<1>5. /\ hrNode' \in [Nodes -> Packets \cup {None}]
      /\ \A n \in Nodes : hrNode'[n] \in {p, hrNode[n]}
  BY <1>1, <1>3, StoreKeeps
<1> HIDE DEF f, g, p
<1>6. HrTypeOK'
  <2>1. hrSigned + 1 \in 1..MaxSigned
    BY <1>1, <1>2, HrConstants
  <2> QED
    BY <1>1, <1>3, <1>4, <1>5, <2>1 DEF HrInv, HrTypeOK
<1>7. hrMove'.ts \in Nat /\ hrMove'.ts <= hrSigned' /\ hrBlind \subseteq hrBlind'
  BY <1>1, <1>2, <1>3
\* The packets there were are older than the one that is signed now.
<1>8. \A q \in Packets \cup {None} : Sound(q) => Sound(q)'
  <2>1. SUFFICES ASSUME NEW q \in Packets, q # None, Sound(q)
                 PROVE  /\ q.ts <= hrSigned'
                        /\ q.ts = hrMove'.ts => q.host = hrMove'.host
                        /\ q.ts > hrMove'.ts /\ q.host # hrMove'.host => q.ts \in hrBlind'
    BY DEF Sound
  <2>2. q.ts \in Nat /\ q.ts <= hrSigned
    BY <2>1, HrConstants DEF Sound, Packets
  <2> QED
    BY <1>1, <1>2, <1>3, <1>7, <2>1, <2>2 DEF Sound
\* The one that is signed now is the move, or its signer knew the move's host,
\* or it did not.
<1>9. \A q : q = p => Sound(q)'
  <2>1. /\ p.ts <= hrSigned'
        /\ p.ts = hrMove'.ts => p.host = hrMove'.host
        /\ p.ts > hrMove'.ts /\ p.host # hrMove'.host => p.ts \in hrBlind'
    BY <1>1, <1>2, <1>3, <1>7
  <2> QED
    BY <2>1 DEF Sound
<1>10. /\ \A e \in Devices : hrDev'[e] = (IF e = d THEN g ELSE hrDev[e])
       /\ \A e \in Devices : hrCache'[e] \in {p, hrCache[e]}
  BY <1>1 DEF HrInv, HrTypeOK
<1>11. PacketsSound'
  <2>1. ASSUME NEW n \in Nodes
        PROVE  Sound(hrNode[n])'
    <3>1. hrNode[n] \in Packets \cup {None} /\ Sound(hrNode[n])
      BY DEF HrInv, HrTypeOK, PacketsSound
    <3> QED
      BY <1>8, <1>9, <1>5, <3>1 DEF Sound
  <2>2. ASSUME NEW e \in Devices
        PROVE  Sound(hrCache[e])'
    <3>1. hrCache[e] \in Packets \cup {None} /\ Sound(hrCache[e])
      BY DEF HrInv, HrTypeOK, PacketsSound
    <3> QED
      BY <1>8, <1>9, <1>10, <3>1 DEF Sound
  <2>3. Sound(hrJob.cached)'
    <3>1. hrJob.cached \in Packets \cup {None} /\ Sound(hrJob.cached)
      BY DEF HrInv, HrTypeOK, PacketsSound
    <3> QED
      BY <1>1, <1>8, <3>1 DEF Sound
  <2> QED
    BY <2>1, <2>2, <2>3 DEF PacketsSound
<1>12. DeviceSound'
  <2>1. SUFFICES ASSUME NEW e \in Devices, hrDev'[e].pc = "publish"
                 PROVE  /\ hrDev'[e].seen <= hrSigned' /\ hrDev'[e].host \in Servers
                        /\ ~hrDev'[e].moves /\ hrDev'[e].seen >= hrMove'.ts =>
                              \/ hrDev'[e].host = hrMove'.host
                              \/ hrDev'[e].seen \in hrBlind'
    BY DEF DeviceSound
  <2>2. /\ hrDev[e].pc = "publish" /\ hrDev'[e].seen = hrDev[e].seen
        /\ hrDev'[e].host = hrDev[e].host /\ hrDev'[e].moves = hrDev[e].moves
    BY <1>1, <1>4, <1>10, <2>1 DEF f
  <2>3. /\ hrDev[e].seen \in Nat /\ hrDev[e].seen <= hrSigned /\ hrDev[e].host \in Servers
        /\ ~hrDev[e].moves /\ hrDev[e].seen >= hrMove.ts =>
              hrDev[e].host = hrMove.host \/ hrDev[e].seen \in hrBlind
    BY <2>2, HrConstants DEF HrInv, HrTypeOK, DeviceSound
  <2> QED
    BY <1>1, <1>2, <1>3, <1>7, <2>2, <2>3
<1> QED
  BY <1>1, <1>6, <1>7, <1>11, <1>12 DEF HrInv

\* The republisher publishes a packet as it is.
LEMMA RepublisherKeeps ==
    ASSUME HrInv, UNCHANGED hrUser,
           \/ \E ns \in SUBSET Nodes : hrJob.pc = "publish" /\ StoreAt(ns, hrJob.cached)
           \/ UNCHANGED hrNode,
           hrJob'.pc \in {"idle", "latest", "publish", "failed"},
           hrJob'.tries \in 0..MaxAttempts,
           hrJob' = [pc |-> hrJob'.pc, cached |-> hrJob'.cached, tries |-> hrJob'.tries],
           hrJob'.cached \in Packets \cup {None}, Sound(hrJob'.cached),
           hrJob'.pc = "publish" => hrJob'.cached # None
    PROVE  HrInv'
<1>1. /\ hrNode' \in [Nodes -> Packets \cup {None}]
      /\ \A n \in Nodes : hrNode'[n] = hrNode[n] \/ hrNode'[n] = hrJob.cached
  <2>1. CASE \E ns \in SUBSET Nodes : hrJob.pc = "publish" /\ StoreAt(ns, hrJob.cached)
    <3>1. hrJob.cached \in Packets
      BY <2>1 DEF HrInv, HrTypeOK
    <3> QED
      BY <2>1, <3>1, StoreKeeps
  <2>2. CASE UNCHANGED hrNode
    BY <2>2 DEF HrInv, HrTypeOK
  <2> QED
    BY <2>1, <2>2
<1>2. HrTypeOK'
  BY <1>1 DEF HrInv, HrTypeOK, hrUser
<1>3. DeviceSound'
  BY DEF HrInv, DeviceSound, hrUser
<1>4. PacketsSound'
  BY <1>1 DEF HrInv, PacketsSound, Sound, hrUser
<1> QED
  BY <1>2, <1>3, <1>4 DEF HrInv, hrUser

LEMMA GoOnKeeps ==
    ASSUME HrInv, NEW network \in Packets \cup {None}, Sound(network), GoOnFrom(network),
           UNCHANGED <<hrNode, hrUser>>
    PROVE  HrInv'
<1> DEFINE p == MostRecent(hrJob.cached, network)
<1>1. p \in Packets \cup {None} /\ Sound(p)
  BY MostRecentKept DEF HrInv, HrTypeOK, PacketsSound
<1>2. hrJob' = IF ShouldRepublish(p) THEN [hrJob EXCEPT !.pc = "publish", !.cached = p] ELSE Unused
  BY DEF GoOnFrom
<1> HIDE DEF p
<1>3. CASE ShouldRepublish(p)
  BY <1>1, <1>2, <1>3, RepublisherKeeps DEF HrInv, HrTypeOK, ShouldRepublish
<1>4. CASE ~ShouldRepublish(p)
  BY <1>2, <1>4, RepublisherKeeps, HrConstants DEF Unused, Sound
<1> QED
  BY <1>3, <1>4

LEMMA JobKeeps ==
    ASSUME HrInv,
           \/ TakeKey \/ NetworkError \/ RetryKey
           \/ \E network \in Findable : RepublishLatest(network)
           \/ \E ns \in SUBSET Nodes : RepublishPacket(ns)
           \/ \E newer \in BOOLEAN : InvalidOnNetwork(newer)
    PROVE  HrInv'
<1>0. /\ hrJob \in [pc : {"idle", "latest", "publish", "failed"}, cached : Packets \cup {None},
                    tries : 0..MaxAttempts] /\ Sound(hrJob.cached)
      /\ Sound(None)
  BY DEF HrInv, HrTypeOK, PacketsSound, Sound
<1>u. ASSUME hrJob' = Unused, UNCHANGED <<hrNode, hrUser>>
      PROVE  HrInv'
  BY <1>0, <1>u, RepublisherKeeps, HrConstants DEF Unused
<1>1. CASE TakeKey
  <2>1. hrJob' = [pc |-> "latest", cached |-> None, tries |-> 1] /\ UNCHANGED <<hrNode, hrUser>>
    BY <1>1 DEF TakeKey, Unused
  <2> QED
    BY <1>0, <2>1, RepublisherKeeps, HrConstants
<1>2. CASE NetworkError
  BY <1>0, <1>2, RepublisherKeeps DEF NetworkError
<1>3. CASE RetryKey
  <2>1. CASE hrJob.tries < MaxAttempts
    <3>1. hrJob.tries + 1 \in 0..MaxAttempts
      BY <1>0, <2>1, HrConstants
    <3> QED
      BY <1>0, <1>3, <2>1, <3>1, RepublisherKeeps DEF RetryKey
  <2> QED
    BY <1>3, <1>u, <2>1 DEF RetryKey
<1>4. ASSUME NEW network \in Findable, RepublishLatest(network)
      PROVE  HrInv'
  BY <1>4, FindableKept, GoOnKeeps DEF RepublishLatest
<1>5. ASSUME NEW ns \in SUBSET Nodes, RepublishPacket(ns)
      PROVE  HrInv'
  <2>1. CASE hrJob' = [hrJob EXCEPT !.pc = "failed"]
    BY <1>0, <1>5, <2>1, RepublisherKeeps DEF RepublishPacket
  <2>2. CASE hrJob' = Unused
    BY <1>0, <1>5, <2>2, RepublisherKeeps, HrConstants DEF RepublishPacket, Unused
  <2> QED
    BY <1>5, <2>1, <2>2 DEF RepublishPacket
<1>6. ASSUME NEW newer \in BOOLEAN, InvalidOnNetwork(newer)
      PROVE  HrInv'
  BY <1>0, <1>6, <1>u, GoOnKeeps DEF InvalidOnNetwork
<1> QED
  BY <1>1, <1>2, <1>3, <1>4, <1>5, <1>6

\* The record is never moved back by those who knew of the move: neither by a
\* device, whatever its network and its cache show it, nor by the homeserver
\* that republishes what it finds.
THEOREM MovesAreUndoneBlindly == HrSpec => [](HrTypeOK /\ MoveUndoneOnlyBlindly)
<1>1. HrInit => HrInv
  <2> SUFFICES ASSUME HrInit
               PROVE  HrInv
    OBVIOUS
  <2>1. HrTypeOK
    BY HrConstants DEF HrInit, HrTypeOK, Packets, Resting, Unused, Host
  <2>2. PacketsSound /\ DeviceSound
    BY DEF HrInit, PacketsSound, DeviceSound, Sound, Resting, Unused
  <2> QED
    BY <2>1, <2>2 DEF HrInit, HrInv, Unused
<1>2. HrInv /\ [HrNext]_hrVars => HrInv'
  <2> SUFFICES ASSUME HrInv, [HrNext]_hrVars
               PROVE  HrInv'
    OBVIOUS
  <2>1. ASSUME NEW d \in Devices, PublishFails(d)
        PROVE  HrInv'
    <3>1. \A e \in Devices : hrDev'[e] = (IF e = d THEN Resting ELSE hrDev[e])
      BY <2>1 DEF PublishFails, HrInv, HrTypeOK
    <3>2. HrTypeOK'
      BY <2>1, HrConstants DEF PublishFails, HrInv, HrTypeOK, Resting, Host
    <3>3. DeviceSound'
      BY <2>1, <3>1 DEF PublishFails, HrInv, DeviceSound, Resting
    <3> QED
      BY <2>1, <3>2, <3>3 DEF PublishFails, HrInv, PacketsSound, Sound
  <2>2. CASE GetStale
    BY <2>2, HrConstants DEF GetStale, HrInv, HrTypeOK, PacketsSound, DeviceSound, Sound
  <2>3. CASE UNCHANGED hrVars
    BY <2>3 DEF hrVars, hrUser, HrInv, HrTypeOK, PacketsSound, DeviceSound, Sound
  <2> QED
    BY <2>1, <2>2, <2>3, BeginPublishKeeps, PublishKeeps, JobKeeps DEF HrNext
<1>3. HrInv => HrTypeOK /\ MoveUndoneOnlyBlindly
  BY DEF HrInv, PacketsSound, Sound, MoveUndoneOnlyBlindly
<1> QED
  BY <1>1, <1>2, <1>3, PTL DEF HrSpec

-----------------------------------------------------------------------------
(* Runs over the keys of all users *)

\* What a worker that has not ended has yet to bring into the summary: the keys it
\* has counted and the one it is at.
Load == [w \in DOMAIN brWorker |->
           IF brWorker[w].pc = "ended" THEN 0
           ELSE TotalCount(brWorker[w].sum) + (IF brWorker[w].pc = "busy" THEN 1 ELSE 0)]
Carried == SumOf(Load, DOMAIN brWorker)

\* Every key of a run is in the summary, with a worker, or in the queue.
BrInv ==
    /\ BrTypeOK
    /\ TotalCount(brSummary) <= Cardinality(UserKeys)
    /\ brRun = "active" =>
         TotalCount(brSummary) + Carried + Cardinality(brQueue) = Cardinality(brKeys)
    /\ brRun = "done" => TotalCount(brSummary) = Cardinality(brKeys)

\* What counting and merging do to the number of keys counted.
LEMMA CountFacts ==
    /\ NoSummary \in [Outcomes -> Nat] /\ TotalCount(NoSummary) = 0
    /\ \A s \in [Outcomes -> Nat] : TotalCount(s) \in Nat
    /\ \A s \in [Outcomes -> Nat], n \in Nat : TotalCount(s) <= n => s \in [Outcomes -> 0..n]
    /\ \A s, t \in [Outcomes -> Nat] :
         /\ MergeSummaries(s, t) \in [Outcomes -> Nat]
         /\ TotalCount(MergeSummaries(s, t)) = TotalCount(s) + TotalCount(t)
    /\ \A s \in [Outcomes -> Nat], o \in Outcomes :
         /\ CountOutcome(s, o) \in [Outcomes -> Nat]
         /\ TotalCount(CountOutcome(s, o)) = TotalCount(s) + 1
<1> USE DEF Outcomes, TotalCount, CountOutcome
<1>1. NoSummary \in [Outcomes -> Nat] /\ TotalCount(NoSummary) = 0
  BY DEF NoSummary
<1>2. ASSUME NEW s \in [Outcomes -> Nat] PROVE TotalCount(s) \in Nat
  OBVIOUS
<1>3. ASSUME NEW s \in [Outcomes -> Nat], NEW n \in Nat, TotalCount(s) <= n
      PROVE  s \in [Outcomes -> 0..n]
  <2>1. \A o \in Outcomes : s[o] <= n /\ s[o] \in Nat
    BY <1>3
  <2> QED
    BY <2>1
<1>4. ASSUME NEW s \in [Outcomes -> Nat], NEW t \in [Outcomes -> Nat]
      PROVE  /\ MergeSummaries(s, t) \in [Outcomes -> Nat]
             /\ TotalCount(MergeSummaries(s, t)) = TotalCount(s) + TotalCount(t)
  BY DEF MergeSummaries
<1>5. ASSUME NEW s \in [Outcomes -> Nat], NEW o \in Outcomes
      PROVE  /\ CountOutcome(s, o) \in [Outcomes -> Nat]
             /\ TotalCount(CountOutcome(s, o)) = TotalCount(s) + 1
  <2>1. CountOutcome(s, o) \in [Outcomes -> Nat]
    OBVIOUS
  <2>2. CASE o = "published"
    BY <2>2
  <2>3. CASE o = "missing"
    BY <2>3
  <2>4. CASE o = "skipped"
    BY <2>4
  <2>5. CASE o = "invalid"
    BY <2>5
  <2>6. CASE o = "failed"
    BY <2>6
  <2> QED
    BY <2>1, <2>2, <2>3, <2>4, <2>5, <2>6
<1> QED
  BY <1>1, <1>2, <1>3, <1>4, <1>5

\* What a worker carries is a number of keys.
LEMMA LoadFacts ==
    ASSUME BrTypeOK
    PROVE  /\ IsFiniteSet(DOMAIN brWorker)
           /\ \A w \in DOMAIN brWorker : brWorker[w] \in Worker /\ Load[w] \in Nat
           /\ Carried \in Nat
           /\ IsFiniteSet(brKeys) /\ IsFiniteSet(brQueue) /\ IsFiniteSet(brUsers)
           /\ Cardinality(brKeys) \in Nat /\ Cardinality(brQueue) \in Nat
           /\ Cardinality(UserKeys) \in Nat /\ Cardinality(brKeys) <= Cardinality(UserKeys)
           /\ brSummary \in [Outcomes -> Nat]
<1>1. PICK n \in 0..MaxWorkers : brWorker \in [1..n -> Worker]
  BY DEF BrTypeOK
<1>2. n \in Nat
  BY RunAssumption
<1>3. IsFiniteSet(DOMAIN brWorker)
  BY <1>1, <1>2, FS_Interval
<1>4. ASSUME NEW w \in DOMAIN brWorker PROVE brWorker[w] \in Worker /\ Load[w] \in Nat
  <2>1. brWorker[w] \in Worker
    BY <1>1
  <2>2. TotalCount(brWorker[w].sum) \in Nat
    BY <2>1, CountFacts DEF Worker
  <2> QED
    BY <2>1, <2>2 DEF Load
<1>5. Carried \in Nat
  BY <1>3, <1>4, SumFacts DEF Carried
<1>6. /\ IsFiniteSet(brKeys) /\ IsFiniteSet(brQueue) /\ IsFiniteSet(brUsers)
      /\ Cardinality(brKeys) <= Cardinality(UserKeys)
  BY RunAssumption, FS_Subset DEF BrTypeOK
<1>7. Cardinality(UserKeys) \in Nat /\ Cardinality(brKeys) \in Nat /\ Cardinality(brQueue) \in Nat
  BY <1>6, RunAssumption, FS_CardinalityType
<1>8. brSummary \in [Outcomes -> Nat]
  BY <1>7 DEF BrTypeOK
<1> QED
  BY <1>3, <1>4, <1>5, <1>6, <1>7, <1>8

\* A step of one worker changes what it carries by the difference of its load.
LEMMA WorkerStep ==
    ASSUME BrTypeOK, NEW w \in DOMAIN brWorker, NEW x \in Worker,
           brWorker' = [brWorker EXCEPT ![w] = x]
    PROVE  /\ \E n \in 0..MaxWorkers : brWorker' \in [1..n -> Worker]
           /\ DOMAIN brWorker' = DOMAIN brWorker
           /\ Carried' \in Nat /\ Load'[w] \in Nat
           /\ Carried' + Load[w] = Carried + Load'[w]
           /\ Load'[w] = IF x.pc = "ended" THEN 0
                         ELSE TotalCount(x.sum) + (IF x.pc = "busy" THEN 1 ELSE 0)
           /\ \A v \in DOMAIN brWorker : brWorker'[v] = IF v = w THEN x ELSE brWorker[v]
<1>1. PICK n \in 0..MaxWorkers : brWorker \in [1..n -> Worker]
  BY DEF BrTypeOK
<1>2. brWorker' \in [1..n -> Worker]
  BY <1>1
<1>3. DOMAIN brWorker' = DOMAIN brWorker /\ brWorker'[w] = x
      /\ \A v \in DOMAIN brWorker \ {w} : brWorker'[v] = brWorker[v]
  BY <1>1
<1>4. Load'[w] = IF x.pc = "ended" THEN 0
                 ELSE TotalCount(x.sum) + (IF x.pc = "busy" THEN 1 ELSE 0)
  BY <1>3 DEF Load
<1>5. Load'[w] \in Nat
  <2>1. TotalCount(x.sum) \in Nat
    BY CountFacts DEF Worker
  <2> QED
    BY <1>4, <2>1
<1>6. \A v \in DOMAIN brWorker \ {w} : Load'[v] = Load[v]
  BY <1>3 DEF Load
<1>7. /\ SumOf(Load', DOMAIN brWorker) \in Nat
      /\ SumOf(Load', DOMAIN brWorker) + Load[w] = SumOf(Load, DOMAIN brWorker) + Load'[w]
  BY <1>5, <1>6, LoadFacts, SumOfChange
<1>8. Carried' = SumOf(Load', DOMAIN brWorker) /\ Carried = SumOf(Load, DOMAIN brWorker)
  BY <1>3 DEF Carried
<1> QED
  BY <1>2, <1>3, <1>4, <1>5, <1>7, <1>8

\* Every step of a run keeps its keys accounted for.
LEMMA BrStep ==
    ASSUME BrInv, [BrNext]_brVars
    PROVE  BrInv'
<1> USE RunAssumption
<1>a. 0 \in 0..MaxTries /\ 1 \in 0..MaxTries
  OBVIOUS
<1>0. BrTypeOK /\ TotalCount(brSummary) \in Nat
  BY LoadFacts, CountFacts DEF BrInv
<1>1. ASSUME NEW u \in UserKeys, NewUser(u) PROVE BrInv'
  BY <1>1 DEF NewUser, BrInv, BrTypeOK, Carried, Load
<1>2. CASE TickRun
  <2> DEFINE n == Cardinality(brUsers)
             k == IF n < MaxWorkers THEN n ELSE MaxWorkers
  <2>1. n \in Nat /\ k \in 0..MaxWorkers /\ k \in Nat
    BY <1>0, LoadFacts, FS_CardinalityType
  <2>2. brWorker' = [w \in 1..k |-> FreshWorker]
    BY <1>2 DEF TickRun
  <2>3. FreshWorker \in Worker /\ FreshWorker.pc = "build" /\ FreshWorker.sum = NoSummary
    BY CountFacts DEF FreshWorker, Worker
  <2>4. brWorker' \in [1..k -> Worker] /\ DOMAIN brWorker' = 1..k
    BY <2>2, <2>3
  <2>5. \A w \in 1..k : Load'[w] = 0
    <3>1. TotalCount(NoSummary) = 0
      BY CountFacts
    <3> QED
      BY <2>2, <2>3, <2>4, <3>1 DEF Load
  <2>6. Carried' = 0
    <3> HIDE DEF k
    <3>1. IsFiniteSet(1..k)
      BY <2>1, FS_Interval
    <3> QED
      BY <2>4, <2>5, <3>1, SumOfZeros DEF Carried
  <2>7. NoSummary \in [Outcomes -> 0..Cardinality(UserKeys)] /\ TotalCount(NoSummary) = 0
    BY <1>0, LoadFacts, CountFacts
  <2>8. /\ brRun' = "active" /\ brKeys' = brUsers /\ brQueue' = brUsers /\ brUsers' = brUsers
        /\ brSummary' = NoSummary
    BY <1>2 DEF TickRun
  <2>9. BrTypeOK'
    <3> HIDE DEF k
    <3> QED
      BY <2>1, <2>4, <2>7, <2>8, <1>0 DEF BrTypeOK
  <2> QED
    BY <2>1, <2>6, <2>7, <2>8, <2>9, <1>0, LoadFacts DEF BrInv
<1>3. CASE ListFails
  BY <1>3 DEF ListFails, BrInv, BrTypeOK, Carried, Load
\* A worker that takes m keys from the queue and carries m more keeps the balance.
<1>4. ASSUME NEW w \in DOMAIN brWorker, NEW x \in Worker, brWorker' = [brWorker EXCEPT ![w] = x],
             UNCHANGED <<brUsers, brRun, brKeys, brSummary>>, brRun = "active",
             brQueue' \subseteq brQueue,
             Load'[w] + Cardinality(brQueue') = Load[w] + Cardinality(brQueue),
             Cardinality(brQueue') \in Nat
      PROVE  BrInv'
  <2>1. BrTypeOK'
    BY <1>0, <1>4, WorkerStep DEF BrTypeOK
  <2>2. Carried' + Load[w] = Carried + Load'[w] /\ Carried' \in Nat /\ Load'[w] \in Nat
    BY <1>0, <1>4, WorkerStep
  <2>3. TotalCount(brSummary') + Carried' + Cardinality(brQueue') = Cardinality(brKeys')
    <3>1. TotalCount(brSummary) + Carried + Cardinality(brQueue) = Cardinality(brKeys)
      BY <1>4 DEF BrInv
    <3>2. Carried \in Nat /\ Load[w] \in Nat /\ Cardinality(brQueue) \in Nat
          /\ Cardinality(brKeys) \in Nat
      BY <1>0, LoadFacts
    <3> QED
      BY <1>0, <1>4, <2>2, <3>1, <3>2
  <2> QED
    BY <1>4, <2>1, <2>3 DEF BrInv
<1>5. ASSUME NEW w \in DOMAIN brWorker, NEW ok \in BOOLEAN, BuildClient(w, ok) PROVE BrInv'
  <2>1. CASE ok
    <3> DEFINE x == [brWorker[w] EXCEPT !.pc = "ready"]
    <3>1. x \in Worker /\ brWorker' = [brWorker EXCEPT ![w] = x] /\ brWorker[w].pc = "build"
          /\ x.pc = "ready" /\ x.sum = brWorker[w].sum
      BY <1>0, <1>5, <2>1, LoadFacts DEF BuildClient, Worker
    <3> HIDE DEF x
    <3>2. Load'[w] = Load[w]
      BY <1>0, <3>1, WorkerStep DEF Load
    <3>3. /\ UNCHANGED <<brUsers, brRun, brKeys, brSummary>> /\ brRun = "active"
          /\ brQueue' = brQueue
      BY <1>5, <2>1 DEF BuildClient
    <3> QED
      BY <1>0, <1>4, <3>1, <3>2, <3>3, LoadFacts
  <2>2. CASE ~ok
    <3>1. /\ UNCHANGED <<brUsers, brKeys, brSummary, brQueue, brWorker>> /\ brRun' = "failed"
      BY <1>5, <2>2 DEF BuildClient
    <3> QED
      BY <3>1 DEF BrInv, BrTypeOK
  <2> QED
    BY <2>1, <2>2
<1>6. ASSUME NEW w \in DOMAIN brWorker, PopKey(w) PROVE BrInv'
  <2>1. PICK u \in brQueue :
           /\ brQueue' = brQueue \ {u}
           /\ brWorker' = [brWorker EXCEPT ![w] = [@ EXCEPT !.pc = "busy", !.key = u, !.tries = 1]]
    BY <1>6 DEF PopKey
  <2> DEFINE x == [brWorker[w] EXCEPT !.pc = "busy", !.key = u, !.tries = 1]
  <2>2. u \in UserKeys
    BY <1>0 DEF BrTypeOK
  <2>3. x \in Worker /\ brWorker' = [brWorker EXCEPT ![w] = x] /\ brWorker[w].pc = "ready"
        /\ x.pc = "busy" /\ x.sum = brWorker[w].sum
    <3>1. brWorker[w] \in Worker
      BY <1>0, LoadFacts
    <3>2. x \in Worker /\ x.pc = "busy" /\ x.sum = brWorker[w].sum
      BY <1>a, <2>2, <3>1 DEF Worker
    <3> QED
      BY <1>6, <2>1, <3>2 DEF PopKey
  <2> HIDE DEF x
  <2>4. Load'[w] = Load[w] + 1
    <3>1. TotalCount(x.sum) \in Nat
      BY <2>3, CountFacts DEF Worker
    <3>2. Load[w] = TotalCount(x.sum)
      BY <2>3, <3>1 DEF Load
    <3>3. Load'[w] = TotalCount(x.sum) + 1
      BY <1>0, <2>3, WorkerStep
    <3> QED
      BY <3>2, <3>3
  <2>5. Cardinality(brQueue') = Cardinality(brQueue) - 1 /\ Cardinality(brQueue') \in Nat
    <3>1. IsFiniteSet(brQueue) /\ IsFiniteSet(brQueue')
      BY <1>0, <2>1, LoadFacts, FS_Subset
    <3> QED
      BY <2>1, <3>1, FS_RemoveElement, FS_CardinalityType
  <2>6. UNCHANGED <<brUsers, brRun, brKeys, brSummary>> /\ brRun = "active"
    BY <1>6 DEF PopKey
  <2>7. Load'[w] + Cardinality(brQueue') = Load[w] + Cardinality(brQueue)
    <3>1. Load[w] \in Nat /\ Cardinality(brQueue) \in Nat
      BY <1>0, LoadFacts
    <3> QED
      BY <2>4, <2>5, <3>1
  <2> QED
    BY <1>4, <2>1, <2>3, <2>5, <2>6, <2>7
\* A key that was counted is carried in the worker's summary.
<1>7. ASSUME NEW w \in DOMAIN brWorker, NEW o \in Outcomes, RecordOutcome(w, o),
             brWorker[w].pc = "busy", brRun = "active",
             UNCHANGED <<brUsers, brRun, brKeys, brQueue, brSummary>>
      PROVE  BrInv'
  <2> DEFINE sum == CountOutcome(brWorker[w].sum, o)
             x == [brWorker[w] EXCEPT !.pc = "ready", !.key = None, !.tries = 0, !.sum = sum]
  <2>0. brWorker[w] \in Worker
    BY <1>0, LoadFacts
  <2>1. sum \in [Outcomes -> Nat] /\ TotalCount(sum) = TotalCount(brWorker[w].sum) + 1
        /\ TotalCount(brWorker[w].sum) \in Nat
    BY <2>0, CountFacts DEF Worker
  <2>2. brWorker' = [brWorker EXCEPT ![w] = x]
    BY <1>7 DEF RecordOutcome
  <2> HIDE DEF sum
  <2>3. x \in Worker /\ x.pc = "ready" /\ x.sum = sum
    BY <1>a, <2>0, <2>1 DEF Worker
  <2> HIDE DEF x
  <2>4. Load'[w] = Load[w]
    <3>1. Load[w] = TotalCount(brWorker[w].sum) + 1
      BY <1>7 DEF Load
    <3>2. Load'[w] = TotalCount(sum)
      <4>1. Load'[w] = TotalCount(sum) + 0
        BY <1>0, <2>2, <2>3, WorkerStep
      <4> QED
        BY <2>1, <4>1
    <3> QED
      BY <2>1, <3>1, <3>2
  <2>5. brQueue' \subseteq brQueue /\ Cardinality(brQueue') = Cardinality(brQueue)
        /\ Cardinality(brQueue) \in Nat
    BY <1>0, <1>7, LoadFacts
  <2> QED
    BY <1>4, <1>7, <2>2, <2>3, <2>4, <2>5
<1>8. ASSUME NEW w \in DOMAIN brWorker, NEW o \in Outcomes, AttemptEnds(w, o) PROVE BrInv'
  BY <1>7, <1>8 DEF AttemptEnds
<1>9. ASSUME NEW w \in DOMAIN brWorker, AttemptFails(w) PROVE BrInv'
  <2>1. CASE brWorker[w].tries < MaxTries
    <3> DEFINE x == [brWorker[w] EXCEPT !.tries = @ + 1]
    <3>1. x \in Worker /\ brWorker' = [brWorker EXCEPT ![w] = x] /\ x.pc = brWorker[w].pc
          /\ x.sum = brWorker[w].sum
      BY <1>0, <1>9, <2>1, LoadFacts DEF AttemptFails, Worker
    <3> HIDE DEF x
    <3>2. Load'[w] = Load[w]
      BY <1>0, <3>1, WorkerStep DEF Load
    <3>3. /\ UNCHANGED <<brUsers, brRun, brKeys, brSummary>> /\ brRun = "active"
          /\ brQueue' = brQueue
      BY <1>9 DEF AttemptFails
    <3> QED
      BY <1>0, <1>4, <3>1, <3>2, <3>3, LoadFacts
  <2>2. CASE ~(brWorker[w].tries < MaxTries)
    <3>1. "failed" \in Outcomes
      BY DEF Outcomes
    <3> QED
      BY <1>7, <1>9, <2>2, <3>1 DEF AttemptFails
  <2> QED
    BY <2>1, <2>2
<1>10. ASSUME NEW w \in DOMAIN brWorker, EndWorker(w) PROVE BrInv'
  <2> DEFINE x == [brWorker[w] EXCEPT !.pc = "ended"]
  <2>0. brWorker[w] \in Worker
    BY <1>0, LoadFacts
  <2>1. x \in Worker /\ brWorker' = [brWorker EXCEPT ![w] = x] /\ brWorker[w].pc = "ready"
        /\ x.pc = "ended"
    BY <1>10, <2>0 DEF EndWorker, Worker
  <2> HIDE DEF x
  <2>2. /\ brSummary' = MergeSummaries(brSummary, brWorker[w].sum)
        /\ UNCHANGED <<brUsers, brKeys, brQueue>> /\ brQueue = {} /\ brRun = "active"
        /\ brRun' = IF \A v \in DOMAIN brWorker : brWorker'[v].pc = "ended" THEN "done" ELSE brRun
    BY <1>10 DEF EndWorker
  <2>3. TotalCount(brWorker[w].sum) \in Nat /\ Load[w] = TotalCount(brWorker[w].sum)
    <3>1. TotalCount(brWorker[w].sum) \in Nat
      BY <2>0, CountFacts DEF Worker
    <3> QED
      BY <2>1, <3>1 DEF Load
  <2>4. Load'[w] = 0 /\ Carried' \in Nat /\ Carried' + Load[w] = Carried + Load'[w]
    BY <1>0, <2>1, WorkerStep
  <2>5. /\ brSummary' \in [Outcomes -> Nat]
        /\ TotalCount(brSummary') = TotalCount(brSummary) + TotalCount(brWorker[w].sum)
    <3>1. brSummary \in [Outcomes -> Nat] /\ brWorker[w].sum \in [Outcomes -> Nat]
      BY <1>0, <2>0, LoadFacts DEF Worker
    <3> QED
      BY <2>2, <3>1, CountFacts
  <2>6. TotalCount(brSummary') + Carried' + Cardinality(brQueue) = Cardinality(brKeys)
    <3>1. TotalCount(brSummary) + Carried + Cardinality(brQueue) = Cardinality(brKeys)
      BY <2>2 DEF BrInv
    <3>2. Carried \in Nat /\ Cardinality(brQueue) \in Nat /\ Cardinality(brKeys) \in Nat
      BY <1>0, LoadFacts
    <3> QED
      BY <1>0, <2>3, <2>4, <2>5, <3>1, <3>2
  <2>7. TotalCount(brSummary') \in Nat /\ TotalCount(brSummary') <= Cardinality(UserKeys)
    <3>1. TotalCount(brSummary') \in Nat
      BY <2>5, CountFacts
    <3>2. Cardinality(brQueue) \in Nat /\ Cardinality(brKeys) \in Nat
          /\ Cardinality(UserKeys) \in Nat /\ Cardinality(brKeys) <= Cardinality(UserKeys)
      BY <1>0, LoadFacts
    <3> QED
      BY <2>4, <2>6, <3>1, <3>2
  <2>8. BrTypeOK'
    <3>1. brSummary' \in [Outcomes -> 0..Cardinality(UserKeys)]
      BY <1>0, <2>5, <2>7, LoadFacts, CountFacts
    <3>2. \E n \in 0..MaxWorkers : brWorker' \in [1..n -> Worker]
      BY <1>0, <2>1, WorkerStep
    <3> QED
      BY <1>0, <2>2, <3>1, <3>2 DEF BrTypeOK
  <2>9. brRun' = "done" => TotalCount(brSummary') = Cardinality(brKeys)
    <3> SUFFICES ASSUME \A v \in DOMAIN brWorker : brWorker'[v].pc = "ended"
                 PROVE  TotalCount(brSummary') = Cardinality(brKeys)
      BY <2>2
    <3>1. DOMAIN brWorker' = DOMAIN brWorker /\ IsFiniteSet(DOMAIN brWorker)
      BY <1>0, <2>1, WorkerStep, LoadFacts
    <3>2. \A v \in DOMAIN brWorker : Load'[v] = 0
      BY <3>1 DEF Load
    <3>3. Carried' = 0
      BY <3>1, <3>2, SumOfZeros DEF Carried
    <3>4. Cardinality(brQueue) = 0
      BY <2>2, FS_EmptySet
    <3> QED
      BY <2>6, <2>7, <3>3, <3>4
  <2> QED
    BY <2>2, <2>6, <2>7, <2>8, <2>9 DEF BrInv
<1>11. CASE UNCHANGED brVars
  BY <1>11 DEF brVars, BrInv, BrTypeOK, Carried, Load
<1> QED
  BY <1>1, <1>2, <1>3, <1>5, <1>6, <1>8, <1>9, <1>10, <1>11 DEF BrNext

\* A run over the keys of all users that ends has counted each of them once,
\* whatever its workers' interleaving, retries and failures, and warns of a failed
\* one (MultiRepublisher::run, RepublishSummary).
THEOREM RunsCountEveryKey == BrSpec => [](BrTypeOK /\ RunCountsEveryKey)
<1>1. BrInit => BrInv
  <2> SUFFICES ASSUME BrInit PROVE BrInv
    OBVIOUS
  <2>1. Cardinality(UserKeys) \in Nat /\ 0 \in 0..MaxWorkers
    BY RunAssumption, FS_CardinalityType
  <2>2. brWorker \in [1..0 -> Worker]
    BY DEF BrInit
  <2>3. NoSummary \in [Outcomes -> 0..Cardinality(UserKeys)] /\ TotalCount(NoSummary) = 0
    BY <2>1, CountFacts
  <2> QED
    BY <2>1, <2>2, <2>3 DEF BrInit, BrInv, BrTypeOK
<1>2. BrInv /\ [BrNext]_brVars => BrInv'
  BY BrStep
<1>3. BrInv => BrTypeOK /\ RunCountsEveryKey
  <2> SUFFICES ASSUME BrInv PROVE brRun = "done" /\ brSummary["failed"] > 0 => HasIssues(brSummary)
    BY DEF BrInv, RunCountsEveryKey
  <2>1. brSummary \in [Outcomes -> Nat]
    BY LoadFacts DEF BrInv
  <2> QED
    BY <2>1 DEF HasIssues, Outcomes
<1> QED
  BY <1>1, <1>2, <1>3, PTL DEF BrSpec

\* RecordsKeptUp: the two together, for any devices, homeservers, keys and workers.
THEOREM RecordsAreKeptUp == HrSpec /\ BrSpec => []RecordsKeptUp
  BY MovesAreUndoneBlindly, RunsCountEveryKey, PTL DEF RecordsKeptUp
===============================================================================
