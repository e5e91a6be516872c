--------------------------- MODULE GrantAuthProofs ---------------------------
(***************************************************************************)
(* Grant sessions are safe for any number of calls, grants and nonces: the *)
(* grants row orders exchanges and revocations, a stored grant never       *)
(* changes, the session of a grant is of its last bearer, and a nonce is   *)
(* kept for the window of a proof.  Then, for the streams that a grant     *)
(* opened, that none of them misses its revocation.  Liveness is not       *)
(* claimed.                                                                *)
(***************************************************************************)
EXTENDS GrantAuth, StreamRevocation, TLAPS

-----------------------------------------------------------------------------
(* Types *)

\* A call asks for a well-typed job.
LEMMA JobTyped ==
    ASSUME TypeOK, NEW c \in Calls
    PROVE  /\ job[c].grant \in Grants /\ job[c].grant.id \in Ids
           /\ job[c].grant.exp \in Nat /\ job[c].nonce \in Nonces
           /\ job[c].grant # None
  BY GrantAssumption DEF TypeOK, JobType, Ids

\* Every step of a call keeps the types; the clock of mint_session is a second.
LEMMA TypeStep == TypeOK /\ [Next]_vars => TypeOK'
<1> SUFFICES ASSUME TypeOK, [Next]_vars PROVE TypeOK'
  OBVIOUS
<1> USE GrantAssumption
<1>n. Now \in Nat
  <2>1. tick \in Nat /\ TicksPerSec \in Nat /\ TicksPerSec > 0
    BY DEF TypeOK
  <2> QED
    BY <2>1 DEF Now, SecondOf
<1>1. CASE UNCHANGED vars
  BY <1>1 DEF vars, TypeOK
<1>2. CASE Tick
  BY <1>2 DEF Tick, callVars, history, TypeOK
<1>3. ASSUME NEW c \in Calls, CallStep(c) PROVE TypeOK'
  <2> USE DEF callVars, history, Steps
  <2>1. CASE VerifyGrant(c)
    <3>1. UNCHANGED <<tick, stored, sessions, nonces, callVars, history>>
      BY <2>1 DEF VerifyGrant
    <3>2. \/ Goto(c, "revoked") \/ Goto(c, "gc") \/ Finish(c, "refused")
      BY <2>1 DEF VerifyGrant, PassOrRefuse
    <3>3. /\ pc' \in [Calls -> Steps]
          /\ reply' \in [Calls -> {"none", "ok", "noop", "refused", "error"}]
      BY <3>2 DEF Goto, Finish, TypeOK
    <3> QED
      BY <3>1, <3>3 DEF TypeOK
  <2>2. CASE CheckRevoked(c)
    BY <2>2 DEF CheckRevoked, PassOrRefuse, Goto, Finish, TypeOK
  <2>3. CASE CollectNonces(c)
    BY <2>3 DEF CollectNonces, Goto, TypeOK
  <2>4. CASE TrackNonce(c)
    <3>1. nonces' \in [Nonces -> Nat \cup {None}] /\ spentAt' \in [Calls -> Nat \cup {None}]
      <4>1. CASE UNCHANGED <<nonces, spentAt>>
        BY <4>1 DEF TypeOK
      <4>2. CASE /\ nonces' = [nonces EXCEPT ![job[c].nonce] = tick]
                 /\ spentAt' = [spentAt EXCEPT ![c] = tick]
        <5>1. tick \in Nat \cup {None}
          BY DEF TypeOK
        <5>2. nonces' \in [Nonces -> Nat \cup {None}]
          BY <4>2, <5>1, Zenon DEF TypeOK
        <5>3. spentAt' \in [Calls -> Nat \cup {None}]
          BY <4>2, <5>1, Zenon DEF TypeOK
        <5> QED
          BY <5>2, <5>3
      <4> QED
        BY <2>4, <4>1, <4>2 DEF TrackNonce
    <3>2. pc' \in [Calls -> Steps]
      BY <2>4, ZenonT(30) DEF TrackNonce, Goto, Finish, TypeOK
    <3>3. reply' \in [Calls -> {"none", "ok", "noop", "refused", "error"}]
      BY <2>4 DEF TrackNonce, Goto, Finish, TypeOK
    <3> QED
      BY <2>4, <3>1, <3>2, <3>3 DEF TrackNonce, TypeOK
  <2>5. CASE StoreGrant(c)
    <3>1. stored' \in [Ids -> [grant : Grants \cup {None}, revoked : BOOLEAN]]
      <4> DEFINE g == job[c].grant
      <4>1. g \in Grants
        BY JobTyped
      <4>2. CASE stored' = stored
        BY <4>2 DEF TypeOK
      <4>3. CASE stored' = [stored EXCEPT ![g.id].grant = g]
        <5> DEFINE Row == [grant : Grants \cup {None}, revoked : BOOLEAN]
        <5>1. stored \in [Ids -> Row]
          BY DEF TypeOK
        <5>2. [stored[g.id] EXCEPT !.grant = g] \in Row
          <6>1. stored[g.id] \in Row
            BY <4>1, <5>1, Zenon DEF Ids
          <6> HIDE DEF g
          <6> QED
            BY <4>1, <6>1
        <5>3. stored' = [stored EXCEPT ![g.id] = [stored[g.id] EXCEPT !.grant = g]]
          BY <4>3, Zenon
        <5> HIDE DEF Row, g
        <5>4. stored' \in [Ids -> Row]
          BY <5>1, <5>2, <5>3, Zenon
        <5> QED
          BY <5>4 DEF Row
      <4> QED
        BY <2>5, <4>2, <4>3 DEF StoreGrant
    <3> QED
      BY <2>5, <3>1, ZenonT(30) DEF StoreGrant, Goto, Finish, TypeOK
  <2>6. CASE MatchGrant(c)
    BY <2>6, <1>n, ZenonT(30) DEF MatchGrant, PassOrRefuse, Goto, Finish, TypeOK
  <2>7. CASE LockGrant(c)
    BY <2>7 DEF LockGrant, PassOrRefuse, Goto, Finish, Replaced, SessionsOf, TypeOK
  <2>8. CASE CommitSession(c)
    <3>1. SessionExpiry(c) \in Nat
      BY JobTyped DEF SessionExpiry, TypeOK
    <3>2. [token |-> c, id |-> job[c].grant.id, exp |-> SessionExpiry(c)] \in Session
      BY <3>1, JobTyped DEF Session
    <3>3. sessions' \subseteq Session
      BY <2>8, <3>2 DEF CommitSession, TypeOK
    <3>4. minted' \in Seq(Calls)
      BY <2>8 DEF CommitSession, TypeOK
    <3> QED
      BY <2>8, <3>3, <3>4 DEF CommitSession, Finish, TypeOK
  <2>9. CASE CheckOwner(c)
    BY <2>9, ZenonT(30) DEF CheckOwner, PassOrRefuse, Goto, Finish, TypeOK
  <2>10. ASSUME NEW t \in Calls, Present(c, t) PROVE TypeOK'
    <3>1. KnownToBeOver(t) \in BOOLEAN
      BY Zenon DEF KnownToBeOver
    <3>2. stale' \in [Calls -> BOOLEAN]
      BY <2>10, <3>1, Zenon DEF Present, TypeOK
    <3> QED
      BY <2>10, <3>2 DEF Present, Goto, TypeOK
  <2>11. CASE ReadSession(c)
    BY <2>11, <1>n, ZenonT(30) DEF ReadSession, Unauthenticated, Goto, Finish, TypeOK
  <2>12. CASE ReadGrant(c)
    BY <2>12, ZenonT(30) DEF ReadGrant, Unauthenticated, PassOrRefuse, Goto, Finish, TypeOK
  <2>13. CASE CheckTarget(c)
    BY <2>13 DEF CheckTarget, PassOrRefuse, Goto, Finish, TypeOK
  <2>14. CASE LockRevoked(c)
    BY <2>14 DEF LockRevoked, Goto, SessionsOf, TypeOK
  <2>15. CASE CommitRevoked(c)
    BY <2>15, ZenonT(30) DEF CommitRevoked, Finish, TypeOK
  <2>16. CASE Fail(c)
    BY <2>16 DEF Fail, Unauthenticated, Finish, TypeOK
  <2> QED
    BY <1>3, <2>1, <2>2, <2>3, <2>4, <2>5, <2>6, <2>7, <2>8, <2>9, <2>10, <2>11,
       <2>12, <2>13, <2>14, <2>15, <2>16 DEF CallStep
<1> QED
  BY <1>1, <1>2, <1>3 DEF Next

(***************************************************************************)
(* Every reachable state is well typed; in particular sessions expire at a *)
(* natural number of seconds.                                              *)
(***************************************************************************)
THEOREM TypeCorrect == Spec => []TypeOK
<1>1. Init => TypeOK
  BY GrantAssumption DEF Init, TypeOK, Steps, Session
<1> QED
  BY <1>1, TypeStep, PTL DEF Spec

-----------------------------------------------------------------------------
(* The grants row orders exchanges and revocations *)

\* What every step keeps: RowLockInv and MatchInv make the session properties
\* inductive.
IInv ==
    /\ RowLockInv /\ MatchInv
    /\ RevokedHasNoSession /\ OneSessionPerGrant /\ SessionMatchesGrant

\* What an open transaction of d is about, and what it has read, stays the same.
Same(d) == /\ pc'[d] = pc[d] /\ bearer'[d] = bearer[d] /\ doomed'[d] = doomed[d]

\* The row of a transaction is a matter of its step, job and bearer.
LEMMA RowKept ==
    ASSUME NEW d \in Calls, Same(d), job' = job
    PROVE  LocksRow(d)' = LocksRow(d) /\ RowOf(d)' = RowOf(d)
  BY DEF Same, LocksRow, RowOf, Target, BearerGrant

\* A step that touches neither grants nor sessions, and moves no call into or
\* within a transaction, keeps the invariant.
LEMMA Quiet ==
    ASSUME IInv, UNCHANGED <<stored, sessions, job>>,
           \A d \in Calls : pc'[d] \in {"mint", "replace", "revoking"} => Same(d)
    PROVE  IInv'
<1>1. \A d \in Calls : LocksRow(d)' => LocksRow(d) /\ RowOf(d)' = RowOf(d)
                                       /\ doomed'[d] = doomed[d] /\ pc'[d] = pc[d]
  BY RowKept DEF LocksRow, Same
<1>2. RowLockInv'
  <2>1. (\A c, d \in Calls : LocksRow(c) /\ LocksRow(d) /\ c # d => RowOf(c) # RowOf(d))'
    BY <1>1 DEF IInv, RowLockInv
  <2>2. (\A c \in Calls : LocksRow(c) => doomed[c] = SessionsOf(RowOf(c)))'
    BY <1>1 DEF IInv, RowLockInv, SessionsOf
  <2>3. (\A c \in Calls : pc[c] = "replace" => ~stored[RowOf(c)].revoked)'
    BY <1>1 DEF IInv, RowLockInv, LocksRow
  <2> QED
    BY <2>1, <2>2, <2>3 DEF RowLockInv
<1>3. MatchInv'
  BY DEF IInv, MatchInv, Same
<1> QED
  BY <1>2, <1>3 DEF IInv, RevokedHasNoSession, OneSessionPerGrant, SessionMatchesGrant

\* ON CONFLICT DO NOTHING: a stored grant is never overwritten.
LEMMA StoreGrantKeeps ==
    ASSUME TypeOK, IInv, NEW c \in Calls, StoreGrant(c)
    PROVE  IInv'
<1> USE DEF callVars, history
<1>1. \A i \in Ids : /\ stored'[i].revoked = stored[i].revoked
                     /\ stored[i].grant # None => stored'[i].grant = stored[i].grant
  <2>1. CASE stored' = stored
    BY <2>1
  <2>2. CASE /\ stored[job[c].grant.id].grant = None
             /\ stored' = [stored EXCEPT ![job[c].grant.id].grant = job[c].grant]
    BY <2>2 DEF TypeOK
  <2> QED
    BY <2>1, <2>2 DEF StoreGrant
<1>2. sessions' = sessions /\ job' = job
  BY DEF StoreGrant
<1>3. \A d \in Calls : pc'[d] \in {"mint", "replace", "revoking"} => Same(d)
  BY DEF StoreGrant, Goto, Finish, Same, TypeOK
<1>4. \A d \in Calls : LocksRow(d)' => LocksRow(d) /\ RowOf(d)' = RowOf(d)
                                       /\ doomed'[d] = doomed[d] /\ pc'[d] = pc[d]
  BY <1>2, <1>3, RowKept DEF LocksRow, Same
<1>5. RowLockInv'
  <2>1. (\A b, d \in Calls : LocksRow(b) /\ LocksRow(d) /\ b # d => RowOf(b) # RowOf(d))'
    BY <1>4 DEF IInv, RowLockInv
  <2>2. (\A d \in Calls : LocksRow(d) => doomed[d] = SessionsOf(RowOf(d)))'
    BY <1>2, <1>4 DEF IInv, RowLockInv, SessionsOf
  <2>3. ASSUME NEW d \in Calls, pc'[d] = "replace" PROVE (~stored[RowOf(d)].revoked)'
    <3>1. pc[d] = "replace" /\ RowOf(d)' = RowOf(d)
      BY <1>4, <2>3 DEF LocksRow
    <3>2. RowOf(d) \in Ids
      BY <3>1, JobTyped DEF RowOf
    <3> QED
      BY <1>1, <3>1, <3>2 DEF IInv, RowLockInv
  <2> QED
    BY <2>1, <2>2, <2>3 DEF RowLockInv
<1>6. MatchInv'
  BY <1>1, <1>2, <1>3, JobTyped DEF IInv, MatchInv, Same
<1>7. RevokedHasNoSession' /\ OneSessionPerGrant'
  BY <1>1, <1>2 DEF IInv, RevokedHasNoSession, OneSessionPerGrant, TypeOK, Session
<1>8. SessionMatchesGrant'
  <2>1. \A s \in sessions : s.id \in Ids /\ s.token \in Calls
    BY DEF TypeOK, Session
  <2> QED
    BY <1>1, <1>2, <2>1, JobTyped DEF IInv, SessionMatchesGrant
<1> QED
  BY <1>5, <1>6, <1>7, <1>8 DEF IInv

\* An exchange goes on to mint only if the stored grant is its own.
LEMMA MatchGrantKeeps ==
    ASSUME TypeOK, IInv, NEW c \in Calls, MatchGrant(c)
    PROVE  IInv'
<1>1. UNCHANGED <<stored, sessions, job>>
  BY DEF MatchGrant, history
<1>2. \A d \in Calls : pc'[d] \in {"replace", "revoking"} => Same(d)
  BY DEF MatchGrant, PassOrRefuse, Goto, Finish, Same, TypeOK
<1>3. \A d \in Calls : LocksRow(d)' => LocksRow(d) /\ RowOf(d)' = RowOf(d)
                                       /\ doomed'[d] = doomed[d] /\ pc'[d] = pc[d]
  BY <1>1, <1>2, RowKept DEF LocksRow, Same
<1>4. RowLockInv'
  <2>1. (\A b, d \in Calls : LocksRow(b) /\ LocksRow(d) /\ b # d => RowOf(b) # RowOf(d))'
    BY <1>3 DEF IInv, RowLockInv
  <2>2. (\A d \in Calls : LocksRow(d) => doomed[d] = SessionsOf(RowOf(d)))'
    BY <1>1, <1>3 DEF IInv, RowLockInv, SessionsOf
  <2>3. (\A d \in Calls : pc[d] = "replace" => ~stored[RowOf(d)].revoked)'
    BY <1>1, <1>3 DEF IInv, RowLockInv, LocksRow
  <2> QED
    BY <2>1, <2>2, <2>3 DEF RowLockInv
<1>5. MatchInv'
  BY <1>1 DEF IInv, MatchInv, MatchGrant, PassOrRefuse, StoredMatches, Goto, Finish, TypeOK
<1> QED
  BY <1>1, <1>4, <1>5 DEF IInv, RevokedHasNoSession, OneSessionPerGrant, SessionMatchesGrant

\* SELECT ... FOR UPDATE: whoever gets the row sees all that is committed.
LEMMA LockGrantKeeps ==
    ASSUME TypeOK, IInv, NEW c \in Calls, LockGrant(c)
    PROVE  IInv'
<1> DEFINE i == job[c].grant.id
<1>1. UNCHANGED <<stored, sessions, job, bearer>>
  BY DEF LockGrant, history
<1>2. \A d \in Calls : d # c => Same(d)
  BY DEF LockGrant, PassOrRefuse, Goto, Finish, Same, TypeOK
<1>3. \A d \in Calls : d # c => LocksRow(d)' = LocksRow(d) /\ RowOf(d)' = RowOf(d)
  BY <1>1, <1>2, RowKept
<1>4. LocksRow(c)' => /\ RowOf(c)' = i /\ doomed'[c] = SessionsOf(i)
                      /\ pc'[c] = "replace" /\ ~stored[i].revoked
  BY <1>1 DEF LockGrant, PassOrRefuse, Goto, Finish, LocksRow, RowOf, Replaced, TypeOK
<1>5. \A d \in Calls : LocksRow(d) => RowOf(d) # i
  BY DEF LockGrant, GrantRowFree
<1>6. pc[c] = "mint"
  BY DEF LockGrant
<1> HIDE DEF i
<1>7. RowLockInv'
  <2>1. (\A b, d \in Calls : LocksRow(b) /\ LocksRow(d) /\ b # d => RowOf(b) # RowOf(d))'
    BY <1>3, <1>4, <1>5 DEF IInv, RowLockInv
  <2>2. (\A d \in Calls : LocksRow(d) => doomed[d] = SessionsOf(RowOf(d)))'
    BY <1>1, <1>2, <1>3, <1>4 DEF IInv, RowLockInv, SessionsOf, Same
  <2>3. (\A d \in Calls : pc[d] = "replace" => ~stored[RowOf(d)].revoked)'
    BY <1>1, <1>2, <1>3, <1>4 DEF IInv, RowLockInv, LocksRow, Same
  <2> QED
    BY <2>1, <2>2, <2>3 DEF RowLockInv
<1>8. MatchInv'
  BY <1>1, <1>2, <1>6 DEF IInv, MatchInv, Same
<1> QED
  BY <1>1, <1>7, <1>8 DEF IInv, RevokedHasNoSession, OneSessionPerGrant, SessionMatchesGrant

\* The same for the UPDATE of a revocation.
LEMMA LockRevokedKeeps ==
    ASSUME TypeOK, IInv, NEW c \in Calls, LockRevoked(c)
    PROVE  IInv'
<1> DEFINE i == Target(c)
<1>1. UNCHANGED <<stored, sessions, job, bearer>>
  BY DEF LockRevoked, history
<1>2. \A d \in Calls : d # c => Same(d)
  BY DEF LockRevoked, Goto, Same, TypeOK
<1>3. \A d \in Calls : d # c => LocksRow(d)' = LocksRow(d) /\ RowOf(d)' = RowOf(d)
  BY <1>1, <1>2, RowKept
<1>4. pc'[c] = "revoking" /\ doomed'[c] = SessionsOf(i)
  BY DEF LockRevoked, Goto, TypeOK
<1>5. RowOf(c)' = i
  BY <1>1, <1>4 DEF RowOf, Target, BearerGrant
<1>6. \A d \in Calls : LocksRow(d) => RowOf(d) # i
  BY DEF LockRevoked, GrantRowFree
<1> HIDE DEF i
<1>7. RowLockInv'
  <2>1. (\A b, d \in Calls : LocksRow(b) /\ LocksRow(d) /\ b # d => RowOf(b) # RowOf(d))'
    BY <1>3, <1>5, <1>6 DEF IInv, RowLockInv
  <2>2. (\A d \in Calls : LocksRow(d) => doomed[d] = SessionsOf(RowOf(d)))'
    BY <1>1, <1>2, <1>3, <1>4, <1>5 DEF IInv, RowLockInv, SessionsOf, Same
  <2>3. (\A d \in Calls : pc[d] = "replace" => ~stored[RowOf(d)].revoked)'
    BY <1>1, <1>2, <1>3, <1>4 DEF IInv, RowLockInv, LocksRow, Same
  <2> QED
    BY <2>1, <2>2, <2>3 DEF RowLockInv
<1>8. MatchInv'
  BY <1>1, <1>2, <1>4 DEF IInv, MatchInv, Same
<1> QED
  BY <1>1, <1>7, <1>8 DEF IInv, RevokedHasNoSession, OneSessionPerGrant, SessionMatchesGrant

\* mint_session: a session never outlives its grant.
LEMMA ExpiryBound ==
    ASSUME TypeOK, NEW c \in Calls
    PROVE  SessionExpiry(c) <= job[c].grant.exp
  BY GrantAssumption, JobTyped DEF SessionExpiry, TypeOK

\* The new session replaces all of the grant's, and no other transaction has
\* read them.
LEMMA CommitSessionKeeps ==
    ASSUME TypeOK, IInv, NEW c \in Calls, CommitSession(c)
    PROVE  IInv'
<1> DEFINE i == job[c].grant.id
           new == [token |-> c, id |-> i, exp |-> SessionExpiry(c)]
<1>1. UNCHANGED <<stored, job, bearer, doomed>>
  BY DEF CommitSession, callVars
<1>2. pc[c] = "replace" /\ RowOf(c) = i /\ LocksRow(c) /\ pc'[c] = "done"
  BY DEF CommitSession, RowOf, LocksRow, Finish, TypeOK
<1>3. \A d \in Calls : d # c => Same(d)
  BY <1>1 DEF CommitSession, Finish, Same, TypeOK
<1>4. \A d \in Calls : d # c => LocksRow(d)' = LocksRow(d) /\ RowOf(d)' = RowOf(d)
  BY <1>1, <1>3, RowKept
<1>5. ~LocksRow(c)'
  BY <1>2 DEF LocksRow
<1>6. sessions' = (sessions \ SessionsOf(i)) \cup {new}
  BY <1>2 DEF CommitSession, IInv, RowLockInv
<1>7. ~stored[i].revoked /\ stored[i].grant = job[c].grant
  BY <1>2 DEF IInv, RowLockInv, MatchInv
<1>8. new.id = i /\ new.token = c /\ new.exp <= stored[i].grant.exp
  BY <1>7, ExpiryBound
<1>9. stored[i].grant = job[new.token].grant
  BY <1>7
<1>10. \A d \in Calls : d # c /\ LocksRow(d) => RowOf(d) # i
  BY <1>2 DEF IInv, RowLockInv
<1> HIDE DEF i, new
<1>11. RowLockInv'
  <2>1. (\A b, d \in Calls : LocksRow(b) /\ LocksRow(d) /\ b # d => RowOf(b) # RowOf(d))'
    BY <1>4, <1>5 DEF IInv, RowLockInv
  <2>2. ASSUME NEW d \in Calls, LocksRow(d)' PROVE (doomed[d] = SessionsOf(RowOf(d)))'
    <3>1. d # c /\ LocksRow(d) /\ RowOf(d)' = RowOf(d) /\ RowOf(d) # i
      BY <1>4, <1>5, <1>10, <2>2
    <3> QED
      BY <1>1, <1>6, <1>8, <3>1 DEF IInv, RowLockInv, SessionsOf
  <2>3. (\A d \in Calls : pc[d] = "replace" => ~stored[RowOf(d)].revoked)'
    BY <1>1, <1>2, <1>3, <1>4 DEF IInv, RowLockInv, Same
  <2> QED
    BY <2>1, <2>2, <2>3 DEF RowLockInv
<1>12. MatchInv'
  BY <1>1, <1>2, <1>3 DEF IInv, MatchInv, Same
<1>13. RevokedHasNoSession'
  BY <1>1, <1>6, <1>7, <1>8 DEF IInv, RevokedHasNoSession
<1>14. OneSessionPerGrant'
  BY <1>6, <1>8 DEF IInv, OneSessionPerGrant, SessionsOf
<1>15. SessionMatchesGrant'
  BY <1>1, <1>6, <1>8, <1>9 DEF IInv, SessionMatchesGrant
<1> QED
  BY <1>11, <1>12, <1>13, <1>14, <1>15 DEF IInv

\* The grant and its sessions go together.
LEMMA CommitRevokedKeeps ==
    ASSUME TypeOK, IInv, NEW c \in Calls, CommitRevoked(c)
    PROVE  IInv'
<1> DEFINE i == Target(c)
<1>1. UNCHANGED <<job, bearer, doomed>>
  BY DEF CommitRevoked, callVars
<1>2. pc[c] = "revoking" /\ RowOf(c) = i /\ LocksRow(c) /\ pc'[c] = "done"
  BY DEF CommitRevoked, RowOf, LocksRow, Finish, TypeOK
<1>3. \A d \in Calls : d # c => Same(d)
  BY <1>1 DEF CommitRevoked, Finish, Same, TypeOK
<1>4. \A d \in Calls : d # c => LocksRow(d)' = LocksRow(d) /\ RowOf(d)' = RowOf(d)
  BY <1>1, <1>3, RowKept
<1>5. ~LocksRow(c)'
  BY <1>2 DEF LocksRow
<1>6. sessions' = sessions \ SessionsOf(i)
  BY <1>2 DEF CommitRevoked, IInv, RowLockInv
<1>7. \A j \in Ids : /\ stored'[j].grant = stored[j].grant
                     /\ j # i => stored'[j].revoked = stored[j].revoked
  BY DEF CommitRevoked, TypeOK
<1>8. \A s \in sessions' : s \in sessions /\ s.id \in Ids /\ s.id # i
  BY <1>6 DEF SessionsOf, TypeOK, Session
<1>9. \A d \in Calls : d # c /\ LocksRow(d) => RowOf(d) # i
  BY <1>2 DEF IInv, RowLockInv
<1> HIDE DEF i
<1>10. RowLockInv'
  <2>1. (\A b, d \in Calls : LocksRow(b) /\ LocksRow(d) /\ b # d => RowOf(b) # RowOf(d))'
    BY <1>4, <1>5 DEF IInv, RowLockInv
  <2>2. ASSUME NEW d \in Calls, LocksRow(d)' PROVE (doomed[d] = SessionsOf(RowOf(d)))'
    <3>1. d # c /\ LocksRow(d) /\ RowOf(d)' = RowOf(d) /\ RowOf(d) # i
      BY <1>4, <1>5, <1>9, <2>2
    <3> QED
      BY <1>1, <1>6, <3>1 DEF IInv, RowLockInv, SessionsOf
  <2>3. ASSUME NEW d \in Calls, pc'[d] = "replace" PROVE (~stored[RowOf(d)].revoked)'
    <3>1. d # c /\ pc[d] = "replace" /\ LocksRow(d)
      BY <1>2, <1>3, <2>3 DEF Same, LocksRow
    <3>2. RowOf(d)' = RowOf(d) /\ RowOf(d) # i /\ RowOf(d) \in Ids
      BY <1>4, <1>9, <3>1, JobTyped DEF RowOf
    <3> QED
      BY <1>7, <3>1, <3>2 DEF IInv, RowLockInv
  <2> QED
    BY <2>1, <2>2, <2>3 DEF RowLockInv
<1>11. MatchInv'
  BY <1>1, <1>2, <1>3, <1>7, JobTyped DEF IInv, MatchInv, Same
<1>12. RevokedHasNoSession'
  BY <1>7, <1>8 DEF IInv, RevokedHasNoSession
<1>13. OneSessionPerGrant'
  BY <1>8 DEF IInv, OneSessionPerGrant
<1>14. SessionMatchesGrant'
  BY <1>1, <1>7, <1>8 DEF IInv, SessionMatchesGrant
<1> QED
  BY <1>10, <1>11, <1>12, <1>13, <1>14 DEF IInv

\* One case per step of a call; most of them are quiet.
LEMMA IInvStep == TypeOK /\ IInv /\ [Next]_vars => IInv'
<1> SUFFICES ASSUME TypeOK, IInv, [Next]_vars PROVE IInv'
  OBVIOUS
<1> USE DEF callVars, history
<1>1. CASE UNCHANGED vars
  <2>1. \A d \in Calls : Same(d)
    BY <1>1 DEF vars, Same
  <2> QED
    BY <1>1, <2>1, Quiet DEF vars
<1>2. CASE Tick
  <2>1. \A d \in Calls : Same(d)
    BY <1>2 DEF Tick, Same
  <2> QED
    BY <1>2, <2>1, Quiet DEF Tick
<1>3. ASSUME NEW c \in Calls, CallStep(c) PROVE IInv'
  <2> DEFINE QuietStep ==
        /\ UNCHANGED <<stored, sessions, job>>
        /\ \A d \in Calls : pc'[d] \in {"mint", "replace", "revoking"} => Same(d)
  <2>0. QuietStep => IInv'
    BY Quiet
  <2>1. VerifyGrant(c) => QuietStep
    BY DEF VerifyGrant, PassOrRefuse, Goto, Finish, Same, TypeOK
  <2>2. CheckRevoked(c) => QuietStep
    BY DEF CheckRevoked, PassOrRefuse, Goto, Finish, Same, TypeOK
  <2>3. CollectNonces(c) => QuietStep
    BY DEF CollectNonces, Goto, Same, TypeOK
  <2>4. TrackNonce(c) => QuietStep
    BY DEF TrackNonce, Goto, Finish, Same, TypeOK
  <2>5. CheckOwner(c) => QuietStep
    BY DEF CheckOwner, PassOrRefuse, Goto, Finish, Same, TypeOK
  <2>6. ASSUME NEW t \in Calls, Present(c, t) PROVE QuietStep
    BY <2>6 DEF Present, Goto, Same, TypeOK
  <2>7. ReadSession(c) => QuietStep
    BY DEF ReadSession, Unauthenticated, Goto, Finish, Same, TypeOK
  <2>8. ReadGrant(c) => QuietStep
    BY DEF ReadGrant, Unauthenticated, PassOrRefuse, Goto, Finish, Same, TypeOK
  <2>9. CheckTarget(c) => QuietStep
    BY DEF CheckTarget, PassOrRefuse, Goto, Finish, Same, TypeOK
  <2>10. Fail(c) => QuietStep
    BY DEF Fail, Unauthenticated, Finish, Same, TypeOK
  <2> HIDE DEF QuietStep
  <2> QED
    BY <1>3, <2>0, <2>1, <2>2, <2>3, <2>4, <2>5, <2>6, <2>7, <2>8, <2>9, <2>10,
       StoreGrantKeeps, MatchGrantKeeps, LockGrantKeeps, CommitSessionKeeps,
       LockRevokedKeeps, CommitRevokedKeeps DEF CallStep
<1> QED
  BY <1>1, <1>2, <1>3 DEF Next

\* The invariant holds in every reachable state.
LEMMA Invariance == Spec => []IInv
<1>1. Init => IInv
  BY DEF Init, IInv, RowLockInv, LocksRow, MatchInv, RevokedHasNoSession,
         OneSessionPerGrant, SessionMatchesGrant
<1>2. Spec => []TypeOK
  BY TypeCorrect
<1> QED
  BY <1>1, <1>2, IInvStep, PTL DEF Spec

(***************************************************************************)
(* Two open transactions never have the same grants row, and what each of  *)
(* them read under it (the sessions to delete, the grant not revoked) is   *)
(* still so when it commits: replace_for_grant and revoke_grant serialize. *)
(***************************************************************************)
THEOREM TransactionsSerialize == Spec => [](RowLockInv /\ MatchInv)
<1>1. IInv => RowLockInv /\ MatchInv
  BY DEF IInv
<1> QED
  BY <1>1, Invariance, PTL

(***************************************************************************)
(* A revoked grant has no session, however exchanges and revocations of it *)
(* interleave and wherever they fail.                                      *)
(***************************************************************************)
THEOREM RevocationIsFinal == Spec => []RevokedHasNoSession
<1>1. IInv => RevokedHasNoSession
  BY DEF IInv
<1> QED
  BY <1>1, Invariance, PTL

(***************************************************************************)
(* A grant never has two bearers, however many exchanges of it run at once *)
(* (replace_for_grant).                                                    *)
(***************************************************************************)
THEOREM OneBearerAtATime == Spec => []OneSessionPerGrant
<1>1. IInv => OneSessionPerGrant
  BY DEF IInv
<1> QED
  BY <1>1, Invariance, PTL

(***************************************************************************)
(* The grants row of a session is the grant its client presented, and the  *)
(* session does not outlive it (require_stored_grant_matches and           *)
(* mint_session).                                                          *)
(***************************************************************************)
THEOREM SessionsAreOfTheirGrant == Spec => []SessionMatchesGrant
<1>1. IInv => SessionMatchesGrant
  BY DEF IInv
<1> QED
  BY <1>1, Invariance, PTL

(***************************************************************************)
(* The three together: a grant that is not revoked has at most one session,*)
(* a revoked one none, and it is a session of that very grant.             *)
(***************************************************************************)
THEOREM SessionsAreSound == Spec => []SessionsSound
<1>1. RevokedHasNoSession /\ OneSessionPerGrant /\ SessionMatchesGrant => SessionsSound
  BY DEF SessionsSound
<1> QED
  BY RevocationIsFinal, OneBearerAtATime, SessionsAreOfTheirGrant, <1>1, PTL

-----------------------------------------------------------------------------
(* Bearers that are over *)

\* What makes a stale bearer worthless: the session of a grant is of the last
\* bearer minted for it, a call mints once, and a bearer that was over when a
\* request presented it has no session and gets none.
Answered == \A c \in Calls : reply[c] # "none" => pc[c] = "done"

MintedOnce ==
    /\ \A i \in DOMAIN minted : pc[minted[i]] = "done"
    /\ \A i, j \in DOMAIN minted : minted[i] = minted[j] => i = j

LastMinted(s) ==
    \E i \in DOMAIN minted :
       /\ minted[i] = s.token
       /\ \A j \in DOMAIN minted : i < j => job[minted[j]].grant.id # s.id

SessionIsLast ==
    \A s \in sessions : s.id = job[s.token].grant.id /\ LastMinted(s)

StaleIsOver ==
    \A c \in Calls : stale[c] =>
       /\ bearer[c] \in Calls /\ pc[bearer[c]] = "done"
       /\ \A s \in sessions : s.token # bearer[c]

StaleInv ==
    Answered /\ MintedOnce /\ SessionIsLast /\ StaleIsOver /\ StaleBearerRefused

\* A bearer that is known to be over has no session.
LEMMA OverHasNoSession ==
    ASSUME TypeOK, IInv, StaleInv, NEW t \in Calls, KnownToBeOver(t),
           NEW s \in sessions
    PROVE  s.token # t
<1> SUFFICES ASSUME s.token = t PROVE FALSE
  OBVIOUS
<1>1. s.id = job[t].grant.id /\ LastMinted(s)
  BY DEF StaleInv, SessionIsLast
<1>2. CASE stored[job[t].grant.id].revoked
  BY <1>1, <1>2 DEF IInv, RevokedHasNoSession
<1>3. ASSUME NEW i \in DOMAIN minted, NEW j \in DOMAIN minted, i < j, minted[i] = t,
             job[minted[j]].grant.id = job[t].grant.id
      PROVE  FALSE
  <2>1. PICK k \in DOMAIN minted :
           /\ minted[k] = t
           /\ \A m \in DOMAIN minted : k < m => job[minted[m]].grant.id # s.id
    BY <1>1 DEF LastMinted
  <2>2. k = i
    BY <1>3, <2>1 DEF StaleInv, MintedOnce
  <2> QED
    BY <1>1, <1>3, <2>1, <2>2
<1> QED
  BY <1>2, <1>3 DEF KnownToBeOver

\* A step that mints nothing and presents nothing: sessions may only go, and a
\* call that presented a stale bearer is not served.
MintsNothing ==
    /\ UNCHANGED <<job, bearer, minted, stale>>
    /\ sessions' \subseteq sessions
    /\ \A d \in Calls : /\ pc[d] = "done" => pc'[d] = "done"
                        /\ reply'[d] # reply[d] => pc'[d] = "done"
                        /\ pc'[d] # pc[d] /\ pc[d] = "bearer"
                              => \/ pc'[d] = "done" /\ reply'[d] # "ok"
                                 \/ \E s \in sessions : s.token = bearer[d]
                        /\ pc'[d] = pc[d] => reply'[d] = reply[d]

LEMMA MintsNothingKeeps ==
    ASSUME TypeOK, StaleInv, MintsNothing
    PROVE  StaleInv'
<1>1. Answered'
  BY DEF StaleInv, Answered, MintsNothing
<1>2. MintedOnce'
  <2>1. minted \in Seq(Calls)
    BY DEF TypeOK
  <2>2. \A i \in DOMAIN minted : minted[i] \in Calls
    BY <2>1
  <2> QED
    BY <2>2 DEF StaleInv, MintedOnce, MintsNothing
<1>3. SessionIsLast'
  BY DEF StaleInv, SessionIsLast, LastMinted, MintsNothing
<1>4. StaleIsOver'
  BY DEF StaleInv, StaleIsOver, MintsNothing
<1>5. StaleBearerRefused'
  <2> SUFFICES ASSUME NEW c \in Calls, stale[c]
               PROVE  pc'[c] \in {"bearer", "done"} /\ reply'[c] # "ok"
    BY DEF StaleBearerRefused, MintsNothing
  <2>1. pc[c] \in {"bearer", "done"} /\ reply[c] # "ok"
    BY DEF StaleInv, StaleBearerRefused
  <2>2. \A s \in sessions : s.token # bearer[c]
    BY DEF StaleInv, StaleIsOver
  <2> QED
    BY <2>1, <2>2 DEF MintsNothing
<1> QED
  BY <1>1, <1>2, <1>3, <1>4, <1>5 DEF StaleInv

\* replace_for_grant: the new bearer is the last one of its grant, and the call
\* that commits it is nobody's bearer yet.
LEMMA CommitSessionKeepsStale ==
    ASSUME TypeOK, IInv, StaleInv, NEW c \in Calls, CommitSession(c)
    PROVE  StaleInv'
<1> DEFINE i == job[c].grant.id
           new == [token |-> c, id |-> i, exp |-> SessionExpiry(c)]
<1> USE DEF callVars
<1>1. pc[c] = "replace" /\ RowOf(c) = i /\ LocksRow(c)
  BY DEF CommitSession, RowOf, LocksRow
<1>2. sessions' = (sessions \ SessionsOf(i)) \cup {new}
  BY <1>1 DEF CommitSession, IInv, RowLockInv
<1>3. UNCHANGED <<job, bearer, stale>>
  BY DEF CommitSession
<1>4. /\ pc'[c] = "done" /\ reply'[c] = "ok"
      /\ \A d \in Calls : d # c => pc'[d] = pc[d] /\ reply'[d] = reply[d]
  BY DEF CommitSession, Finish, TypeOK
<1>5. /\ minted \in Seq(Calls) /\ Len(minted) \in Nat /\ minted' = Append(minted, c)
      /\ DOMAIN minted = 1..Len(minted) /\ DOMAIN minted' = 1..(Len(minted) + 1)
      /\ minted'[Len(minted) + 1] = c
      /\ \A k \in DOMAIN minted : minted'[k] = minted[k] /\ minted[k] \in Calls
  BY DEF CommitSession, TypeOK
<1>6. \A k \in DOMAIN minted : minted[k] # c
  BY <1>1 DEF StaleInv, MintedOnce
<1>7. new.id = i /\ new.token = c
  OBVIOUS
<1> DEFINE n == Len(minted)
<1>8. n \in Nat /\ DOMAIN minted = 1..n /\ DOMAIN minted' = 1..(n + 1) /\ minted'[n + 1] = c
  BY <1>5
<1>9. i = job[c].grant.id
  OBVIOUS
<1> HIDE DEF i, new, n
<1>10. Answered'
  BY <1>4 DEF StaleInv, Answered
<1>11. MintedOnce'
  <2>1. \A k \in DOMAIN minted' : pc'[minted'[k]] = "done"
    BY <1>4, <1>5, <1>6, <1>8 DEF StaleInv, MintedOnce
  <2>2. \A k, m \in DOMAIN minted' : minted'[k] = minted'[m] => k = m
    BY <1>5, <1>6, <1>8 DEF StaleInv, MintedOnce
  <2> QED
    BY <2>1, <2>2 DEF MintedOnce
<1>12. SessionIsLast'
  <2> SUFFICES ASSUME NEW s \in sessions'
               PROVE  s.id = job[s.token].grant.id /\ LastMinted(s)'
    BY <1>3 DEF SessionIsLast
  <2>1. CASE s = new
    <3>1. s.id = job[s.token].grant.id
      BY <1>7, <1>9, <2>1
    <3>2. /\ n + 1 \in DOMAIN minted' /\ minted'[n + 1] = s.token
          /\ \A j \in DOMAIN minted' : n + 1 < j => job'[minted'[j]].grant.id # s.id
      BY <1>7, <1>8, <2>1
    <3> QED
      BY <3>1, <3>2 DEF LastMinted
  <2>2. CASE s \in sessions /\ s.id # i
    <3>1. s.id = job[s.token].grant.id /\ LastMinted(s)
      BY <2>2 DEF StaleInv, SessionIsLast
    <3>2. PICK k \in DOMAIN minted :
             /\ minted[k] = s.token
             /\ \A j \in DOMAIN minted : k < j => job[minted[j]].grant.id # s.id
      BY <3>1 DEF LastMinted
    <3>3. /\ k \in DOMAIN minted' /\ minted'[k] = s.token
          /\ \A j \in DOMAIN minted' : k < j => job'[minted'[j]].grant.id # s.id
      BY <1>3, <1>5, <1>8, <1>9, <2>2, <3>2
    <3> QED
      BY <3>1, <3>3 DEF LastMinted
  <2> QED
    BY <1>2, <2>1, <2>2 DEF SessionsOf
<1>13. StaleIsOver'
  BY <1>1, <1>2, <1>3, <1>4, <1>7 DEF StaleInv, StaleIsOver
<1>14. StaleBearerRefused'
  BY <1>1, <1>3, <1>4 DEF StaleInv, StaleBearerRefused
<1> QED
  BY <1>10, <1>11, <1>12, <1>13, <1>14 DEF StaleInv

\* A request is marked stale only if its bearer has no session any more.
LEMMA PresentKeepsStale ==
    ASSUME TypeOK, IInv, StaleInv, NEW c \in Calls, NEW t \in Calls, Present(c, t)
    PROVE  StaleInv'
<1>1. UNCHANGED <<sessions, job, minted, reply>>
  BY DEF Present, Goto
<1>2. /\ pc[c] = "idle" /\ pc'[c] = "bearer" /\ bearer'[c] = t
      /\ stale'[c] = KnownToBeOver(t)
      /\ \A d \in Calls : d # c => /\ pc'[d] = pc[d] /\ bearer'[d] = bearer[d]
                                   /\ stale'[d] = stale[d]
  BY DEF Present, Goto, TypeOK
<1>3. pc[t] = "done" /\ t # c
  BY <1>2 DEF Present, StaleInv, Answered
<1>4. reply[c] = "none"
  BY <1>2 DEF StaleInv, Answered
<1>5. KnownToBeOver(t) => \A s \in sessions : s.token # t
  BY OverHasNoSession
<1>6. Answered'
  BY <1>1, <1>2, <1>4 DEF StaleInv, Answered
<1>7. MintedOnce'
  <2>1. \A i \in DOMAIN minted : minted[i] \in Calls
    BY DEF TypeOK
  <2> QED
    BY <1>1, <1>2, <2>1 DEF StaleInv, MintedOnce
<1>8. SessionIsLast'
  BY <1>1 DEF StaleInv, SessionIsLast, LastMinted
<1>9. StaleIsOver'
  BY <1>1, <1>2, <1>3, <1>5 DEF StaleInv, StaleIsOver
<1>10. StaleBearerRefused'
  BY <1>1, <1>2, <1>4 DEF StaleInv, StaleBearerRefused
<1> QED
  BY <1>6, <1>7, <1>8, <1>9, <1>10 DEF StaleInv

\* One case per step of a call.
LEMMA StaleStep == TypeOK /\ IInv /\ StaleInv /\ [Next]_vars => StaleInv'
<1> SUFFICES ASSUME TypeOK, IInv, StaleInv, [Next]_vars PROVE StaleInv'
  OBVIOUS
<1> USE DEF callVars, history
<1>0. MintsNothing => StaleInv'
  BY MintsNothingKeeps
<1>a. Answered
  BY DEF StaleInv
<1>1. CASE UNCHANGED vars
  <2>1. MintsNothing
    BY <1>1 DEF vars, MintsNothing
  <2> QED
    BY <1>0, <2>1
<1>2. CASE Tick
  <2>1. MintsNothing
    BY <1>2 DEF Tick, MintsNothing
  <2> QED
    BY <1>0, <2>1
<1>3. ASSUME NEW c \in Calls, CallStep(c) PROVE StaleInv'
  <2> USE DEF PassOrRefuse, Goto, Finish, MintsNothing, TypeOK
  <2>1. VerifyGrant(c) => MintsNothing
    BY DEF VerifyGrant
  <2>2. CheckRevoked(c) => MintsNothing
    BY DEF CheckRevoked
  <2>3. CollectNonces(c) => MintsNothing
    BY DEF CollectNonces
  <2>4. TrackNonce(c) => MintsNothing
    BY DEF TrackNonce
  <2>5. StoreGrant(c) => MintsNothing
    BY DEF StoreGrant
  <2>6. MatchGrant(c) => MintsNothing
    BY DEF MatchGrant
  <2>7. LockGrant(c) => MintsNothing
    BY DEF LockGrant
  <2>8. CheckOwner(c) => MintsNothing
    BY DEF CheckOwner
  <2>9. ReadSession(c) => MintsNothing
    BY DEF ReadSession, Unauthenticated
  <2>10. ReadGrant(c) => MintsNothing
    BY DEF ReadGrant, Unauthenticated
  <2>11. CheckTarget(c) => MintsNothing
    BY DEF CheckTarget
  <2>12. LockRevoked(c) => MintsNothing
    BY DEF LockRevoked
  <2>13. CommitRevoked(c) => MintsNothing
    BY DEF CommitRevoked
  <2>14. Fail(c) => MintsNothing
    BY DEF Fail, Unauthenticated
  <2> HIDE DEF MintsNothing
  <2> QED
    BY <1>0, <1>3, <2>1, <2>2, <2>3, <2>4, <2>5, <2>6, <2>7, <2>8, <2>9, <2>10,
       <2>11, <2>12, <2>13, <2>14, CommitSessionKeepsStale, PresentKeepsStale
       DEF CallStep
<1> QED
  BY <1>1, <1>2, <1>3 DEF Next

(***************************************************************************)
(* A bearer is good for nothing once a newer one of its grant was handed   *)
(* out or the grant was revoked: no request that began after that is       *)
(* served, for any number of exchanges, revocations and requests at once   *)
(* (replace_for_grant, revoke_grant, resolve_grant_session_by_bearer).     *)
(***************************************************************************)
THEOREM StaleBearersRefused == Spec => []StaleBearerRefused
<1>1. Init => StaleInv
  BY DEF Init, StaleInv, Answered, MintedOnce, SessionIsLast, StaleIsOver,
         StaleBearerRefused
<1>2. StaleInv => StaleBearerRefused
  BY DEF StaleInv
<1>3. Spec => []TypeOK
  BY TypeCorrect
<1> QED
  BY <1>1, <1>2, <1>3, Invariance, StaleStep, PTL DEF Spec

-----------------------------------------------------------------------------
(* Nonces *)

\* The age at which a nonce is forgotten, in ticks.
Window == NonceGcAge * TicksPerSec

\* The window is a number of ticks.
LEMMA WindowIsNat == Window \in Nat
<1>1. PopMaxAge \in Nat /\ TicksPerSec \in Nat
  BY GrantAssumption
<1>2. NonceGcAge \in Nat
  BY <1>1 DEF NonceGcAge
<1> QED
  BY <1>1, <1>2 DEF Window

\* A second begins every TicksPerSec ticks.
LEMMA SecondFacts ==
    ASSUME NEW t \in Nat
    PROVE  /\ SecondOf(t) \in Nat
           /\ SecondOf(t) * TicksPerSec <= t
           /\ t < SecondOf(t) * TicksPerSec + TicksPerSec
<1>1. TicksPerSec \in Nat /\ TicksPerSec > 0
  BY GrantAssumption
<1> DEFINE q == t \div TicksPerSec
<1>2. q \in Nat /\ TicksPerSec * q <= t /\ t < TicksPerSec * q + TicksPerSec
  BY <1>1
<1> HIDE DEF q
<1>3. TicksPerSec * q = q * TicksPerSec
  BY <1>1, <1>2
<1> QED
  BY <1>2, <1>3 DEF SecondOf, q

\* A later tick is of no earlier second.
LEMMA SecondsGrow ==
    ASSUME NEW t \in Nat, NEW u \in Nat, t <= u
    PROVE  SecondOf(t) <= SecondOf(u)
<1>1. TicksPerSec \in Nat /\ TicksPerSec > 0
  BY GrantAssumption
<1>2. /\ SecondOf(t) \in Nat /\ SecondOf(t) * TicksPerSec <= t
      /\ SecondOf(u) \in Nat /\ u < SecondOf(u) * TicksPerSec + TicksPerSec
  BY SecondFacts
<1> DEFINE a == SecondOf(t)
<1> DEFINE b == SecondOf(u)
<1>3. a \in Nat /\ b \in Nat /\ a * TicksPerSec < b * TicksPerSec + TicksPerSec
  BY <1>1, <1>2
<1> HIDE DEF a, b
<1>4. b * TicksPerSec + TicksPerSec = (b + 1) * TicksPerSec
  BY <1>1, <1>3
<1>5. ~(b + 1 <= a)
  <2> SUFFICES ASSUME b + 1 <= a PROVE FALSE
    OBVIOUS
  <2>1. (b + 1) * TicksPerSec <= a * TicksPerSec
    BY <1>1, <1>3
  <2> QED
    BY <1>1, <1>3, <1>4, <2>1
<1> QED
  BY <1>3, <1>5 DEF a, b

\* Times that are further apart than the window, of which the later one is not
\* after the last second and the earlier one not before the first, are in these.
LEMMA FirstAndLastSecond ==
    ASSUME NEW iat \in Nat, NEW u \in Nat, NEW t \in Nat, t - u > Window,
           iat - SecondOf(u) <= PopMaxAge, SecondOf(t) <= iat + PopMaxAge
    PROVE  SecondOf(u) = iat - PopMaxAge /\ SecondOf(t) = iat + PopMaxAge
<1>1. TicksPerSec \in Nat /\ TicksPerSec > 0 /\ PopMaxAge \in Nat
  BY GrantAssumption
<1>2. /\ SecondOf(t) \in Nat /\ t < SecondOf(t) * TicksPerSec + TicksPerSec
      /\ SecondOf(u) \in Nat /\ SecondOf(u) * TicksPerSec <= u
  BY SecondFacts
<1> DEFINE a == SecondOf(u)
<1> DEFINE b == SecondOf(t)
<1> DEFINE w == 2 * PopMaxAge
<1>3. Window = w * TicksPerSec /\ w \in Nat
  BY <1>1 DEF Window, NonceGcAge
<1>4. a \in Nat /\ b \in Nat /\ iat - a <= PopMaxAge /\ b <= iat + PopMaxAge
  BY <1>2
<1>5. t < b * TicksPerSec + TicksPerSec /\ a * TicksPerSec <= u
  BY <1>2
<1> HIDE DEF a, b
<1>6. b <= a + w
  BY <1>1, <1>4 DEF w
<1> HIDE DEF w
<1>7. a * TicksPerSec + w * TicksPerSec < b * TicksPerSec + TicksPerSec
  <2>1. w * TicksPerSec \in Nat /\ a * TicksPerSec \in Nat /\ b * TicksPerSec \in Nat
    BY <1>1, <1>3, <1>4
  <2> QED
    BY <1>1, <1>3, <1>5, <2>1
<1>8. (a + w) * TicksPerSec < (b + 1) * TicksPerSec
  BY <1>1, <1>3, <1>4, <1>7
<1>9. ~(b + 1 <= a + w)
  <2> SUFFICES ASSUME b + 1 <= a + w PROVE FALSE
    OBVIOUS
  <2>1. (b + 1) * TicksPerSec <= (a + w) * TicksPerSec
    BY <1>1, <1>3, <1>4
  <2>2. (b + 1) * TicksPerSec \in Nat /\ (a + w) * TicksPerSec \in Nat
    BY <1>1, <1>3, <1>4
  <2> QED
    BY <1>8, <2>1, <2>2
<1>10. b = a + w
  BY <1>3, <1>4, <1>6, <1>9
<1> QED
  BY <1>1, <1>4, <1>10 DEF a, b, w

\* The row of a nonce that was accepted is in the table or was accepted longer
\* ago than the window.
KeptOrOld(c) ==
    \/ nonces[job[c].nonce] # None /\ spentAt[c] <= nonces[job[c].nonce]
    \/ spentAt[c] < tick - Window

\* A call whose proof was found fresh: its window has begun.
Begun(c) == pc[c] \in {"gc", "track"} => job[c].iat - SecondOf(tick) <= PopMaxAge

\* What holds of a call whose nonce was accepted.
SpentBy(c) ==
    spentAt[c] # None =>
       /\ spentAt[c] <= tick
       /\ job[c].iat - SecondOf(spentAt[c]) <= PopMaxAge
       /\ KeptOrOld(c)

\* Two calls with one nonce were accepted further apart than the window.
FarApart(c, d) ==
    /\ c # d /\ spentAt[c] # None /\ spentAt[d] # None
    /\ job[c].nonce = job[d].nonce /\ spentAt[d] <= spentAt[c]
    => spentAt[c] - spentAt[d] > Window

\* Only a call that is at "track" accepts a nonce; its row stays for the window.
NonceInv ==
    /\ \A c \in Calls : Begun(c) /\ SpentBy(c)
    /\ \A c, d \in Calls : FarApart(c, d)

\* Jobs do not change, and time does not go back.
LEMMA NonceFrame ==
    ASSUME TypeOK, [Next]_vars
    PROVE  /\ job' = job /\ tick \in Nat /\ tick' \in Nat /\ tick <= tick'
           /\ \A c \in Calls : job[c].iat \in Nat
<1>1. /\ tick \in Nat /\ \A c \in Calls : job[c].iat \in Nat
  BY GrantAssumption DEF TypeOK, JobType
<1>2. job' = job /\ (tick' = tick \/ tick' = tick + 1)
  BY DEF Next, vars, callVars, history, Tick, CallStep, VerifyGrant, CheckRevoked, CollectNonces,
     TrackNonce, StoreGrant, MatchGrant, LockGrant, CommitSession, CheckOwner, Present,
     ReadSession, ReadGrant, CheckTarget, LockRevoked, CommitRevoked, Fail
<1> QED
  BY <1>1, <1>2

\* A proof is checked before its nonce is; afterwards its window has begun.
LEMMA BegunStep ==
    ASSUME TypeOK, [Next]_vars, NEW c \in Calls, Begun(c)
    PROVE  Begun(c)'
<1>f. /\ job' = job /\ tick \in Nat /\ tick' \in Nat /\ tick <= tick'
      /\ job[c].iat \in Nat /\ PopMaxAge \in Nat
  BY NonceFrame, GrantAssumption
<1>s. SecondOf(tick) \in Nat /\ SecondOf(tick') \in Nat /\ SecondOf(tick) <= SecondOf(tick')
  BY <1>f, SecondFacts, SecondsGrow
<1>p. PopIsFresh(c) => job[c].iat - SecondOf(tick) <= PopMaxAge
  BY DEF PopIsFresh, Now
<1>1. pc'[c] \in {"gc", "track"} => pc[c] \in {"gc", "track"} \/ PopIsFresh(c)
  <2>1. CASE UNCHANGED pc
    BY <2>1
  <2>2. ASSUME NEW d \in Calls, CallStep(d)
        PROVE  pc'[c] \in {"gc", "track"} => pc[c] \in {"gc", "track"} \/ PopIsFresh(c)
    <3>t. pc \in [Calls -> Steps]
      BY DEF TypeOK
    <3> USE <3>t DEF PassOrRefuse, Goto, Finish, Unauthenticated
    <3>1. VerifyGrant(d) \/ CheckRevoked(d) \/ CollectNonces(d) \/ TrackNonce(d)
             => (pc'[c] \in {"gc", "track"} => pc[c] \in {"gc", "track"} \/ PopIsFresh(c))
      BY DEF VerifyGrant, CheckRevoked, CollectNonces, TrackNonce
    <3>2. StoreGrant(d) \/ MatchGrant(d) \/ LockGrant(d) \/ CommitSession(d) \/ CheckOwner(d)
             => (pc'[c] \in {"gc", "track"} => pc[c] \in {"gc", "track"} \/ PopIsFresh(c))
      BY DEF StoreGrant, MatchGrant, LockGrant, CommitSession, CheckOwner
    <3>3. (\E t \in Calls : Present(d, t)) \/ ReadSession(d) \/ ReadGrant(d) \/ CheckTarget(d)
             => (pc'[c] \in {"gc", "track"} => pc[c] \in {"gc", "track"} \/ PopIsFresh(c))
      BY DEF Present, ReadSession, ReadGrant, CheckTarget
    <3>4. LockRevoked(d) \/ CommitRevoked(d) \/ Fail(d)
             => (pc'[c] \in {"gc", "track"} => pc[c] \in {"gc", "track"} \/ PopIsFresh(c))
      BY DEF LockRevoked, CommitRevoked, Fail
    <3> QED
      BY <2>2, <3>1, <3>2, <3>3, <3>4 DEF CallStep
  <2> QED
    BY <2>1, <2>2 DEF Next, Tick, vars
<1>2. pc'[c] \in {"gc", "track"} => job[c].iat - SecondOf(tick) <= PopMaxAge
  BY <1>1, <1>p DEF Begun
<1>3. SecondOf(tick)' = SecondOf(tick')
  BY DEF SecondOf
<1> QED
  BY <1>f, <1>s, <1>2, <1>3 DEF Begun

\* What a step does to the nonces: the collection forgets those that are older
\* than the window, and one call at most has its nonce accepted.
NonceKept(n) == nonces'[n] = nonces[n]
NonceForgotten(n) == nonces[n] # None /\ nonces[n] < tick - Window /\ nonces'[n] = None
Accepts(c) ==
    /\ pc[c] = "track" /\ nonces[job[c].nonce] = None /\ tick' = tick
    /\ nonces' = [nonces EXCEPT ![job[c].nonce] = tick]
    /\ spentAt' = [spentAt EXCEPT ![c] = tick]
NonceEffect ==
    \/ spentAt' = spentAt /\ \A n \in Nonces : NonceKept(n) \/ (NonceForgotten(n) /\ tick' = tick)
    \/ \E c \in Calls : Accepts(c)

LEMMA NonceEffects == TypeOK /\ [Next]_vars => NonceEffect
<1> SUFFICES ASSUME TypeOK, [Next]_vars PROVE NonceEffect
  OBVIOUS
<1> USE DEF callVars, history
<1>0. UNCHANGED <<nonces, spentAt>> => NonceEffect
  BY DEF NonceEffect, NonceKept
<1>1. CASE UNCHANGED vars \/ Tick
  BY <1>0, <1>1 DEF vars, Tick
<1>2. ASSUME NEW c \in Calls, CallStep(c) PROVE NonceEffect
  <2>1. CASE CollectNonces(c)
    <3>1. tick' = tick /\ spentAt' = spentAt
      BY <2>1 DEF CollectNonces
    <3>2. ASSUME NEW n \in Nonces PROVE NonceKept(n) \/ NonceForgotten(n)
      BY <2>1 DEF CollectNonces, Outdated, Window, NonceKept, NonceForgotten
    <3> QED
      BY <3>1, <3>2 DEF NonceEffect
  <2>2. CASE TrackNonce(c)
    BY <1>0, <2>2 DEF TrackNonce, NonceEffect, Accepts
  <2>3. CASE ~CollectNonces(c) /\ ~TrackNonce(c)
    <3>1. UNCHANGED <<nonces, spentAt>>
      BY <1>2, <2>3 DEF CallStep, VerifyGrant, CheckRevoked, StoreGrant, MatchGrant,
         LockGrant, CommitSession, CheckOwner, Present, ReadSession, ReadGrant,
         CheckTarget, LockRevoked, CommitRevoked, Fail
    <3> QED
      BY <1>0, <3>1
  <2> QED
    BY <2>1, <2>2, <2>3
<1> QED
  BY <1>1, <1>2 DEF Next

\* Only the garbage collection forgets a nonce, and only check_and_track
\* accepts one.
LEMMA NonceStep == TypeOK /\ NonceInv /\ [Next]_vars => NonceInv'
<1> SUFFICES ASSUME TypeOK, NonceInv, [Next]_vars PROVE NonceInv'
  OBVIOUS
<1>w. Window \in Nat /\ Window' = Window
  BY WindowIsNat DEF Window, NonceGcAge
<1>n. None \notin Nat
  BY GrantAssumption
<1>f. /\ job' = job /\ tick \in Nat /\ tick' \in Nat /\ tick <= tick'
      /\ \A c \in Calls : job[c].iat \in Nat
  BY NonceFrame
<1>t. /\ \A n \in Nonces : nonces[n] \in Nat \cup {None}
      /\ \A c \in Calls : spentAt[c] \in Nat \cup {None} /\ job[c].nonce \in Nonces
  BY JobTyped DEF TypeOK
<1>y. nonces \in [Nonces -> Nat \cup {None}] /\ spentAt \in [Calls -> Nat \cup {None}]
  BY DEF TypeOK
<1>b. \A c \in Calls : Begun(c)'
  BY BegunStep DEF NonceInv
<1>e. NonceEffect
  BY NonceEffects
<1>1. CASE spentAt' = spentAt /\ \A n \in Nonces : NonceKept(n) \/ (NonceForgotten(n) /\ tick' = tick)
  <2>1. ASSUME NEW c \in Calls PROVE SpentBy(c)'
    <3> SUFFICES ASSUME spentAt[c] # None
                 PROVE  /\ spentAt[c] <= tick'
                        /\ job[c].iat - SecondOf(spentAt[c]) <= PopMaxAge
                        /\ KeptOrOld(c)'
      BY <1>1, <1>f DEF SpentBy, SecondOf
    <3>1. /\ spentAt[c] \in Nat /\ spentAt[c] <= tick
          /\ job[c].iat - SecondOf(spentAt[c]) <= PopMaxAge /\ KeptOrOld(c)
      BY <1>t DEF NonceInv, SpentBy
    <3> DEFINE n == job[c].nonce
    <3>2. n \in Nonces /\ nonces[n] \in Nat \cup {None} /\ (NonceKept(n) \/ (NonceForgotten(n) /\ tick' = tick))
      BY <1>1, <1>t
    <3>3. KeptOrOld(c)' <=> \/ nonces'[n] # None /\ spentAt[c] <= nonces'[n]
                            \/ spentAt[c] < tick' - Window
      BY <1>1, <1>f, <1>w DEF KeptOrOld
    <3>4. \/ nonces[n] # None /\ spentAt[c] <= nonces[n]
          \/ spentAt[c] < tick - Window
      BY <3>1 DEF KeptOrOld
    <3> HIDE DEF n
    <3>5. KeptOrOld(c)'
      <4>1. CASE spentAt[c] < tick - Window
        BY <1>f, <1>w, <3>1, <3>3, <4>1
      <4>2. CASE NonceKept(n)
        BY <3>3, <3>4, <4>1, <4>2 DEF NonceKept
      <4>3. CASE NonceForgotten(n) /\ nonces[n] # None /\ spentAt[c] <= nonces[n]
        BY <1>f, <1>w, <3>1, <3>2, <4>1, <4>3 DEF NonceForgotten
      <4> QED
        BY <3>2, <3>4, <4>1, <4>2, <4>3
    <3> QED
      BY <1>f, <3>1, <3>5
  <2>2. ASSUME NEW c \in Calls, NEW d \in Calls PROVE FarApart(c, d)'
    BY <1>1, <1>f, <1>w DEF NonceInv, FarApart
  <2> QED
    BY <1>b, <2>1, <2>2 DEF NonceInv
<1>2. ASSUME NEW e \in Calls, Accepts(e) PROVE NonceInv'
  <2>0. /\ tick' = tick /\ nonces[job[e].nonce] = None /\ job[e].nonce \in Nonces
        /\ nonces' = [nonces EXCEPT ![job[e].nonce] = tick]
        /\ spentAt' = [spentAt EXCEPT ![e] = tick]
    BY <1>2, <1>t DEF Accepts
  <2>1. spentAt'[e] = tick /\ \A c \in Calls \ {e} : spentAt'[c] = spentAt[c]
    BY <2>0, <1>y
  <2>2. nonces'[job[e].nonce] = tick /\ \A n \in Nonces \ {job[e].nonce} : nonces'[n] = nonces[n]
    BY <2>0, <1>y
  <2>3. ASSUME NEW d \in Calls, job[d].nonce = job[e].nonce, spentAt[d] # None
        PROVE  spentAt[d] \in Nat /\ spentAt[d] < tick - Window
    BY <1>t, <2>0, <2>3 DEF NonceInv, SpentBy, KeptOrOld
  <2>4. job[e].iat - SecondOf(tick) <= PopMaxAge
    BY <1>2 DEF NonceInv, Begun, Accepts
  <2>5. ASSUME NEW c \in Calls PROVE SpentBy(c)'
    <3>1. CASE c = e
      <4>1. KeptOrOld(e)'
        BY <1>f, <1>n, <2>0, <2>1, <2>2 DEF KeptOrOld
      <4>2. spentAt'[e] <= tick' /\ job'[e].iat - SecondOf(spentAt'[e]) <= PopMaxAge
        BY <1>f, <2>0, <2>1, <2>4
      <4>3. SecondOf(spentAt[e])' = SecondOf(spentAt'[e])
        BY DEF SecondOf
      <4> QED
        BY <3>1, <4>1, <4>2, <4>3 DEF SpentBy
    <3>2. CASE c # e
      <4> SUFFICES ASSUME spentAt[c] # None PROVE SpentBy(c)'
        BY <2>1, <3>2 DEF SpentBy
      <4>1. /\ spentAt[c] \in Nat /\ spentAt[c] <= tick
            /\ job[c].iat - SecondOf(spentAt[c]) <= PopMaxAge /\ KeptOrOld(c)
        BY <1>t DEF NonceInv, SpentBy
      <4>2. spentAt'[c] = spentAt[c]
        BY <2>1, <3>2
      <4>3. KeptOrOld(c)'
        <5>1. CASE job[c].nonce = job[e].nonce
          <6>1. spentAt[c] < tick - Window
            BY <2>3, <5>1
          <6> QED
            BY <1>w, <2>0, <4>2, <6>1 DEF KeptOrOld
        <5>2. CASE job[c].nonce # job[e].nonce
          BY <1>f, <1>t, <1>w, <2>0, <2>2, <4>1, <4>2, <5>2 DEF KeptOrOld
        <5> QED
          BY <5>1, <5>2
      <4>4. SecondOf(spentAt[c])' = SecondOf(spentAt[c])
        BY <4>2 DEF SecondOf
      <4> QED
        BY <1>f, <2>0, <4>1, <4>2, <4>3, <4>4 DEF SpentBy
    <3> QED
      BY <3>1, <3>2
  <2>6. ASSUME NEW c \in Calls, NEW d \in Calls PROVE FarApart(c, d)'
    <3> SUFFICES ASSUME c # d, spentAt'[c] # None, spentAt'[d] # None,
                        job[c].nonce = job[d].nonce, spentAt'[d] <= spentAt'[c]
                 PROVE  spentAt'[c] - spentAt'[d] > Window
      BY <1>f, <1>w DEF FarApart
    <3>1. CASE c = e
      <4>1. spentAt'[d] = spentAt[d] /\ spentAt'[c] = tick
        BY <2>1, <3>1
      <4>2. spentAt[d] \in Nat /\ spentAt[d] < tick - Window
        BY <2>3, <3>1, <4>1
      <4> QED
        BY <1>f, <1>w, <4>1, <4>2
    <3>2. CASE d = e
      <4>1. spentAt'[c] = spentAt[c] /\ spentAt'[d] = tick
        BY <2>1, <3>2
      <4>2. spentAt[c] \in Nat /\ spentAt[c] < tick - Window
        BY <2>3, <3>2, <4>1
      <4> QED
        BY <1>f, <1>w, <4>1, <4>2
    <3>3. CASE c # e /\ d # e
      <4>1. spentAt'[c] = spentAt[c] /\ spentAt'[d] = spentAt[d]
        BY <2>1, <3>3
      <4> QED
        BY <4>1 DEF NonceInv, FarApart
    <3> QED
      BY <3>1, <3>2, <3>3
  <2> QED
    BY <1>b, <2>5, <2>6 DEF NonceInv
<1> QED
  BY <1>e, <1>1, <1>2 DEF NonceEffect

(***************************************************************************)
(* While it is fresh a proof is accepted once, whoever collects garbage    *)
(* and whenever, but for an acceptance in the first second of its window   *)
(* and another in the last (check_timestamp, check_and_track and           *)
(* garbage_collect with POP_NONCE_GC_THRESHOLD_SECS).                      *)
(***************************************************************************)
THEOREM ProofsServeOnce == Spec => []ProofServesOnce
<1>1. Init => NonceInv
  BY DEF Init, NonceInv, Begun, SpentBy, FarApart
<1>2. TypeOK /\ NonceInv => ProofServesOnce
  <2> SUFFICES ASSUME TypeOK, NonceInv, NEW c \in Calls, NEW d \in Calls,
                      c # d, spentAt[c] # None, spentAt[d] # None,
                      job[c].nonce = job[d].nonce, job[c].iat = job[d].iat,
                      spentAt[d] <= spentAt[c],
                      SecondOf(spentAt[c]) <= job[c].iat + PopMaxAge
               PROVE  /\ SecondOf(spentAt[d]) = job[d].iat - PopMaxAge
                      /\ SecondOf(spentAt[c]) = job[c].iat + PopMaxAge
    BY DEF ProofServesOnce
  <2>1. spentAt[c] \in Nat /\ spentAt[d] \in Nat /\ job[d].iat \in Nat
    BY GrantAssumption DEF TypeOK, JobType
  <2>2. spentAt[c] - spentAt[d] > Window /\ job[d].iat - SecondOf(spentAt[d]) <= PopMaxAge
    BY DEF NonceInv, FarApart, SpentBy
  <2> QED
    BY <2>1, <2>2, FirstAndLastSecond
<1>3. Spec => []TypeOK
  BY TypeCorrect
<1> QED
  BY <1>1, <1>2, <1>3, NonceStep, PTL DEF Spec

-----------------------------------------------------------------------------
(* On whose behalf a grant is revoked *)

\* The steps that only a call of some kind takes.
KindOfStep(c) ==
    /\ pc[c] \in {"revoked", "store", "match", "mint", "replace"}
          => job[c].kind = "exchange"
    /\ pc[c] \in {"gc", "track"} => job[c].kind \in {"exchange", "signout"}
    /\ pc[c] = "owner" => job[c].kind = "signout"
    /\ pc[c] \in {"bearer", "active"} => job[c].kind \in BearerKinds
    /\ pc[c] = "target" => job[c].kind = "revoke"
    /\ pc[c] \in {"revoke", "revoking"} => job[c].kind \in {"signout", "logout", "revoke"}

\* A call has a bearer once it has presented one, and no other call has one.
HasBearer(c) ==
    /\ bearer[c] # None => job[c].kind \in BearerKinds
    /\ pc[c] \notin {"idle", "done"} /\ job[c].kind \in BearerKinds => bearer[c] # None

\* The grant of a bearer is the stored one: an exchange that was answered found it
\* so, and stored grants do not change.
BearerIsOfStored(c) ==
    /\ reply[c] = "ok" /\ job[c].kind = "exchange" => StoredMatches(job[c].grant)
    /\ bearer[c] # None => StoredMatches(BearerGrant(c))

\* The user a call acts for.
ActsFor(c) == IF bearer[c] = None THEN job[c].grant.user ELSE BearerGrant(c).user

\* A call that is about to revoke has found that the grant is its user's.
TargetIsItsUsers(c) ==
    pc[c] \in {"revoke", "revoking"} =>
       /\ stored[Target(c)].grant # None
       /\ stored[Target(c)].grant.user = ActsFor(c)

UserInvOf(c) == KindOfStep(c) /\ HasBearer(c) /\ BearerIsOfStored(c) /\ TargetIsItsUsers(c)

UserInv == \A c \in Calls : UserInvOf(c)

\* A stored grant stays as it is; jobs do not change.
LEMMA StoredStays ==
    ASSUME TypeOK, [Next]_vars
    PROVE  /\ job' = job
           /\ \A i \in Ids : stored[i].grant # None => stored'[i].grant = stored[i].grant
<1> USE DEF callVars, history
<1> DEFINE Kept == job' = job /\ \A i \in Ids :
                      stored[i].grant # None => stored'[i].grant = stored[i].grant
<1>1. CASE UNCHANGED vars
  BY <1>1 DEF vars
<1>2. CASE Tick
  BY <1>2 DEF Tick
<1>3. ASSUME NEW c \in Calls, CallStep(c) PROVE Kept
  <2>1. CASE StoreGrant(c)
    BY <2>1, JobTyped DEF StoreGrant, TypeOK
  <2>2. CASE CommitRevoked(c)
    BY <2>2 DEF CommitRevoked, TypeOK
  <2>3. CASE ~StoreGrant(c) /\ ~CommitRevoked(c)
    BY <1>3, <2>3 DEF CallStep, VerifyGrant, CheckRevoked, CollectNonces, TrackNonce,
       MatchGrant, LockGrant, CommitSession, CheckOwner, Present, ReadSession, ReadGrant,
       CheckTarget, LockRevoked, Fail
  <2> QED
    BY <2>1, <2>2, <2>3
<1> QED
  BY <1>1, <1>2, <1>3 DEF Next

\* The grant of a bearer is a grant.
LEMMA BearerTyped ==
    ASSUME TypeOK, NEW c \in Calls, bearer[c] # None
    PROVE  /\ bearer[c] \in Calls /\ BearerGrant(c) \in Grants
           /\ BearerGrant(c).id \in Ids /\ BearerGrant(c) # None
<1>1. bearer[c] \in Calls
  BY DEF TypeOK
<1> QED
  BY <1>1, JobTyped DEF BearerGrant

\* A call that keeps its bearer, and answers no exchange, keeps what it knows of
\* stored grants.
LEMMA BearerStaysOfStored ==
    ASSUME TypeOK, [Next]_vars, NEW c \in Calls, BearerIsOfStored(c),
           bearer'[c] = bearer[c],
           reply'[c] = reply[c] \/ reply'[c] # "ok" \/ job[c].kind # "exchange"
    PROVE  BearerIsOfStored(c)'
<1>1. /\ job' = job
      /\ \A i \in Ids : stored[i].grant # None => stored'[i].grant = stored[i].grant
  BY StoredStays
<1>2. BearerGrant(c)' = BearerGrant(c)
  BY <1>1 DEF BearerGrant
<1>3. (bearer[c] # None => StoredMatches(BearerGrant(c)))'
  BY <1>1, <1>2, BearerTyped DEF BearerIsOfStored, StoredMatches
<1>4. (reply[c] = "ok" /\ job[c].kind = "exchange" => StoredMatches(job[c].grant))'
  BY <1>1, JobTyped DEF BearerIsOfStored, StoredMatches
<1> QED
  BY <1>3, <1>4 DEF BearerIsOfStored

\* So does a call that is about to revoke.
LEMMA TargetStaysItsUsers ==
    ASSUME TypeOK, [Next]_vars, NEW c \in Calls, UserInvOf(c),
           bearer'[c] = bearer[c], pc[c] \in {"revoke", "revoking"}
    PROVE  TargetIsItsUsers(c)'
<1>1. /\ job' = job
      /\ \A i \in Ids : stored[i].grant # None => stored'[i].grant = stored[i].grant
  BY StoredStays
<1>2. Target(c)' = Target(c) /\ ActsFor(c)' = ActsFor(c)
  BY <1>1 DEF Target, ActsFor, BearerGrant
<1>3. Target(c) \in Ids
  <2>1. CASE job[c].kind = "logout"
    BY <2>1, BearerTyped DEF Target, UserInvOf, HasBearer, BearerKinds
  <2>2. CASE job[c].kind # "logout"
    BY <2>2, JobTyped DEF Target
  <2> QED
    BY <2>1, <2>2
<1>4. /\ stored'[Target(c)].grant # None
      /\ stored'[Target(c)].grant.user = ActsFor(c)
  BY <1>1, <1>3 DEF UserInvOf, TargetIsItsUsers
<1> QED
  BY <1>2, <1>4 DEF TargetIsItsUsers

\* The calls that a step leaves alone keep the invariant.
LEMMA UserInvOfOthers ==
    ASSUME TypeOK, [Next]_vars, NEW c \in Calls, UserInvOf(c),
           pc'[c] = pc[c], bearer'[c] = bearer[c], reply'[c] = reply[c]
    PROVE  UserInvOf(c)'
<1>1. job' = job
  BY StoredStays
<1>2. KindOfStep(c)' /\ HasBearer(c)'
  BY <1>1 DEF UserInvOf, KindOfStep, HasBearer
<1>3. BearerIsOfStored(c)'
  BY BearerStaysOfStored DEF UserInvOf
<1>4. TargetIsItsUsers(c)'
  BY TargetStaysItsUsers DEF TargetIsItsUsers
<1> QED
  BY <1>2, <1>3, <1>4 DEF UserInvOf

\* A step of call c that is not part of a revocation and presents no bearer.
LEMMA UserInvOfCall ==
    ASSUME TypeOK, [Next]_vars, NEW c \in Calls, UserInvOf(c), KindOfStep(c)',
           bearer'[c] = bearer[c], pc[c] # "idle" \/ job[c].kind \notin BearerKinds,
           pc[c] # "done",
           reply'[c] = reply[c] \/ reply'[c] # "ok" \/ job[c].kind # "exchange",
           pc'[c] \notin {"revoke", "revoking"} \/ pc[c] \in {"revoke", "revoking"}
    PROVE  UserInvOf(c)'
<1>1. job' = job
  BY StoredStays
<1>2. HasBearer(c)'
  BY <1>1 DEF UserInvOf, HasBearer
<1>3. BearerIsOfStored(c)'
  BY BearerStaysOfStored DEF UserInvOf
<1>4. TargetIsItsUsers(c)'
  BY TargetStaysItsUsers DEF TargetIsItsUsers
<1> QED
  BY <1>2, <1>3, <1>4 DEF UserInvOf

\* One case per step of a call.
LEMMA UserStep == TypeOK /\ IInv /\ UserInv /\ [Next]_vars => UserInv'
<1> SUFFICES ASSUME TypeOK, IInv, UserInv, [Next]_vars, NEW d \in Calls
             PROVE  UserInvOf(d)'
  BY DEF UserInv
<1> USE DEF callVars, history
<1>d. UserInvOf(d)
  BY DEF UserInv
<1>s. job' = job
  BY StoredStays
<1> DEFINE Alone == pc'[d] = pc[d] /\ bearer'[d] = bearer[d] /\ reply'[d] = reply[d]
<1>0. Alone => UserInvOf(d)'
  BY <1>d, UserInvOfOthers
<1>1. CASE UNCHANGED vars
  BY <1>0, <1>1 DEF vars
<1>2. CASE Tick
  BY <1>0, <1>2 DEF Tick
<1>3. ASSUME NEW c \in Calls, CallStep(c), c # d PROVE UserInvOf(d)'
  <2>1. Alone
    BY <1>3 DEF CallStep, VerifyGrant, CheckRevoked, CollectNonces, TrackNonce, StoreGrant,
       MatchGrant, LockGrant, CommitSession, CheckOwner, Present, ReadSession, ReadGrant,
       CheckTarget, LockRevoked, CommitRevoked, Fail, PassOrRefuse, Goto, Finish,
       Unauthenticated, TypeOK
  <2> QED
    BY <1>0, <2>1
<1>4. CASE CallStep(d)
  <2> USE DEF PassOrRefuse, Goto, Finish, Unauthenticated
  <2>k. KindOfStep(d) /\ HasBearer(d) /\ BearerIsOfStored(d)
    BY <1>d DEF UserInvOf
  <2>t. pc \in [Calls -> Steps] /\ reply \in [Calls -> {"none", "ok", "noop", "refused", "error"}]
        /\ bearer \in [Calls -> Calls \cup {None}]
    BY DEF TypeOK
  <2> DEFINE Plain ==
        /\ KindOfStep(d)' /\ bearer'[d] = bearer[d] /\ pc[d] # "done"
        /\ pc[d] # "idle" \/ job[d].kind \notin BearerKinds
        /\ reply'[d] = reply[d] \/ reply'[d] # "ok" \/ job[d].kind # "exchange"
        /\ pc'[d] \notin {"revoke", "revoking"} \/ pc[d] \in {"revoke", "revoking"}
  <2>0. Plain => UserInvOf(d)'
    BY <1>d, UserInvOfCall
  <2>1. VerifyGrant(d) => Plain
    BY <1>s, <2>k, <2>t DEF VerifyGrant, KindOfStep, BearerKinds
  <2>2. CheckRevoked(d) => Plain
    BY <1>s, <2>k, <2>t DEF CheckRevoked, KindOfStep
  <2>3. CollectNonces(d) => Plain
    BY <1>s, <2>k, <2>t DEF CollectNonces, KindOfStep
  <2>4. TrackNonce(d) => Plain
    BY <1>s, <2>k, <2>t DEF TrackNonce, KindOfStep
  <2>5. StoreGrant(d) => Plain
    BY <1>s, <2>k, <2>t DEF StoreGrant, KindOfStep
  <2>6. MatchGrant(d) => Plain
    BY <1>s, <2>k, <2>t DEF MatchGrant, KindOfStep
  <2>7. LockGrant(d) => Plain
    BY <1>s, <2>k, <2>t DEF LockGrant, KindOfStep
  <2>8. ReadSession(d) => Plain
    BY <1>s, <2>k, <2>t DEF ReadSession, KindOfStep
  <2>9. LockRevoked(d) => Plain
    BY <1>s, <2>k, <2>t DEF LockRevoked, KindOfStep
  <2>10. CommitRevoked(d) => Plain
    BY <1>s, <2>k, <2>t DEF CommitRevoked, KindOfStep
  <2>11. Fail(d) => Plain
    BY <1>s, <2>k, <2>t DEF Fail, KindOfStep
  <2>12. CASE CommitSession(d)
    <3>1. /\ pc[d] = "replace" /\ pc'[d] = "done" /\ reply'[d] = "ok"
          /\ stored' = stored /\ bearer' = bearer
      BY <2>t, <2>12 DEF CommitSession
    <3>2. StoredMatches(job[d].grant)
      BY <3>1 DEF IInv, MatchInv, StoredMatches
    <3>3. BearerIsOfStored(d)'
      BY <1>s, <2>k, <3>1, <3>2 DEF BearerIsOfStored, StoredMatches, BearerGrant
    <3>4. KindOfStep(d)' /\ HasBearer(d)' /\ TargetIsItsUsers(d)'
      BY <1>s, <2>k, <3>1 DEF KindOfStep, HasBearer, TargetIsItsUsers
    <3> QED
      BY <3>3, <3>4 DEF UserInvOf
  <2>13. CASE CheckOwner(d)
    <3>1. /\ pc[d] = "owner" /\ bearer' = bearer /\ stored' = stored
          /\ \/ pc'[d] = "done" /\ reply'[d] = "refused"
             \/ /\ pc'[d] = "revoke" /\ reply'[d] = reply[d]
                /\ stored[job[d].grant.id].grant # None
                /\ stored[job[d].grant.id].grant.user = job[d].grant.user
      BY <2>t, <2>13 DEF CheckOwner
    <3>2. job[d].kind = "signout" /\ bearer[d] = None
      BY <2>k, <3>1 DEF KindOfStep, HasBearer, BearerKinds
    <3>3. KindOfStep(d)' /\ HasBearer(d)'
      BY <1>s, <2>k, <3>1, <3>2 DEF KindOfStep, HasBearer, BearerKinds
    <3>4. BearerIsOfStored(d)'
      BY <1>d, <3>1, BearerStaysOfStored DEF UserInvOf
    <3>5. TargetIsItsUsers(d)'
      BY <1>s, <3>1, <3>2 DEF TargetIsItsUsers, Target, ActsFor
    <3> QED
      BY <3>3, <3>4, <3>5 DEF UserInvOf
  <2>14. ASSUME NEW t \in Calls, Present(d, t) PROVE UserInvOf(d)'
    <3>1. /\ pc[d] = "idle" /\ job[d].kind \in BearerKinds /\ pc'[d] = "bearer"
          /\ reply[t] = "ok" /\ job[t].kind = "exchange" /\ reply' = reply
          /\ bearer'[d] = t /\ stored' = stored
      BY <2>t, <2>14 DEF Present
    <3>2. StoredMatches(job[t].grant)
      BY <3>1 DEF UserInv, UserInvOf, BearerIsOfStored
    <3>3. BearerIsOfStored(d)'
      BY <1>s, <3>1, <3>2, <2>k DEF BearerIsOfStored, StoredMatches, BearerGrant, BearerKinds
    <3>4. t # None
      BY GrantAssumption
    <3>5. KindOfStep(d)' /\ HasBearer(d)' /\ TargetIsItsUsers(d)'
      BY <1>s, <3>1, <3>4 DEF KindOfStep, HasBearer, TargetIsItsUsers
    <3> QED
      BY <3>3, <3>5 DEF UserInvOf
  <2>15. CASE ReadGrant(d)
    <3>1. /\ pc[d] = "active" /\ bearer' = bearer /\ stored' = stored
          /\ \/ pc'[d] = "done" /\ (reply'[d] = "ok" => job[d].kind # "exchange")
             \/ pc'[d] = "revoke" /\ job[d].kind = "logout" /\ reply'[d] = reply[d]
             \/ pc'[d] = "target" /\ job[d].kind = "revoke" /\ reply'[d] = reply[d]
      BY <2>t, <2>15 DEF ReadGrant
    <3>2. job[d].kind \in BearerKinds /\ bearer[d] # None
      BY <2>k, <3>1 DEF KindOfStep, HasBearer
    <3>3. KindOfStep(d)' /\ HasBearer(d)'
      BY <1>s, <2>k, <3>1, <3>2 DEF KindOfStep, HasBearer
    <3>4. BearerIsOfStored(d)'
      BY <1>d, <3>1, BearerStaysOfStored DEF UserInvOf
    <3>5. StoredMatches(BearerGrant(d)) /\ BearerGrant(d) # None
      BY <2>k, <3>2, BearerTyped DEF BearerIsOfStored
    <3>6. TargetIsItsUsers(d)'
      BY <1>s, <3>1, <3>2, <3>5
      DEF TargetIsItsUsers, Target, ActsFor, BearerGrant, StoredMatches
    <3> QED
      BY <3>3, <3>4, <3>6 DEF UserInvOf
  <2>16. CASE CheckTarget(d)
    <3>1. /\ pc[d] = "target" /\ bearer' = bearer /\ stored' = stored
          /\ \/ pc'[d] = "done" /\ reply'[d] = "refused"
             \/ pc'[d] = "revoke" /\ reply'[d] = reply[d] /\ OwnsTarget(d)
      BY <2>t, <2>16 DEF CheckTarget
    <3>2. job[d].kind = "revoke" /\ bearer[d] # None
      BY <2>k, <3>1 DEF KindOfStep, HasBearer, BearerKinds
    <3>3. KindOfStep(d)' /\ HasBearer(d)'
      BY <1>s, <2>k, <3>1, <3>2 DEF KindOfStep, HasBearer
    <3>4. BearerIsOfStored(d)'
      BY <1>d, <3>1, BearerStaysOfStored DEF UserInvOf
    <3>5. stored[BearerGrant(d).id].grant = BearerGrant(d)
      BY <2>k, <3>2 DEF BearerIsOfStored, StoredMatches
    <3>6. TargetIsItsUsers(d)'
      BY <1>s, <3>1, <3>2, <3>5
      DEF TargetIsItsUsers, Target, ActsFor, BearerGrant, OwnsTarget
    <3> QED
      BY <3>3, <3>4, <3>6 DEF UserInvOf
  <2> HIDE DEF Plain
  <2> QED
    BY <1>4, <2>0, <2>1, <2>2, <2>3, <2>4, <2>5, <2>6, <2>7, <2>8, <2>9, <2>10, <2>11,
       <2>12, <2>13, <2>14, <2>15, <2>16 DEF CallStep
<1> QED
  BY <1>1, <1>2, <1>3, <1>4 DEF Next

(***************************************************************************)
(* A grant is revoked only on behalf of the user it was stored for: by its *)
(* own bearer, by a bearer of the same user, or with a proof by that user, *)
(* though a client may name any grant id (signout_with_proof,              *)
(* revoke_user_grant).                                                     *)
(***************************************************************************)
THEOREM RevocationsAreTheirUsers == Spec => RevokedByItsUser
<1> DEFINE ByUser == \A c \in Calls : CommitRevoked(c) =>
             stored[Target(c)].grant.user =
                IF bearer[c] = None THEN job[c].grant.user ELSE BearerGrant(c).user
<1>1. Init => UserInv
  <2> SUFFICES ASSUME Init, NEW c \in Calls PROVE UserInvOf(c)
    BY DEF UserInv
  <2>1. pc[c] = "idle" /\ bearer[c] = None /\ reply[c] = "none"
    BY DEF Init
  <2> QED
    BY <2>1 DEF UserInvOf, KindOfStep, HasBearer, BearerIsOfStored, TargetIsItsUsers
<1>2. UserInv => ByUser
  BY DEF UserInv, UserInvOf, TargetIsItsUsers, ActsFor, CommitRevoked
<1>3. UserInv => [ByUser]_vars
  BY <1>2
<1>4. Spec => []TypeOK
  BY TypeCorrect
<1> QED
  BY <1>1, <1>3, <1>4, Invariance, UserStep, PTL DEF Spec, RevokedByItsUser

(***************************************************************************)
(* No step makes a proof serve twice while it is fresh (but for the first  *)
(* and the last second), and revocations are their user's.                 *)
(***************************************************************************)
THEOREM StepsAreAuthorized == Spec => StepsAuthorized
<1>1. Spec => [][ProofServesOnce']_vars
  BY ProofsServeOnce, PTL
<1> QED
  BY <1>1, RevocationsAreTheirUsers DEF StepsAuthorized

-----------------------------------------------------------------------------
(* Revocation of open streams *)

\* The stream has a receiver.
Subscribed(s) == rvPc[s] \in {"validate", "check", "revalidate", "emit"}

\* A connection is the running actor's, which alone has NOTIFYs on their way.
ListenerInv == (connected => running) /\ (~running => inbox = <<>>)

\* A receiver is of an actor that was started; the next message it gets is one of
\* the channel's, or the one to come.
ReceiverInv ==
    \A s \in Streams : Subscribed(s) =>
       /\ rx[s].chan \in 1..actor
       /\ rx[s].pos \in 1..(Len(chan[rx[s].chan]) + 1)

\* Every message tells of a committed revocation.
MessagesTrue ==
    /\ \A i \in DOMAIN inbox : inbox[i] \in revoked
    /\ \A g \in 1..MaxActors : \A i \in DOMAIN chan[g] : chan[g][i] \in revoked

\* A response begins after the validation.
OpenedInv == \A s \in Streams : opened[s] =>
                rvPc[s] \in {"check", "emit", "revalidate", "closed"}

RvInv ==
    /\ RvTypeOK /\ ListenerInv /\ ReceiverInv /\ MessagesTrue /\ OpenedInv
    /\ NoRevocationMissed /\ BurstClosesNoOther

\* The steps of the listener and of credentials leave every stream where it is.
LEMMA TypesOfListener ==
    ASSUME RvInv, UNCHANGED <<rvPc, rx, opened, why>>,
           revoked' \subseteq Creds, rowGone' \subseteq Streams,
           actor' \in 1..MaxActors, running' \in BOOLEAN, connected' \in BOOLEAN,
           inbox' \in Seq(Creds), chan' \in [1..MaxActors -> Seq(Creds)]
    PROVE  RvTypeOK'
  BY DEF RvInv, RvTypeOK

\* revoke_grant and the cookie signout notify every connected listener.
LEMMA RevokeKeeps ==
    ASSUME RvInv, NEW c \in Creds, Revoke(c)
    PROVE  RvInv'
<1> USE DEF streamVars
<1>1. /\ revoked' = revoked \cup {c}
      /\ inbox' = (IF connected THEN Append(inbox, c) ELSE inbox)
      /\ UNCHANGED <<rowGone, actor, running, connected, chan, rvPc, rx, opened, why>>
  BY DEF Revoke
<1>2. inbox \in Seq(Creds)
  BY DEF RvInv, RvTypeOK
<1>3. inbox' \in Seq(Creds)
  BY <1>1, <1>2
<1>4. RvTypeOK'
  BY <1>1, <1>3, TypesOfListener DEF RvInv, RvTypeOK
<1>5. ListenerInv' /\ ReceiverInv' /\ OpenedInv'
  BY <1>1 DEF RvInv, ListenerInv, ReceiverInv, OpenedInv, Subscribed
<1>6. /\ \A i \in DOMAIN inbox' : inbox'[i] = c \/ (i \in DOMAIN inbox /\ inbox'[i] = inbox[i])
      /\ ToSet(inbox') = IF connected THEN ToSet(inbox) \cup {c} ELSE ToSet(inbox)
  BY <1>1, <1>2 DEF ToSet
<1>7. MessagesTrue'
  BY <1>1, <1>6 DEF RvInv, MessagesTrue
<1>8. NoRevocationMissed'
  BY <1>1, <1>6 DEF RvInv, NoRevocationMissed, Trusted, ChannelClosed
<1>9. BurstClosesNoOther'
  BY <1>1 DEF RvInv, BurstClosesNoOther
<1> QED
  BY <1>4, <1>5, <1>7, <1>8, <1>9 DEF RvInv

\* ListenerActor: a NOTIFY goes to every receiver of the actor's channel.
LEMMA ForwardKeeps ==
    ASSUME RvInv, Forward
    PROVE  RvInv'
<1> USE DEF streamVars, credVars
<1>1. /\ inbox' = Tail(inbox) /\ inbox # <<>> /\ running
      /\ chan' = [chan EXCEPT ![actor] = Append(chan[actor], Head(inbox))]
      /\ UNCHANGED <<revoked, rowGone, actor, running, connected, rvPc, rx, opened, why>>
  BY DEF Forward
<1>2. /\ inbox \in Seq(Creds) /\ actor \in 1..MaxActors
      /\ chan \in [1..MaxActors -> Seq(Creds)] /\ chan[actor] \in Seq(Creds)
  BY DEF RvInv, RvTypeOK
<1>3. /\ Head(inbox) \in Creds /\ Tail(inbox) \in Seq(Creds) /\ Head(inbox) = inbox[1]
      /\ \A i \in DOMAIN Tail(inbox) : i + 1 \in DOMAIN inbox /\ Tail(inbox)[i] = inbox[i + 1]
      /\ \A i \in DOMAIN inbox : i = 1 \/ (i - 1 \in DOMAIN Tail(inbox) /\ Tail(inbox)[i - 1] = inbox[i])
      /\ 1 \in DOMAIN inbox
  BY <1>1, <1>2
<1> DEFINE h == Head(inbox)
           n == Len(chan[actor])
           grown == Append(chan[actor], h)
<1>4. /\ grown \in Seq(Creds) /\ n \in Nat /\ Len(grown) = n + 1
      /\ DOMAIN chan[actor] = 1..n /\ DOMAIN grown = 1..(n + 1)
      /\ grown[n + 1] = h /\ \A i \in 1..n : grown[i] = chan[actor][i]
  BY <1>2, <1>3
<1>5. /\ chan'[actor] = grown
      /\ \A g \in 1..MaxActors : g # actor => chan'[g] = chan[g]
      /\ chan' \in [1..MaxActors -> Seq(Creds)]
  BY <1>1, <1>2, <1>4
<1>6. h \in revoked
  BY <1>3 DEF RvInv, MessagesTrue
<1>7. n = Len(chan[actor]) /\ h = inbox[1]
  BY <1>3
<1> HIDE DEF grown, n, h
<1>8. RvTypeOK'
  BY <1>1, <1>3, <1>5, TypesOfListener DEF RvInv, RvTypeOK
<1>9. ListenerInv' /\ OpenedInv' /\ BurstClosesNoOther'
  BY <1>1 DEF RvInv, ListenerInv, OpenedInv, BurstClosesNoOther
<1>10. ReceiverInv'
  <2> SUFFICES ASSUME NEW s \in Streams, Subscribed(s)
               PROVE  /\ rx[s].chan \in 1..actor
                      /\ rx[s].pos \in 1..(Len(chan'[rx[s].chan]) + 1)
    BY <1>1 DEF ReceiverInv, Subscribed
  <2>1. /\ rx[s].chan \in 1..actor /\ rx[s].chan \in 1..MaxActors
        /\ rx[s].pos \in 1..(Len(chan[rx[s].chan]) + 1)
    BY <1>2 DEF RvInv, ReceiverInv, RvTypeOK
  <2>2. CASE rx[s].chan = actor
    BY <1>4, <1>5, <1>7, <2>1, <2>2
  <2>3. CASE rx[s].chan # actor
    BY <1>5, <2>1, <2>3
  <2> QED
    BY <2>2, <2>3, <2>1
<1>11. MessagesTrue'
  <2>1. \A i \in DOMAIN inbox' : inbox'[i] \in revoked
    BY <1>1, <1>3 DEF RvInv, MessagesTrue
  <2>2. \A g \in 1..MaxActors : \A i \in DOMAIN chan'[g] : chan'[g][i] \in revoked
    BY <1>2, <1>4, <1>5, <1>6 DEF RvInv, MessagesTrue
  <2> QED
    BY <1>1, <2>1, <2>2 DEF MessagesTrue
<1>12. NoRevocationMissed'
  <2> SUFFICES ASSUME NEW s \in Streams, Trusted(s), s \in revoked,
                      rx[s].chan = actor, connected
               PROVE  \/ s \in ToSet(inbox')
                      \/ \E i \in DOMAIN chan'[actor] :
                            i >= rx[s].pos /\ chan'[actor][i] = s
    BY <1>1 DEF NoRevocationMissed, Trusted, ChannelClosed
  <2>1. rx[s].pos \in 1..(n + 1)
    BY <1>7 DEF RvInv, ReceiverInv, Trusted, Subscribed
  <2>2. CASE s \in ToSet(inbox)
    <3>1. PICK i \in DOMAIN inbox : inbox[i] = s
      BY <2>2 DEF ToSet
    <3>2. CASE i = 1
      BY <1>4, <1>5, <1>7, <2>1, <3>1, <3>2
    <3>3. CASE i # 1
      BY <1>1, <1>3, <3>1, <3>3 DEF ToSet
    <3> QED
      BY <3>2, <3>3
  <2>3. ASSUME NEW i \in DOMAIN chan[actor], i >= rx[s].pos, chan[actor][i] = s
        PROVE  \E k \in DOMAIN chan'[actor] : k >= rx[s].pos /\ chan'[actor][k] = s
    BY <1>4, <1>5, <2>3
  <2> QED
    BY <1>1, <2>2, <2>3 DEF RvInv, NoRevocationMissed, ChannelClosed
<1> QED
  BY <1>8, <1>9, <1>10, <1>11, <1>12 DEF RvInv

\* The other steps of the listener: each of them closes channels or opens a
\* channel that no stream has yet.
LEMMA ListenerKeeps ==
    ASSUME RvInv, LoseConnection \/ EndActor \/ Spawn
    PROVE  RvInv'
<1> USE DEF streamVars, credVars
<1>1. /\ UNCHANGED <<revoked, rowGone, chan, rvPc, rx, opened, why>>
      /\ \/ /\ connected' = FALSE /\ UNCHANGED <<actor, running, inbox>>
         \/ /\ running' = FALSE /\ connected' = FALSE /\ inbox' = <<>> /\ UNCHANGED actor
         \/ /\ ~running /\ actor < MaxActors /\ actor' = actor + 1 /\ running' = TRUE
            /\ connected' = TRUE /\ UNCHANGED inbox
  BY DEF LoseConnection, EndActor, Spawn, NewActor
<1>2. actor \in 1..MaxActors /\ MaxActors \in Nat /\ inbox \in Seq(Creds)
      /\ running \in BOOLEAN /\ connected \in BOOLEAN
  BY RevocationAssumption DEF RvInv, RvTypeOK
<1>3. /\ actor' \in 1..MaxActors /\ actor' >= actor /\ inbox' \in Seq(Creds)
      /\ running' \in BOOLEAN /\ connected' \in BOOLEAN
  <2>1. <<>> \in Seq(Creds)
    OBVIOUS
  <2>2. inbox' \in Seq(Creds)
    BY <1>1, <1>2, <2>1
  <2>3. actor' \in 1..MaxActors /\ actor' >= actor
    BY <1>1, <1>2
  <2> QED
    BY <1>1, <1>2, <2>2, <2>3
<1>4. RvTypeOK'
  BY <1>1, <1>3, TypesOfListener DEF RvInv, RvTypeOK
<1>5. ListenerInv' /\ MessagesTrue'
  BY <1>1 DEF RvInv, ListenerInv, MessagesTrue
<1>6. ReceiverInv'
  BY <1>1, <1>2, <1>3 DEF RvInv, ReceiverInv, Subscribed
<1>7. OpenedInv' /\ BurstClosesNoOther'
  BY <1>1 DEF RvInv, OpenedInv, BurstClosesNoOther
<1>8. NoRevocationMissed'
  <2> SUFFICES ASSUME NEW s \in Streams, Trusted(s), s \in revoked,
                      ~ChannelClosed(rx[s].chan)', connected'
               PROVE  FALSE
    BY <1>1 DEF NoRevocationMissed, Trusted
  <2>1. rx[s].chan \in 1..actor
    BY DEF RvInv, ReceiverInv, Trusted, Subscribed
  <2> QED
    BY <1>1, <1>2, <2>1 DEF ChannelClosed
<1> QED
  BY <1>4, <1>5, <1>6, <1>7, <1>8 DEF RvInv

\* Session rows go without notice; nothing else changes.
LEMMA LoseSessionKeeps ==
    ASSUME RvInv, NEW s \in Streams, LoseSession(s)
    PROVE  RvInv'
<1> USE DEF streamVars, listenerVars
<1>1. /\ rowGone' = rowGone \cup {s}
      /\ UNCHANGED <<revoked, actor, running, connected, inbox, chan, rvPc, rx, opened, why>>
  BY DEF LoseSession
<1>2. RvTypeOK'
  BY <1>1, TypesOfListener DEF RvInv, RvTypeOK
<1> QED
  BY <1>1, <1>2 DEF RvInv, ListenerInv, ReceiverInv, Subscribed, MessagesTrue, OpenedInv,
     NoRevocationMissed, Trusted, ChannelClosed, BurstClosesNoOther

\* A receiver of an actor that was started, at a message of its channel or at the
\* one to come.
InRange(recv) == recv.chan \in 1..actor /\ recv.pos \in 1..(Len(chan[recv.chan]) + 1)

\* If the stream's credential is revoked, the receiver has the message before it,
\* or its listener is gone.
WillHear(s, recv) ==
    s \in revoked =>
       \/ ChannelClosed(recv.chan) \/ ~connected \/ s \in ToSet(inbox)
       \/ \E i \in DOMAIN chan[recv.chan] : i >= recv.pos /\ chan[recv.chan][i] = s

\* What a step of stream s has to show; the other streams are left alone.
LEMMA StreamKeeps ==
    ASSUME RvInv, NEW s \in Streams,
           UNCHANGED <<revoked, rowGone, actor, running, connected, inbox, chan>>,
           NEW step \in {"idle", "subscribe", "validate", "check", "revalidate", "emit",
                         "closed"},
           NEW recv \in [chan : 0..MaxActors, pos : Nat], NEW open \in BOOLEAN,
           NEW reason \in {"none", "unavailable", "session", "revoked", "gap", "dberror"},
           rvPc' = [rvPc EXCEPT ![s] = step], rx' = [rx EXCEPT ![s] = recv],
           opened' = [opened EXCEPT ![s] = open], why' = [why EXCEPT ![s] = reason],
           step \in {"validate", "check", "revalidate", "emit"} => InRange(recv),
           open => step \in {"check", "emit", "revalidate", "closed"},
           step \in {"check", "emit"} => WillHear(s, recv),
           open /\ step = "closed" =>
              s \in revoked \cup rowGone \/ reason \in {"gap", "dberror"}
    PROVE  RvInv'
<1>1. /\ rvPc'[s] = step /\ rx'[s] = recv /\ opened'[s] = open /\ why'[s] = reason
      /\ \A t \in Streams : t # s => /\ rvPc'[t] = rvPc[t] /\ rx'[t] = rx[t]
                                     /\ opened'[t] = opened[t] /\ why'[t] = why[t]
  BY DEF RvInv, RvTypeOK
<1>2. RvTypeOK'
  BY DEF RvInv, RvTypeOK
<1>3. ListenerInv' /\ MessagesTrue'
  BY DEF RvInv, ListenerInv, MessagesTrue
<1>4. ReceiverInv'
  BY <1>1 DEF RvInv, ReceiverInv, Subscribed, InRange
<1>5. OpenedInv'
  BY <1>1 DEF RvInv, OpenedInv
<1>6. NoRevocationMissed'
  <2> SUFFICES ASSUME NEW t \in Streams, Trusted(t)', t \in revoked
               PROVE  \/ ChannelClosed(rx'[t].chan) \/ ~connected \/ t \in ToSet(inbox)
                      \/ \E i \in DOMAIN chan[rx'[t].chan] :
                            i >= rx'[t].pos /\ chan[rx'[t].chan][i] = t
    BY DEF NoRevocationMissed, ChannelClosed
  <2>1. CASE t = s
    BY <1>1, <2>1 DEF Trusted, WillHear
  <2>2. CASE t # s
    BY <1>1, <2>2 DEF RvInv, NoRevocationMissed, Trusted
  <2> QED
    BY <2>1, <2>2
<1>7. BurstClosesNoOther'
  BY <1>1 DEF RvInv, BurstClosesNoOther
<1> QED
  BY <1>2, <1>3, <1>4, <1>5, <1>6, <1>7 DEF RvInv

\* What StreamKeeps needs of the stream before its step.
LEMMA StreamTyped ==
    ASSUME RvInv, NEW s \in Streams
    PROVE  /\ rx[s] \in [chan : 0..MaxActors, pos : Nat] /\ opened[s] \in BOOLEAN
           /\ why[s] \in {"none", "unavailable", "session", "revoked", "gap", "dberror"}
           /\ rvPc = [rvPc EXCEPT ![s] = rvPc[s]] /\ rx = [rx EXCEPT ![s] = rx[s]]
           /\ opened = [opened EXCEPT ![s] = opened[s]] /\ why = [why EXCEPT ![s] = why[s]]
  BY DEF RvInv, RvTypeOK

\* Requests, subscriptions, validations and events.
LEMMA QuietStreamKeeps ==
    ASSUME RvInv, NEW s \in Streams,
           Request(s) \/ Subscribe(s) \/ Validate(s) \/ CheckPasses(s) \/ Emit(s)
    PROVE  RvInv'
<1> USE DEF StreamGoto, Close, credVars, listenerVars
<1>t. /\ rx[s] \in [chan : 0..MaxActors, pos : Nat] /\ opened[s] \in BOOLEAN
      /\ why[s] \in {"none", "unavailable", "session", "revoked", "gap", "dberror"}
      /\ rvPc = [rvPc EXCEPT ![s] = rvPc[s]] /\ rx = [rx EXCEPT ![s] = rx[s]]
      /\ opened = [opened EXCEPT ![s] = opened[s]] /\ why = [why EXCEPT ![s] = why[s]]
  BY StreamTyped
<1>i. /\ opened[s] => rvPc[s] \in {"check", "emit", "revalidate", "closed"}
      /\ Subscribed(s) => /\ rx[s].chan \in 1..actor
                          /\ rx[s].pos \in 1..(Len(chan[rx[s].chan]) + 1)
  BY DEF RvInv, OpenedInv, ReceiverInv
<1>1. CASE Request(s)
  <2>1. /\ rvPc[s] = "idle" /\ rvPc' = [rvPc EXCEPT ![s] = "subscribe"]
        /\ UNCHANGED <<revoked, rowGone, actor, running, connected, inbox, chan,
                       rx, opened, why>>
    BY <1>1 DEF Request
  <2>2. ~opened[s]
    BY <1>i, <2>1
  <2> QED
    BY <1>t, <2>1, <2>2, StreamKeeps DEF InRange, WillHear
<1>2. CASE Subscribe(s)
  <2>1. /\ rvPc[s] = "subscribe" /\ ~opened[s]
        /\ UNCHANGED <<revoked, rowGone, actor, running, connected, inbox, chan, opened>>
    BY <1>2, <1>i DEF Subscribe
  <2>2. CASE rx' = [rx EXCEPT ![s] = [chan |-> actor, pos |-> Len(chan[actor]) + 1]]
             /\ rvPc' = [rvPc EXCEPT ![s] = "validate"] /\ UNCHANGED why
    <3>1. actor \in 1..MaxActors /\ chan[actor] \in Seq(Creds) /\ actor \in 1..actor
      BY RevocationAssumption DEF RvInv, RvTypeOK
    <3> DEFINE recv == [chan |-> actor, pos |-> Len(chan[actor]) + 1]
    <3>2. /\ recv \in [chan : 0..MaxActors, pos : Nat] /\ recv.chan \in 1..actor
          /\ recv.pos \in 1..(Len(chan[recv.chan]) + 1) /\ rx' = [rx EXCEPT ![s] = recv]
      BY <2>2, <3>1
    <3> HIDE DEF recv
    <3> QED
      BY <1>t, <2>1, <2>2, <3>2, StreamKeeps DEF InRange, WillHear
  <2>3. CASE /\ rvPc' = [rvPc EXCEPT ![s] = "closed"]
             /\ why' = [why EXCEPT ![s] = "unavailable"] /\ UNCHANGED rx
    BY <1>t, <2>1, <2>3, StreamKeeps DEF InRange, WillHear
  <2> QED
    BY <1>2, <2>2, <2>3 DEF Subscribe
<1>3. CASE Validate(s)
  <2>1. /\ rvPc[s] \in {"validate", "revalidate"} /\ Subscribed(s)
        /\ UNCHANGED <<revoked, rowGone, actor, running, connected, inbox, chan, rx, opened>>
    BY <1>3 DEF Validate, Subscribed
  <2>2. CASE s \notin revoked /\ rvPc' = [rvPc EXCEPT ![s] = "check"] /\ UNCHANGED why
    BY <1>t, <1>i, <2>1, <2>2, StreamKeeps DEF InRange, WillHear
  <2>3. CASE /\ s \in revoked \cup rowGone /\ rvPc' = [rvPc EXCEPT ![s] = "closed"]
             /\ why' = [why EXCEPT ![s] = "session"]
    BY <1>t, <1>i, <2>1, <2>3, StreamKeeps DEF InRange, WillHear
  <2>4. CASE rvPc' = [rvPc EXCEPT ![s] = "closed"] /\ why' = [why EXCEPT ![s] = "dberror"]
    BY <1>t, <1>i, <2>1, <2>4, StreamKeeps DEF InRange, WillHear
  <2> QED
    BY <1>3, <2>2, <2>3, <2>4 DEF Validate, SessionValid
<1>4. CASE CheckPasses(s) \/ Emit(s)
  <2>1. PICK step \in {"check", "emit"} :
           /\ rvPc[s] \in {"check", "emit"} /\ rvPc' = [rvPc EXCEPT ![s] = step]
           /\ UNCHANGED <<revoked, rowGone, actor, running, connected, inbox, chan, rx, why>>
           /\ opened' \in {[opened EXCEPT ![s] = TRUE], opened}
    BY <1>4 DEF CheckPasses, Emit
  <2>2. Trusted(s) /\ Subscribed(s)
    BY <2>1 DEF Trusted, Subscribed
  <2>3. WillHear(s, rx[s])
    BY <2>2 DEF RvInv, NoRevocationMissed, WillHear
  <2>4. PICK open \in BOOLEAN : opened' = [opened EXCEPT ![s] = open]
    BY <1>t, <2>1
  <2>5. rx' = [rx EXCEPT ![s] = rx[s]] /\ why' = [why EXCEPT ![s] = why[s]]
    BY <1>t, <2>1
  <2>6. InRange(rx[s])
    BY <1>i, <2>2 DEF InRange
  <2>7. /\ rx[s] \in [chan : 0..MaxActors, pos : Nat] /\ step # "closed"
        /\ why[s] \in {"none", "unavailable", "session", "revoked", "gap", "dberror"}
        /\ step \in {"idle", "subscribe", "validate", "check", "revalidate", "emit", "closed"}
    BY <1>t
  <2>8. /\ rvPc' = [rvPc EXCEPT ![s] = step]
        /\ UNCHANGED <<revoked, rowGone, actor, running, connected, inbox, chan>>
        /\ step \in {"check", "emit", "revalidate", "closed"}
    BY <2>1
  <2> QED
    BY <2>3, <2>4, <2>5, <2>6, <2>7, <2>8, StreamKeeps
<1> QED
  BY <1>1, <1>2, <1>3, <1>4

\* is_valid and next_check: a message is skipped only if it is another's, and a
\* receiver that missed messages is validated again.
LEMMA CheckMessageKeeps ==
    ASSUME RvInv, NEW s \in Streams, CheckMessage(s)
    PROVE  RvInv'
<1> USE DEF StreamGoto, Close, credVars, listenerVars
<1>t. /\ rx[s] \in [chan : 0..MaxActors, pos : Nat] /\ opened[s] \in BOOLEAN
      /\ why[s] \in {"none", "unavailable", "session", "revoked", "gap", "dberror"}
      /\ rvPc = [rvPc EXCEPT ![s] = rvPc[s]] /\ rx = [rx EXCEPT ![s] = rx[s]]
      /\ opened = [opened EXCEPT ![s] = opened[s]] /\ why = [why EXCEPT ![s] = why[s]]
  BY StreamTyped
<1> DEFINE g == rx[s].chan
           p == rx[s].pos
           n == Len(chan[g])
<1>1. /\ rvPc[s] = "check" /\ Trusted(s)
      /\ UNCHANGED <<revoked, rowGone, actor, running, connected, inbox, chan, opened>>
  BY DEF CheckMessage, Trusted
<1>2. /\ actor \in 1..MaxActors /\ MaxActors \in Nat /\ g \in 1..actor /\ g \in 1..MaxActors
      /\ chan[g] \in Seq(Creds) /\ p \in 1..(n + 1) /\ n \in Nat /\ DOMAIN chan[g] = 1..n
  <2>1. actor \in 1..MaxActors /\ MaxActors \in Nat /\ g \in 1..actor /\ p \in 1..(n + 1)
    BY <1>1, RevocationAssumption DEF RvInv, RvTypeOK, ReceiverInv, Subscribed
  <2>2. g \in 1..MaxActors
    BY <2>1
  <2>3. chan[g] \in Seq(Creds)
    BY <2>2 DEF RvInv, RvTypeOK
  <2> QED
    BY <2>1, <2>2, <2>3
<1>3. s \in revoked =>
         \/ ChannelClosed(g) \/ ~connected \/ s \in ToSet(inbox)
         \/ \E i \in DOMAIN chan[g] : i >= p /\ chan[g][i] = s
  BY <1>1 DEF RvInv, NoRevocationMissed
<1>4. CASE rx' = [rx EXCEPT ![s].pos = n + 1] /\ rvPc' = [rvPc EXCEPT ![s] = AfterLag]
           /\ UNCHANGED why
  <2> DEFINE recv == [rx[s] EXCEPT !.pos = n + 1]
  <2>1. /\ recv \in [chan : 0..MaxActors, pos : Nat] /\ recv.chan = g /\ recv.pos = n + 1
        /\ rx' = [rx EXCEPT ![s] = recv]
    BY <1>2, <1>4, <1>t
  <2>2. InRange(recv)
    BY <1>2, <2>1 DEF InRange
  <2>3. /\ rvPc' = [rvPc EXCEPT ![s] = "revalidate"] /\ why' = [why EXCEPT ![s] = why[s]]
        /\ opened' = [opened EXCEPT ![s] = opened[s]] /\ opened[s] \in BOOLEAN
        /\ why[s] \in {"none", "unavailable", "session", "revoked", "gap", "dberror"}
    BY <1>1, <1>4, <1>t DEF AfterLag
  <2> HIDE DEF recv, g, n, p
  <2> QED
    BY <1>1, <2>1, <2>2, <2>3, StreamKeeps
<1>5. CASE /\ p <= n /\ chan[g][p] = s /\ rvPc' = [rvPc EXCEPT ![s] = "closed"]
           /\ why' = [why EXCEPT ![s] = "revoked"] /\ UNCHANGED rx
  <2>1. s \in revoked
    BY <1>2, <1>5 DEF RvInv, MessagesTrue
  <2>2. /\ rx' = [rx EXCEPT ![s] = rx[s]] /\ opened' = [opened EXCEPT ![s] = opened[s]]
        /\ rx[s] \in [chan : 0..MaxActors, pos : Nat] /\ opened[s] \in BOOLEAN
    BY <1>1, <1>5, <1>t
  <2> HIDE DEF g, n, p
  <2> QED
    BY <1>1, <1>5, <2>1, <2>2, StreamKeeps DEF InRange, WillHear
<1>6. CASE p <= n /\ chan[g][p] # s /\ rx' = [rx EXCEPT ![s].pos = p + 1] /\ UNCHANGED <<rvPc, why>>
  <2> DEFINE recv == [rx[s] EXCEPT !.pos = p + 1]
  <2>1. /\ recv \in [chan : 0..MaxActors, pos : Nat] /\ recv.chan = g /\ recv.pos = p + 1
        /\ rx' = [rx EXCEPT ![s] = recv]
    BY <1>2, <1>6, <1>t
  <2>2. InRange(recv)
    BY <1>2, <1>6, <2>1 DEF InRange
  <2>3. WillHear(s, recv)
    BY <1>2, <1>3, <1>6, <2>1 DEF WillHear
  <2> HIDE DEF recv, g, n, p
  <2>4. /\ rvPc' = [rvPc EXCEPT ![s] = "check"] /\ why' = [why EXCEPT ![s] = why[s]]
        /\ opened' = [opened EXCEPT ![s] = opened[s]] /\ opened[s] \in BOOLEAN
        /\ why[s] \in {"none", "unavailable", "session", "revoked", "gap", "dberror"}
    BY <1>1, <1>6, <1>t
  <2> QED
    BY <1>1, <2>1, <2>2, <2>3, <2>4, StreamKeeps
<1>7. CASE rvPc' = [rvPc EXCEPT ![s] = "closed"] /\ why' = [why EXCEPT ![s] = "gap"]
           /\ UNCHANGED rx
  BY <1>1, <1>7, <1>t, StreamKeeps DEF InRange, WillHear
<1> QED
  BY <1>4, <1>5, <1>6, <1>7 DEF CheckMessage, HasMessage, Matches

(***************************************************************************)
(* A private stream is closed when its credential is revoked, wherever the *)
(* revocation falls between subscription, validation and checks, and       *)
(* whatever the listener loses: for any number of streams, credentials and *)
(* messages, and any capacity of the channel (events.rs, listener.rs).     *)
(***************************************************************************)
THEOREM StreamsAreSound == RvSpec => []StreamsSound
<1>1. RvInit => RvInv
  <2> SUFFICES ASSUME RvInit PROVE RvInv
    OBVIOUS
  <2>1. RvTypeOK
    BY RevocationAssumption DEF RvInit, RvTypeOK
  <2> QED
    BY <2>1 DEF RvInit, RvInv, ListenerInv, ReceiverInv, Subscribed, MessagesTrue, OpenedInv,
       NoRevocationMissed, Trusted, BurstClosesNoOther
<1>2. RvInv /\ [RvNext]_rvVars => RvInv'
  <2> SUFFICES ASSUME RvInv, [RvNext]_rvVars PROVE RvInv'
    OBVIOUS
  <2>1. CASE UNCHANGED rvVars
    BY <2>1 DEF rvVars, RvInv, RvTypeOK, ListenerInv, ReceiverInv, Subscribed, MessagesTrue,
       OpenedInv, NoRevocationMissed, Trusted, ChannelClosed, BurstClosesNoOther
  <2> QED
    BY <2>1, RevokeKeeps, ForwardKeeps, ListenerKeeps, LoseSessionKeeps, QuietStreamKeeps,
       CheckMessageKeeps DEF RvNext, StreamStep
<1>3. RvInv => StreamsSound
  BY DEF RvInv, StreamsSound
<1> QED
  BY <1>1, <1>2, <1>3, PTL DEF RvSpec
==============================================================================
