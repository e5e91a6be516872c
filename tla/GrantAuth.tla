------------------------------ MODULE GrantAuth ------------------------------
(***************************************************************************)
(* Grant authentication: a grant (a JWS signed by the user) and a proof of *)
(* possession are exchanged for a bearer, which later requests present;    *)
(* the grant is revoked by its bearer, by another session of the user or   *)
(* with a proof.  Every statement of a call is a step of its own, so calls *)
(* interleave wherever the service awaits the database.                    *)
(*                                                                         *)
(* A bearer is named after the call that minted it.  Signatures are valid; *)
(* JWS parsing and the audience and grant binding of a proof are left out. *)
(* The clock counts ticks, TicksPerSec of them to the second: JWS times    *)
(* are whole seconds, the nonce table's created_at is not.                 *)
(***************************************************************************)
EXTENDS Integers, Sequences

CONSTANTS
    Calls,          \* the requests, each of them served once
    Grants,         \* the grants that are presented
    Nonces,
    Jobs,           \* what a request may ask for
    Accounts,       \* the users that have an account
    PopMaxAge,      \* POP_MAX_AGE_SECS
    Lifetime,       \* DEFAULT_SESSION_TOKEN_LIFETIME_SECS
    TicksPerSec,
    MaxTick,        \* bound of the clock
    None

Ids == {g.id : g \in Grants}
BearerKinds == {"use", "logout", "revoke"}

JobType == [kind : {"exchange", "signout"} \cup BearerKinds, grant : Grants,
            nonce : Nonces, iat : Nat]

ASSUME GrantAssumption ==
    /\ \A g \in Grants : g.exp \in Nat /\ g.root \in BOOLEAN
                         /\ {"id", "user", "key"} \subseteq DOMAIN g
    /\ Jobs \subseteq JobType
    /\ {PopMaxAge, MaxTick} \subseteq Nat
    /\ {Lifetime, TicksPerSec} \subseteq Nat \ {0}
    /\ None \notin Grants \cup Calls \cup Nat

VARIABLES
    tick,       \* the clock
    stored,     \* stored[i]: the grants row with id i
    sessions,   \* the grant_sessions rows
    nonces,     \* nonces[n]: created_at of the pop_nonces row, or None
    job,        \* what each call asks for
    pc,         \* the step each call is at
    bearer,     \* the bearer a call presents
    clock,      \* the second a call has read
    doomed,     \* the sessions its open transaction deletes
    reply,
    \* History
    minted,     \* the bearers in the order they were committed
    stale,      \* the call presents a bearer known to be over
    spentAt     \* spentAt[c]: when the nonce of c's proof was accepted, or None

callVars == <<job, bearer, clock, doomed>>
history == <<minted, stale, spentAt>>
vars == <<tick, stored, sessions, nonces, job, pc, bearer, clock, doomed, reply,
          minted, stale, spentAt>>

Steps == {"idle", "revoked", "gc", "track", "store", "match", "mint", "replace",
          "owner", "bearer", "active", "target", "revoke", "revoking", "done"}
Session == [token : Calls, id : Ids, exp : Nat]

TypeOK ==
    /\ tick \in Nat
    /\ stored \in [Ids -> [grant : Grants \cup {None}, revoked : BOOLEAN]]
    /\ sessions \subseteq Session
    /\ nonces \in [Nonces -> Nat \cup {None}]
    /\ job \in [Calls -> Jobs]
    /\ pc \in [Calls -> Steps]
    /\ bearer \in [Calls -> Calls \cup {None}]
    /\ clock \in [Calls -> Nat]
    /\ doomed \in [Calls -> SUBSET Session]
    /\ reply \in [Calls -> {"none", "ok", "noop", "refused", "error"}]
    /\ minted \in Seq(Calls)
    /\ stale \in [Calls -> BOOLEAN]
    /\ spentAt \in [Calls -> Nat \cup {None}]

Init ==
    /\ tick = 0
    /\ stored = [i \in Ids |-> [grant |-> None, revoked |-> FALSE]]
    /\ sessions = {}
    /\ nonces = [n \in Nonces |-> None]
    /\ job \in [Calls -> Jobs]
    /\ pc = [c \in Calls |-> "idle"]
    /\ bearer = [c \in Calls |-> None]
    /\ clock = [c \in Calls |-> 0]
    /\ doomed = [c \in Calls |-> {}]
    /\ reply = [c \in Calls |-> "none"]
    /\ minted = <<>>
    /\ stale = [c \in Calls |-> FALSE]
    /\ spentAt = [c \in Calls |-> None]

-----------------------------------------------------------------------------
(* Helpers *)

\* Utc::now().timestamp().
SecondOf(t) == t \div TicksPerSec
Now == SecondOf(tick)

Goto(c, step) == pc' = [pc EXCEPT ![c] = step] /\ UNCHANGED reply
Finish(c, r) == /\ pc' = [pc EXCEPT ![c] = "done"]
                /\ reply' = [reply EXCEPT ![c] = r]

\* Continue at `step` if the check passes.
PassOrRefuse(c, check, step) ==
    \/ check /\ Goto(c, step)
    \/ ~check /\ Finish(c, "refused")

\* check_timestamp, in whole seconds.
PopIsFresh(c) ==
    /\ Now - job[c].iat <= PopMaxAge
    /\ job[c].iat - Now <= PopMaxAge

\* Mutant: nonces are kept for the age of a proof, not for its whole window.
MutNonceGcAge == PopMaxAge

\* POP_NONCE_GC_THRESHOLD_SECS.
NonceGcAge == 2 * PopMaxAge

\* garbage_collect: created_at < cutoff.
Outdated(n) == nonces[n] # None /\ nonces[n] < tick - NonceGcAge * TicksPerSec

\* require_stored_grant_matches.
StoredMatches(g) == stored[g.id].grant = g

\* The grant of a bearer: what the call that minted it presented.
BearerGrant(c) == job[bearer[c]].grant

\* The grant a call revokes.
Target(c) == IF job[c].kind = "logout" THEN BearerGrant(c).id ELSE job[c].grant.id

\* The open transaction of c has the grants row: by an exchange's SELECT ... FOR
\* UPDATE, or a revocation's UPDATE.
LocksRow(c) == pc[c] \in {"replace", "revoking"}
RowOf(c) == IF pc[c] = "replace" THEN job[c].grant.id ELSE Target(c)

SessionsOf(i) == {s \in sessions : s.id = i}

\* Mutant: an exchange leaves the older sessions of the grant alone.
MutReplaced(i) == {}

\* DELETE FROM grant_sessions WHERE grant_id = $1.
Replaced(i) == SessionsOf(i)

\* Mutant: the grants row is read without FOR UPDATE.
MutGrantRowFree(i) == TRUE

\* No transaction holds the grants row i.
GrantRowFree(i) == \A c \in Calls : LocksRow(c) => RowOf(c) # i

\* mint_session: the session never outlives the grant.
SessionExpiry(c) ==
    IF clock[c] + Lifetime < job[c].grant.exp THEN clock[c] + Lifetime
                                              ELSE job[c].grant.exp

-----------------------------------------------------------------------------
(* create_grant_session and signout_with_proof *)

\* verify_grant for an exchange; verify_grant_for_revocation allows expired
\* grants and the proof is verified at once.
VerifyGrant(c) ==
    /\ pc[c] = "idle"
    /\ \/ /\ job[c].kind = "exchange"
          /\ PassOrRefuse(c, job[c].grant.exp > Now, "revoked")
       \/ /\ job[c].kind = "signout"
          /\ PassOrRefuse(c, PopIsFresh(c), "gc")
    /\ UNCHANGED <<tick, stored, sessions, nonces, callVars, history>>

\* check_grant_not_revoked, where an unknown grant passes, then the proof.
CheckRevoked(c) ==
    /\ pc[c] = "revoked"
    /\ PassOrRefuse(c, ~stored[job[c].grant.id].revoked /\ PopIsFresh(c), "gc")
    /\ UNCHANGED <<tick, stored, sessions, nonces, callVars, history>>

\* The garbage collection, which may fail.
CollectNonces(c) ==
    /\ pc[c] = "gc"
    /\ nonces' \in {nonces, [n \in Nonces |-> IF Outdated(n) THEN None ELSE nonces[n]]}
    /\ Goto(c, "track")
    /\ UNCHANGED <<tick, stored, sessions, callVars, history>>

\* check_and_track: INSERT ... ON CONFLICT DO NOTHING.
TrackNonce(c) ==
    /\ pc[c] = "track"
    /\ LET n == job[c].nonce
       IN  \/ /\ nonces[n] = None
              /\ nonces' = [nonces EXCEPT ![n] = tick]
              /\ spentAt' = [spentAt EXCEPT ![c] = tick]
              /\ Goto(c, IF job[c].kind = "exchange" THEN "store" ELSE "owner")
           \/ /\ nonces[n] # None
              /\ Finish(c, "refused")
              /\ UNCHANGED <<nonces, spentAt>>
    /\ UNCHANGED <<tick, stored, sessions, callVars, minted, stale>>

\* find_user, and GrantRepository::create: ON CONFLICT DO NOTHING.
StoreGrant(c) ==
    /\ pc[c] = "store"
    /\ LET g == job[c].grant
       IN  \/ /\ g.user \in Accounts
              /\ stored' = IF stored[g.id].grant # None THEN stored
                           ELSE [stored EXCEPT ![g.id].grant = g]
              /\ Goto(c, "match")
           \/ /\ g.user \notin Accounts
              /\ Finish(c, "refused")
              /\ UNCHANGED stored
    /\ UNCHANGED <<tick, sessions, nonces, callVars, history>>

\* require_stored_grant_matches; mint_session then reads the clock.
MatchGrant(c) ==
    /\ pc[c] = "match"
    /\ PassOrRefuse(c, StoredMatches(job[c].grant), "mint")
    /\ clock' = [clock EXCEPT ![c] = Now]
    /\ UNCHANGED <<tick, stored, sessions, nonces, job, bearer, doomed, history>>

\* replace_for_grant: the row is locked and checked, the old sessions are
\* deleted ...
LockGrant(c) ==
    /\ pc[c] = "mint"
    /\ LET i == job[c].grant.id
       IN  /\ GrantRowFree(i)
           /\ PassOrRefuse(c, ~stored[i].revoked /\ stored[i].grant.exp > Now, "replace")
           /\ doomed' = [doomed EXCEPT ![c] = Replaced(i)]
    /\ UNCHANGED <<tick, stored, sessions, nonces, job, bearer, clock, history>>

\* ... and the new one is inserted and committed.
CommitSession(c) ==
    /\ pc[c] = "replace"
    /\ sessions' = (sessions \ doomed[c])
                     \cup {[token |-> c, id |-> job[c].grant.id, exp |-> SessionExpiry(c)]}
    /\ minted' = Append(minted, c)
    /\ Finish(c, "ok")
    /\ UNCHANGED <<tick, stored, nonces, callVars, stale, spentAt>>

\* signout_with_proof: the stored grant must be the caller's.
CheckOwner(c) ==
    /\ pc[c] = "owner"
    /\ LET row == stored[job[c].grant.id].grant
       IN  PassOrRefuse(c, /\ row # None
                           /\ row.user = job[c].grant.user
                           /\ row.key = job[c].grant.key, "revoke")
    /\ UNCHANGED <<tick, stored, sessions, nonces, callVars, history>>

-----------------------------------------------------------------------------
(* Requests with a bearer *)

\* A newer bearer of the same grant was handed out, or the grant was revoked,
\* before this request began.
KnownToBeOver(t) ==
    \/ \E i, j \in DOMAIN minted :
          /\ i < j /\ minted[i] = t
          /\ job[minted[j]].grant.id = job[t].grant.id
    \/ stored[job[t].grant.id].revoked

Present(c, t) ==
    /\ pc[c] = "idle" /\ job[c].kind \in BearerKinds
    /\ reply[t] = "ok" /\ job[t].kind = "exchange"
    /\ bearer' = [bearer EXCEPT ![c] = t]
    /\ stale' = [stale EXCEPT ![c] = KnownToBeOver(t)]
    /\ Goto(c, "bearer")
    /\ UNCHANGED <<tick, stored, sessions, nonces, job, clock, doomed, minted, spentAt>>

\* A request that is not authenticated is refused; a signout is then a no-op.
Unauthenticated(c) == Finish(c, IF job[c].kind = "logout" THEN "noop" ELSE "refused")

\* resolve_grant_session_by_bearer: the session row ...
ReadSession(c) ==
    /\ pc[c] = "bearer"
    /\ clock' = [clock EXCEPT ![c] = Now]
    /\ \/ /\ \E s \in sessions : s.token = bearer[c] /\ s.exp > Now
          /\ Goto(c, "active")
       \/ /\ \A s \in sessions : s.token = bearer[c] => s.exp <= Now
          /\ Unauthenticated(c)
    /\ UNCHANGED <<tick, stored, sessions, nonces, job, bearer, doomed, history>>

\* ... and then the grants row, in a statement of its own: require_active.
\* Revoking another grant takes the root capability.
ReadGrant(c) ==
    /\ pc[c] = "active"
    /\ LET row == stored[BearerGrant(c).id]
           active == ~row.revoked /\ row.grant.exp > clock[c]
       IN  \/ /\ ~active
              /\ Unauthenticated(c)
           \/ /\ active /\ job[c].kind = "use"
              /\ Finish(c, "ok")
           \/ /\ active /\ job[c].kind = "logout"
              /\ Goto(c, "revoke")
           \/ /\ active /\ job[c].kind = "revoke"
              /\ PassOrRefuse(c, row.grant.root, "target")
    /\ UNCHANGED <<tick, stored, sessions, nonces, callVars, history>>

\* The grant exists and belongs to the user of the session.
OwnsTarget(c) ==
    /\ stored[job[c].grant.id].grant # None
    /\ stored[job[c].grant.id].grant.user = stored[BearerGrant(c).id].grant.user

\* revoke_user_grant.
CheckTarget(c) ==
    /\ pc[c] = "target"
    /\ PassOrRefuse(c, OwnsTarget(c), "revoke")
    /\ UNCHANGED <<tick, stored, sessions, nonces, callVars, history>>

-----------------------------------------------------------------------------
(* revoke_grant *)

\* The UPDATE of the grants row, and the DELETE of its sessions ...
LockRevoked(c) ==
    /\ pc[c] = "revoke"
    /\ GrantRowFree(Target(c))
    /\ doomed' = [doomed EXCEPT ![c] = SessionsOf(Target(c))]
    /\ Goto(c, "revoking")
    /\ UNCHANGED <<tick, stored, sessions, nonces, job, bearer, clock, history>>

\* ... commit together.
CommitRevoked(c) ==
    /\ pc[c] = "revoking"
    /\ stored' = [stored EXCEPT ![Target(c)].revoked = TRUE]
    /\ sessions' = sessions \ doomed[c]
    /\ Finish(c, "ok")
    /\ UNCHANGED <<tick, nonces, callVars, history>>

-----------------------------------------------------------------------------
(* Specification *)

\* A statement fails: an open transaction is rolled back.  The middleware that
\* resolves a bearer takes a failure for an unknown bearer.
Fail(c) ==
    /\ \/ pc[c] \in {"bearer", "active"} /\ Unauthenticated(c)
       \/ pc[c] \notin {"idle", "done", "bearer", "active"} /\ Finish(c, "error")
    /\ UNCHANGED <<tick, stored, sessions, nonces, callVars, history>>

Tick ==
    /\ tick < MaxTick
    /\ tick' = tick + 1
    /\ UNCHANGED <<stored, sessions, nonces, pc, callVars, reply, history>>

CallStep(c) ==
    \/ VerifyGrant(c) \/ CheckRevoked(c) \/ CollectNonces(c) \/ TrackNonce(c)
    \/ StoreGrant(c) \/ MatchGrant(c) \/ LockGrant(c) \/ CommitSession(c)
    \/ CheckOwner(c)
    \/ (\E t \in Calls : Present(c, t))
    \/ ReadSession(c) \/ ReadGrant(c) \/ CheckTarget(c)
    \/ LockRevoked(c) \/ CommitRevoked(c)
    \/ Fail(c)

Next == Tick \/ \E c \in Calls : CallStep(c)

Spec == Init /\ [][Next]_vars

-----------------------------------------------------------------------------
(* Properties *)

(***************************************************************************)
(* A revoked grant has no session (revoke_grant is atomic and              *)
(* replace_for_grant serializes with it): an exchange that checked the     *)
(* grant before it was revoked mints nothing after.                        *)
(***************************************************************************)
RevokedHasNoSession == \A s \in sessions : ~stored[s.id].revoked

(***************************************************************************)
(* One bearer per grant, though exchanges of one grant may run side by     *)
(* side ("replace its current bearer").                                    *)
(***************************************************************************)
OneSessionPerGrant == \A s, t \in sessions : s.id = t.id => s = t

(***************************************************************************)
(* A session's grant row is the very grant its client presented: a grant   *)
(* id that was stored first from another grant (another user, or re-signed *)
(* with other claims) yields no session, and the session ends with the     *)
(* grant or before.                                                        *)
(***************************************************************************)
SessionMatchesGrant ==
    \A s \in sessions : /\ stored[s.id].grant = job[s.token].grant
                        /\ s.exp <= stored[s.id].grant.exp

(***************************************************************************)
(* A bearer is good for nothing once a newer one was handed out or its     *)
(* grant was revoked: no request that began after that is served.          *)
(***************************************************************************)
StaleBearerRefused ==
    \A c \in Calls : stale[c] => pc[c] \in {"bearer", "done"} /\ reply[c] # "ok"

(***************************************************************************)
(* A proof is accepted once while it is fresh ("Reject replayed PoP        *)
(* nonces", check_nonce_replay), whoever collects garbage and whenever.    *)
(* There is one exception: freshness is counted in whole seconds and the   *)
(* age of a nonce row is not, so a proof that was accepted in the first    *)
(* second of its window is accepted again within the last.                 *)
(***************************************************************************)
ProofServesOnce ==
    \A c, d \in Calls :
       /\ c # d /\ spentAt[c] # None /\ spentAt[d] # None
       /\ job[c].nonce = job[d].nonce /\ job[c].iat = job[d].iat
       /\ spentAt[d] <= spentAt[c]
       /\ SecondOf(spentAt[c]) <= job[c].iat + PopMaxAge     \* still fresh
       => /\ SecondOf(spentAt[d]) = job[d].iat - PopMaxAge
          /\ SecondOf(spentAt[c]) = job[c].iat + PopMaxAge

(***************************************************************************)
(* A grant is revoked only on behalf of the user it was stored for, though *)
(* grant ids are chosen by clients and two users may have picked the same. *)
(***************************************************************************)
RevokedByItsUser ==
    [][\A c \in Calls : CommitRevoked(c) =>
          stored[Target(c)].grant.user =
             IF bearer[c] = None THEN job[c].grant.user ELSE BearerGrant(c).user]_vars

(***************************************************************************)
(* A signout with a bearer that was answered with 200 leaves no session    *)
(* behind it: it "idempotently revokes the grant (if any)", and a no-op is *)
(* for "an already-revoked bearer" (grant/routes.rs).                      *)
(***************************************************************************)
SignoutRevokes ==
    \A c \in Calls : job[c].kind = "logout" /\ reply[c] \in {"ok", "noop"} =>
       \A s \in sessions : s.token = bearer[c] => s.exp <= Now

(***************************************************************************)
(* Why revocation and exchange do not overtake each other: what a          *)
(* transaction read under the grants row still holds when it commits.      *)
(***************************************************************************)
RowLockInv ==
    /\ \A c, d \in Calls : LocksRow(c) /\ LocksRow(d) /\ c # d => RowOf(c) # RowOf(d)
    /\ \A c \in Calls : LocksRow(c) => doomed[c] = SessionsOf(RowOf(c))
    /\ \A c \in Calls : pc[c] = "replace" => ~stored[RowOf(c)].revoked

(***************************************************************************)
(* Why a session is of the grant its client presented: the stored grant    *)
(* that an exchange has compared with its own does not change any more.    *)
(***************************************************************************)
MatchInv ==
    \A c \in Calls : pc[c] \in {"mint", "replace"} =>
       stored[job[c].grant.id].grant = job[c].grant

(***************************************************************************)
(* The sessions of a grant: none once it is revoked, one at a time, and of *)
(* the grant that was presented (grant/service.rs).                        *)
(***************************************************************************)
SessionsSound == RevokedHasNoSession /\ OneSessionPerGrant /\ SessionMatchesGrant

(***************************************************************************)
(* No step makes a proof serve twice while it is fresh (but for the first  *)
(* and the last second), and revocations are their user's.                 *)
(***************************************************************************)
StepsAuthorized == [][ProofServesOnce']_vars /\ RevokedByItsUser
==============================================================================
