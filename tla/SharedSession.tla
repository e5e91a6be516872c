---------------------------- MODULE SharedSession ----------------------------
(***************************************************************************)
(* The bearer of one grant session as the SDK keeps it: a credential in     *)
(* every tab of a browser, the record the tabs share in IndexedDB, the      *)
(* leases (Web Locks) they take on it, and the homeserver that keeps one    *)
(* bearer per grant.  Modelled from                                         *)
(* pubky-sdk/src/actors/auth/grant/{credential,shared_session,              *)
(* grant_exchange}.rs and bindings/js/src/actors/{session_store,            *)
(* browser_session}.rs.  A bearer is the number of the exchange that        *)
(* minted it; 0 is no bearer.  Time is the phase of each bearer's life.     *)
(***************************************************************************)
EXTENDS Naturals, FiniteSets, Values

CONSTANTS
  Tabs, Jobs,      \* a job is one call of the SDK, made in the tab TabOf[job]
  TabOf, CallsOf,  \* and is one of the calls CallsOf[job]
  Opener,          \* the tab whose authorization flow made the credential
  MaxMint,         \* bound on the exchanges the homeserver executes
  FinalFrom,       \* bearers from this one on live until the grant expires
  MaxStrays        \* bound on the exchanges whose sender stopped waiting

VARIABLES
  ssCur,      \* homeserver: the bearer of the grant's session row, 0 if none
  ssGone,     \* homeserver: the grant is revoked or expired
  ssMinted,   \* homeserver: exchanges executed so far
  ssPhase,    \* life of every bearer: fresh, soon, due, expired
  ssStrays,   \* exchanges on their way whose sender is gone
  ssLostMade, \* how many exchanges lost their sender so far
  ssOutside,  \* history: bearers the record need not know: minted outside its lease
              \* once there was one, or before it was removed
  ssLapses,   \* history: how often a bearer was minted so, or the record removed
  ssRecord,   \* the record in IndexedDB
  ssCred,     \* per tab: the credential's bearer and whether it is coordinated
  ssMutex,    \* per tab: the job that holds the credential's state mutex
  ssLease,    \* per job: none, shared or exclusive
  ssJob       \* per job: what it does, where it is, and its locals

ssVars == <<ssCur, ssGone, ssMinted, ssPhase, ssStrays, ssLostMade, ssOutside, ssLapses,
            ssRecord, ssCred, ssMutex, ssLease, ssJob>>
ssHistory == <<ssOutside, ssLapses>>
ssServer == <<ssCur, ssGone, ssMinted, ssPhase, ssHistory>>
ssWire   == <<ssStrays, ssLostMade>>

Bearers == 0..MaxMint
Kinds   == {"send", "refresh", "signout", "save", "restore", "remove"}
Steps   == {"idle", "begin", "check", "refresh", "local", "exchangeLocal", "bearer",
            "send", "wantShared", "adopt", "wantExclusive", "renew", "exchange",
            "keep", "mark", "delete", "erase", "put", "join", "rebuild", "done"}

SharedType == [bearer : Bearers, refreshPending : BOOLEAN, logoutPending : BOOLEAN]
RecordType == [shared : SharedType \cup {None}]
CredType   == [bearer : Bearers, joined : BOOLEAN]
Replies    == {"ok", "signedOut", "rejected", "error"}
JobType    == [kind : Kinds \cup {None}, pc : Steps, back : Steps, using : Bearers,
               rejected : Bearers, retried : BOOLEAN, lapses : Nat,
               reply : Replies \cup {None}]

ASSUME SharedAssumption ==
  /\ IsFiniteSet(Jobs) /\ TabOf \in [Jobs -> Tabs] /\ Opener \in Tabs
  /\ MaxMint \in Nat \ {0} /\ FinalFrom \in Nat /\ MaxStrays \in Nat
  /\ None \notin Jobs \cup SharedType \cup RecordType \cup CredType \cup Replies

SSTypeOK ==
  /\ ssCur \in Bearers /\ ssGone \in BOOLEAN /\ ssMinted \in Bearers
  /\ ssPhase \in [1..MaxMint -> {"fresh", "soon", "due", "expired"}]
  /\ ssStrays \in 0..MaxStrays /\ ssLostMade \in 0..MaxStrays
  /\ ssOutside \subseteq 1..MaxMint /\ ssLapses \in Nat
  /\ ssRecord \in RecordType \cup {None}
  /\ ssCred \in [Tabs -> CredType \cup {None}] /\ ssMutex \in [Tabs -> Jobs \cup {None}]
  /\ ssLease \in [Jobs -> {"none", "shared", "exclusive"}]
  /\ ssJob \in [Jobs -> JobType]

------------------------------------------------------------------------------
(* State functions.                                                         *)

tab(j) == TabOf[j]

\* The credential's mutex is free, so that a job of the tab can take it.
Free(j) == ssMutex[tab(j)] = None

\* GrantCredentialState::needs_refresh.  A bearer that lives as long as the
\* grant cannot be extended and is replaced only once it expired.
NeedsRefresh(b, slack) ==
  \/ b = 0
  \/ ssPhase[b] = "expired"
  \/ b < FinalFrom /\ ssPhase[b] \in (IF slack = "full" THEN {"soon", "due"} ELSE {"due"})

\* The homeserver accepts the bearer of the grant's only session row.
Accepts(b) == b # 0 /\ b = ssCur /\ ~ssGone /\ ssPhase[b] # "expired"

\* Web Locks: shared leases exclude an exclusive one.
LeaseFree(j, mode) ==
  \A k \in Jobs \ {j} : \/ ssLease[k] = "none"
                        \/ mode = "shared" /\ ssLease[k] = "shared"

Shared == IF ssRecord = None THEN None ELSE ssRecord.shared

\* active_session: a removed record or a pending logout ends the call.
Active == Shared # None /\ ~Shared.logoutPending

Move(j, pc)  == [ssJob[j] EXCEPT !.pc = pc]
Reply(j, r)  == [ssJob[j] EXCEPT !.pc = "done", !.reply = r, !.back = "done",
                   !.rejected = 0, !.retried = FALSE,
                   !.using = IF r = "rejected" THEN @ ELSE 0,
                   !.lapses = IF r = "rejected" THEN ssLapses - @ ELSE 0]
Go(j, to)    == ssJob' = [ssJob EXCEPT ![j] = to]
Drop(j)      == ssLease' = [ssLease EXCEPT ![j] = "none"]
Take(j)      == ssMutex' = [ssMutex EXCEPT ![tab(j)] = j]
Give(j)      == ssMutex' = [ssMutex EXCEPT ![tab(j)] = None]
Hold(j, b)   == ssCred' = [ssCred EXCEPT ![tab(j)].bearer = b]

\* What a call that only wanted a refresh does next: restore and send go on.
AfterRefresh(j) == IF ssJob[j].back = "done" THEN Reply(j, "ok")
                   ELSE Move(j, ssJob[j].back)

------------------------------------------------------------------------------
(* Calls.                                                                   *)

SSInit ==
  /\ ssCur = 1 /\ ssGone = FALSE /\ ssMinted = 1
  /\ ssPhase = [b \in 1..MaxMint |-> "fresh"]
  /\ ssStrays = 0 /\ ssLostMade = 0 /\ ssOutside = {} /\ ssLapses = 0
  /\ ssRecord = None
  /\ ssCred = [t \in Tabs |-> IF t = Opener THEN [bearer |-> 1, joined |-> FALSE]
                              ELSE None]
  /\ ssMutex = [t \in Tabs |-> None]
  /\ ssLease = [j \in Jobs |-> "none"]
  /\ ssJob = [j \in Jobs |-> [kind |-> None, pc |-> "idle", back |-> "done", using |-> 0,
                              rejected |-> 0, retried |-> FALSE, lapses |-> 0,
                              reply |-> None]]

\* A call starts.  restore and remove need the record their id names
\* (load_record, load_metadata); the others need the tab's credential.
Start(j, kind) ==
  /\ ssJob[j].pc = "idle" /\ kind \in CallsOf[j]
  /\ IF kind \in {"restore", "remove"} THEN ssRecord # None ELSE ssCred[tab(j)] # None
  /\ kind = "restore" => /\ ssCred[tab(j)] = None
                         /\ \A k \in Jobs : tab(k) = tab(j) /\ ssJob[k].kind = "restore"
                                             => ssJob[k].pc = "done"
  /\ Go(j, [ssJob[j] EXCEPT !.kind = kind,
              !.pc = IF kind = "refresh" THEN "refresh"
                     ELSE IF kind \in {"save", "restore", "remove"} THEN "wantExclusive"
                     ELSE "begin",
              !.lapses = ssLapses])
  /\ UNCHANGED <<ssServer, ssWire, ssRecord, ssCred, ssMutex, ssLease>>

\* send and signout look for a coordinator first.
Begin(j) ==
  /\ ssJob[j].pc = "begin" /\ Free(j) /\ ssCred[tab(j)] # None
  /\ Go(j, Move(j, CASE ssJob[j].kind = "signout" ->
                            IF ssCred[tab(j)].joined THEN "wantExclusive" ELSE "delete"
                     [] OTHER -> IF ssCred[tab(j)].joined THEN "wantShared" ELSE "check"))
  /\ UNCHANGED <<ssServer, ssWire, ssRecord, ssCred, ssMutex, ssLease>>

------------------------------------------------------------------------------
(* The credential of one process.                                           *)

\* bearer_for_request: refresh with the full slack, then read the bearer.
BearerForRequest(j) ==
  /\ ssJob[j].pc = "check" /\ Free(j)
  /\ Go(j, IF NeedsRefresh(ssCred[tab(j)].bearer, "full")
           THEN [ssJob[j] EXCEPT !.pc = "refresh", !.back = "bearer"]
           ELSE Move(j, "bearer"))
  /\ UNCHANGED <<ssServer, ssWire, ssRecord, ssCred, ssMutex, ssLease>>

\* refresh looks for a coordinator again: the session may have been saved since.
Refresh(j) ==
  /\ ssJob[j].pc = "refresh" /\ Free(j)
  /\ Go(j, [ssJob[j] EXCEPT !.pc = IF ssCred[tab(j)].joined THEN "wantExclusive" ELSE "local",
                            !.rejected = 0])
  /\ UNCHANGED <<ssServer, ssWire, ssRecord, ssCred, ssMutex, ssLease>>

\* refresh_local takes the mutex and keeps it while the exchange runs, unless
\* another call replaced the bearer already.
RefreshLocal(j) ==
  /\ ssJob[j].pc = "local" /\ Free(j)
  /\ LET b == ssCred[tab(j)].bearer IN
       IF ~NeedsRefresh(b, "half") /\ ssJob[j].rejected # b
       THEN Go(j, AfterRefresh(j)) /\ UNCHANGED ssMutex
       ELSE Go(j, Move(j, "exchangeLocal")) /\ Take(j)
  /\ UNCHANGED <<ssServer, ssWire, ssRecord, ssCred, ssLease>>

\* The homeserver mints a bearer: it replaces the grant's session row.
Mint(outside) ==
  /\ ~ssGone /\ ssMinted < MaxMint
  /\ ssMinted' = ssMinted + 1 /\ ssCur' = ssMinted + 1
  /\ IF outside THEN ssOutside' = ssOutside \cup {ssMinted + 1} /\ ssLapses' = ssLapses + 1
     ELSE UNCHANGED ssHistory
  /\ UNCHANGED <<ssGone, ssPhase>>

\* The answer to a local exchange: the new bearer, or a refusal or an error.
ExchangeLocal(j) ==
  /\ ssJob[j].pc = "exchangeLocal"
  /\ \/ /\ Mint(ssRecord # None \/ ssCred[tab(j)].joined)
        /\ Hold(j, ssMinted')
        /\ Go(j, AfterRefresh(j))
     \/ /\ Go(j, Reply(j, "error"))
        /\ UNCHANGED <<ssServer, ssCred>>
  /\ Give(j)
  /\ UNCHANGED <<ssWire, ssRecord, ssLease>>

\* The exchange gets no answer: the call fails, and the request may still
\* reach the homeserver.  A pending mark it made stays in the record.
ExchangeLost(j) ==
  /\ ssJob[j].pc \in {"exchangeLocal", "exchange"} /\ ssLostMade < MaxStrays
  /\ ssStrays' = ssStrays + 1 /\ ssLostMade' = ssLostMade + 1
  /\ Go(j, Reply(j, "error")) /\ Give(j) /\ Drop(j)
  /\ UNCHANGED <<ssServer, ssRecord, ssCred>>

\* current_bearer: a snapshot that a later refresh may outdate.
CurrentBearer(j) ==
  /\ ssJob[j].pc = "bearer" /\ Free(j)
  /\ Go(j, [ssJob[j] EXCEPT !.pc = "send", !.using = ssCred[tab(j)].bearer])
  /\ UNCHANGED <<ssServer, ssWire, ssRecord, ssCred, ssMutex, ssLease>>

\* The homeserver answers a request.  A refused one is sent once more, after a
\* refresh that names the refused bearer: locally when the call started without
\* a coordinator, through the record when it holds a lease.
Answer(j) ==
  /\ ssJob[j].pc = "send"
  /\ Go(j, IF Accepts(ssJob[j].using) THEN Reply(j, "ok")
           ELSE IF ssJob[j].retried THEN Reply(j, "rejected")
           ELSE IF ssLease[j] = "shared"
           THEN [ssJob[j] EXCEPT !.pc = "wantExclusive", !.back = "wantShared",
                                 !.rejected = ssJob[j].using, !.retried = TRUE]
           ELSE [ssJob[j] EXCEPT !.pc = "local", !.back = "bearer",
                                 !.rejected = ssJob[j].using, !.retried = TRUE])
  /\ Drop(j)
  /\ UNCHANGED <<ssServer, ssWire, ssRecord, ssCred, ssMutex>>

------------------------------------------------------------------------------
(* The credential that shares its bearer through the record.                *)

\* Acquiring a lease, shared for a request and exclusive for a change.
AcquireShared(j) ==
  /\ ssJob[j].pc = "wantShared" /\ LeaseFree(j, "shared")
  /\ ssLease' = [ssLease EXCEPT ![j] = "shared"]
  /\ Go(j, Move(j, "adopt"))
  /\ UNCHANGED <<ssServer, ssWire, ssRecord, ssCred, ssMutex>>

AcquireExclusive(j) ==
  /\ ssJob[j].pc = "wantExclusive" /\ LeaseFree(j, "exclusive")
  /\ ssLease' = [ssLease EXCEPT ![j] = "exclusive"]
  /\ Go(j, Move(j, CASE ssJob[j].kind = "signout" -> "mark"
                     [] ssJob[j].kind = "save" -> "put"
                     [] ssJob[j].kind = "remove" -> "erase"
                     [] ssJob[j].kind = "restore" /\ ssCred[tab(j)] = None -> "rebuild"
                     [] OTHER -> "renew"))
  /\ UNCHANGED <<ssServer, ssWire, ssRecord, ssCred, ssMutex>>

\* Fault: the call fails and its lease stays taken.
NotActiveKeepsLease(j) ==
  /\ ssJob[j].pc \in {"adopt", "renew"} /\ ~Active
  /\ Go(j, Reply(j, "error"))
  /\ UNCHANGED <<ssServer, ssWire, ssRecord, ssCred, ssMutex, ssLease>>

\* A call whose record is gone or is being signed out fails.
NotActive(j) ==
  /\ ssJob[j].pc \in {"adopt", "renew"} /\ ~Active
  /\ Go(j, Reply(j, "error")) /\ Drop(j)
  /\ UNCHANGED <<ssServer, ssWire, ssRecord, ssCred, ssMutex>>

\* prepare_shared: adopt the stored bearer under the shared lease, and give the
\* lease back to refresh first when the bearer is pending or due.
PrepareShared(j) ==
  /\ ssJob[j].pc = "adopt" /\ Active /\ Free(j)
  /\ Hold(j, Shared.bearer)
  /\ IF Shared.refreshPending \/ NeedsRefresh(Shared.bearer, "half")
     THEN /\ Go(j, [ssJob[j] EXCEPT !.pc = "wantExclusive", !.back = "wantShared",
                                    !.rejected = 0])
          /\ Drop(j)
     ELSE /\ Go(j, [ssJob[j] EXCEPT !.pc = "send", !.using = Shared.bearer])
          /\ UNCHANGED ssLease
  /\ UNCHANGED <<ssServer, ssWire, ssRecord, ssMutex>>

\* Fault: the exchange is sent without a mark in the record.
RefreshUnmarked(j) ==
  /\ ssJob[j].pc = "renew" /\ Active /\ Free(j)
  /\ Hold(j, Shared.bearer)
  /\ Go(j, Move(j, "exchange")) /\ Take(j)
  /\ UNCHANGED <<ssServer, ssWire, ssRecord, ssLease>>

\* refresh_shared: adopt, then mark the record pending before the exchange.
RefreshShared(j) ==
  /\ ssJob[j].pc = "renew" /\ Active /\ Free(j)
  /\ Hold(j, Shared.bearer)
  /\ IF ~Shared.refreshPending /\ ~NeedsRefresh(Shared.bearer, "half")
        /\ ssJob[j].rejected # Shared.bearer
     THEN /\ Go(j, AfterRefresh(j)) /\ Drop(j)
          /\ UNCHANGED <<ssRecord, ssMutex>>
     ELSE /\ ssRecord' = [ssRecord EXCEPT !.shared.refreshPending = TRUE]
          /\ Go(j, Move(j, "exchange")) /\ Take(j)
          /\ UNCHANGED ssLease
  /\ UNCHANGED <<ssServer, ssWire>>

\* The answer to the exchange, in hand but not stored.
ExchangeShared(j) ==
  /\ ssJob[j].pc = "exchange"
  /\ \/ /\ Mint(FALSE)
        /\ Go(j, [ssJob[j] EXCEPT !.pc = "keep", !.using = ssMinted'])
        /\ UNCHANGED <<ssMutex, ssLease>>
     \/ /\ Go(j, Reply(j, "error")) /\ Give(j) /\ Drop(j)
        /\ UNCHANGED ssServer
  /\ UNCHANGED <<ssWire, ssRecord, ssCred>>

\* The new bearer is stored, the mark cleared, mutex and lease given back.
KeepBearer(j) ==
  /\ ssJob[j].pc = "keep"
  /\ ssRecord' = [ssRecord EXCEPT !.shared.bearer = ssJob[j].using,
                                  !.shared.refreshPending = FALSE]
  /\ Hold(j, ssJob[j].using)
  /\ Go(j, AfterRefresh(j)) /\ Give(j) /\ Drop(j)
  /\ UNCHANGED <<ssServer, ssWire>>

------------------------------------------------------------------------------
(* Signing out, saving, restoring, removing.                                *)

\* signout under the exclusive lease: a record that is gone ends it with
\* success; otherwise the logout is marked in the record first.
MarkLogout(j) ==
  /\ ssJob[j].pc = "mark"
  /\ IF Shared = None
     THEN /\ Go(j, Reply(j, IF ssJob[j].back = "rebuild" THEN "error" ELSE "ok")) /\ Drop(j)
          /\ UNCHANGED <<ssRecord, ssCred>>
     ELSE /\ Free(j)
          /\ Hold(j, Shared.bearer)
          /\ ssRecord' = [ssRecord EXCEPT !.shared.logoutPending = TRUE]
          /\ Go(j, Move(j, "delete"))
          /\ UNCHANGED ssLease
  /\ UNCHANGED <<ssServer, ssWire, ssMutex>>

\* DELETE /auth/grant/session.  With a proof of possession the grant is revoked
\* whatever the bearer; a homeserver that knows only bearers answers 200 and
\* revokes nothing when the bearer is not the current one.
DeleteSession(j, proof) ==
  /\ ssJob[j].pc = "delete" /\ Free(j)
  /\ LET b == ssCred[tab(j)].bearer
         revokes == proof \/ Accepts(b)
     IN /\ ssGone' = (ssGone \/ revokes)
        /\ ssCur' = IF revokes THEN 0 ELSE ssCur
        /\ Go(j, IF ssLease[j] = "exclusive" THEN Move(j, "erase")
                 ELSE Reply(j, IF revokes THEN "signedOut" ELSE "ok"))
  /\ UNCHANGED <<ssMinted, ssPhase, ssHistory, ssWire, ssRecord, ssCred, ssMutex, ssLease>>

\* A request that gets no answer ends its call; a marked logout stays marked.
RequestLost(j) ==
  /\ ssJob[j].pc \in {"send", "delete"}
  /\ Go(j, Reply(j, "error")) /\ Drop(j)
  /\ UNCHANGED <<ssServer, ssWire, ssRecord, ssCred, ssMutex>>

\* The record is deleted.  A tab that saves later stores the bearer it has.
Forget ==
  /\ ssRecord' = None
  /\ ssOutside' = ssOutside \cup 1..ssMinted /\ ssLapses' = ssLapses + 1

\* The record and its delegated key leave IndexedDB in one transaction: the end
\* of a signout, or remove, which tells the homeserver nothing.
Erase(j) ==
  /\ ssJob[j].pc = "erase"
  /\ Forget
  /\ Go(j, Reply(j, IF ssJob[j].kind # "signout" THEN "ok"
                    ELSE IF ssJob[j].back = "rebuild" THEN "error" ELSE "signedOut"))
  /\ Drop(j)
  /\ UNCHANGED <<ssCur, ssGone, ssMinted, ssPhase, ssWire, ssCred, ssMutex>>

\* save writes the record and keeps the shared state that is there.
Put(j) ==
  /\ ssJob[j].pc = "put"
  /\ ssRecord' = [shared |-> Shared]
  /\ Go(j, Move(j, "join"))
  /\ UNCHANGED <<ssServer, ssWire, ssCred, ssMutex, ssLease>>

\* coordinate: adopt the stored bearer, or store this credential's own.
Coordinate(j, own) ==
  /\ ssRecord' = [ssRecord EXCEPT !.shared =
                    IF @ = None THEN [bearer |-> own, refreshPending |-> own = 0,
                                      logoutPending |-> FALSE]
                    ELSE @]
  /\ ssCred' = [ssCred EXCEPT ![tab(j)] = [bearer |-> ssRecord'.shared.bearer,
                                           joined |-> TRUE]]

Join(j) ==
  /\ ssJob[j].pc = "join" /\ Free(j)
  /\ Coordinate(j, ssCred[tab(j)].bearer)
  /\ Go(j, Reply(j, "ok")) /\ Drop(j)
  /\ UNCHANGED <<ssServer, ssWire, ssMutex>>

\* restore makes a credential without a bearer from the record, joins the
\* shared state, finishes a pending logout or revalidates the session.  Its
\* delegated key is gone when the record is.
Rebuild(j) ==
  /\ ssJob[j].pc = "rebuild" /\ Free(j)
  /\ IF ssRecord = None
     THEN Go(j, Reply(j, "error")) /\ UNCHANGED <<ssRecord, ssCred>>
     ELSE /\ Coordinate(j, 0)
          /\ Go(j, IF Shared # None /\ Shared.logoutPending
                   THEN [ssJob[j] EXCEPT !.kind = "signout", !.pc = "begin", !.back = "rebuild"]
                   ELSE Move(j, "begin"))
  /\ Drop(j)
  /\ UNCHANGED <<ssServer, ssWire, ssMutex>>

\* clear and clearAll take the store's own lock: no lease is held meanwhile.
Clear ==
  /\ ssRecord # None /\ \A j \in Jobs : ssLease[j] = "none"
  /\ Forget
  /\ UNCHANGED <<ssCur, ssGone, ssMinted, ssPhase, ssWire, ssCred, ssMutex, ssLease, ssJob>>

------------------------------------------------------------------------------
(* The environment.                                                         *)

\* A tab closes: its calls, its credential and its locks are gone, and an
\* exchange it sent goes on without it.
CloseTab(t) ==
  LET mine == {j \in Jobs : tab(j) = t}
      sent == {j \in mine : ssJob[j].pc \in {"exchange", "exchangeLocal"}}
      busy == {j \in mine : ssJob[j].pc \notin {"idle", "done"}}
  IN /\ busy # {} /\ ssLostMade + Cardinality(sent) <= MaxStrays
     /\ ssStrays' = ssStrays + Cardinality(sent)
     /\ ssLostMade' = ssLostMade + Cardinality(sent)
     /\ ssJob' = [j \in Jobs |-> IF j \in busy THEN Reply(j, "error") ELSE ssJob[j]]
     /\ ssLease' = [j \in Jobs |-> IF j \in mine THEN "none" ELSE ssLease[j]]
     /\ ssMutex' = [ssMutex EXCEPT ![t] = None]
     /\ ssCred' = [ssCred EXCEPT ![t] = None]
     /\ UNCHANGED <<ssServer, ssRecord>>

\* An exchange without a sender executes, and nobody learns the bearer it
\* mints; or it is refused, or never arrives.
StrayExecutes ==
  /\ ssStrays > 0 /\ ssStrays' = ssStrays - 1
  /\ \/ Mint(TRUE)
     \/ UNCHANGED ssServer
  /\ UNCHANGED <<ssLostMade, ssRecord, ssCred, ssMutex, ssLease, ssJob>>

\* A bearer ages.  One that lives as long as the grant takes the grant along.
Age(b) ==
  /\ b = ssCur /\ ssPhase[b] # "expired"
  /\ ssPhase' = [ssPhase EXCEPT ![b] = CASE @ = "fresh" -> "soon" [] @ = "soon" -> "due"
                                         [] OTHER -> "expired"]
  /\ ssGone' = (ssGone \/ (b >= FinalFrom /\ ssPhase[b] = "due"))
  /\ UNCHANGED <<ssCur, ssMinted, ssHistory, ssWire, ssRecord, ssCred, ssMutex,
                 ssLease, ssJob>>

\* The user revokes the grant from elsewhere.
Revoke ==
  /\ ~ssGone /\ ssGone' = TRUE /\ ssCur' = 0
  /\ UNCHANGED <<ssMinted, ssPhase, ssHistory, ssWire, ssRecord, ssCred, ssMutex,
                 ssLease, ssJob>>

JobStep(j) ==
  \/ Begin(j) \/ BearerForRequest(j) \/ Refresh(j) \/ RefreshLocal(j) \/ ExchangeLocal(j)
  \/ CurrentBearer(j) \/ Answer(j) \/ AcquireShared(j) \/ AcquireExclusive(j)
  \/ NotActive(j) \/ PrepareShared(j) \/ RefreshShared(j) \/ ExchangeShared(j)
  \/ KeepBearer(j) \/ MarkLogout(j) \/ (\E proof \in BOOLEAN : DeleteSession(j, proof))
  \/ Erase(j) \/ Put(j) \/ Join(j) \/ Rebuild(j)

SSNext ==
  \/ \E j \in Jobs : \/ \E k \in Kinds : Start(j, k)
                     \/ JobStep(j) \/ ExchangeLost(j) \/ RequestLost(j)
  \/ Clear \/ StrayExecutes \/ Revoke
  \/ \E t \in Tabs : CloseTab(t)
  \/ \E b \in 1..MaxMint : Age(b)

SSSpec == SSInit /\ [][SSNext]_ssVars

------------------------------------------------------------------------------
(* Properties.                                                              *)

\* The pending mark is complete: a stored bearer without the mark is the one
\* the homeserver has, unless an exchange ran outside the lease (the sender's
\* tab closed, or a call began before the session was saved) or the record was
\* removed and saved again.
StoredBearerCurrent ==
  Shared # None /\ ~Shared.refreshPending /\ ssCur # 0
    => Shared.bearer = ssCur \/ ssCur \in ssOutside

\* A request on its way under a shared lease carries the stored bearer, and
\* meanwhile no tab refreshes it, signs out, or clears the store.
RequestKeepsItsBearer ==
  \A j \in Jobs : ssJob[j].pc = "send" /\ ssLease[j] = "shared"
    => /\ Active /\ ~Shared.refreshPending
       /\ Shared.bearer = ssJob[j].using

\* One retry is enough: a request is refused twice only if the grant ended, its
\* bearer came to age on the way, or since the call began an exchange ran outside
\* the lease or the record was removed.  In particular two calls never replace
\* each other's new bearer.
RefusedTwiceHasCause ==
  \A j \in Jobs : ssJob[j].reply = "rejected"
    => ssGone \/ ssJob[j].lapses > 0 \/ ssPhase[ssJob[j].using] # "fresh"

\* A signout deletes the record, and with it the key, only after the grant was
\* revoked, unless the bearer it had to use was worthless: of a refresh without an
\* answer, replaced outside the lease, or expired.
LogoutRevokes ==
  \A j \in Jobs : ssJob[j].kind = "signout" /\ ssJob[j].pc = "erase"
    => ssGone \/ Shared.refreshPending \/ ssCur \in ssOutside \/ ssPhase[ssCur] = "expired"

\* What the leases are for, taken together: requests, refreshes and signouts of
\* several tabs do not take each other's bearer away (credential.rs).
LeasesProtect ==
  SSTypeOK /\ StoredBearerCurrent /\ RequestKeepsItsBearer /\ RefusedTwiceHasCause /\ LogoutRevokes

\* No call waits for ever: leases and the mutex are taken in one order and given
\* back on every path, so that of the calls under way one can always go on.
CallsNeverStuck ==
  (\E j \in Jobs : ssJob[j].pc \notin {"idle", "done"}) => \E j \in Jobs : ENABLED JobStep(j)
=============================================================================
