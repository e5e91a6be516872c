---------------------------- MODULE CookieSessions ----------------------------
(***************************************************************************)
(* Sessions of the cookie kind, from the signed token to the signout: the    *)
(* homeserver's replay guard and session rows (client_server/auth/cookie),   *)
(* and the SDK's credential in a native process or in a browser, where the   *)
(* jar keeps the secret and attaches it (pubky-sdk/src/actors/auth/cookie).  *)
(* A secret is the number of its session row; 0 is none.                     *)
(***************************************************************************)
EXTENDS Naturals, FiniteSets, Values

CONSTANTS
  Tokens,      \* signed tokens: [ts, user, caps]
  Registered,  \* users that have an account here
  CkHandles,   \* sessions of the SDK
  Browser,     \* those of them that live in the browser
  MaxTime, MaxRows, MaxRestarts

VARIABLES
  ckNow,      \* time; a unit is TIMESTAMP_WINDOW, three minutes
  ckSeen,     \* the replay guard
  ckForgot,   \* ids the guard lost when the process restarted
  ckRestarts,
  ckRows,     \* the table sessions: secret -> row
  ckMinted,   \* secrets handed out so far
  ckMade,     \* sessions made so far by each token id
  ckHandle,   \* per handle: the credential; gone is the secret its signout sent,
              \* blind that the homeserver could not look it up
  ckCall,     \* per handle: the call in progress, the secret it carries and the
              \* session the middleware found for it
  ckJar       \* the browser's cookie jar: user -> secret

ckGuard  == <<ckSeen, ckForgot, ckRestarts>>
ckTable  == <<ckRows, ckMinted, ckMade>>
ckVars   == <<ckNow, ckGuard, ckTable, ckHandle, ckCall, ckJar>>

TimestampWindow == 1
Secrets  == 0..MaxRows
Keys     == {t.user : t \in Tokens}
TokenIds == {<<t.ts, t.user>> : t \in Tokens}
TokenId(t) == <<t.ts, t.user>>
Idle     == [pc |-> "idle", token |-> None, secret |-> 0, found |-> 0, blind |-> FALSE]

RowType    == [user : Keys, caps : STRING]
HandleType == [user : Keys, cookie : Secrets, caps : STRING, bound : BOOLEAN,
               gone : Secrets, out : BOOLEAN, blind : BOOLEAN]
CallType   == [pc : {"idle", "token", "user", "insert", "answer", "delete", "deleted"},
               token : Tokens \cup {None}, secret : Secrets, found : Secrets,
               blind : BOOLEAN]

ASSUME CookieAssumption ==
  /\ \A t \in Tokens : t.ts \in Nat /\ t.caps \in STRING
  /\ MaxTime \in Nat /\ MaxRows \in Nat /\ MaxRestarts \in Nat
  /\ None \notin RowType \cup HandleType

CkTypeOK ==
  /\ ckNow \in 0..MaxTime /\ ckMinted \in Secrets /\ ckRestarts \in 0..MaxRestarts
  /\ ckSeen \subseteq TokenIds /\ ckForgot \subseteq TokenIds
  /\ ckMade \in [TokenIds -> Nat] /\ ckJar \in [Keys -> Secrets]
  /\ ckRows \in [1..MaxRows -> RowType \cup {None}]
  /\ ckHandle \in [CkHandles -> HandleType \cup {None}]
  /\ ckCall \in [CkHandles -> CallType]

CkInit ==
  /\ ckNow = 0 /\ ckSeen = {} /\ ckForgot = {} /\ ckRestarts = 0 /\ ckMinted = 0
  /\ ckRows = [s \in 1..MaxRows |-> None] /\ ckMade = [i \in TokenIds |-> 0]
  /\ ckHandle = [h \in CkHandles |-> None]
  /\ ckCall = [h \in CkHandles |-> Idle]
  /\ ckJar = [u \in Keys |-> 0]

Goes(h, c) == ckCall' = [ckCall EXCEPT ![h] = c]
At(h, pc)  == ckCall[h].pc = pc

------------------------------------------------------------------------------
(* Signing in.                                                              *)

\* AuthToken::verify: three minutes to either side.
TokenFresh(t) == t.ts <= ckNow + TimestampWindow /\ ckNow <= t.ts + TimestampWindow

\* Fault: an id is collected as soon as its timestamp is past.
CollectedEarly == {i \in ckSeen : ckNow <= i[1]}

\* ReplayGuard::gc keeps ids for two windows.
Collected == {i \in ckSeen : ckNow <= i[1] + 2 * TimestampWindow}

\* from_auth_token: the token is posted.  Nothing keeps two calls, or two
\* clients, from posting the same one.
PostToken(h, t) ==
  /\ At(h, "idle") /\ ckHandle[h] = None
  /\ Goes(h, [Idle EXCEPT !.pc = "token", !.token = t])
  /\ UNCHANGED <<ckNow, ckGuard, ckTable, ckHandle, ckJar>>

\* CookieAuthVerifier::verify runs without a pause: the token's window, and the
\* guard under its mutex.  The id is spent even if what follows fails.
VerifyToken(h) ==
  LET id == TokenId(ckCall[h].token) IN
  /\ At(h, "token")
  /\ IF ~TokenFresh(ckCall[h].token)
     THEN Goes(h, Idle) /\ UNCHANGED ckSeen
     ELSE IF id \in Collected
     THEN Goes(h, Idle) /\ ckSeen' = Collected
     ELSE /\ ckSeen' = Collected \cup {id}
          /\ Goes(h, [ckCall[h] EXCEPT !.pc = "user"])
  /\ UNCHANGED <<ckNow, ckForgot, ckRestarts, ckTable, ckHandle, ckJar>>

\* The user is looked up, and the session inserted by a statement of its own.
FindUser(h) ==
  /\ At(h, "user")
  /\ Goes(h, IF ckCall[h].token.user \in Registered
             THEN [ckCall[h] EXCEPT !.pc = "insert"] ELSE Idle)
  /\ UNCHANGED <<ckNow, ckGuard, ckTable, ckHandle, ckJar>>

CreateSession(h) ==
  LET t == ckCall[h].token IN
  /\ At(h, "insert")
  /\ \/ /\ ckMinted < MaxRows /\ ckMinted' = ckMinted + 1
        /\ ckRows' = [ckRows EXCEPT ![ckMinted'] = [user |-> t.user, caps |-> t.caps]]
        /\ Goes(h, [ckCall[h] EXCEPT !.pc = "answer", !.secret = ckMinted'])
        /\ ckMade' = [ckMade EXCEPT ![TokenId(t)] = @ + 1]
     \/ /\ Goes(h, Idle) /\ UNCHANGED <<ckRows, ckMinted, ckMade>>
  /\ UNCHANGED <<ckNow, ckGuard, ckHandle, ckJar>>

\* Set-Cookie under the user's key: a native process reads the secret, a page
\* does not see it and leaves it to the jar.
SetCookie(h, user, s) ==
  ckJar' = IF h \in Browser THEN [ckJar EXCEPT ![user] = s] ELSE ckJar

\* from_response: the record in the body makes the credential.
SignedIn(h) ==
  LET t == ckCall[h].token IN
  /\ At(h, "answer")
  /\ ckHandle' = [ckHandle EXCEPT ![h] =
       [user |-> t.user, cookie |-> IF h \in Browser THEN 0 ELSE ckCall[h].secret,
        caps |-> t.caps, bound |-> TRUE, gone |-> 0, out |-> FALSE, blind |-> FALSE]]
  /\ SetCookie(h, t.user, ckCall[h].secret)
  /\ Goes(h, Idle)
  /\ UNCHANGED <<ckNow, ckGuard, ckTable>>

\* An answer that does not arrive: the call fails, what was done stays done.
AnswerLost(h) ==
  /\ ckCall[h].pc \in {"answer", "deleted"}
  /\ Goes(h, Idle)
  /\ UNCHANGED <<ckNow, ckGuard, ckTable, ckHandle, ckJar>>

------------------------------------------------------------------------------
(* Using a session.                                                         *)

\* attach: the captured secret, or whatever the jar has for the user by now.
Attached(h) == IF h \in Browser THEN ckJar[ckHandle[h].user] ELSE ckHandle[h].cookie

\* The middleware takes the cookie named after the tenant, and the row must be
\* that tenant's.  A lookup that fails is no session either: the error is dropped
\* and the request goes on without one.
ResolveCookie(secret, tenant, failed) ==
  IF ~failed /\ secret # 0 /\ ckRows[secret] # None /\ ckRows[secret].user = tenant
  THEN secret ELSE 0

Open(h) == ckHandle[h] # None /\ ~ckHandle[h].out /\ At(h, "idle")

\* An unbound session asks where its user's homeserver is; a failed lookup
\* leaves the routing to the user's URL, any other error ends the call.
HomeFound == {"bound", "unknown"}

\* GET /session: the record is replaced, and the session bound once its
\* homeserver is known.  A session that is missing, or is not found because the
\* lookup failed, changes nothing.
Revalidate(h, home) ==
  LET s == ResolveCookie(Attached(h), ckHandle[h].user, FALSE) IN
  /\ Open(h) /\ home \in HomeFound /\ s # 0
  /\ ckHandle' = [ckHandle EXCEPT ![h].caps = ckRows[s].caps,
                                  ![h].bound = @ \/ home = "bound"]
  /\ UNCHANGED <<ckNow, ckGuard, ckTable, ckCall, ckJar>>

\* import_secret, from_secret_file (user and secret) and, in the browser,
\* import (the record): nothing but a revalidation makes them a session.
Import(h, from, home) ==
  LET u == ckHandle[from].user
      secret == IF h \in Browser THEN ckJar[u] ELSE ckHandle[from].cookie
      s == ResolveCookie(secret, u, FALSE)
  IN /\ At(h, "idle") /\ ckHandle[h] = None /\ ckHandle[from] # None
     /\ h \in Browser <=> from \in Browser
     /\ home \in HomeFound /\ s # 0
     /\ ckHandle' = [ckHandle EXCEPT ![h] =
          [user |-> u, cookie |-> IF h \in Browser THEN 0 ELSE secret,
           caps |-> ckRows[s].caps, bound |-> home = "bound", gone |-> 0, out |-> FALSE,
           blind |-> FALSE]]
     /\ UNCHANGED <<ckNow, ckGuard, ckTable, ckCall, ckJar>>

\* signout: DELETE /session.  The session the middleware found goes with the
\* notification to open streams in one transaction, which may fail.  Without one
\* there is nothing to do, and the answer is success.
SendSignout(h, failed) ==
  /\ Open(h)
  /\ Goes(h, [Idle EXCEPT !.pc = "delete", !.secret = Attached(h), !.blind = failed,
                          !.found = ResolveCookie(Attached(h), ckHandle[h].user, failed)])
  /\ UNCHANGED <<ckNow, ckGuard, ckTable, ckHandle, ckJar>>

DeleteRow(secret) == IF secret = 0 THEN ckRows ELSE [ckRows EXCEPT ![secret] = None]

HandleSignout(h) ==
  /\ At(h, "delete")
  /\ \/ ckRows' = DeleteRow(ckCall[h].found) /\ Goes(h, [ckCall[h] EXCEPT !.pc = "deleted"])
     \/ ckCall[h].found # 0 /\ Goes(h, Idle) /\ UNCHANGED ckRows
  /\ UNCHANGED <<ckNow, ckGuard, ckMinted, ckMade, ckHandle, ckJar>>

\* The answer removes the cookie from the jar, with or without a session, and
\* ends the handle; an error gives it back.
SignedOut(h) ==
  /\ At(h, "deleted")
  /\ ckHandle' = [ckHandle EXCEPT ![h].out = TRUE, ![h].gone = ckCall[h].secret,
                                  ![h].blind = ckCall[h].blind]
  /\ SetCookie(h, ckHandle[h].user, 0)
  /\ Goes(h, Idle)
  /\ UNCHANGED <<ckNow, ckGuard, ckTable>>

------------------------------------------------------------------------------
\* The guard lives in memory.
Restart ==
  /\ ckRestarts < MaxRestarts /\ ckRestarts' = ckRestarts + 1
  /\ ckForgot' = ckForgot \cup ckSeen /\ ckSeen' = {}
  /\ ckCall' = [h \in CkHandles |-> Idle]
  /\ UNCHANGED <<ckNow, ckTable, ckHandle, ckJar>>

Tick ==
  /\ ckNow < MaxTime /\ ckNow' = ckNow + 1
  /\ UNCHANGED <<ckGuard, ckTable, ckHandle, ckCall, ckJar>>

CkNext ==
  \/ \E h \in CkHandles :
       \/ \E t \in Tokens : PostToken(h, t)
       \/ VerifyToken(h) \/ FindUser(h) \/ CreateSession(h) \/ SignedIn(h) \/ AnswerLost(h)
       \/ \E home \in HomeFound : \/ Revalidate(h, home)
                                  \/ \E from \in CkHandles : Import(h, from, home)
       \/ \E failed \in BOOLEAN : SendSignout(h, failed)
       \/ HandleSignout(h) \/ SignedOut(h)
  \/ Restart \/ Tick

CkSpec == CkInit /\ [][CkNext]_ckVars

------------------------------------------------------------------------------
\* A signed token opens one session, however often it is posted and whatever the
\* guard has collected meanwhile.  Only a restart makes the guard forget an id
\* that is still in its window.
TokenOpensOneSession ==
  \A i \in TokenIds : ckMade[i] <= 1 \/ i \in ckForgot

\* When signout reports success, the session of the secret it sent is gone, for
\* every other handle of the same secret too: it was deleted, or had been before.
\* The one exception is a lookup of the cookie that failed at the database: the
\* signout is answered with success although nothing was deleted.
SignoutEndsSession ==
  \A h \in CkHandles :
    ckHandle[h] # None /\ ckHandle[h].out /\ ckHandle[h].gone # 0 /\ ~ckHandle[h].blind
      => ckRows[ckHandle[h].gone] = None

\* One session per signed token, and none after its signout (cookie/verifier.rs,
\* cookie/routes.rs, sdk cookie/credential.rs).
CookieSessionsSound == CkTypeOK /\ TokenOpensOneSession /\ SignoutEndsSession
==============================================================================
