------------------------------- MODULE SdkProofs -------------------------------
(***************************************************************************)
(* Proofs about the SDK's two kinds of session, the flow that opens them and *)
(* the reader of event streams, for any number of tokens, handles, tabs,     *)
(* calls, messages, users and events.                                        *)
(***************************************************************************)
EXTENDS CookieSessions, SharedSession, AuthFlow, EventReader, FiniteSetTheorems, TLAPS

-----------------------------------------------------------------------------
(* Cookie sessions.                                                         *)

Spending(h) == ckCall[h].pc \in {"user", "insert"}

\* What a call carries at each step.
CkCallInv ==
    \A h \in CkHandles :
       /\ ckCall[h].pc \in {"token", "user", "insert", "answer"} => ckCall[h].token \in Tokens
       /\ ckCall[h].pc \in {"delete", "deleted"} => ckHandle[h] # None
       /\ ckCall[h].pc \in {"delete", "deleted"} => ckCall[h].secret <= ckMinted
       /\ ckCall[h].pc = "delete" /\ ckCall[h].secret # 0 /\ ~ckCall[h].blind =>
             ckCall[h].found = ckCall[h].secret \/ ckRows[ckCall[h].secret] = None
       /\ ckCall[h].pc = "deleted" /\ ckCall[h].secret # 0 /\ ~ckCall[h].blind =>
             ckRows[ckCall[h].secret] = None

\* Secrets are handed out in order, and what was deleted stays deleted.
CkRowInv ==
    /\ \A s \in 1..MaxRows : s > ckMinted => ckRows[s] = None
    /\ \A h \in CkHandles : ckHandle[h] # None /\ ckHandle[h].gone # 0 =>
          /\ ckHandle[h].gone <= ckMinted
          /\ ~ckHandle[h].blind => ckRows[ckHandle[h].gone] = None

\* A secret that was handed out for u: its row, while there is one, is u's.
Owns(rows, n, s, u) == s # 0 => s <= n /\ (rows[s] # None => rows[s].user = u)

\* Secrets stay with the user they were handed out for, so that a cookie whose row
\* exists is resolved for the tenant it is sent to.
CkOwnInv ==
    /\ \A h \in CkHandles : ckHandle[h] # None =>
          Owns(ckRows, ckMinted, ckHandle[h].cookie, ckHandle[h].user)
    /\ \A u \in Keys : Owns(ckRows, ckMinted, ckJar[u], u)
    /\ \A h \in CkHandles : ckCall[h].pc = "answer" =>
          Owns(ckRows, ckMinted, ckCall[h].secret, ckCall[h].token.user)

\* An id was spent, and a verification that still accepts its timestamp finds it.
Remembered(i) == i \in ckSeen \/ i \in ckForgot \/ ckNow > i[1] + 2 * TimestampWindow

\* At most one call or one session stands for an id the guard did not lose.
CkTokenInv ==
    /\ \A i \in TokenIds : ckMade[i] > 0 => Remembered(i)
    /\ \A h \in CkHandles : Spending(h) => Remembered(TokenId(ckCall[h].token))
    /\ \A i \in TokenIds : i \notin ckForgot => ckMade[i] <= 1
    /\ \A h \in CkHandles : Spending(h) /\ TokenId(ckCall[h].token) \notin ckForgot =>
          /\ ckMade[TokenId(ckCall[h].token)] = 0
          /\ \A g \in CkHandles : g # h /\ Spending(g) =>
                TokenId(ckCall[g].token) # TokenId(ckCall[h].token)

CkInv == CkTypeOK /\ CkCallInv /\ CkRowInv /\ CkOwnInv /\ CkTokenInv

LEMMA CookieConstants ==
    /\ MaxTime \in Nat /\ MaxRows \in Nat /\ MaxRestarts \in Nat
    /\ \A t \in Tokens : /\ t.ts \in Nat /\ t.caps \in STRING /\ t.user \in Keys
                         /\ TokenId(t) \in TokenIds /\ TokenId(t)[1] = t.ts
    /\ \A i \in TokenIds : i[1] \in Nat
    /\ None \notin RowType /\ None \notin HandleType
    /\ Idle \in CallType /\ TimestampWindow = 1
  BY CookieAssumption DEF Keys, TokenIds, TokenId, Idle, CallType, Secrets, TimestampWindow

\* What Goes does to the calls.
LEMMA CallMoves ==
    ASSUME CkTypeOK, NEW h \in CkHandles, NEW c \in CallType, Goes(h, c)
    PROVE  /\ ckCall' \in [CkHandles -> CallType]
           /\ ckCall'[h] = c
           /\ \A g \in CkHandles : g # h => ckCall'[g] = ckCall[g]
  BY DEF CkTypeOK, Goes

LEMMA CallFields ==
    ASSUME CkTypeOK, NEW h \in CkHandles
    PROVE  /\ ckCall[h] \in CallType
           /\ ckCall[h].pc \in {"idle", "token", "user", "insert", "answer", "delete", "deleted"}
           /\ ckCall[h].token \in Tokens \cup {None} /\ ckCall[h].secret \in 0..MaxRows
           /\ ckCall[h].found \in 0..MaxRows /\ ckCall[h].blind \in BOOLEAN
           /\ ckHandle[h] # None => ckHandle[h] \in HandleType
           /\ \A pc \in {"user", "insert", "answer", "deleted"} :
                 /\ [ckCall[h] EXCEPT !.pc = pc] \in CallType
                 /\ [ckCall[h] EXCEPT !.pc = pc].pc = pc
                 /\ [ckCall[h] EXCEPT !.pc = pc].token = ckCall[h].token
                 /\ [ckCall[h] EXCEPT !.pc = pc].secret = ckCall[h].secret
                 /\ [ckCall[h] EXCEPT !.pc = pc].blind = ckCall[h].blind
  <1>1. ckCall[h] \in CallType
    BY DEF CkTypeOK
  <1>2. ckHandle[h] # None => ckHandle[h] \in HandleType
    BY DEF CkTypeOK
  <1> QED BY <1>1, <1>2 DEF CallType, Secrets

\* A step that spends no token, makes no session and deletes none: what the other
\* parts of the invariant say of one call is all there is to show.
LEMMA QuietCall ==
    ASSUME CkInv, NEW h \in CkHandles, NEW c \in CallType, Goes(h, c),
           c.pc \notin {"user", "insert"} \/ (Spending(h) /\ c.token = ckCall[h].token),
           UNCHANGED <<ckNow, ckGuard, ckTable>>
    PROVE  CkTokenInv'
  <1>1. /\ ckCall'[h] = c
        /\ \A g \in CkHandles : g # h => ckCall'[g] = ckCall[g]
    BY CallMoves DEF CkInv
  <1>2. \A g \in CkHandles : Spending(g)' =>
            Spending(g) /\ ckCall'[g].token = ckCall[g].token
    BY <1>1 DEF Spending
  <1>3. \A i : Remembered(i)' <=> Remembered(i)
    BY DEF Remembered, ckGuard
  <1> QED BY <1>2, <1>3 DEF CkInv, CkTokenInv, ckTable, ckGuard, TokenId

LEMMA QuietOwn ==
    ASSUME CkInv, NEW h \in CkHandles, NEW c \in CallType, Goes(h, c), c.pc # "answer",
           UNCHANGED <<ckTable, ckHandle, ckJar>>
    PROVE  CkOwnInv'
  <1>1. /\ ckCall'[h] = c
        /\ \A g \in CkHandles : g # h => ckCall'[g] = ckCall[g]
    BY CallMoves DEF CkInv
  <1> QED BY <1>1 DEF CkInv, CkOwnInv, ckTable

LEMMA CookieInit == CkInit => CkInv
  <1> SUFFICES ASSUME CkInit PROVE CkInv
    OBVIOUS
  <1>1. CkTypeOK
    BY CookieConstants DEF CkInit, CkTypeOK, Secrets
  <1>2. \A h \in CkHandles : ckCall[h].pc = "idle" /\ ckHandle[h] = None
    BY DEF CkInit, Idle
  <1>3. CkCallInv /\ CkTokenInv
    BY <1>1, <1>2 DEF CkInit, CkCallInv, CkTokenInv, Spending, CkTypeOK
  <1>4. CkRowInv /\ CkOwnInv
    BY <1>1, <1>2 DEF CkInit, CkRowInv, CkOwnInv, Owns
  <1> QED BY <1>1, <1>3, <1>4 DEF CkInv

-----------------------------------------------------------------------------
(* Each step.                                                               *)

LEMMA PostTokenKeeps ==
    ASSUME CkInv, NEW h \in CkHandles, NEW t \in Tokens, PostToken(h, t) PROVE CkInv'
  <1> DEFINE c == [Idle EXCEPT !.pc = "token", !.token = t]
  <1>1. c \in CallType /\ c.pc = "token" /\ c.token = t
    BY CookieConstants DEF CallType
  <1>2. Goes(h, c) /\ UNCHANGED <<ckNow, ckGuard, ckTable, ckHandle, ckJar>>
    BY DEF PostToken
  <1> HIDE DEF c
  <1>3. /\ ckCall' \in [CkHandles -> CallType] /\ ckCall'[h] = c
        /\ \A g \in CkHandles : g # h => ckCall'[g] = ckCall[g]
    BY <1>1, <1>2, CallMoves DEF CkInv
  <1>4. CkTypeOK' /\ CkCallInv' /\ CkRowInv'
    BY <1>1, <1>2, <1>3 DEF CkInv, CkTypeOK, CkCallInv, CkRowInv, ckGuard, ckTable
  <1>5. CkTokenInv' /\ CkOwnInv'
    BY <1>1, <1>2, QuietCall, QuietOwn
  <1> QED BY <1>4, <1>5 DEF CkInv

LEMMA EndsKeep ==
    ASSUME CkInv, NEW h \in CkHandles, Goes(h, Idle),
           UNCHANGED <<ckNow, ckGuard, ckTable, ckHandle, ckJar>>
    PROVE  CkInv'
  <1>1. Idle \in CallType /\ Idle.pc = "idle"
    BY CookieConstants DEF Idle
  <1>3. /\ ckCall' \in [CkHandles -> CallType] /\ ckCall'[h] = Idle
        /\ \A g \in CkHandles : g # h => ckCall'[g] = ckCall[g]
    BY <1>1, CallMoves DEF CkInv
  <1>4. CkTypeOK' /\ CkCallInv' /\ CkRowInv'
    BY <1>1, <1>3 DEF CkInv, CkTypeOK, CkCallInv, CkRowInv, ckGuard, ckTable
  <1>5. CkTokenInv' /\ CkOwnInv'
    BY <1>1, QuietCall, QuietOwn
  <1> QED BY <1>4, <1>5 DEF CkInv

\* The collection drops only ids whose timestamp no verification accepts any more.
LEMMA CollectedRemembers ==
    ASSUME CkInv, Collected \subseteq ckSeen', UNCHANGED <<ckNow, ckForgot>>
    PROVE  \A i \in TokenIds : Remembered(i) => Remembered(i)'
  BY CookieConstants DEF CkInv, CkTypeOK, Remembered, Collected

LEMMA VerifyTokenKeeps ==
    ASSUME CkInv, NEW h \in CkHandles, VerifyToken(h) PROVE CkInv'
  <1> DEFINE t == ckCall[h].token
  <1>1. ckCall[h].pc = "token" /\ t \in Tokens
    BY DEF VerifyToken, At, CkInv, CkCallInv
  <1>2. /\ t.ts \in Nat /\ TokenId(t) \in TokenIds /\ TokenId(t)[1] = t.ts
        /\ ckNow \in Nat
    BY <1>1, CookieConstants DEF CkInv, CkTypeOK
  <1>3. UNCHANGED <<ckNow, ckForgot, ckRestarts, ckTable, ckHandle, ckJar>>
    BY DEF VerifyToken
  <1>4. CASE Goes(h, Idle) /\ (ckSeen' = ckSeen \/ ckSeen' = Collected)
    <2>1. Idle \in CallType /\ Idle.pc = "idle"
      BY CookieConstants DEF Idle
    <2>2. /\ ckCall' \in [CkHandles -> CallType] /\ ckCall'[h] = Idle
          /\ \A g \in CkHandles : g # h => ckCall'[g] = ckCall[g]
      BY <1>4, <2>1, CallMoves DEF CkInv
    <2>3. CkTypeOK' /\ CkCallInv' /\ CkRowInv'
      BY <1>3, <1>4, <2>1, <2>2 DEF CkInv, CkTypeOK, CkCallInv, CkRowInv, ckTable, Collected
    <2>4. \A i \in TokenIds : Remembered(i) => Remembered(i)'
      BY <1>3, <1>4, CollectedRemembers DEF Collected
    <2>5. \A g \in CkHandles : Spending(g)' =>
            g # h /\ Spending(g) /\ ckCall'[g] = ckCall[g] /\ TokenId(ckCall[g].token) \in TokenIds
      BY <2>1, <2>2, CookieConstants DEF Spending, CkInv, CkCallInv
    <2>6. CkTokenInv'
      <3>1. UNCHANGED <<ckForgot, ckMade>> /\ CkTokenInv
        BY <1>3 DEF CkInv, ckTable
      <3>2. /\ \A i \in TokenIds : ckMade'[i] > 0 => Remembered(i)'
            /\ \A i \in TokenIds : i \notin ckForgot' => ckMade'[i] <= 1
        BY <2>4, <3>1 DEF CkTokenInv
      <3>3. ASSUME NEW g \in CkHandles, Spending(g)' PROVE Remembered(TokenId(ckCall[g].token))'
        <4>1. \A i : i = TokenId(ckCall[g].token) => Remembered(i)'
          BY <2>4, <2>5, <3>1, <3>3 DEF CkTokenInv
        <4> QED BY <2>5, <3>3, <4>1 DEF TokenId
      <3>4. ASSUME NEW g \in CkHandles, Spending(g)', TokenId(ckCall'[g].token) \notin ckForgot'
            PROVE  /\ ckMade'[TokenId(ckCall'[g].token)] = 0
                   /\ \A e \in CkHandles : e # g /\ Spending(e)' =>
                         TokenId(ckCall'[e].token) # TokenId(ckCall'[g].token)
        BY <2>5, <3>1, <3>4 DEF CkTokenInv
      <3> QED BY <3>2, <3>3, <3>4 DEF CkTokenInv, TokenId
    <2>7. CkOwnInv'
      BY <1>3, <1>4, <2>1, QuietOwn
    <2> QED BY <2>3, <2>6, <2>7 DEF CkInv
  <1>5. CASE /\ TokenFresh(t) /\ TokenId(t) \notin Collected
             /\ ckSeen' = Collected \cup {TokenId(t)}
             /\ Goes(h, [ckCall[h] EXCEPT !.pc = "user"])
    <2> DEFINE c == [ckCall[h] EXCEPT !.pc = "user"]
    <2>1. c \in CallType /\ c.pc = "user" /\ c.token = t
      BY CallFields DEF CkInv
    <2> HIDE DEF c
    <2>2. /\ ckCall' \in [CkHandles -> CallType] /\ ckCall'[h] = c
          /\ \A g \in CkHandles : g # h => ckCall'[g] = ckCall[g]
      BY <1>5, <2>1, CallMoves DEF CkInv, c
    <2>t. CkTypeOK'
      BY <1>2, <1>3, <1>5, <2>2 DEF CkInv, CkTypeOK, ckTable, Collected
    <2>c. CkCallInv'
      BY <1>1, <1>3, <2>1, <2>2 DEF CkInv, CkCallInv, ckTable
    <2>3. CkTypeOK' /\ CkCallInv' /\ CkRowInv'
      BY <1>3, <2>t, <2>c DEF CkInv, CkRowInv, ckTable
    <2>4. \A i \in TokenIds : Remembered(i) => Remembered(i)'
      BY <1>3, <1>5, CollectedRemembers
    <2>5. TokenId(t) \notin ckForgot => ~Remembered(TokenId(t))
      BY <1>2, <1>5, CookieConstants DEF Remembered, Collected, TokenFresh
    <2>6. \A i : i = TokenId(t) => Remembered(i)'
      BY <1>5 DEF Remembered
    <2>7. \A g \in CkHandles : g # h /\ Spending(g)' =>
            Spending(g) /\ ckCall'[g] = ckCall[g] /\ TokenId(ckCall[g].token) \in TokenIds
      BY <2>1, <2>2, CookieConstants DEF Spending, CkInv, CkCallInv
    <2>8. TokenId(t) \notin ckForgot =>
            /\ ckMade[TokenId(t)] = 0
            /\ \A g \in CkHandles : Spending(g) => TokenId(ckCall[g].token) # TokenId(t)
      BY <1>2, <2>5 DEF CkInv, CkTokenInv, CkTypeOK
    <2>9. ckCall'[h].token = t
      BY <2>1, <2>2
    <2>10. \A g \in CkHandles : TokenId(ckCall[g].token)' = TokenId(ckCall'[g].token)
      BY DEF TokenId
    <2>11. CkTokenInv'
      BY <1>2, <1>3, <2>4, <2>6, <2>7, <2>8, <2>9, <2>10 DEF CkInv, CkTokenInv, ckTable
    <2>12. CkOwnInv'
      BY <1>3, <1>5, <2>1, QuietOwn DEF c
    <2> QED BY <2>3, <2>11, <2>12 DEF CkInv
  <1> QED BY <1>4, <1>5 DEF VerifyToken
LEMMA FindUserKeeps ==
    ASSUME CkInv, NEW h \in CkHandles, FindUser(h) PROVE CkInv'
  <1> DEFINE c == [ckCall[h] EXCEPT !.pc = "insert"]
  <1>1. UNCHANGED <<ckNow, ckGuard, ckTable, ckHandle, ckJar>> /\ ckCall[h].pc = "user"
    BY DEF FindUser, At
  <1>2. CASE Goes(h, c)
    <2>1. c \in CallType /\ c.pc = "insert" /\ c.token = ckCall[h].token
      BY CallFields DEF CkInv
    <2>2. ckCall[h].token \in Tokens /\ Spending(h)
      BY <1>1 DEF CkInv, CkCallInv, Spending
    <2> HIDE DEF c
    <2>3. /\ ckCall' \in [CkHandles -> CallType] /\ ckCall'[h] = c
          /\ \A g \in CkHandles : g # h => ckCall'[g] = ckCall[g]
      BY <1>2, <2>1, CallMoves DEF CkInv
    <2>4. CkTypeOK' /\ CkCallInv' /\ CkRowInv'
      BY <1>1, <2>1, <2>2, <2>3 DEF CkInv, CkTypeOK, CkCallInv, CkRowInv, ckGuard, ckTable
    <2>5. CkTokenInv' /\ CkOwnInv'
      BY <1>1, <1>2, <2>1, <2>2, QuietCall, QuietOwn
    <2> QED BY <2>4, <2>5 DEF CkInv
  <1>3. CASE Goes(h, Idle)
    BY <1>1, <1>3, EndsKeep
  <1> QED BY <1>2, <1>3 DEF FindUser

LEMMA CreateSessionKeeps ==
    ASSUME CkInv, NEW h \in CkHandles, CreateSession(h) PROVE CkInv'
  <1> DEFINE t == ckCall[h].token
             c == [ckCall[h] EXCEPT !.pc = "answer", !.secret = ckMinted + 1]
             row == [user |-> t.user, caps |-> t.caps]
  <1>1. /\ UNCHANGED <<ckNow, ckGuard, ckHandle, ckJar>>
        /\ ckCall[h].pc = "insert" /\ t \in Tokens /\ Spending(h)
    BY DEF CreateSession, At, CkInv, CkCallInv, Spending
  <1>2. CASE /\ ckMinted < MaxRows /\ ckMinted' = ckMinted + 1
             /\ ckRows' = [ckRows EXCEPT ![ckMinted'] = row]
             /\ Goes(h, [ckCall[h] EXCEPT !.pc = "answer", !.secret = ckMinted'])
             /\ ckMade' = [ckMade EXCEPT ![TokenId(t)] = @ + 1]
    <2>1. /\ ckMinted \in 0..MaxRows /\ ckMinted + 1 \in 1..MaxRows /\ ckMinted' \in Secrets
          /\ MaxRows \in Nat
      BY <1>2, CookieConstants DEF CkInv, CkTypeOK, Secrets
    <2>2. ckCall[h] \in CallType
      BY CallFields DEF CkInv
    <2>3. c \in CallType /\ c.pc = "answer" /\ c.token = t /\ c.secret = ckMinted + 1
      <3>1. ckMinted + 1 \in Secrets
        BY <2>1 DEF Secrets
      <3> QED BY <2>2, <3>1 DEF CallType
    <2>4. row \in RowType /\ row.user = t.user
      BY <1>1, CookieConstants DEF RowType
    <2> HIDE DEF c, row
    <2>5. Goes(h, c)
      BY <1>2 DEF c
    <2>6. /\ ckCall' \in [CkHandles -> CallType] /\ ckCall'[h] = c
          /\ \A g \in CkHandles : g # h => ckCall'[g] = ckCall[g]
      BY <2>3, <2>5, CallMoves DEF CkInv
    <2>7. /\ ckRows' \in [1..MaxRows -> RowType \cup {None}]
          /\ \A s \in 1..MaxRows : s # ckMinted + 1 => ckRows'[s] = ckRows[s]
          /\ ckRows'[ckMinted + 1] = row
      BY <1>2, <2>1, <2>4 DEF CkInv, CkTypeOK
    <2>8. TokenId(t) \in TokenIds
      BY <1>1, CookieConstants
    <2>9. /\ ckMade' \in [TokenIds -> Nat]
          /\ ckMade'[TokenId(t)] = ckMade[TokenId(t)] + 1
          /\ \A i \in TokenIds : i # TokenId(t) => ckMade'[i] = ckMade[i]
      BY <1>2, <2>8 DEF CkInv, CkTypeOK
    <2>10. CkTypeOK'
      BY <1>1, <2>1, <2>6, <2>7, <2>9 DEF CkInv, CkTypeOK, ckGuard
    <2>11. CkCallInv'
      <3>1. \A g \in CkHandles : ckCall[g].secret \in 0..MaxRows
        BY CallFields DEF CkInv
      <3> QED BY <1>1, <1>2, <2>1, <2>3, <2>6, <2>7, <3>1 DEF CkInv, CkCallInv
    <2>12. CkRowInv'
      <3>1. \A g \in CkHandles : ckHandle[g] # None => ckHandle[g].gone \in 0..MaxRows
        BY CallFields DEF CkInv, HandleType, Secrets
      <3> QED BY <1>1, <1>2, <2>1, <2>7, <3>1 DEF CkInv, CkRowInv
    <2>13. \A i : Remembered(i)' <=> Remembered(i)
      BY <1>1 DEF Remembered, ckGuard
    <2>14. \A g \in CkHandles : Spending(g)' =>
            /\ g # h /\ Spending(g) /\ ckCall'[g] = ckCall[g]
            /\ TokenId(ckCall[g].token) \in TokenIds
      BY <2>3, <2>6, CookieConstants DEF Spending, CkInv, CkCallInv
    <2>15. \A g \in CkHandles : TokenId(ckCall[g].token)' = TokenId(ckCall'[g].token)
      BY DEF TokenId
    <2>16. ckForgot' = ckForgot
      BY <1>1 DEF ckGuard
    <2>17. CkTokenInv'
      <3>1. TokenId(t) \notin ckForgot =>
              /\ ckMade[TokenId(t)] = 0
              /\ \A g \in CkHandles : g # h /\ Spending(g) => TokenId(ckCall[g].token) # TokenId(t)
        BY <1>1 DEF CkInv, CkTokenInv
      <3>2. Remembered(TokenId(t))
        BY <1>1 DEF CkInv, CkTokenInv
      <3>3. \A i \in TokenIds : /\ ckMade'[i] > 0 => Remembered(i)'
                                /\ i \notin ckForgot => ckMade'[i] <= 1
        BY <2>8, <2>9, <2>13, <3>1, <3>2 DEF CkInv, CkTokenInv
      <3>4. \A g \in CkHandles : Spending(g)' =>
              /\ Remembered(TokenId(ckCall'[g].token))
              /\ TokenId(ckCall[g].token) \notin ckForgot =>
                    /\ ckMade'[TokenId(ckCall[g].token)] = 0
                    /\ \A f \in CkHandles : f # g /\ Spending(f)' =>
                          TokenId(ckCall[f].token) # TokenId(ckCall[g].token)
        BY <2>9, <2>14, <3>1 DEF CkInv, CkTokenInv
      <3> QED BY <2>13, <2>14, <2>15, <2>16, <3>3, <3>4 DEF CkTokenInv
    <2>18. CkOwnInv'
      <3>1. \A u : \A s \in 0..MaxRows : Owns(ckRows, ckMinted, s, u) => Owns(ckRows', ckMinted', s, u)
        BY <1>2, <2>1, <2>7 DEF Owns
      <3>2. Owns(ckRows', ckMinted', ckMinted + 1, t.user)
        BY <1>2, <2>1, <2>4, <2>7 DEF Owns
      <3>3. /\ \A g \in CkHandles : ckCall[g].secret \in 0..MaxRows
            /\ \A g \in CkHandles : ckHandle[g] # None => ckHandle[g].cookie \in 0..MaxRows
            /\ \A u \in Keys : ckJar[u] \in 0..MaxRows
        BY CallFields DEF CkInv, CkTypeOK, HandleType, Secrets
      <3> QED BY <1>1, <2>3, <2>6, <3>1, <3>2, <3>3 DEF CkInv, CkOwnInv
    <2> QED BY <2>10, <2>11, <2>12, <2>17, <2>18 DEF CkInv
  <1>3. CASE Goes(h, Idle) /\ UNCHANGED <<ckRows, ckMinted, ckMade>>
    BY <1>1, <1>3, EndsKeep DEF ckTable
  <1> QED BY <1>2, <1>3 DEF CreateSession

\* A step that only makes or changes the handle of h, which keeps its account of
\* deleted sessions, and may move a cookie into the jar.
LEMMA HandleKeeps ==
    ASSUME CkInv, NEW h \in CkHandles, NEW r \in HandleType,
           ckHandle' = [ckHandle EXCEPT ![h] = r],
           r.gone # 0 => r.gone <= ckMinted /\ (~r.blind => ckRows[r.gone] = None),
           Owns(ckRows, ckMinted, r.cookie, r.user),
           \A u \in Keys : Owns(ckRows, ckMinted, ckJar'[u], u),
           UNCHANGED <<ckNow, ckGuard, ckTable>>,
           ckJar' \in [Keys -> Secrets],
           ckCall' = ckCall \/ Goes(h, Idle)
    PROVE  CkInv'
  <1>1. Idle \in CallType /\ Idle.pc = "idle"
    BY CookieConstants DEF Idle
  <1>2. /\ ckCall' \in [CkHandles -> CallType]
        /\ \A g \in CkHandles : ckCall'[g] = ckCall[g] \/ ckCall'[g] = Idle
    <2>1. CASE ckCall' = ckCall
      BY <2>1 DEF CkInv, CkTypeOK
    <2>2. CASE Goes(h, Idle)
      BY <1>1, <2>2, CallMoves DEF CkInv
    <2> QED BY <2>1, <2>2
  <1>3. /\ ckHandle' \in [CkHandles -> HandleType \cup {None}]
        /\ ckHandle'[h] = r /\ ckHandle'[h] # None
        /\ \A g \in CkHandles : g # h => ckHandle'[g] = ckHandle[g]
    BY CookieConstants DEF CkInv, CkTypeOK
  <1>4. CkTypeOK'
    BY <1>2, <1>3 DEF CkInv, CkTypeOK, ckGuard, ckTable
  <1>5. CkCallInv'
    BY <1>1, <1>2, <1>3 DEF CkInv, CkCallInv, ckTable
  <1>6. CkRowInv'
    BY <1>3 DEF CkInv, CkRowInv, ckTable
  <1>7. CkTokenInv'
    <2>1. CASE ckCall' = ckCall
      BY <2>1 DEF CkInv, CkTokenInv, Remembered, Spending, TokenId, ckTable, ckGuard
    <2>2. CASE Goes(h, Idle)
      BY <1>1, <2>2, QuietCall
    <2> QED BY <2>1, <2>2
  <1>8. CkOwnInv'
    BY <1>1, <1>2, <1>3 DEF CkInv, CkOwnInv, ckTable
  <1> QED BY <1>4, <1>5, <1>6, <1>7, <1>8 DEF CkInv

LEMMA SetCookieTypes ==
    ASSUME CkInv, NEW h \in CkHandles, NEW u \in Keys, NEW s \in Secrets, SetCookie(h, u, s),
           Owns(ckRows, ckMinted, s, u)
    PROVE  ckJar' \in [Keys -> Secrets] /\ \A v \in Keys : Owns(ckRows, ckMinted, ckJar'[v], v)
  BY DEF CkInv, CkTypeOK, CkOwnInv, SetCookie

LEMMA SignedInKeeps ==
    ASSUME CkInv, NEW h \in CkHandles, SignedIn(h) PROVE CkInv'
  <1> DEFINE t == ckCall[h].token
             r == [user |-> t.user, cookie |-> IF h \in Browser THEN 0 ELSE ckCall[h].secret,
                   caps |-> t.caps, bound |-> TRUE, gone |-> 0, out |-> FALSE, blind |-> FALSE]
  <1>1. t \in Tokens /\ t.user \in Keys /\ t.caps \in STRING /\ ckCall[h].secret \in 0..MaxRows
    BY CallFields, CookieConstants DEF SignedIn, At, CkInv, CkCallInv
  <1>2. r \in HandleType /\ r.gone = 0 /\ r.user = t.user /\ r.cookie \in {0, ckCall[h].secret}
    BY <1>1, CookieConstants DEF HandleType, Secrets
  <1>5. Owns(ckRows, ckMinted, ckCall[h].secret, t.user)
    BY DEF SignedIn, At, CkInv, CkOwnInv
  <1>3. ckHandle' = [ckHandle EXCEPT ![h] = r] /\ Goes(h, Idle)
        /\ SetCookie(h, t.user, ckCall[h].secret) /\ UNCHANGED <<ckNow, ckGuard, ckTable>>
    BY DEF SignedIn
  <1>4. ckJar' \in [Keys -> Secrets] /\ \A v \in Keys : Owns(ckRows, ckMinted, ckJar'[v], v)
    BY <1>1, <1>3, <1>5, SetCookieTypes DEF Secrets
  <1> HIDE DEF r
  <1>6. Owns(ckRows, ckMinted, r.cookie, r.user)
    BY <1>2, <1>5 DEF Owns
  <1> QED BY <1>2, <1>3, <1>4, <1>6, HandleKeeps

LEMMA CookieResolved ==
    ASSUME CkInv, NEW secret \in Secrets, NEW u, NEW failed \in BOOLEAN
    PROVE  LET s == ResolveCookie(secret, u, failed)
           IN  /\ s \in Secrets /\ s <= ckMinted
               /\ s # 0 => s \in 1..MaxRows /\ ckRows[s] \in RowType
               /\ Owns(ckRows, ckMinted, secret, u) /\ ~failed /\ secret # 0 =>
                     s = secret \/ ckRows[secret] = None
  BY CookieConstants DEF ResolveCookie, CkInv, CkTypeOK, CkRowInv, Secrets, Owns

LEMMA AttachedSecret ==
    ASSUME CkInv, NEW h \in CkHandles, ckHandle[h] # None
    PROVE  /\ Attached(h) \in Secrets /\ ckHandle[h].user \in Keys
           /\ Owns(ckRows, ckMinted, Attached(h), ckHandle[h].user)
  BY CallFields DEF Attached, CkInv, CkTypeOK, CkOwnInv, HandleType

LEMMA RevalidateKeeps ==
    ASSUME CkInv, NEW h \in CkHandles, NEW home \in HomeFound, Revalidate(h, home) PROVE CkInv'
  <1> DEFINE s == ResolveCookie(Attached(h), ckHandle[h].user, FALSE)
             b == ckHandle[h].bound \/ home = "bound"
             r == [ckHandle[h] EXCEPT !.caps = ckRows[s].caps, !.bound = b]
  <1>1. ckHandle[h] # None /\ ckHandle[h] \in HandleType
    BY CallFields DEF Revalidate, Open, CkInv
  <1>2. s # 0 /\ UNCHANGED <<ckNow, ckGuard, ckTable, ckCall, ckJar>>
        /\ ckHandle' = [ckHandle EXCEPT ![h].caps = ckRows[s].caps,
                                        ![h].bound = @ \/ home = "bound"]
    BY DEF Revalidate
  <1>3. ckRows[s].caps \in STRING
    BY <1>1, <1>2, AttachedSecret, CookieResolved DEF RowType
  <1> HIDE DEF s
  <1>4. b \in BOOLEAN
    BY <1>1 DEF HandleType
  <1>5. ckHandle' = [ckHandle EXCEPT ![h] = r]
    BY <1>2 DEF CkInv, CkTypeOK
  <1> HIDE DEF b
  <1>6. /\ r \in HandleType /\ r.gone = ckHandle[h].gone /\ r.blind = ckHandle[h].blind
        /\ r.cookie = ckHandle[h].cookie /\ r.user = ckHandle[h].user
    BY <1>1, <1>3, <1>4 DEF HandleType
  <1>7. /\ ckJar' \in [Keys -> Secrets] /\ ckCall' = ckCall
        /\ \A u \in Keys : Owns(ckRows, ckMinted, ckJar'[u], u)
    BY <1>2 DEF CkInv, CkTypeOK, CkOwnInv
  <1>8. /\ r.gone # 0 => r.gone <= ckMinted /\ (~r.blind => ckRows[r.gone] = None)
        /\ Owns(ckRows, ckMinted, r.cookie, r.user)
    BY <1>1, <1>6 DEF CkInv, CkRowInv, CkOwnInv
  <1> HIDE DEF r
  <1> QED BY <1>2, <1>5, <1>6, <1>7, <1>8, HandleKeeps

LEMMA ImportKeeps ==
    ASSUME CkInv, NEW h \in CkHandles, NEW from \in CkHandles, NEW home \in HomeFound,
           Import(h, from, home)
    PROVE  CkInv'
  <1> DEFINE u == ckHandle[from].user
             secret == IF h \in Browser THEN ckJar[u] ELSE ckHandle[from].cookie
             s == ResolveCookie(secret, u, FALSE)
             r == [user |-> u, cookie |-> IF h \in Browser THEN 0 ELSE secret,
                   caps |-> ckRows[s].caps, bound |-> home = "bound", gone |-> 0, out |-> FALSE,
                   blind |-> FALSE]
  <1>1. ckHandle[from] # None /\ s # 0 /\ ckHandle' = [ckHandle EXCEPT ![h] = r]
        /\ UNCHANGED <<ckNow, ckGuard, ckTable, ckCall, ckJar>>
    BY DEF Import
  <1>2. ckHandle[from] \in HandleType
    BY <1>1, CallFields DEF CkInv
  <1>3. u \in Keys /\ secret \in Secrets /\ Owns(ckRows, ckMinted, secret, u)
    BY <1>1, <1>2 DEF HandleType, CkInv, CkTypeOK, CkOwnInv
  <1>4. ckRows[s].caps \in STRING
    BY <1>1, <1>3, CookieResolved DEF RowType
  <1> HIDE DEF s, secret, u
  <1>5. r \in HandleType /\ r.gone = 0 /\ r.user = u /\ r.cookie \in {0, secret}
    BY <1>3, <1>4, CookieConstants DEF HandleType, Secrets
  <1>6. /\ ckJar' \in [Keys -> Secrets] /\ ckCall' = ckCall
        /\ \A v \in Keys : Owns(ckRows, ckMinted, ckJar'[v], v)
    BY <1>1 DEF CkInv, CkTypeOK, CkOwnInv
  <1> HIDE DEF r
  <1>7. Owns(ckRows, ckMinted, r.cookie, r.user)
    BY <1>3, <1>5 DEF Owns
  <1> QED BY <1>1, <1>5, <1>6, <1>7, HandleKeeps

LEMMA SendSignoutKeeps ==
    ASSUME CkInv, NEW h \in CkHandles, NEW failed \in BOOLEAN, SendSignout(h, failed) PROVE CkInv'
  <1> DEFINE sent == Attached(h)
             s == ResolveCookie(sent, ckHandle[h].user, failed)
             c == [Idle EXCEPT !.pc = "delete", !.secret = sent, !.blind = failed, !.found = s]
  <1>1. ckHandle[h] # None /\ Goes(h, c) /\ UNCHANGED <<ckNow, ckGuard, ckTable, ckHandle, ckJar>>
    BY DEF SendSignout, Open
  <1>2. /\ sent \in Secrets /\ s \in Secrets /\ (sent # 0 => sent <= ckMinted)
        /\ sent # 0 /\ ~failed => s = sent \/ ckRows[sent] = None
    BY <1>1, AttachedSecret, CookieResolved DEF Owns
  <1>z. ckMinted \in Nat
    BY DEF CkInv, CkTypeOK, Secrets
  <1> HIDE DEF s, sent
  <1>3. /\ c \in CallType /\ c.pc = "delete" /\ c.secret = sent /\ c.found = s
        /\ c.blind = failed
    BY <1>2, CookieConstants DEF CallType
  <1> HIDE DEF c
  <1>4. /\ ckCall' \in [CkHandles -> CallType] /\ ckCall'[h] = c
        /\ \A g \in CkHandles : g # h => ckCall'[g] = ckCall[g]
    BY <1>1, <1>3, CallMoves DEF CkInv
  <1>5. CkTypeOK' /\ CkCallInv' /\ CkRowInv'
    BY <1>1, <1>2, <1>3, <1>4, <1>z DEF CkInv, CkTypeOK, CkCallInv, CkRowInv, ckGuard, ckTable
  <1>6. CkTokenInv' /\ CkOwnInv'
    BY <1>1, <1>3, QuietCall, QuietOwn
  <1> QED BY <1>5, <1>6 DEF CkInv

LEMMA HandleSignoutKeeps ==
    ASSUME CkInv, NEW h \in CkHandles, HandleSignout(h) PROVE CkInv'
  <1> DEFINE c == [ckCall[h] EXCEPT !.pc = "deleted"]
  <1>1. ckCall[h].pc = "delete" /\ ckHandle[h] # None /\ ckCall[h].secret <= ckMinted
        /\ UNCHANGED <<ckNow, ckGuard, ckMinted, ckMade, ckHandle, ckJar>>
    BY DEF HandleSignout, At, CkInv, CkCallInv
  <1>2. CASE ckRows' = DeleteRow(ckCall[h].found) /\ Goes(h, c)
    <2>1. /\ c \in CallType /\ c.pc = "deleted" /\ c.secret = ckCall[h].secret
          /\ c.blind = ckCall[h].blind
          /\ ckCall[h].secret \in 0..MaxRows /\ ckCall[h].found \in 0..MaxRows
      BY CallFields DEF CkInv
    <2> HIDE DEF c
    <2>2. /\ ckCall' \in [CkHandles -> CallType] /\ ckCall'[h] = c
          /\ \A g \in CkHandles : g # h => ckCall'[g] = ckCall[g]
      BY <1>2, <2>1, CallMoves DEF CkInv
    <2>3. /\ ckRows' \in [1..MaxRows -> RowType \cup {None}]
          /\ ckCall[h].found # 0 => ckRows'[ckCall[h].found] = None
          /\ \A s \in 1..MaxRows : ckRows'[s] = ckRows[s] \/ ckRows'[s] = None
      BY <1>2, <2>1, CookieConstants DEF DeleteRow, CkInv, CkTypeOK
    <2>4. CkTypeOK'
      BY <1>1, <2>2, <2>3 DEF CkInv, CkTypeOK, ckGuard
    <2>5. /\ \A g \in CkHandles : ckCall[g].secret \in 0..MaxRows
          /\ \A g \in CkHandles : ckHandle[g] # None => ckHandle[g].gone \in 0..MaxRows
          /\ MaxRows \in Nat
      BY CallFields, CookieConstants DEF CkInv, HandleType, Secrets
    <2>c. CkCallInv'
      BY <1>1, <2>1, <2>2, <2>3, <2>5 DEF CkInv, CkCallInv
    <2>6. CkRowInv'
      BY <1>1, <2>3, <2>5 DEF CkInv, CkRowInv
    <2>o. CkOwnInv'
      <3>1. \A u : \A s \in 0..MaxRows : Owns(ckRows, ckMinted, s, u) => Owns(ckRows', ckMinted, s, u)
        BY <2>3 DEF Owns
      <3>3. /\ \A g \in CkHandles : ckHandle[g] # None => ckHandle[g].cookie \in 0..MaxRows
            /\ \A u \in Keys : ckJar[u] \in 0..MaxRows
        BY CallFields DEF CkInv, CkTypeOK, HandleType, Secrets
      <3> QED BY <1>1, <2>1, <2>2, <2>5, <3>1, <3>3 DEF CkInv, CkOwnInv
    <2>7. \A g \in CkHandles : Spending(g)' => Spending(g) /\ ckCall'[g] = ckCall[g]
      BY <2>1, <2>2 DEF Spending
    <2>8. CkTokenInv'
      BY <1>1, <2>7 DEF CkInv, CkTokenInv, Remembered, TokenId, ckGuard
    <2> QED BY <2>4, <2>6, <2>8, <2>c, <2>o DEF CkInv
  <1>3. CASE Goes(h, Idle) /\ UNCHANGED ckRows
    BY <1>1, <1>3, EndsKeep DEF ckTable
  <1> QED BY <1>2, <1>3 DEF HandleSignout

LEMMA SignedOutKeeps ==
    ASSUME CkInv, NEW h \in CkHandles, SignedOut(h) PROVE CkInv'
  <1> DEFINE r == [ckHandle[h] EXCEPT !.out = TRUE, !.gone = ckCall[h].secret,
                                     !.blind = ckCall[h].blind]
  <1>1. /\ ckHandle[h] # None /\ ckCall[h].secret <= ckMinted
        /\ ckCall[h].secret # 0 /\ ~ckCall[h].blind => ckRows[ckCall[h].secret] = None
        /\ ckHandle' = [ckHandle EXCEPT ![h].out = TRUE, ![h].gone = ckCall[h].secret,
                                        ![h].blind = ckCall[h].blind]
        /\ SetCookie(h, ckHandle[h].user, 0) /\ Goes(h, Idle)
        /\ UNCHANGED <<ckNow, ckGuard, ckTable>>
    BY DEF SignedOut, At, CkInv, CkCallInv
  <1>2. ckHandle[h] \in HandleType /\ ckCall[h].secret \in Secrets /\ 0 \in Secrets
        /\ ckCall[h].blind \in BOOLEAN
    <2>1. ckHandle[h] \in HandleType /\ ckCall[h].secret \in 0..MaxRows /\ ckCall[h].blind \in BOOLEAN
      BY <1>1, CallFields DEF CkInv
    <2> QED BY <2>1, CookieConstants DEF Secrets
  <1>3. /\ r \in HandleType /\ r.gone = ckCall[h].secret /\ r.blind = ckCall[h].blind
        /\ r.cookie = ckHandle[h].cookie /\ r.user = ckHandle[h].user
    BY <1>2 DEF HandleType
  <1>4. ckHandle' = [ckHandle EXCEPT ![h] = r]
    BY <1>1 DEF CkInv, CkTypeOK
  <1>5. ckJar' \in [Keys -> Secrets] /\ \A v \in Keys : Owns(ckRows, ckMinted, ckJar'[v], v)
    <2>1. ckHandle[h].user \in Keys /\ Owns(ckRows, ckMinted, 0, ckHandle[h].user)
      BY <1>2 DEF HandleType, Owns
    <2> QED BY <1>1, <1>2, <2>1, SetCookieTypes
  <1> HIDE DEF r
  <1>6. Owns(ckRows, ckMinted, r.cookie, r.user)
    BY <1>1, <1>3 DEF CkInv, CkOwnInv
  <1> QED BY <1>1, <1>3, <1>4, <1>5, <1>6, HandleKeeps

LEMMA RestartKeeps ==
    ASSUME CkInv, Restart PROVE CkInv'
  <1>1. Idle \in CallType /\ Idle.pc = "idle"
    BY CookieConstants DEF Idle
  <1>2. /\ ckCall' \in [CkHandles -> CallType]
        /\ \A g \in CkHandles : ckCall'[g].pc = "idle"
    BY <1>1 DEF Restart
  <1>3. CkTypeOK'
    BY <1>2, CookieConstants DEF Restart, CkInv, CkTypeOK, ckTable
  <1>4. CkCallInv' /\ CkRowInv' /\ CkOwnInv'
    BY <1>2 DEF Restart, CkInv, CkCallInv, CkRowInv, CkOwnInv, ckTable
  <1>5. \A i \in TokenIds : Remembered(i) => Remembered(i)'
    BY DEF Restart, Remembered
  <1>6. CkTokenInv'
    BY <1>2, <1>5 DEF Restart, CkInv, CkTokenInv, Spending, ckTable
  <1> QED BY <1>3, <1>4, <1>6 DEF CkInv

LEMMA TickKeeps ==
    ASSUME CkInv, Tick PROVE CkInv'
  <1>1. CkTypeOK' /\ CkCallInv' /\ CkRowInv' /\ CkOwnInv'
    BY CookieConstants DEF Tick, CkInv, CkTypeOK, CkCallInv, CkRowInv, CkOwnInv, ckGuard, ckTable
  <1>2. \A i \in TokenIds : Remembered(i) => Remembered(i)'
    BY CookieConstants DEF Tick, Remembered, CkInv, CkTypeOK, ckGuard
  <1>3. \A g \in CkHandles : Spending(g) => TokenId(ckCall[g].token) \in TokenIds
    BY CookieConstants DEF Spending, CkInv, CkCallInv
  <1>4. CkTokenInv'
    BY <1>2, <1>3 DEF Tick, CkInv, CkTokenInv, Spending, TokenId, ckTable, ckGuard
  <1> QED BY <1>1, <1>4 DEF CkInv

LEMMA CookieStep == CkInv /\ [CkNext]_ckVars => CkInv'
  <1> SUFFICES ASSUME CkInv, [CkNext]_ckVars PROVE CkInv'
    OBVIOUS
  <1>1. CASE UNCHANGED ckVars
    BY <1>1 DEF ckVars, ckGuard, ckTable, CkInv, CkTypeOK, CkCallInv, CkRowInv, CkOwnInv, CkTokenInv,
                Spending, Remembered, TokenId
  <1>2. ASSUME NEW h \in CkHandles, AnswerLost(h) PROVE CkInv'
    BY <1>2, EndsKeep DEF AnswerLost
  <1> QED
    BY <1>1, <1>2, PostTokenKeeps, VerifyTokenKeeps, FindUserKeeps, CreateSessionKeeps,
       SignedInKeeps, RevalidateKeeps, ImportKeeps, SendSignoutKeeps, HandleSignoutKeeps,
       SignedOutKeeps, RestartKeeps, TickKeeps
    DEF CkNext

\* A signed token opens one session, however often and from wherever it is posted,
\* unless the homeserver restarted within the token's window, and no session
\* outlives the signout that was answered with success, unless the lookup of its
\* cookie failed (cookie/verifier.rs, cookie/service.rs, cookie/routes.rs).
THEOREM CookieSessionsAreSound == CkSpec => []CookieSessionsSound
  <1>1. CkInv => CookieSessionsSound
    <2> SUFFICES ASSUME CkInv PROVE CookieSessionsSound
      OBVIOUS
    <2>1. TokenOpensOneSession
      BY DEF CkInv, CkTokenInv, TokenOpensOneSession
    <2>2. SignoutEndsSession
      BY DEF CkInv, CkRowInv, SignoutEndsSession
    <2> QED BY <2>1, <2>2 DEF CkInv, CookieSessionsSound
  <1> QED BY <1>1, CookieInit, CookieStep, PTL DEF CkSpec

-----------------------------------------------------------------------------
(* The shared session: what a call has at each of its steps.                *)

HeldSteps  == {"renew", "exchange", "keep", "mark", "erase", "put", "join", "rebuild"}
CredSteps  == Steps \ {"idle", "done", "wantExclusive", "erase", "rebuild"}
MutexSteps == {"exchangeLocal", "exchange", "keep"}
Leases     == {"none", "shared", "exclusive"}

\* The lease l that the step of a call x of j goes with.
JobLease(x, l) ==
    /\ x.pc \in HeldSteps => l = "exclusive"
    /\ x.pc = "adopt" => l = "shared"
    /\ x.pc = "send" => l # "exclusive"
    /\ x.pc = "delete" => l # "shared"
    /\ x.pc \notin HeldSteps \cup {"adopt", "send", "delete"} => l = "none"

\* Its credential and mutex.
JobCred(j, x) ==
    /\ \/ x.pc \in CredSteps
       \/ x.pc = "wantExclusive" /\ (x.kind \notin {"restore", "remove"} \/ x.back # "done")
       => ssCred[tab(j)] # None
    /\ x.pc = "rebuild" => ssCred[tab(j)] = None /\ x.back = "done"
    /\ x.pc \in MutexSteps => ssMutex[tab(j)] = j

\* The record it has found under its lease.
JobRecord(x, l) ==
    /\ \/ x.pc \in {"exchange", "keep"} \/ (x.pc = "delete" /\ l = "exclusive")
       \/ (x.pc = "erase" /\ x.kind = "signout")
       => Shared # None
    /\ x.pc = "join" => ssRecord # None

\* Its locals.
JobLocals(x) ==
    /\ x.pc # "done" => x.lapses <= ssLapses /\ x.reply = None
    /\ x.pc = "idle" => x.back = "done" /\ x.rejected = 0
    /\ x.retried => x.back \in {"bearer", "wantShared"}
    /\ x.back \in {"done", "bearer", "wantShared", "rebuild"}
    /\ x.back = "rebuild" => x.kind = "signout"
    /\ x.kind = "signout" => x.pc \in {"idle", "begin", "wantExclusive", "mark", "delete", "erase", "done"}

JobBase(j, x, l) == JobLease(x, l) /\ JobCred(j, x) /\ JobRecord(x, l) /\ JobLocals(x)

LeasesExclude ==
    \A j, k \in Jobs : j # k /\ ssLease[j] = "exclusive" => ssLease[k] = "none"

SSBase ==
    /\ SSTypeOK /\ LeasesExclude /\ ssStrays <= ssLostMade
    /\ \A j \in Jobs : JobBase(j, ssJob[j], ssLease[j])

LEMMA SharedConstants ==
    /\ IsFiniteSet(Jobs) /\ \A j \in Jobs : tab(j) \in Tabs
    /\ Opener \in Tabs /\ MaxMint \in Nat /\ MaxMint > 0 /\ FinalFrom \in Nat /\ MaxStrays \in Nat
    /\ None \notin Jobs /\ None \notin SharedType /\ None \notin RecordType /\ None \notin CredType
    /\ None # "rejected"
  BY SharedAssumption DEF tab, Replies

\* The record, when there is one.
LEMMA SharedFields ==
    ASSUME SSTypeOK, Shared # None
    PROVE  /\ ssRecord # None /\ ssRecord \in RecordType /\ Shared = ssRecord.shared
           /\ Shared \in SharedType /\ Shared.bearer \in Bearers
           /\ Shared.refreshPending \in BOOLEAN /\ Shared.logoutPending \in BOOLEAN
  BY DEF SSTypeOK, Shared, RecordType, SharedType

LEMMA JobFields ==
    ASSUME SSTypeOK, NEW j \in Jobs
    PROVE  /\ ssJob[j] \in JobType /\ ssLease[j] \in Leases
           /\ ssJob[j].kind \in Kinds \cup {None} /\ ssJob[j].pc \in Steps
           /\ ssJob[j].back \in Steps /\ ssJob[j].using \in Bearers
           /\ ssJob[j].rejected \in Bearers /\ ssJob[j].retried \in BOOLEAN
           /\ ssJob[j].lapses \in Nat
  BY DEF SSTypeOK, JobType, Leases

LEMMA CredFields ==
    ASSUME SSTypeOK, NEW t \in Tabs, ssCred[t] # None
    PROVE  ssCred[t] \in CredType /\ ssCred[t].bearer \in Bearers /\ ssCred[t].joined \in BOOLEAN
  BY DEF SSTypeOK, CredType

\* y is x at another step.
SameLocals(x, y) ==
    /\ y.kind = x.kind /\ y.back = x.back /\ y.using = x.using /\ y.rejected = x.rejected
    /\ y.retried = x.retried /\ y.lapses = x.lapses /\ y.reply = x.reply

LEMMA MoveFacts ==
    ASSUME SSTypeOK, NEW j \in Jobs, NEW pc \in Steps
    PROVE  /\ Move(j, pc) \in JobType /\ Move(j, pc).pc = pc
           /\ SameLocals(ssJob[j], Move(j, pc))
  BY JobFields DEF Move, JobType, SameLocals

\* A call has ended, but not because it was refused twice.
Ended(x) ==
    /\ x.pc = "done" /\ x.reply # "rejected" /\ x.rejected = 0 /\ x.using = 0
    /\ x.retried = FALSE /\ x.back = "done"

LEMMA ReplyFacts ==
    ASSUME SSTypeOK, NEW j \in Jobs, NEW r \in {"ok", "signedOut", "error"}
    PROVE  /\ Reply(j, r) \in JobType /\ Ended(Reply(j, r)) /\ Reply(j, r).kind = ssJob[j].kind
  <1>1. 0 \in Bearers
    BY SharedConstants DEF Bearers
  <1>2. ssJob[j] \in JobType /\ "done" \in Steps
    BY JobFields DEF Steps
  <1> QED BY <1>1, <1>2 DEF Reply, JobType, Ended, Replies

LEMMA AfterRefreshFacts ==
    ASSUME SSTypeOK, NEW j \in Jobs
    PROVE  /\ AfterRefresh(j) \in JobType
           /\ \/ Ended(AfterRefresh(j)) /\ AfterRefresh(j).kind = ssJob[j].kind
                 /\ ssJob[j].back = "done"
              \/ /\ SameLocals(ssJob[j], AfterRefresh(j)) /\ ssJob[j].back # "done"
                 /\ AfterRefresh(j).pc = ssJob[j].back
  <1>1. ssJob[j].back \in Steps
    BY JobFields
  <1> QED BY <1>1, MoveFacts, ReplyFacts DEF AfterRefresh

\* Only the call j changes, to x, and its lease to l.
Steps1(j, x, l) ==
    /\ ssJob' \in [Jobs -> JobType] /\ ssLease' \in [Jobs -> Leases]
    /\ ssJob'[j] = x /\ ssLease'[j] = l
    /\ \A k \in Jobs : k # j => ssJob'[k] = ssJob[k] /\ ssLease'[k] = ssLease[k]

LEMMA GoFacts ==
    ASSUME SSTypeOK, NEW j \in Jobs, NEW x \in JobType, Go(j, x)
    PROVE  /\ ssLease' = ssLease => Steps1(j, x, ssLease[j])
           /\ \A l \in Leases : ssLease' = [ssLease EXCEPT ![j] = l] => Steps1(j, x, l)
           /\ Drop(j) => Steps1(j, x, "none")
  BY DEF SSTypeOK, Go, Drop, Steps1, Leases

\* The rest of the state.
World == <<ssServer, ssWire, ssRecord, ssCred, ssMutex>>

-----------------------------------------------------------------------------
(* Steps of one call that change nothing else.                              *)

\* The new lease respects the others.
Admits(j, l) ==
    /\ l = "exclusive" => \A k \in Jobs : k # j => ssLease[k] = "none"
    /\ l # "none" => \A k \in Jobs : k # j => ssLease[k] # "exclusive"

LEMMA BaseQuiet ==
    ASSUME SSBase, NEW j \in Jobs, NEW x \in JobType, NEW l \in Leases, Steps1(j, x, l),
           UNCHANGED World, Admits(j, l), JobBase(j, x, l)
    PROVE  SSBase'
  <1>1. UNCHANGED <<ssCur, ssGone, ssMinted, ssPhase, ssOutside, ssLapses, ssStrays, ssLostMade,
                    ssRecord, ssCred, ssMutex>>
    BY DEF World, ssServer, ssHistory, ssWire
  <1>2. SSTypeOK'
    BY <1>1 DEF SSBase, SSTypeOK, Steps1, Leases
  <1>3. LeasesExclude'
    BY DEF SSBase, LeasesExclude, Steps1, Admits
  <1>4. \A k \in Jobs : \A y, m : JobBase(k, y, m) => JobBase(k, y, m)'
    BY <1>1 DEF JobBase, JobLease, JobCred, JobRecord, JobLocals, Shared, tab
  <1>5. \A k \in Jobs : JobBase(k, ssJob'[k], ssLease'[k])
    BY DEF Steps1, SSBase
  <1>6. \A k \in Jobs : JobBase(k, ssJob[k], ssLease[k])'
    BY <1>4, <1>5 DEF JobBase, JobLease, JobCred, JobRecord, JobLocals
  <1> QED BY <1>1, <1>2, <1>3, <1>6 DEF SSBase

\* An old lease, or none, is always admitted.
LEMMA AdmitsOld ==
    ASSUME SSBase, NEW j \in Jobs
    PROVE  Admits(j, "none") /\ Admits(j, ssLease[j])
  BY DEF Admits, SSBase, LeasesExclude

-----------------------------------------------------------------------------
(* What each of those steps does.                                           *)

StepOf(j) ==
    /\ ssJob'[j] \in JobType /\ ssLease'[j] \in Leases /\ Steps1(j, ssJob'[j], ssLease'[j])

LEMMA GoesTo ==
    ASSUME SSTypeOK, NEW j \in Jobs, NEW x \in JobType, Go(j, x),
           UNCHANGED ssLease \/ Drop(j) \/ \E l \in Leases : ssLease' = [ssLease EXCEPT ![j] = l]
    PROVE  /\ StepOf(j) /\ ssJob'[j] = x
           /\ ssLease' = ssLease => ssLease'[j] = ssLease[j]
           /\ Drop(j) => ssLease'[j] = "none"
           /\ \A l \in Leases : ssLease' = [ssLease EXCEPT ![j] = l] => ssLease'[j] = l
  <1>1. ssLease[j] \in Leases /\ "none" \in Leases
    BY JobFields DEF Leases
  <1>2. CASE UNCHANGED ssLease
    BY <1>1, <1>2, GoFacts DEF StepOf, Steps1, Drop
  <1>3. ASSUME NEW l \in Leases, ssLease' = [ssLease EXCEPT ![j] = l]
        PROVE  StepOf(j) /\ ssJob'[j] = x /\ ssLease'[j] = l
    BY <1>1, <1>3, GoFacts DEF StepOf, Steps1
  <1> QED BY <1>1, <1>2, <1>3 DEF Drop

LEMMA StartFacts ==
    ASSUME SSBase, NEW j \in Jobs, NEW kind \in Kinds, Start(j, kind)
    PROVE  /\ StepOf(j) /\ UNCHANGED World /\ ssLease'[j] = ssLease[j] /\ ssJob[j].pc = "idle"
           /\ ssJob'[j].kind = kind /\ ssJob'[j].lapses = ssLapses
           /\ ssJob'[j].back = ssJob[j].back /\ ssJob'[j].using = ssJob[j].using
           /\ ssJob'[j].rejected = ssJob[j].rejected /\ ssJob'[j].retried = ssJob[j].retried
           /\ ssJob'[j].reply = ssJob[j].reply
           /\ \/ kind \in {"save", "restore", "remove"} /\ ssJob'[j].pc = "wantExclusive"
              \/ kind = "refresh" /\ ssJob'[j].pc = "refresh"
              \/ kind \in {"send", "signout"} /\ ssJob'[j].pc = "begin"
           /\ kind \notin {"restore", "remove"} => ssCred[tab(j)] # None
  <1> DEFINE pc == IF kind = "refresh" THEN "refresh"
                   ELSE IF kind \in {"save", "restore", "remove"} THEN "wantExclusive" ELSE "begin"
             x == [ssJob[j] EXCEPT !.kind = kind, !.pc = pc, !.lapses = ssLapses]
  <1>1. /\ Go(j, x) /\ UNCHANGED World /\ UNCHANGED ssLease /\ ssJob[j].pc = "idle"
        /\ kind \notin {"restore", "remove"} => ssCred[tab(j)] # None
    BY DEF Start, World
  <1>2. ssJob[j] \in JobType /\ ssLapses \in Nat
    BY JobFields DEF SSBase, SSTypeOK
  <1>3. pc \in Steps
    BY DEF Steps
  <1>4. \/ kind \in {"save", "restore", "remove"} /\ pc = "wantExclusive"
        \/ kind = "refresh" /\ pc = "refresh"
        \/ kind \in {"send", "signout"} /\ pc = "begin"
    BY DEF Kinds
  <1> HIDE DEF pc
  <1>5. /\ x \in JobType /\ x.kind = kind /\ x.lapses = ssLapses /\ x.pc = pc
        /\ x.back = ssJob[j].back /\ x.using = ssJob[j].using
        /\ x.rejected = ssJob[j].rejected /\ x.retried = ssJob[j].retried
        /\ x.reply = ssJob[j].reply
    BY <1>2, <1>3 DEF JobType
  <1> HIDE DEF x
  <1>6. StepOf(j) /\ ssJob'[j] = x /\ ssLease'[j] = ssLease[j]
    BY <1>1, <1>5, GoesTo DEF SSBase
  <1> QED BY <1>1, <1>4, <1>5, <1>6

LEMMA BeginFacts ==
    ASSUME SSBase, NEW j \in Jobs, Begin(j)
    PROVE  /\ StepOf(j) /\ UNCHANGED World /\ ssLease'[j] = ssLease[j] /\ ssJob[j].pc = "begin"
           /\ SameLocals(ssJob[j], ssJob'[j]) /\ ssCred[tab(j)] # None
           /\ \/ ssJob[j].kind = "signout" /\ ssCred[tab(j)].joined /\ ssJob'[j].pc = "wantExclusive"
              \/ ssJob[j].kind = "signout" /\ ~ssCred[tab(j)].joined /\ ssJob'[j].pc = "delete"
              \/ ssJob[j].kind # "signout" /\ ssCred[tab(j)].joined /\ ssJob'[j].pc = "wantShared"
              \/ ssJob[j].kind # "signout" /\ ~ssCred[tab(j)].joined /\ ssJob'[j].pc = "check"
  <1> DEFINE pc == CASE ssJob[j].kind = "signout" ->
                            IF ssCred[tab(j)].joined THEN "wantExclusive" ELSE "delete"
                     [] OTHER -> IF ssCred[tab(j)].joined THEN "wantShared" ELSE "check"
  <1>1. /\ Go(j, Move(j, pc)) /\ UNCHANGED World /\ UNCHANGED ssLease /\ ssJob[j].pc = "begin"
        /\ ssCred[tab(j)] # None
    BY DEF Begin, World
  <1>2. /\ pc \in Steps
        /\ \/ ssJob[j].kind = "signout" /\ ssCred[tab(j)].joined /\ pc = "wantExclusive"
           \/ ssJob[j].kind = "signout" /\ ~ssCred[tab(j)].joined /\ pc = "delete"
           \/ ssJob[j].kind # "signout" /\ ssCred[tab(j)].joined /\ pc = "wantShared"
           \/ ssJob[j].kind # "signout" /\ ~ssCred[tab(j)].joined /\ pc = "check"
    BY DEF Steps
  <1> HIDE DEF pc
  <1>3. StepOf(j) /\ ssJob'[j] = Move(j, pc) /\ ssLease'[j] = ssLease[j]
    BY <1>1, <1>2, MoveFacts, GoesTo DEF SSBase
  <1> QED BY <1>1, <1>2, <1>3, MoveFacts DEF SSBase

LEMMA BearerForRequestFacts ==
    ASSUME SSBase, NEW j \in Jobs, BearerForRequest(j)
    PROVE  /\ StepOf(j) /\ UNCHANGED World /\ ssLease'[j] = ssLease[j] /\ ssJob[j].pc = "check"
           /\ Free(j)
           /\ ssJob'[j].kind = ssJob[j].kind /\ ssJob'[j].lapses = ssJob[j].lapses
           /\ ssJob'[j].using = ssJob[j].using /\ ssJob'[j].rejected = ssJob[j].rejected
           /\ ssJob'[j].retried = ssJob[j].retried /\ ssJob'[j].reply = ssJob[j].reply
           /\ \/ /\ ssJob'[j].pc = "refresh" /\ ssJob'[j].back = "bearer"
                 /\ NeedsRefresh(ssCred[tab(j)].bearer, "full")
              \/ ssJob'[j].pc = "bearer" /\ ssJob'[j].back = ssJob[j].back
  <1> DEFINE x == [ssJob[j] EXCEPT !.pc = "refresh", !.back = "bearer"]
  <1>1. /\ UNCHANGED World /\ UNCHANGED ssLease /\ ssJob[j].pc = "check" /\ Free(j)
        /\ \/ Go(j, x) /\ NeedsRefresh(ssCred[tab(j)].bearer, "full")
           \/ Go(j, Move(j, "bearer"))
    BY DEF BearerForRequest, World
  <1>2. ssJob[j] \in JobType /\ "refresh" \in Steps /\ "bearer" \in Steps
    BY JobFields DEF SSBase, Steps
  <1>3. /\ x \in JobType /\ x.pc = "refresh" /\ x.back = "bearer"
        /\ x.kind = ssJob[j].kind /\ x.lapses = ssJob[j].lapses
        /\ x.using = ssJob[j].using /\ x.rejected = ssJob[j].rejected
        /\ x.retried = ssJob[j].retried /\ x.reply = ssJob[j].reply
    BY <1>2 DEF JobType
  <1> HIDE DEF x
  <1>4. CASE Go(j, x) /\ NeedsRefresh(ssCred[tab(j)].bearer, "full")
    BY <1>1, <1>3, <1>4, GoesTo DEF SSBase
  <1>5. CASE Go(j, Move(j, "bearer"))
    BY <1>1, <1>2, <1>5, MoveFacts, GoesTo DEF SSBase, SameLocals
  <1> QED BY <1>1, <1>4, <1>5

LEMMA RefreshFacts ==
    ASSUME SSBase, NEW j \in Jobs, Refresh(j)
    PROVE  /\ StepOf(j) /\ UNCHANGED World /\ ssLease'[j] = ssLease[j] /\ ssJob[j].pc = "refresh"
           /\ ssJob'[j].kind = ssJob[j].kind /\ ssJob'[j].lapses = ssJob[j].lapses
           /\ ssJob'[j].using = ssJob[j].using /\ ssJob'[j].rejected = 0
           /\ ssJob'[j].retried = ssJob[j].retried /\ ssJob'[j].reply = ssJob[j].reply
           /\ ssJob'[j].back = ssJob[j].back
           /\ \/ ssJob'[j].pc = "wantExclusive" /\ ssCred[tab(j)].joined
              \/ ssJob'[j].pc = "local" /\ ~ssCred[tab(j)].joined
  <1> DEFINE pc == IF ssCred[tab(j)].joined THEN "wantExclusive" ELSE "local"
             x == [ssJob[j] EXCEPT !.pc = pc, !.rejected = 0]
  <1>1. /\ UNCHANGED World /\ UNCHANGED ssLease /\ ssJob[j].pc = "refresh" /\ Go(j, x)
    BY DEF Refresh, World
  <1>2. ssJob[j] \in JobType /\ pc \in Steps /\ 0 \in Bearers
        /\ \/ pc = "wantExclusive" /\ ssCred[tab(j)].joined
           \/ pc = "local" /\ ~ssCred[tab(j)].joined
    BY JobFields, SharedConstants DEF SSBase, Steps, Bearers
  <1> HIDE DEF pc
  <1>3. /\ x \in JobType /\ x.pc = pc /\ x.back = ssJob[j].back
        /\ x.kind = ssJob[j].kind /\ x.lapses = ssJob[j].lapses
        /\ x.using = ssJob[j].using /\ x.rejected = 0
        /\ x.retried = ssJob[j].retried /\ x.reply = ssJob[j].reply
    BY <1>2 DEF JobType
  <1> HIDE DEF x
  <1> QED BY <1>1, <1>2, <1>3, GoesTo DEF SSBase

LEMMA CurrentBearerFacts ==
    ASSUME SSBase, NEW j \in Jobs, CurrentBearer(j)
    PROVE  /\ StepOf(j) /\ UNCHANGED World /\ ssLease'[j] = ssLease[j] /\ ssJob[j].pc = "bearer"
           /\ Free(j)
           /\ ssJob'[j].kind = ssJob[j].kind /\ ssJob'[j].lapses = ssJob[j].lapses
           /\ ssJob'[j].using = ssCred[tab(j)].bearer /\ ssJob'[j].rejected = ssJob[j].rejected
           /\ ssJob'[j].retried = ssJob[j].retried /\ ssJob'[j].reply = ssJob[j].reply
           /\ ssJob'[j].back = ssJob[j].back /\ ssJob'[j].pc = "send"
  <1> DEFINE b == ssCred[tab(j)].bearer
             x == [ssJob[j] EXCEPT !.pc = "send", !.using = b]
  <1>1. /\ UNCHANGED World /\ UNCHANGED ssLease /\ ssJob[j].pc = "bearer" /\ Go(j, x) /\ Free(j)
    BY DEF CurrentBearer, World
  <1>2. ssJob[j] \in JobType /\ "send" \in Steps /\ b \in Bearers
    <2>1. ssCred[tab(j)] # None
      BY <1>1 DEF SSBase, JobBase, JobCred, CredSteps, Steps
    <2> QED BY <2>1, JobFields, CredFields, SharedConstants DEF SSBase, Steps
  <1> HIDE DEF b
  <1>3. /\ x \in JobType /\ x.pc = "send" /\ x.back = ssJob[j].back
        /\ x.kind = ssJob[j].kind /\ x.lapses = ssJob[j].lapses
        /\ x.using = b /\ x.rejected = ssJob[j].rejected
        /\ x.retried = ssJob[j].retried /\ x.reply = ssJob[j].reply
    BY <1>2 DEF JobType
  <1> HIDE DEF x
  <1> QED BY <1>1, <1>2, <1>3, GoesTo DEF SSBase, b

LEMMA AnswerFacts ==
    ASSUME SSBase, NEW j \in Jobs, Answer(j)
    PROVE  /\ StepOf(j) /\ UNCHANGED World /\ ssLease'[j] = "none" /\ ssJob[j].pc = "send"
           /\ ssJob'[j].kind = ssJob[j].kind
           /\ \/ Ended(ssJob'[j])
              \/ /\ ssJob[j].retried /\ ~Accepts(ssJob[j].using)
                 /\ ssJob'[j].pc = "done" /\ ssJob'[j].reply = "rejected"
                 /\ ssJob'[j].using = ssJob[j].using
                 /\ ssJob'[j].lapses = ssLapses - ssJob[j].lapses
                 /\ ssJob'[j].retried = FALSE /\ ssJob'[j].back = "done"
                 /\ ssJob'[j].rejected = 0
              \/ /\ ssJob[j].retried = FALSE /\ ~Accepts(ssJob[j].using)
                 /\ ssJob'[j].retried /\ ssJob'[j].rejected = ssJob[j].using
                 /\ ssJob'[j].lapses = ssJob[j].lapses /\ ssJob'[j].using = ssJob[j].using
                 /\ ssJob'[j].reply = ssJob[j].reply
                 /\ \/ /\ ssLease[j] = "shared" /\ ssJob'[j].pc = "wantExclusive"
                       /\ ssJob'[j].back = "wantShared"
                    \/ /\ ssLease[j] # "shared" /\ ssJob'[j].pc = "local"
                       /\ ssJob'[j].back = "bearer"
  <1> DEFINE x == [ssJob[j] EXCEPT !.pc = "wantExclusive", !.back = "wantShared",
                                   !.rejected = ssJob[j].using, !.retried = TRUE]
             y == [ssJob[j] EXCEPT !.pc = "local", !.back = "bearer",
                                   !.rejected = ssJob[j].using, !.retried = TRUE]
             z == Reply(j, "rejected")
  <1>1. /\ UNCHANGED World /\ Drop(j) /\ ssJob[j].pc = "send"
        /\ \/ Go(j, Reply(j, "ok"))
           \/ ~Accepts(ssJob[j].using) /\ ssJob[j].retried /\ Go(j, z)
           \/ ~Accepts(ssJob[j].using) /\ ~ssJob[j].retried /\ ssLease[j] = "shared" /\ Go(j, x)
           \/ ~Accepts(ssJob[j].using) /\ ~ssJob[j].retried /\ ssLease[j] # "shared" /\ Go(j, y)
    <2> DEFINE w == IF Accepts(ssJob[j].using) THEN Reply(j, "ok")
                    ELSE IF ssJob[j].retried THEN z
                    ELSE IF ssLease[j] = "shared" THEN x ELSE y
    <2>1. /\ UNCHANGED World /\ Drop(j) /\ ssJob[j].pc = "send" /\ Go(j, w)
      BY DEF Answer, World
    <2>2. /\ Accepts(ssJob[j].using) => w = Reply(j, "ok")
          /\ ~Accepts(ssJob[j].using) /\ ssJob[j].retried => w = z
          /\ ~Accepts(ssJob[j].using) /\ ~ssJob[j].retried /\ ssLease[j] = "shared" => w = x
          /\ ~Accepts(ssJob[j].using) /\ ~ssJob[j].retried /\ ssLease[j] # "shared" => w = y
      <3> HIDE DEF x, y, z
      <3> QED OBVIOUS
    <2> HIDE DEF w, x, y, z
    <2> QED BY <2>1, <2>2
  <1>2. /\ ssJob[j] \in JobType /\ 0 \in Bearers /\ ssJob[j].using \in Bearers
        /\ {"wantExclusive", "wantShared", "local", "bearer", "done"} \subseteq Steps
        /\ ssJob[j].retried \in BOOLEAN
    BY JobFields, SharedConstants DEF SSBase, Steps, Bearers
  <1>3. ssLapses - ssJob[j].lapses \in Nat
    <2>1. ssJob[j].lapses <= ssLapses
      BY <1>1 DEF SSBase, JobBase, JobLocals
    <2>2. ssLapses \in Nat /\ ssJob[j].lapses \in Nat
      BY JobFields DEF SSBase, SSTypeOK
    <2> QED BY <2>1, <2>2
  <1>4. /\ x \in JobType /\ x.pc = "wantExclusive" /\ x.back = "wantShared"
        /\ x.rejected = ssJob[j].using /\ x.retried
        /\ x.lapses = ssJob[j].lapses /\ x.using = ssJob[j].using
        /\ x.reply = ssJob[j].reply /\ x.kind = ssJob[j].kind
    BY <1>2 DEF JobType
  <1>5. /\ y \in JobType /\ y.pc = "local" /\ y.back = "bearer"
        /\ y.rejected = ssJob[j].using /\ y.retried
        /\ y.lapses = ssJob[j].lapses /\ y.using = ssJob[j].using
        /\ y.reply = ssJob[j].reply /\ y.kind = ssJob[j].kind
    BY <1>2 DEF JobType
  <1>6. /\ z \in JobType /\ z.pc = "done" /\ z.back = "done" /\ z.reply = "rejected"
        /\ z.rejected = 0 /\ z.retried = FALSE
        /\ z.lapses = ssLapses - ssJob[j].lapses /\ z.using = ssJob[j].using
        /\ z.kind = ssJob[j].kind
    BY <1>2, <1>3 DEF JobType, Reply, Replies
  <1> HIDE DEF x, y, z
  <1>7. CASE Go(j, Reply(j, "ok"))
    BY <1>1, <1>7, ReplyFacts, GoesTo DEF SSBase
  <1>8. CASE ~Accepts(ssJob[j].using) /\ ssJob[j].retried /\ Go(j, z)
    BY <1>1, <1>6, <1>8, GoesTo DEF SSBase
  <1>9. CASE ~Accepts(ssJob[j].using) /\ ~ssJob[j].retried /\ ssLease[j] = "shared" /\ Go(j, x)
    BY <1>1, <1>2, <1>4, <1>9, GoesTo DEF SSBase
  <1>10. CASE ~Accepts(ssJob[j].using) /\ ~ssJob[j].retried /\ ssLease[j] # "shared" /\ Go(j, y)
    BY <1>1, <1>2, <1>5, <1>10, GoesTo DEF SSBase
  <1> QED BY <1>1, <1>7, <1>8, <1>9, <1>10

LEMMA AcquireSharedFacts ==
    ASSUME SSBase, NEW j \in Jobs, AcquireShared(j)
    PROVE  /\ StepOf(j) /\ UNCHANGED World /\ ssLease'[j] = "shared"
           /\ ssJob[j].pc = "wantShared" /\ ssJob'[j].pc = "adopt"
           /\ SameLocals(ssJob[j], ssJob'[j])
           /\ \A k \in Jobs : k # j => ssLease[k] # "exclusive"
  <1>1. "adopt" \in Steps /\ "shared" \in Leases
    BY DEF Steps, Leases
  <1>2. /\ ssLease' = [ssLease EXCEPT ![j] = "shared"] /\ Go(j, Move(j, "adopt"))
        /\ ssJob[j].pc = "wantShared" /\ UNCHANGED World
        /\ \A k \in Jobs : k # j => ssLease[k] # "exclusive"
    BY DEF AcquireShared, LeaseFree, World
  <1>3. /\ Move(j, "adopt") \in JobType /\ Move(j, "adopt").pc = "adopt"
        /\ SameLocals(ssJob[j], Move(j, "adopt"))
    BY <1>1, MoveFacts DEF SSBase
  <1>4. StepOf(j) /\ ssJob'[j] = Move(j, "adopt") /\ ssLease'[j] = "shared"
    BY <1>1, <1>2, <1>3, GoesTo DEF SSBase
  <1> QED BY <1>2, <1>3, <1>4

LEMMA AcquireExclusiveFacts ==
    ASSUME SSBase, NEW j \in Jobs, AcquireExclusive(j)
    PROVE  /\ StepOf(j) /\ UNCHANGED World /\ ssLease'[j] = "exclusive"
           /\ ssJob[j].pc = "wantExclusive" /\ SameLocals(ssJob[j], ssJob'[j])
           /\ \A k \in Jobs : k # j => ssLease[k] = "none"
           /\ \/ ssJob'[j].pc = "mark" /\ ssJob[j].kind = "signout"
              \/ ssJob'[j].pc = "put" /\ ssJob[j].kind = "save"
              \/ ssJob'[j].pc = "erase" /\ ssJob[j].kind = "remove"
              \/ ssJob'[j].pc = "rebuild" /\ ssJob[j].kind = "restore" /\ ssCred[tab(j)] = None
              \/ /\ ssJob'[j].pc = "renew" /\ ssJob[j].kind \notin {"signout", "save", "remove"}
                 /\ ssJob[j].kind = "restore" => ssCred[tab(j)] # None
  <1> DEFINE pc == CASE ssJob[j].kind = "signout" -> "mark"
                     [] ssJob[j].kind = "save" -> "put"
                     [] ssJob[j].kind = "remove" -> "erase"
                     [] ssJob[j].kind = "restore" /\ ssCred[tab(j)] = None -> "rebuild"
                     [] OTHER -> "renew"
  <1>1. /\ pc \in Steps /\ "exclusive" \in Leases
        /\ \/ pc = "mark" /\ ssJob[j].kind = "signout"
           \/ pc = "put" /\ ssJob[j].kind = "save"
           \/ pc = "erase" /\ ssJob[j].kind = "remove"
           \/ pc = "rebuild" /\ ssJob[j].kind = "restore" /\ ssCred[tab(j)] = None
           \/ /\ pc = "renew" /\ ssJob[j].kind \notin {"signout", "save", "remove"}
              /\ ssJob[j].kind = "restore" => ssCred[tab(j)] # None
    BY DEF Steps, Leases
  <1>2. /\ ssLease' = [ssLease EXCEPT ![j] = "exclusive"] /\ Go(j, Move(j, pc))
        /\ ssJob[j].pc = "wantExclusive" /\ UNCHANGED World
        /\ \A k \in Jobs : k # j => ssLease[k] = "none"
    BY DEF AcquireExclusive, LeaseFree, World
  <1> HIDE DEF pc
  <1>3. /\ Move(j, pc) \in JobType /\ Move(j, pc).pc = pc
        /\ SameLocals(ssJob[j], Move(j, pc))
    BY <1>1, MoveFacts DEF SSBase
  <1>4. StepOf(j) /\ ssJob'[j] = Move(j, pc) /\ ssLease'[j] = "exclusive"
    BY <1>1, <1>2, <1>3, GoesTo DEF SSBase
  <1> QED BY <1>1, <1>2, <1>3, <1>4

LEMMA EndFacts ==
    ASSUME SSBase, NEW j \in Jobs, NotActive(j) \/ RequestLost(j)
    PROVE  /\ StepOf(j) /\ UNCHANGED World /\ ssLease'[j] = "none" /\ Ended(ssJob'[j])
           /\ ssJob[j].pc \in {"adopt", "renew", "send", "delete"}
           /\ ssJob'[j].kind = ssJob[j].kind
  <1>1. /\ Go(j, Reply(j, "error")) /\ Drop(j) /\ UNCHANGED World
        /\ ssJob[j].pc \in {"adopt", "renew", "send", "delete"}
    BY DEF NotActive, RequestLost, World
  <1> QED BY <1>1, ReplyFacts, GoesTo DEF SSBase

-----------------------------------------------------------------------------
(* What the steps do that change more than one call.                        *)

\* The credential of j's tab has the bearer b from now on.
Holding(j, b) ==
    /\ ssCred' \in [Tabs -> CredType \cup {None}] /\ ssCred[tab(j)] # None
    /\ ssCred'[tab(j)] # None /\ ssCred'[tab(j)].bearer = b
    /\ ssCred'[tab(j)].joined = ssCred[tab(j)].joined
    /\ \A t \in Tabs : t # tab(j) => ssCred'[t] = ssCred[t]

\* The mutex of j's tab is held by m.
MutexTo(j, m) ==
    /\ ssMutex' \in [Tabs -> Jobs \cup {None}] /\ ssMutex'[tab(j)] = m
    /\ \A t \in Tabs : t # tab(j) => ssMutex'[t] = ssMutex[t]

LEMMA HoldFacts ==
    ASSUME SSTypeOK, NEW j \in Jobs, NEW b \in Bearers, ssCred[tab(j)] # None, Hold(j, b)
    PROVE  Holding(j, b)
  <1>1. tab(j) \in Tabs /\ None \notin CredType
    BY SharedConstants
  <1>2. ssCred[tab(j)] \in CredType
    BY <1>1, CredFields
  <1>3. [ssCred[tab(j)] EXCEPT !.bearer = b] \in CredType
    BY <1>2 DEF CredType
  <1>4. /\ [ssCred[tab(j)] EXCEPT !.bearer = b].bearer = b
        /\ [ssCred[tab(j)] EXCEPT !.bearer = b].joined = ssCred[tab(j)].joined
    BY <1>2 DEF CredType
  <1>5. /\ ssCred' = [ssCred EXCEPT ![tab(j)] = [ssCred[tab(j)] EXCEPT !.bearer = b]]
        /\ ssCred \in [Tabs -> CredType \cup {None}]
    BY DEF Hold, SSTypeOK
  <1> DEFINE c == [ssCred[tab(j)] EXCEPT !.bearer = b]
  <1> HIDE DEF c
  <1>6. /\ ssCred' \in [Tabs -> CredType \cup {None}] /\ ssCred'[tab(j)] = c
        /\ \A t \in Tabs : t # tab(j) => ssCred'[t] = ssCred[t]
    BY <1>1, <1>3, <1>5 DEF c
  <1> QED BY <1>1, <1>3, <1>4, <1>6 DEF Holding, c

LEMMA MutexFacts ==
    ASSUME SSTypeOK, NEW j \in Jobs
    PROVE  /\ Take(j) => MutexTo(j, j)
           /\ Give(j) => MutexTo(j, None)
           /\ UNCHANGED ssMutex => MutexTo(j, ssMutex[tab(j)])
  BY SharedConstants DEF SSTypeOK, Take, Give, MutexTo

\* A call fails or succeeds at once, without touching anything.
EndsQuietly(j) ==
    /\ StepOf(j) /\ UNCHANGED World /\ ssLease'[j] = "none" /\ Ended(ssJob'[j])
    /\ ssJob[j].pc \in {"adopt", "renew", "send", "delete", "mark", "rebuild"}
    /\ ssJob'[j].kind = ssJob[j].kind

\* refresh_local finds the bearer replaced.
LocalKept(j) ==
    /\ StepOf(j) /\ UNCHANGED World /\ ssLease'[j] = ssLease[j] /\ ssJob[j].pc = "local" /\ Free(j)
    /\ ~NeedsRefresh(ssCred[tab(j)].bearer, "half")
    /\ ssJob[j].rejected # ssCred[tab(j)].bearer
    /\ \/ Ended(ssJob'[j]) /\ ssJob'[j].kind = ssJob[j].kind /\ ssJob[j].back = "done"
       \/ SameLocals(ssJob[j], ssJob'[j]) /\ ssJob[j].back # "done" /\ ssJob'[j].pc = ssJob[j].back

\* It takes the mutex for an exchange.
LocalTaken(j) ==
    /\ StepOf(j) /\ UNCHANGED <<ssServer, ssWire, ssRecord, ssCred>> /\ ssLease'[j] = ssLease[j]
    /\ ssJob[j].pc = "local" /\ Free(j) /\ MutexTo(j, j)
    /\ \/ NeedsRefresh(ssCred[tab(j)].bearer, "half")
       \/ ssJob[j].rejected = ssCred[tab(j)].bearer
    /\ ssJob'[j].pc = "exchangeLocal" /\ SameLocals(ssJob[j], ssJob'[j])

\* The local exchange mints.
LocalMint(j) ==
    /\ StepOf(j) /\ UNCHANGED <<ssWire, ssRecord>> /\ ssLease'[j] = ssLease[j]
    /\ ssJob[j].pc = "exchangeLocal" /\ MutexTo(j, None)
    /\ Mint(ssRecord # None \/ ssCred[tab(j)].joined) /\ Holding(j, ssMinted + 1)
    /\ \/ Ended(ssJob'[j]) /\ ssJob'[j].kind = ssJob[j].kind /\ ssJob[j].back = "done"
       \/ SameLocals(ssJob[j], ssJob'[j]) /\ ssJob[j].back # "done" /\ ssJob'[j].pc = ssJob[j].back

\* An exchange, local or shared, is refused or gets no answer.
ExchangeFails(j) ==
    /\ StepOf(j) /\ UNCHANGED <<ssServer, ssRecord, ssCred>> /\ ssLease'[j] = "none"
    /\ ssJob[j].pc \in {"exchangeLocal", "exchange"} /\ MutexTo(j, None)
    /\ ssStrays' \in 0..MaxStrays /\ ssLostMade' \in 0..MaxStrays /\ ssStrays' <= ssLostMade'
    /\ Ended(ssJob'[j]) /\ ssJob'[j].kind = ssJob[j].kind

\* A request adopts the stored bearer.
Adopts(j) ==
    /\ StepOf(j) /\ UNCHANGED <<ssServer, ssWire, ssRecord, ssMutex>>
    /\ ssJob[j].pc = "adopt" /\ Active /\ Free(j) /\ Holding(j, Shared.bearer)
    /\ ssJob'[j].kind = ssJob[j].kind /\ ssJob'[j].lapses = ssJob[j].lapses
    /\ ssJob'[j].retried = ssJob[j].retried /\ ssJob'[j].reply = ssJob[j].reply
    /\ \/ /\ Shared.refreshPending \/ NeedsRefresh(Shared.bearer, "half")
          /\ ssJob'[j].pc = "wantExclusive" /\ ssJob'[j].back = "wantShared"
          /\ ssJob'[j].rejected = 0 /\ ssJob'[j].using = ssJob[j].using
          /\ ssLease'[j] = "none"
       \/ /\ ~Shared.refreshPending /\ ~NeedsRefresh(Shared.bearer, "half")
          /\ ssJob'[j].pc = "send" /\ ssJob'[j].back = ssJob[j].back
          /\ ssJob'[j].rejected = ssJob[j].rejected /\ ssJob'[j].using = Shared.bearer
          /\ ssLease'[j] = ssLease[j]

\* refresh_shared finds the bearer replaced.
RenewKept(j) ==
    /\ StepOf(j) /\ UNCHANGED <<ssServer, ssWire, ssRecord, ssMutex>> /\ ssLease'[j] = "none"
    /\ ssJob[j].pc = "renew" /\ Active /\ Free(j) /\ Holding(j, Shared.bearer)
    /\ ~Shared.refreshPending /\ ~NeedsRefresh(Shared.bearer, "half")
    /\ ssJob[j].rejected # Shared.bearer
    /\ \/ Ended(ssJob'[j]) /\ ssJob'[j].kind = ssJob[j].kind /\ ssJob[j].back = "done"
       \/ SameLocals(ssJob[j], ssJob'[j]) /\ ssJob[j].back # "done" /\ ssJob'[j].pc = ssJob[j].back

\* The record's shared state is the one of before but for the bearer, b, and the
\* marks p and q.
RecordTo(b, p, q) ==
    /\ ssRecord' \in RecordType \cup {None} /\ ssRecord' # None /\ Shared' # None
    /\ Shared'.bearer = b /\ Shared'.refreshPending = p /\ Shared'.logoutPending = q

\* It marks the record.
RenewMarks(j) ==
    /\ StepOf(j) /\ UNCHANGED <<ssServer, ssWire>> /\ ssLease'[j] = ssLease[j]
    /\ ssJob[j].pc = "renew" /\ Active /\ Free(j) /\ Holding(j, Shared.bearer) /\ MutexTo(j, j)
    /\ \/ Shared.refreshPending \/ NeedsRefresh(Shared.bearer, "half")
       \/ ssJob[j].rejected = Shared.bearer
    /\ RecordTo(Shared.bearer, TRUE, Shared.logoutPending)
    /\ ssJob'[j].pc = "exchange" /\ SameLocals(ssJob[j], ssJob'[j])

\* The shared exchange mints.
SharedMint(j) ==
    /\ StepOf(j) /\ UNCHANGED <<ssWire, ssRecord, ssCred, ssMutex>> /\ ssLease'[j] = ssLease[j]
    /\ ssJob[j].pc = "exchange" /\ ssJob'[j].pc = "keep" /\ Mint(FALSE)
    /\ ssJob'[j].kind = ssJob[j].kind /\ ssJob'[j].lapses = ssJob[j].lapses
    /\ ssJob'[j].retried = ssJob[j].retried /\ ssJob'[j].reply = ssJob[j].reply
    /\ ssJob'[j].back = ssJob[j].back /\ ssJob'[j].rejected = ssJob[j].rejected
    /\ ssJob'[j].using = ssMinted + 1

\* Its bearer is stored.
Keeps(j) ==
    /\ StepOf(j) /\ UNCHANGED <<ssServer, ssWire>> /\ ssLease'[j] = "none"
    /\ ssJob[j].pc = "keep" /\ MutexTo(j, None) /\ Holding(j, ssJob[j].using)
    /\ RecordTo(ssJob[j].using, FALSE, Shared.logoutPending)
    /\ \/ Ended(ssJob'[j]) /\ ssJob'[j].kind = ssJob[j].kind /\ ssJob[j].back = "done"
       \/ SameLocals(ssJob[j], ssJob'[j]) /\ ssJob[j].back # "done" /\ ssJob'[j].pc = ssJob[j].back

\* A logout is marked.
LogoutMarked(j) ==
    /\ StepOf(j) /\ UNCHANGED <<ssServer, ssWire, ssMutex>> /\ ssLease'[j] = ssLease[j]
    /\ ssJob[j].pc = "mark" /\ ssJob'[j].pc = "delete" /\ SameLocals(ssJob[j], ssJob'[j])
    /\ Shared # None /\ Free(j) /\ Holding(j, Shared.bearer)
    /\ RecordTo(Shared.bearer, Shared.refreshPending, TRUE)

\* The session is deleted, or the homeserver does nothing and says so.
Deletes(j) ==
    /\ StepOf(j) /\ UNCHANGED <<ssMinted, ssPhase, ssHistory, ssWire, ssRecord, ssCred, ssMutex>>
    /\ ssLease'[j] = ssLease[j] /\ ssJob[j].pc = "delete"
    /\ \/ ssGone' = TRUE /\ ssCur' = 0
       \/ ~Accepts(ssCred[tab(j)].bearer) /\ ssGone' = ssGone /\ ssCur' = ssCur
    /\ \/ ssLease[j] = "exclusive" /\ ssJob'[j].pc = "erase" /\ SameLocals(ssJob[j], ssJob'[j])
       \/ ssLease[j] # "exclusive" /\ Ended(ssJob'[j]) /\ ssJob'[j].kind = ssJob[j].kind

\* A call removes the record.
Erases(j) ==
    /\ StepOf(j) /\ UNCHANGED <<ssCur, ssGone, ssMinted, ssPhase, ssWire, ssCred, ssMutex>>
    /\ ssLease'[j] = "none" /\ ssJob[j].pc = "erase" /\ Forget
    /\ Ended(ssJob'[j]) /\ ssJob'[j].kind = ssJob[j].kind

\* A record is written around the shared state, or around none.
Puts(j) ==
    /\ StepOf(j) /\ UNCHANGED <<ssServer, ssWire, ssCred, ssMutex>> /\ ssLease'[j] = ssLease[j]
    /\ ssJob[j].pc = "put" /\ ssJob'[j].pc = "join" /\ SameLocals(ssJob[j], ssJob'[j])
    /\ ssRecord' \in RecordType /\ ssRecord' # None /\ Shared' = Shared

\* The credential of j's tab joins the record, which keeps the shared state there is.
Joins(j, own) ==
    /\ IF Shared = None THEN RecordTo(own, own = 0, FALSE)
       ELSE ssRecord' = ssRecord /\ Shared' = Shared
    /\ ssRecord # None
    /\ ssCred' \in [Tabs -> CredType \cup {None}]
    /\ ssCred'[tab(j)] # None /\ ssCred'[tab(j)].joined = TRUE
    /\ ssCred'[tab(j)].bearer = Shared'.bearer
    /\ \A t \in Tabs : t # tab(j) => ssCred'[t] = ssCred[t]

JoinsAsSaved(j) ==
    /\ StepOf(j) /\ UNCHANGED <<ssServer, ssWire, ssMutex>> /\ ssLease'[j] = "none"
    /\ ssJob[j].pc = "join" /\ Free(j) /\ ssCred[tab(j)] # None
    /\ Joins(j, ssCred[tab(j)].bearer)
    /\ Ended(ssJob'[j]) /\ ssJob'[j].kind = ssJob[j].kind

Rebuilt(j) ==
    /\ StepOf(j) /\ UNCHANGED <<ssServer, ssWire, ssMutex>> /\ ssLease'[j] = "none"
    /\ ssJob[j].pc = "rebuild" /\ Free(j) /\ Joins(j, 0)
    /\ ssJob'[j].pc = "begin" /\ ssJob'[j].lapses = ssJob[j].lapses
    /\ ssJob'[j].using = ssJob[j].using /\ ssJob'[j].rejected = ssJob[j].rejected
    /\ ssJob'[j].retried = ssJob[j].retried /\ ssJob'[j].reply = ssJob[j].reply
    /\ \/ ssJob'[j].kind = ssJob[j].kind /\ ssJob'[j].back = ssJob[j].back
       \/ ssJob'[j].kind = "signout" /\ ssJob'[j].back = "rebuild"

LEMMA HasCred ==
    ASSUME SSBase, NEW j \in Jobs, ssJob[j].pc \in CredSteps
    PROVE  ssCred[tab(j)] # None /\ ssCred[tab(j)].bearer \in Bearers
           /\ ssCred[tab(j)].joined \in BOOLEAN
  <1>1. ssCred[tab(j)] # None
    BY DEF SSBase, JobBase, JobCred
  <1> QED BY <1>1, CredFields, SharedConstants DEF SSBase

LEMMA RefreshLocalFacts ==
    ASSUME SSBase, NEW j \in Jobs, RefreshLocal(j)
    PROVE  LocalKept(j) \/ LocalTaken(j)
  <1>1. /\ UNCHANGED <<ssServer, ssWire, ssRecord, ssCred, ssLease>>
        /\ ssJob[j].pc = "local" /\ Free(j)
        /\ \/ /\ ~NeedsRefresh(ssCred[tab(j)].bearer, "half")
              /\ ssJob[j].rejected # ssCred[tab(j)].bearer
              /\ Go(j, AfterRefresh(j)) /\ UNCHANGED ssMutex
           \/ /\ \/ NeedsRefresh(ssCred[tab(j)].bearer, "half")
                 \/ ssJob[j].rejected = ssCred[tab(j)].bearer
              /\ Go(j, Move(j, "exchangeLocal")) /\ Take(j)
    BY DEF RefreshLocal
  <1>2. CASE /\ ~NeedsRefresh(ssCred[tab(j)].bearer, "half")
             /\ ssJob[j].rejected # ssCred[tab(j)].bearer
             /\ Go(j, AfterRefresh(j)) /\ UNCHANGED ssMutex
    <2>1. StepOf(j) /\ ssJob'[j] = AfterRefresh(j) /\ ssLease'[j] = ssLease[j]
      BY <1>1, <1>2, AfterRefreshFacts, GoesTo DEF SSBase
    <2> QED BY <1>1, <1>2, <2>1, AfterRefreshFacts DEF SSBase, LocalKept, World
  <1>3. CASE /\ \/ NeedsRefresh(ssCred[tab(j)].bearer, "half")
                \/ ssJob[j].rejected = ssCred[tab(j)].bearer
             /\ Go(j, Move(j, "exchangeLocal")) /\ Take(j)
    <2>1. "exchangeLocal" \in Steps
      BY DEF Steps
    <2>2. StepOf(j) /\ ssJob'[j] = Move(j, "exchangeLocal") /\ ssLease'[j] = ssLease[j]
      BY <1>1, <1>3, <2>1, MoveFacts, GoesTo DEF SSBase
    <2>3. MutexTo(j, j)
      BY <1>3, MutexFacts DEF SSBase
    <2> QED BY <1>1, <1>3, <2>1, <2>2, <2>3, MoveFacts DEF SSBase, LocalTaken
  <1> QED BY <1>1, <1>2, <1>3

LEMMA ExchangeLocalFacts ==
    ASSUME SSBase, NEW j \in Jobs, ExchangeLocal(j)
    PROVE  LocalMint(j) \/ ExchangeFails(j)
  <1>1. /\ UNCHANGED <<ssWire, ssRecord, ssLease>> /\ ssJob[j].pc = "exchangeLocal"
        /\ MutexTo(j, None)
        /\ \/ /\ Mint(ssRecord # None \/ ssCred[tab(j)].joined) /\ Hold(j, ssMinted')
              /\ Go(j, AfterRefresh(j))
           \/ Go(j, Reply(j, "error")) /\ UNCHANGED <<ssServer, ssCred>>
    BY MutexFacts DEF ExchangeLocal, SSBase
  <1>2. ssLease[j] = "none"
    BY <1>1 DEF SSBase, JobBase, JobLease, HeldSteps
  <1>3. CASE /\ Mint(ssRecord # None \/ ssCred[tab(j)].joined) /\ Hold(j, ssMinted')
             /\ Go(j, AfterRefresh(j))
    <2>1. StepOf(j) /\ ssJob'[j] = AfterRefresh(j) /\ ssLease'[j] = ssLease[j]
      BY <1>1, <1>3, AfterRefreshFacts, GoesTo DEF SSBase
    <2>2. ssMinted' = ssMinted + 1 /\ ssMinted + 1 \in Bearers
      BY <1>3, SharedConstants DEF Mint, SSBase, SSTypeOK, Bearers
    <2>3. ssCred[tab(j)] # None
      BY <1>1, HasCred DEF CredSteps, Steps
    <2>4. Holding(j, ssMinted + 1)
      BY <1>3, <2>2, <2>3, HoldFacts DEF SSBase
    <2> QED BY <1>1, <1>3, <2>1, <2>4, AfterRefreshFacts DEF SSBase, LocalMint
  <1>4. CASE Go(j, Reply(j, "error")) /\ UNCHANGED <<ssServer, ssCred>>
    <2>1. StepOf(j) /\ ssJob'[j] = Reply(j, "error") /\ ssLease'[j] = ssLease[j]
      BY <1>1, <1>4, ReplyFacts, GoesTo DEF SSBase
    <2>2. ssStrays' \in 0..MaxStrays /\ ssLostMade' \in 0..MaxStrays /\ ssStrays' <= ssLostMade'
      BY <1>1 DEF ssWire, SSBase, SSTypeOK
    <2> QED BY <1>1, <1>2, <1>4, <2>1, <2>2, ReplyFacts DEF SSBase, ExchangeFails
  <1> QED BY <1>1, <1>3, <1>4

LEMMA ExchangeLostFacts ==
    ASSUME SSBase, NEW j \in Jobs, ExchangeLost(j)
    PROVE  ExchangeFails(j)
  <1>1. /\ UNCHANGED <<ssServer, ssRecord, ssCred>> /\ ssJob[j].pc \in {"exchangeLocal", "exchange"}
        /\ MutexTo(j, None) /\ Go(j, Reply(j, "error")) /\ Drop(j)
    BY MutexFacts DEF ExchangeLost, SSBase
  <1>2. ssStrays' \in 0..MaxStrays /\ ssLostMade' \in 0..MaxStrays /\ ssStrays' <= ssLostMade'
    BY SharedConstants DEF ExchangeLost, SSBase, SSTypeOK
  <1> QED BY <1>1, <1>2, ReplyFacts, GoesTo DEF SSBase, ExchangeFails

LEMMA ActiveShared ==
    ASSUME SSTypeOK, Active
    PROVE  /\ Shared # None /\ Shared.bearer \in Bearers /\ Shared.refreshPending \in BOOLEAN
           /\ Shared.logoutPending = FALSE
  BY SharedFields DEF Active

LEMMA PrepareSharedFacts ==
    ASSUME SSBase, NEW j \in Jobs, PrepareShared(j)
    PROVE  Adopts(j)
  <1> DEFINE b == Shared.bearer
             x == [ssJob[j] EXCEPT !.pc = "wantExclusive", !.back = "wantShared", !.rejected = 0]
             y == [ssJob[j] EXCEPT !.pc = "send", !.using = b]
             due == Shared.refreshPending \/ NeedsRefresh(Shared.bearer, "half")
  <1>1. /\ UNCHANGED <<ssServer, ssWire, ssRecord, ssMutex>> /\ ssJob[j].pc = "adopt" /\ Active
        /\ Free(j) /\ Hold(j, Shared.bearer)
        /\ \/ due /\ Go(j, x) /\ Drop(j)
           \/ ~due /\ Go(j, y) /\ UNCHANGED ssLease
    BY DEF PrepareShared
  <1>2. /\ ssJob[j] \in JobType /\ {"wantExclusive", "wantShared", "send"} \subseteq Steps
        /\ 0 \in Bearers /\ b \in Bearers /\ Shared.refreshPending \in BOOLEAN
    BY <1>1, JobFields, ActiveShared, SharedConstants DEF SSBase, Steps, Bearers
  <1>3. Holding(j, Shared.bearer)
    BY <1>1, <1>2, HasCred, HoldFacts DEF SSBase, CredSteps, Steps
  <1> HIDE DEF b
  <1>4. /\ x \in JobType /\ x.pc = "wantExclusive" /\ x.back = "wantShared" /\ x.rejected = 0
        /\ x.kind = ssJob[j].kind /\ x.lapses = ssJob[j].lapses /\ x.using = ssJob[j].using
        /\ x.retried = ssJob[j].retried /\ x.reply = ssJob[j].reply
    BY <1>2 DEF JobType
  <1>5. /\ y \in JobType /\ y.pc = "send" /\ y.back = ssJob[j].back /\ y.using = b
        /\ y.kind = ssJob[j].kind /\ y.lapses = ssJob[j].lapses
        /\ y.rejected = ssJob[j].rejected
        /\ y.retried = ssJob[j].retried /\ y.reply = ssJob[j].reply
    BY <1>2 DEF JobType
  <1> HIDE DEF x, y
  <1>6. CASE due /\ Go(j, x) /\ Drop(j)
    <2>1. StepOf(j) /\ ssJob'[j] = x /\ ssLease'[j] = "none"
      BY <1>4, <1>6, GoesTo DEF SSBase
    <2> QED BY <1>1, <1>3, <1>4, <1>6, <2>1 DEF Adopts
  <1>7. CASE ~due /\ Go(j, y) /\ UNCHANGED ssLease
    <2>1. StepOf(j) /\ ssJob'[j] = y /\ ssLease'[j] = ssLease[j]
      BY <1>5, <1>7, GoesTo DEF SSBase
    <2> QED BY <1>1, <1>3, <1>5, <1>7, <2>1 DEF Adopts, b
  <1> QED BY <1>1, <1>6, <1>7

\* Writing the shared state of a record.
LEMMA RecordFacts ==
    ASSUME SSTypeOK, Shared # None, NEW s \in SharedType, ssRecord' = [ssRecord EXCEPT !.shared = s]
    PROVE  ssRecord' \in RecordType \cup {None} /\ ssRecord' # None /\ Shared' = s /\ Shared' # None
  <1>1. ssRecord \in RecordType /\ ssRecord # None
    BY SharedFields
  <1>2. ssRecord' \in RecordType /\ ssRecord'.shared = s
    BY <1>1 DEF RecordType
  <1> QED BY <1>2, SharedConstants DEF Shared

LEMMA RefreshSharedFacts ==
    ASSUME SSBase, NEW j \in Jobs, RefreshShared(j)
    PROVE  RenewKept(j) \/ RenewMarks(j)
  <1> DEFINE keep == /\ ~Shared.refreshPending /\ ~NeedsRefresh(Shared.bearer, "half")
                     /\ ssJob[j].rejected # Shared.bearer
  <1>1. /\ UNCHANGED <<ssServer, ssWire>> /\ ssJob[j].pc = "renew" /\ Active
        /\ Free(j) /\ Hold(j, Shared.bearer)
        /\ \/ keep /\ Go(j, AfterRefresh(j)) /\ Drop(j) /\ UNCHANGED <<ssRecord, ssMutex>>
           \/ /\ ~keep /\ ssRecord' = [ssRecord EXCEPT !.shared.refreshPending = TRUE]
              /\ Go(j, Move(j, "exchange")) /\ Take(j) /\ UNCHANGED ssLease
    BY DEF RefreshShared
  <1>2. Shared # None /\ Shared.bearer \in Bearers
    BY <1>1, ActiveShared DEF SSBase
  <1>3. Holding(j, Shared.bearer)
    BY <1>1, <1>2, HasCred, HoldFacts DEF SSBase, CredSteps, Steps
  <1>4. CASE keep /\ Go(j, AfterRefresh(j)) /\ Drop(j) /\ UNCHANGED <<ssRecord, ssMutex>>
    <2>1. StepOf(j) /\ ssJob'[j] = AfterRefresh(j) /\ ssLease'[j] = "none"
      BY <1>4, AfterRefreshFacts, GoesTo DEF SSBase
    <2> QED BY <1>1, <1>3, <1>4, <2>1, AfterRefreshFacts DEF SSBase, RenewKept
  <1>5. CASE /\ ~keep /\ ssRecord' = [ssRecord EXCEPT !.shared.refreshPending = TRUE]
             /\ Go(j, Move(j, "exchange")) /\ Take(j) /\ UNCHANGED ssLease
    <2> DEFINE s == [Shared EXCEPT !.refreshPending = TRUE]
    <2>1. "exchange" \in Steps
      BY DEF Steps
    <2>2. StepOf(j) /\ ssJob'[j] = Move(j, "exchange") /\ ssLease'[j] = ssLease[j]
      BY <1>5, <2>1, MoveFacts, GoesTo DEF SSBase
    <2>3. Shared \in SharedType /\ Shared = ssRecord.shared /\ ssRecord \in RecordType
      BY <1>2, SharedFields DEF SSBase
    <2>4. /\ s \in SharedType /\ s.bearer = Shared.bearer /\ s.refreshPending = TRUE
          /\ s.logoutPending = Shared.logoutPending
      BY <2>3 DEF SharedType
    <2>5. ssRecord' = [ssRecord EXCEPT !.shared = s]
      BY <1>5, <2>3 DEF RecordType
    <2> HIDE DEF s
    <2>6. RecordTo(Shared.bearer, TRUE, Shared.logoutPending)
      BY <1>2, <2>4, <2>5, RecordFacts DEF SSBase, RecordTo
    <2>7. MutexTo(j, j)
      BY <1>5, MutexFacts DEF SSBase
    <2> QED BY <1>1, <1>3, <1>5, <2>1, <2>2, <2>6, <2>7, MoveFacts DEF SSBase, RenewMarks
  <1> QED BY <1>1, <1>4, <1>5

LEMMA ExchangeSharedFacts ==
    ASSUME SSBase, NEW j \in Jobs, ExchangeShared(j)
    PROVE  SharedMint(j) \/ ExchangeFails(j)
  <1> DEFINE b == ssMinted + 1
             x == [ssJob[j] EXCEPT !.pc = "keep", !.using = b]
  <1>1. /\ UNCHANGED <<ssWire, ssRecord, ssCred>> /\ ssJob[j].pc = "exchange"
        /\ \/ /\ Mint(FALSE) /\ Go(j, [ssJob[j] EXCEPT !.pc = "keep", !.using = ssMinted'])
              /\ UNCHANGED <<ssMutex, ssLease>>
           \/ Go(j, Reply(j, "error")) /\ Give(j) /\ Drop(j) /\ UNCHANGED ssServer
    BY DEF ExchangeShared
  <1>2. CASE /\ Mint(FALSE) /\ Go(j, [ssJob[j] EXCEPT !.pc = "keep", !.using = ssMinted'])
             /\ UNCHANGED <<ssMutex, ssLease>>
    <2>1. ssMinted' = b /\ b \in Bearers
      BY <1>2, SharedConstants DEF Mint, SSBase, SSTypeOK, Bearers
    <2>2. ssJob[j] \in JobType /\ "keep" \in Steps
      BY JobFields DEF SSBase, Steps
    <2>3. Go(j, x)
      BY <1>2, <2>1
    <2> HIDE DEF b
    <2>4. /\ x \in JobType /\ x.pc = "keep" /\ x.using = b /\ x.back = ssJob[j].back
          /\ x.kind = ssJob[j].kind /\ x.lapses = ssJob[j].lapses
          /\ x.rejected = ssJob[j].rejected
          /\ x.retried = ssJob[j].retried /\ x.reply = ssJob[j].reply
      BY <2>1, <2>2 DEF JobType
    <2> HIDE DEF x
    <2>5. StepOf(j) /\ ssJob'[j] = x /\ ssLease'[j] = ssLease[j]
      BY <1>2, <2>3, <2>4, GoesTo DEF SSBase
    <2> QED BY <1>1, <1>2, <2>4, <2>5 DEF SharedMint, b
  <1>3. CASE Go(j, Reply(j, "error")) /\ Give(j) /\ Drop(j) /\ UNCHANGED ssServer
    <2>1. MutexTo(j, None)
      BY <1>3, MutexFacts DEF SSBase
    <2>2. ssStrays' \in 0..MaxStrays /\ ssLostMade' \in 0..MaxStrays /\ ssStrays' <= ssLostMade'
      BY <1>1 DEF ssWire, SSBase, SSTypeOK
    <2>3. StepOf(j) /\ ssJob'[j] = Reply(j, "error") /\ ssLease'[j] = "none"
      BY <1>3, ReplyFacts, GoesTo DEF SSBase
    <2> QED BY <1>1, <1>3, <2>1, <2>2, <2>3, ReplyFacts DEF SSBase, ExchangeFails
  <1> QED BY <1>1, <1>2, <1>3

LEMMA KeepBearerFacts ==
    ASSUME SSBase, NEW j \in Jobs, KeepBearer(j)
    PROVE  Keeps(j)
  <1> DEFINE b == ssJob[j].using
             s == [Shared EXCEPT !.bearer = b, !.refreshPending = FALSE]
  <1>1. /\ UNCHANGED <<ssServer, ssWire>> /\ ssJob[j].pc = "keep"
        /\ ssRecord' = [ssRecord EXCEPT !.shared.bearer = b, !.shared.refreshPending = FALSE]
        /\ Hold(j, b) /\ Go(j, AfterRefresh(j)) /\ Give(j) /\ Drop(j)
    BY DEF KeepBearer
  <1>2. Shared # None /\ b \in Bearers
    BY <1>1, JobFields DEF SSBase, JobBase, JobRecord
  <1>3. Shared \in SharedType /\ Shared = ssRecord.shared /\ ssRecord \in RecordType
    BY <1>2, SharedFields DEF SSBase
  <1>4. Holding(j, b)
    BY <1>1, <1>2, HasCred, HoldFacts DEF SSBase, CredSteps, Steps
  <1>5. /\ s \in SharedType /\ s.bearer = b /\ s.refreshPending = FALSE
        /\ s.logoutPending = Shared.logoutPending
    <2> HIDE DEF b
    <2> QED BY <1>2, <1>3 DEF SharedType
  <1>6. ssRecord' = [ssRecord EXCEPT !.shared = s]
    <2> HIDE DEF b
    <2> QED BY <1>1, <1>3 DEF RecordType, SharedType
  <1> HIDE DEF s
  <1>7. RecordTo(b, FALSE, Shared.logoutPending)
    BY <1>2, <1>5, <1>6, RecordFacts DEF SSBase, RecordTo
  <1>8. MutexTo(j, None)
    BY <1>1, MutexFacts DEF SSBase
  <1>9. StepOf(j) /\ ssJob'[j] = AfterRefresh(j) /\ ssLease'[j] = "none"
    BY <1>1, AfterRefreshFacts, GoesTo DEF SSBase
  <1> QED BY <1>1, <1>4, <1>7, <1>8, <1>9, AfterRefreshFacts DEF SSBase, Keeps

LEMMA MarkLogoutFacts ==
    ASSUME SSBase, NEW j \in Jobs, MarkLogout(j)
    PROVE  EndsQuietly(j) \/ LogoutMarked(j)
  <1> DEFINE r == IF ssJob[j].back = "rebuild" THEN "error" ELSE "ok"
             s == [Shared EXCEPT !.logoutPending = TRUE]
  <1>1. /\ UNCHANGED <<ssServer, ssWire, ssMutex>> /\ ssJob[j].pc = "mark"
        /\ \/ Shared = None /\ Go(j, Reply(j, r)) /\ Drop(j) /\ UNCHANGED <<ssRecord, ssCred>>
           \/ /\ Shared # None /\ Free(j) /\ Hold(j, Shared.bearer)
              /\ ssRecord' = [ssRecord EXCEPT !.shared.logoutPending = TRUE]
              /\ Go(j, Move(j, "delete")) /\ UNCHANGED ssLease
    BY DEF MarkLogout
  <1>2. CASE Shared = None /\ Go(j, Reply(j, r)) /\ Drop(j) /\ UNCHANGED <<ssRecord, ssCred>>
    <2>1. r \in {"ok", "signedOut", "error"}
      OBVIOUS
    <2> HIDE DEF r
    <2>2. StepOf(j) /\ ssJob'[j] = Reply(j, r) /\ ssLease'[j] = "none"
      BY <1>2, <2>1, ReplyFacts, GoesTo DEF SSBase
    <2> QED BY <1>1, <1>2, <2>1, <2>2, ReplyFacts DEF SSBase, EndsQuietly, World
  <1>3. CASE /\ Shared # None /\ Free(j) /\ Hold(j, Shared.bearer)
             /\ ssRecord' = [ssRecord EXCEPT !.shared.logoutPending = TRUE]
             /\ Go(j, Move(j, "delete")) /\ UNCHANGED ssLease
    <2>1. "delete" \in Steps
      BY DEF Steps
    <2>2. StepOf(j) /\ ssJob'[j] = Move(j, "delete") /\ ssLease'[j] = ssLease[j]
      BY <1>3, <2>1, MoveFacts, GoesTo DEF SSBase
    <2>3. Shared \in SharedType /\ Shared = ssRecord.shared /\ ssRecord \in RecordType
          /\ Shared.bearer \in Bearers
      BY <1>3, SharedFields DEF SSBase
    <2>4. /\ s \in SharedType /\ s.bearer = Shared.bearer /\ s.logoutPending = TRUE
          /\ s.refreshPending = Shared.refreshPending
      BY <2>3 DEF SharedType
    <2>5. ssRecord' = [ssRecord EXCEPT !.shared = s]
      BY <1>3, <2>3 DEF RecordType
    <2> HIDE DEF s
    <2>6. RecordTo(Shared.bearer, Shared.refreshPending, TRUE)
      BY <1>3, <2>4, <2>5, RecordFacts DEF SSBase, RecordTo
    <2>7. Holding(j, Shared.bearer)
      BY <1>1, <1>3, <2>3, HasCred, HoldFacts DEF SSBase, CredSteps, Steps
    <2> QED BY <1>1, <1>3, <2>1, <2>2, <2>6, <2>7, MoveFacts DEF SSBase, LogoutMarked
  <1> QED BY <1>1, <1>2, <1>3

LEMMA DeleteSessionFacts ==
    ASSUME SSBase, NEW j \in Jobs, NEW proof \in BOOLEAN, DeleteSession(j, proof)
    PROVE  Deletes(j)
  <1> DEFINE revokes == proof \/ Accepts(ssCred[tab(j)].bearer)
             r == IF revokes THEN "signedOut" ELSE "ok"
  <1>1. /\ UNCHANGED <<ssMinted, ssPhase, ssHistory, ssWire, ssRecord, ssCred, ssMutex, ssLease>>
        /\ ssJob[j].pc = "delete" /\ ssGone' = (ssGone \/ revokes)
        /\ ssCur' = IF revokes THEN 0 ELSE ssCur
        /\ Go(j, IF ssLease[j] = "exclusive" THEN Move(j, "erase") ELSE Reply(j, r))
    BY DEF DeleteSession
  <1>2. \/ ssGone' = TRUE /\ ssCur' = 0
        \/ ~Accepts(ssCred[tab(j)].bearer) /\ ssGone' = ssGone /\ ssCur' = ssCur
    <2>1. ssGone \in BOOLEAN
      BY DEF SSBase, SSTypeOK
    <2>2. CASE revokes
      BY <1>1, <2>1, <2>2
    <2>3. CASE ~revokes
      BY <1>1, <2>1, <2>3
    <2> QED BY <2>2, <2>3
  <1>3. r \in {"ok", "signedOut", "error"} /\ "erase" \in Steps
    BY DEF Steps
  <1> HIDE DEF r, revokes
  <1>4. CASE ssLease[j] = "exclusive"
    <2>1. StepOf(j) /\ ssJob'[j] = Move(j, "erase") /\ ssLease'[j] = ssLease[j]
      BY <1>1, <1>3, <1>4, MoveFacts, GoesTo DEF SSBase
    <2> QED BY <1>1, <1>2, <1>3, <1>4, <2>1, MoveFacts DEF SSBase, Deletes
  <1>5. CASE ssLease[j] # "exclusive"
    <2>1. StepOf(j) /\ ssJob'[j] = Reply(j, r) /\ ssLease'[j] = ssLease[j]
      BY <1>1, <1>3, <1>5, ReplyFacts, GoesTo DEF SSBase
    <2> QED BY <1>1, <1>2, <1>3, <1>5, <2>1, ReplyFacts DEF SSBase, Deletes
  <1> QED BY <1>4, <1>5

LEMMA EraseFacts ==
    ASSUME SSBase, NEW j \in Jobs, Erase(j)
    PROVE  Erases(j)
  <1> DEFINE r == IF ssJob[j].kind # "signout" THEN "ok"
                  ELSE IF ssJob[j].back = "rebuild" THEN "error" ELSE "signedOut"
  <1>1. /\ UNCHANGED <<ssCur, ssGone, ssMinted, ssPhase, ssWire, ssCred, ssMutex>>
        /\ ssJob[j].pc = "erase" /\ Forget /\ Go(j, Reply(j, r)) /\ Drop(j)
    BY DEF Erase
  <1>2. r \in {"ok", "signedOut", "error"}
    OBVIOUS
  <1> HIDE DEF r
  <1>3. StepOf(j) /\ ssJob'[j] = Reply(j, r) /\ ssLease'[j] = "none"
    BY <1>1, <1>2, ReplyFacts, GoesTo DEF SSBase
  <1> QED BY <1>1, <1>2, <1>3, ReplyFacts DEF SSBase, Erases

LEMMA PutFacts ==
    ASSUME SSBase, NEW j \in Jobs, Put(j)
    PROVE  Puts(j)
  <1>1. /\ UNCHANGED <<ssServer, ssWire, ssCred, ssMutex, ssLease>> /\ ssJob[j].pc = "put"
        /\ ssRecord' = [shared |-> Shared] /\ Go(j, Move(j, "join"))
    BY DEF Put
  <1>2. "join" \in Steps
    BY DEF Steps
  <1>3. StepOf(j) /\ ssJob'[j] = Move(j, "join") /\ ssLease'[j] = ssLease[j]
    BY <1>1, <1>2, MoveFacts, GoesTo DEF SSBase
  <1>4. Shared \in SharedType \cup {None}
    BY SharedFields DEF SSBase
  <1>5. ssRecord' \in RecordType /\ ssRecord'.shared = Shared
    BY <1>1, <1>4 DEF RecordType
  <1>6. ssRecord' # None /\ Shared' = Shared
    BY <1>5, SharedConstants DEF Shared
  <1> QED BY <1>1, <1>2, <1>3, <1>5, <1>6, MoveFacts DEF SSBase, Puts

LEMMA CoordinateFacts ==
    ASSUME SSBase, NEW j \in Jobs, NEW own \in Bearers, ssRecord # None, Coordinate(j, own)
    PROVE  Joins(j, own)
  <1> DEFINE z == (own = 0)
             new == [bearer |-> own, refreshPending |-> z, logoutPending |-> FALSE]
             s == IF Shared = None THEN new ELSE Shared
             c == [bearer |-> ssRecord'.shared.bearer, joined |-> TRUE]
  <1>1. ssRecord \in RecordType /\ Shared = ssRecord.shared
    BY DEF SSBase, SSTypeOK, Shared
  <1>2. z \in BOOLEAN
    OBVIOUS
  <1>3. ssRecord' = [ssRecord EXCEPT !.shared = s]
    BY <1>1 DEF Coordinate
  <1>4. ssCred' = [ssCred EXCEPT ![tab(j)] = c]
    BY DEF Coordinate
  <1> HIDE DEF z
  <1>5. /\ new \in SharedType /\ new.bearer = own /\ new.refreshPending = z
        /\ new.logoutPending = FALSE
    BY <1>2 DEF SharedType
  <1> HIDE DEF new
  <1>6. s \in SharedType
    BY <1>5, SharedFields DEF SSBase
  <1> HIDE DEF s
  <1>7. ssRecord' \in RecordType /\ ssRecord'.shared = s
    BY <1>1, <1>3, <1>6 DEF RecordType
  <1>8. ssRecord' # None /\ Shared' = s /\ Shared' # None
    BY <1>6, <1>7, SharedConstants DEF Shared
  <1>9. ssCred' \in [Tabs -> CredType \cup {None}]
         /\ ssCred'[tab(j)] # None /\ ssCred'[tab(j)].joined = TRUE
         /\ ssCred'[tab(j)].bearer = Shared'.bearer
         /\ \A t \in Tabs : t # tab(j) => ssCred'[t] = ssCred[t]
    <2>1. Shared'.bearer = ssRecord'.shared.bearer /\ ssRecord'.shared.bearer \in Bearers
      BY <1>6, <1>7, <1>8 DEF SharedType
    <2>2. c \in CredType /\ c.joined = TRUE /\ c.bearer = ssRecord'.shared.bearer /\ c # None
      <3>1. c \in CredType
        BY <2>1 DEF CredType
      <3> QED BY <3>1, SharedConstants
    <2>3. ssCred \in [Tabs -> CredType \cup {None}] /\ tab(j) \in Tabs
      BY SharedConstants DEF SSBase, SSTypeOK
    <2> HIDE DEF c
    <2> QED BY <1>4, <2>1, <2>2, <2>3
  <1>10. CASE Shared = None
    <2>1. Shared' = new
      BY <1>8, <1>10 DEF s
    <2>2. RecordTo(own, own = 0, FALSE)
      BY <1>5, <1>7, <1>8, <2>1 DEF RecordTo, z
    <2> QED BY <1>7, <1>8, <1>10, <2>2, <1>9 DEF Joins
  <1>11. CASE Shared # None
    <2>1. Shared' = Shared /\ s = Shared
      BY <1>8, <1>11 DEF s
    <2>2. ssRecord' = ssRecord
      BY <1>1, <1>3, <2>1 DEF RecordType
    <2> QED BY <1>9, <1>11, <2>1, <2>2 DEF Joins
  <1> QED BY <1>10, <1>11

LEMMA JoinFacts ==
    ASSUME SSBase, NEW j \in Jobs, Join(j)
    PROVE  JoinsAsSaved(j)
  <1>1. /\ UNCHANGED <<ssServer, ssWire, ssMutex>> /\ ssJob[j].pc = "join" /\ Free(j)
        /\ Coordinate(j, ssCred[tab(j)].bearer) /\ Go(j, Reply(j, "ok")) /\ Drop(j)
    BY DEF Join
  <1>2. ssRecord # None
    BY <1>1 DEF SSBase, JobBase, JobRecord
  <1>3. ssCred[tab(j)] # None /\ ssCred[tab(j)].bearer \in Bearers
    BY <1>1, HasCred DEF CredSteps, Steps
  <1>4. Joins(j, ssCred[tab(j)].bearer)
    BY <1>1, <1>2, <1>3, CoordinateFacts
  <1>5. StepOf(j) /\ ssJob'[j] = Reply(j, "ok") /\ ssLease'[j] = "none"
    BY <1>1, ReplyFacts, GoesTo DEF SSBase
  <1> QED BY <1>1, <1>3, <1>4, <1>5, ReplyFacts DEF SSBase, JoinsAsSaved

LEMMA RebuildFacts ==
    ASSUME SSBase, NEW j \in Jobs, Rebuild(j)
    PROVE  EndsQuietly(j) \/ Rebuilt(j)
  <1> DEFINE x == [ssJob[j] EXCEPT !.kind = "signout", !.pc = "begin", !.back = "rebuild"]
             w == IF Shared # None /\ Shared.logoutPending THEN x ELSE Move(j, "begin")
  <1>1. /\ UNCHANGED <<ssServer, ssWire, ssMutex>> /\ ssJob[j].pc = "rebuild" /\ Free(j) /\ Drop(j)
        /\ \/ ssRecord = None /\ Go(j, Reply(j, "error")) /\ UNCHANGED <<ssRecord, ssCred>>
           \/ ssRecord # None /\ Coordinate(j, 0) /\ Go(j, w)
    BY DEF Rebuild
  <1>2. CASE ssRecord = None /\ Go(j, Reply(j, "error")) /\ UNCHANGED <<ssRecord, ssCred>>
    <2>1. StepOf(j) /\ ssJob'[j] = Reply(j, "error") /\ ssLease'[j] = "none"
      BY <1>1, <1>2, ReplyFacts, GoesTo DEF SSBase
    <2> QED BY <1>1, <1>2, <2>1, ReplyFacts DEF SSBase, EndsQuietly, World
  <1>3. CASE ssRecord # None /\ Coordinate(j, 0) /\ Go(j, w)
    <2>1. ssJob[j] \in JobType /\ "begin" \in Steps /\ "rebuild" \in Steps /\ "signout" \in Kinds
          /\ 0 \in Bearers
      BY JobFields, SharedConstants DEF SSBase, Steps, Kinds, Bearers
    <2>2. /\ x \in JobType /\ x.pc = "begin" /\ x.kind = "signout" /\ x.back = "rebuild"
          /\ x.lapses = ssJob[j].lapses /\ x.using = ssJob[j].using
          /\ x.rejected = ssJob[j].rejected /\ x.retried = ssJob[j].retried
          /\ x.reply = ssJob[j].reply
      BY <2>1 DEF JobType
    <2> HIDE DEF x
    <2>3. /\ w \in JobType /\ w.pc = "begin" /\ w.lapses = ssJob[j].lapses
          /\ w.using = ssJob[j].using
          /\ w.rejected = ssJob[j].rejected /\ w.retried = ssJob[j].retried
          /\ w.reply = ssJob[j].reply
          /\ \/ w.kind = ssJob[j].kind /\ w.back = ssJob[j].back
             \/ w.kind = "signout" /\ w.back = "rebuild"
      BY <2>1, <2>2, MoveFacts DEF SSBase, SameLocals
    <2> HIDE DEF w
    <2>4. StepOf(j) /\ ssJob'[j] = w /\ ssLease'[j] = "none"
      BY <1>1, <1>3, <2>3, GoesTo DEF SSBase
    <2>5. Joins(j, 0)
      BY <1>3, <2>1, CoordinateFacts
    <2> QED BY <1>1, <2>3, <2>4, <2>5 DEF Rebuilt
  <1> QED BY <1>1, <1>2, <1>3

-----------------------------------------------------------------------------
(* Every step keeps SSBase.                                                 *)

LEMMA BaseQuietStep ==
    ASSUME SSBase, NEW j \in Jobs, StepOf(j), UNCHANGED World, Admits(j, ssLease'[j]),
           JobBase(j, ssJob'[j], ssLease'[j])
    PROVE  SSBase'
  BY BaseQuiet DEF StepOf

\* The quiet steps, all but those that take a lease or end the call.
LEMMA BaseQuietSteps ==
    ASSUME SSBase, NEW j \in Jobs,
           \/ \E kind \in Kinds : Start(j, kind)
           \/ Begin(j) \/ BearerForRequest(j) \/ Refresh(j) \/ CurrentBearer(j) \/ LocalKept(j)
    PROVE  SSBase'
  <1> USE DEF JobBase, JobLease, JobCred, JobRecord, JobLocals, SameLocals, HeldSteps, CredSteps,
              MutexSteps, Steps
  <1>0. /\ Admits(j, ssLease[j])
        /\ JobBase(j, ssJob[j], ssLease[j]) /\ ssJob[j].retried \in BOOLEAN
        /\ ssJob[j].lapses \in Nat /\ ssLapses \in Nat
    BY AdmitsOld, JobFields DEF SSBase, SSTypeOK
  <1>1. ASSUME NEW kind \in Kinds, Start(j, kind) PROVE SSBase'
    <2>1. JobBase(j, ssJob'[j], ssLease'[j])
      BY <1>0, <1>1, StartFacts
    <2> QED BY <1>0, <1>1, <2>1, StartFacts, BaseQuietStep
  <1>2. CASE Begin(j)
    <2>1. JobBase(j, ssJob'[j], ssLease'[j])
      BY <1>0, <1>2, BeginFacts
    <2> QED BY <1>0, <1>2, <2>1, BeginFacts, BaseQuietStep
  <1>3. CASE BearerForRequest(j)
    <2>1. JobBase(j, ssJob'[j], ssLease'[j])
      BY <1>0, <1>3, BearerForRequestFacts
    <2> QED BY <1>0, <1>3, <2>1, BearerForRequestFacts, BaseQuietStep
  <1>4. CASE Refresh(j)
    <2>1. JobBase(j, ssJob'[j], ssLease'[j])
      BY <1>0, <1>4, RefreshFacts
    <2> QED BY <1>0, <1>4, <2>1, RefreshFacts, BaseQuietStep
  <1>5. CASE CurrentBearer(j)
    <2>1. JobBase(j, ssJob'[j], ssLease'[j])
      BY <1>0, <1>5, CurrentBearerFacts
    <2> QED BY <1>0, <1>5, <2>1, CurrentBearerFacts, BaseQuietStep
  <1>6. CASE LocalKept(j)
    <2>1. JobBase(j, ssJob'[j], ssLease'[j])
      BY <1>0, <1>6 DEF LocalKept, Ended
    <2> QED BY <1>0, <1>6, <2>1, BaseQuietStep DEF LocalKept
  <1> QED BY <1>1, <1>2, <1>3, <1>4, <1>5, <1>6

LEMMA BaseLeaseSteps ==
    ASSUME SSBase, NEW j \in Jobs,
           Answer(j) \/ AcquireShared(j) \/ AcquireExclusive(j) \/ EndsQuietly(j)
    PROVE  SSBase'
  <1> USE DEF JobBase, JobLease, JobCred, JobRecord, JobLocals, SameLocals, HeldSteps, CredSteps,
              MutexSteps, Steps
  <1>0. /\ Admits(j, "none")
        /\ JobBase(j, ssJob[j], ssLease[j]) /\ ssJob[j].retried \in BOOLEAN
        /\ ssJob[j].lapses \in Nat /\ ssLapses \in Nat
    BY AdmitsOld, JobFields DEF SSBase, SSTypeOK
  <1>1. CASE Answer(j)
    <2>1. JobBase(j, ssJob'[j], ssLease'[j])
      BY <1>0, <1>1, AnswerFacts DEF Ended
    <2> QED BY <1>0, <1>1, <2>1, AnswerFacts, BaseQuietStep
  <1>2. CASE AcquireShared(j)
    <2>1. JobBase(j, ssJob'[j], ssLease'[j])
      BY <1>0, <1>2, AcquireSharedFacts
    <2>2. Admits(j, "shared")
      BY <1>2, AcquireSharedFacts DEF Admits
    <2> QED BY <1>2, <2>1, <2>2, AcquireSharedFacts, BaseQuietStep
  <1>3. CASE AcquireExclusive(j)
    <2>1. JobBase(j, ssJob'[j], ssLease'[j])
      BY <1>0, <1>3, AcquireExclusiveFacts
    <2>2. Admits(j, "exclusive")
      BY <1>3, AcquireExclusiveFacts DEF Admits
    <2> QED BY <1>3, <2>1, <2>2, AcquireExclusiveFacts, BaseQuietStep
  <1>4. CASE EndsQuietly(j)
    <2>1. JobBase(j, ssJob'[j], ssLease'[j])
      BY <1>0, <1>4 DEF EndsQuietly, Ended
    <2> QED BY <1>0, <1>4, <2>1, BaseQuietStep DEF EndsQuietly
  <1> QED BY <1>1, <1>2, <1>3, <1>4

\* A step of j that changes more, and takes from the other calls nothing they have.
LEMMA BaseLoud ==
    ASSUME SSBase, NEW j \in Jobs, StepOf(j), SSTypeOK', (ssStrays <= ssLostMade)',
           Admits(j, ssLease'[j]), JobBase(j, ssJob[j], ssLease[j])',
           \A t \in Tabs : ssCred[t] # None => ssCred'[t] # None,
           \A k \in Jobs : k # j /\ ssMutex[tab(k)] = k => ssMutex'[tab(k)] = k,
           ssLapses <= ssLapses',
           \/ /\ \A t \in Tabs : ssCred[t] = None => ssCred'[t] = None
              /\ (Shared # None => Shared' # None) /\ (ssRecord # None => ssRecord' # None)
           \/ ssLease[j] = "exclusive"
    PROVE  SSBase'
  <1>1. LeasesExclude'
    BY DEF SSBase, LeasesExclude, StepOf, Steps1, Admits
  <1>2. ASSUME NEW k \in Jobs, k # j PROVE JobBase(k, ssJob[k], ssLease[k])'
    <2>1. ssJob'[k] = ssJob[k] /\ ssLease'[k] = ssLease[k] /\ tab(k) \in Tabs
      BY <1>2, SharedConstants DEF StepOf, Steps1
    <2>2. JobBase(k, ssJob[k], ssLease[k])
      BY DEF SSBase
    <2>3. ssLease[j] = "exclusive" => ssLease[k] = "none"
      BY <1>2 DEF SSBase, LeasesExclude
    <2>4. JobLease(ssJob[k], ssLease[k])'
      BY <2>1, <2>2 DEF JobBase, JobLease
    <2>5. JobLocals(ssJob[k])'
      <3>1. ssJob[k].lapses \in Nat /\ ssLapses \in Nat /\ ssLapses' \in Nat
        BY JobFields DEF SSBase, SSTypeOK
      <3> QED BY <2>1, <2>2, <3>1 DEF JobBase, JobLocals
    <2>6. JobCred(k, ssJob[k])'
      BY <1>2, <2>1, <2>2, <2>3 DEF JobBase, JobLease, JobCred, HeldSteps, tab
    <2>7. JobRecord(ssJob[k], ssLease[k])'
      BY <2>1, <2>2, <2>3 DEF JobBase, JobLease, JobRecord, HeldSteps
    <2> QED BY <2>4, <2>5, <2>6, <2>7 DEF JobBase
  <1>3. \A k \in Jobs : JobBase(k, ssJob[k], ssLease[k])'
    BY <1>2
  <1> QED BY <1>1, <1>3 DEF SSBase

\* The mutex moves from or to j only.
LEMMA MutexKept ==
    ASSUME SSBase, NEW j \in Jobs, NEW m, MutexTo(j, m),
           Free(j) \/ ssMutex[tab(j)] = j \/ ssMutex' = ssMutex
    PROVE  \A k \in Jobs : k # j /\ ssMutex[tab(k)] = k => ssMutex'[tab(k)] = k
  BY SharedConstants DEF MutexTo, Free

LEMMA MintFacts ==
    ASSUME SSTypeOK, NEW o \in BOOLEAN, Mint(o)
    PROVE  /\ ssCur' \in Bearers /\ ssMinted' \in Bearers /\ ssOutside' \subseteq 1..MaxMint
           /\ ssLapses' \in Nat /\ ssLapses <= ssLapses' /\ ssOutside \subseteq ssOutside'
           /\ ssMinted' = ssMinted + 1 /\ ssCur' = ssMinted + 1 /\ ssMinted + 1 \in 1..MaxMint
           /\ o => ssOutside' = ssOutside \cup {ssMinted + 1} /\ ssLapses' = ssLapses + 1
           /\ ~o => ssOutside' = ssOutside /\ ssLapses' = ssLapses
           /\ ssGone = FALSE /\ ssGone' = FALSE /\ ssPhase' = ssPhase
  <1>1. /\ ~ssGone /\ ssMinted < MaxMint /\ ssMinted' = ssMinted + 1 /\ ssCur' = ssMinted + 1
        /\ ssGone' = ssGone /\ ssPhase' = ssPhase
        /\ o => ssOutside' = ssOutside \cup {ssMinted + 1} /\ ssLapses' = ssLapses + 1
        /\ ~o => ssOutside' = ssOutside /\ ssLapses' = ssLapses
    BY DEF Mint, ssHistory
  <1>2. ssMinted + 1 \in 1..MaxMint /\ ssMinted + 1 \in Bearers
    BY <1>1, SharedConstants DEF SSTypeOK, Bearers
  <1>3. /\ ssOutside' \subseteq 1..MaxMint /\ ssOutside \subseteq ssOutside'
        /\ ssLapses' \in Nat /\ ssLapses <= ssLapses'
    <2>1. ssOutside \subseteq 1..MaxMint /\ ssLapses \in Nat
      BY DEF SSTypeOK
    <2>2. CASE o
      <3>1. ssOutside' = ssOutside \cup {ssMinted + 1} /\ ssLapses' = ssLapses + 1
        BY <1>1, <2>2
      <3>2. ssOutside' \subseteq 1..MaxMint /\ ssOutside \subseteq ssOutside'
        BY <1>2, <2>1, <3>1, Zenon
      <3>3. ssLapses' \in Nat /\ ssLapses <= ssLapses'
        BY <2>1, <3>1
      <3> QED BY <3>2, <3>3
    <2>3. CASE ~o
      <3>1. ssOutside' = ssOutside /\ ssLapses' = ssLapses
        BY <1>1, <2>3
      <3> QED BY <2>1, <3>1
    <2> QED BY <2>2, <2>3
  <1>4. ssGone = FALSE
    BY <1>1 DEF SSTypeOK
  <1> QED BY <1>1, <1>2, <1>3, <1>4

LEMMA StepTypes ==
    ASSUME SSTypeOK, NEW j \in Jobs, StepOf(j)
    PROVE  ssJob' \in [Jobs -> JobType] /\ ssLease' \in [Jobs -> {"none", "shared", "exclusive"}]
  BY DEF StepOf, Steps1, Leases

LEMMA BaseLocalTaken ==
    ASSUME SSBase, NEW j \in Jobs, LocalTaken(j) PROVE SSBase'
  <1> USE DEF LocalTaken
  <1>1. UNCHANGED <<ssCur, ssGone, ssMinted, ssPhase, ssOutside, ssLapses, ssStrays, ssLostMade,
                    ssRecord, ssCred>>
    BY DEF ssServer, ssHistory, ssWire
  <1>2. SSTypeOK' /\ (ssStrays <= ssLostMade)'
    BY <1>1, StepTypes DEF SSBase, SSTypeOK, MutexTo
  <1>3. Admits(j, ssLease'[j])
    BY AdmitsOld
  <1>4. JobBase(j, ssJob[j], ssLease[j])'
    BY <1>1 DEF SSBase, JobBase, JobLease, JobCred, JobRecord, JobLocals, SameLocals,
                HeldSteps, CredSteps, MutexSteps, Steps, MutexTo, tab
  <1>5. Shared' = Shared /\ ssLapses <= ssLapses'
    BY <1>1 DEF Shared, SSBase, SSTypeOK
  <1>6. \A k \in Jobs : k # j /\ ssMutex[tab(k)] = k => ssMutex'[tab(k)] = k
    BY MutexKept
  <1> HIDE DEF LocalTaken
  <1>7. StepOf(j)
    BY DEF LocalTaken
  <1> QED BY <1>1, <1>2, <1>3, <1>4, <1>5, <1>6, <1>7, BaseLoud

LEMMA BaseLocalMint ==
    ASSUME SSBase, NEW j \in Jobs, LocalMint(j) PROVE SSBase'
  <1>1. /\ UNCHANGED <<ssStrays, ssLostMade, ssRecord>> /\ ssLease'[j] = ssLease[j]
        /\ ssJob[j].pc = "exchangeLocal" /\ StepOf(j) /\ MutexTo(j, None)
        /\ Holding(j, ssMinted + 1) /\ Shared' = Shared
    BY DEF LocalMint, ssWire, Shared
  <1>2. /\ ssCur' \in Bearers /\ ssMinted' \in Bearers /\ ssOutside' \subseteq 1..MaxMint
        /\ ssLapses' \in Nat /\ ssLapses <= ssLapses' /\ ssGone' \in BOOLEAN /\ ssPhase' = ssPhase
    <2> DEFINE o == ssRecord # None \/ ssCred[tab(j)].joined
    <2>1. o \in BOOLEAN /\ Mint(o)
      BY DEF LocalMint
    <2> HIDE DEF o
    <2> QED BY <2>1, MintFacts DEF SSBase
  <1>3. SSTypeOK' /\ (ssStrays <= ssLostMade)'
    BY <1>1, <1>2, StepTypes DEF SSBase, SSTypeOK, MutexTo, Holding
  <1>4. Admits(j, ssLease'[j])
    BY <1>1, AdmitsOld
  <1>5. ssMutex[tab(j)] = j
    BY <1>1 DEF SSBase, JobBase, JobCred, MutexSteps
  <1>6. JobBase(j, ssJob[j], ssLease[j])'
    <2>1. ssJob[j].lapses \in Nat /\ ssLapses \in Nat
      BY JobFields DEF SSBase, SSTypeOK
    <2> QED BY <1>1, <1>2, <2>1
            DEF LocalMint, SSBase, JobBase, JobLease, JobCred, JobRecord, JobLocals, SameLocals,
                HeldSteps, CredSteps, MutexSteps, Steps, Holding, Ended, tab
  <1>7. \A k \in Jobs : k # j /\ ssMutex[tab(k)] = k => ssMutex'[tab(k)] = k
    BY <1>1, <1>5, MutexKept
  <1>8. \A t \in Tabs : ssCred[t] # None <=> ssCred'[t] # None
    BY <1>1 DEF Holding
  <1> QED BY <1>1, <1>2, <1>3, <1>4, <1>6, <1>7, <1>8, BaseLoud

LEMMA BaseExchangeFails ==
    ASSUME SSBase, NEW j \in Jobs, ExchangeFails(j) PROVE SSBase'
  <1>1. /\ UNCHANGED <<ssCur, ssGone, ssMinted, ssPhase, ssOutside, ssLapses, ssRecord, ssCred>>
        /\ ssLease'[j] = "none" /\ Shared' = Shared
        /\ ssJob[j].pc \in {"exchangeLocal", "exchange"} /\ StepOf(j) /\ MutexTo(j, None)
        /\ ssStrays' \in 0..MaxStrays /\ ssLostMade' \in 0..MaxStrays /\ ssStrays' <= ssLostMade'
    BY DEF ExchangeFails, ssServer, ssHistory, Shared
  <1>3. SSTypeOK'
    BY <1>1, StepTypes DEF SSBase, SSTypeOK, MutexTo
  <1>4. Admits(j, ssLease'[j])
    BY <1>1, AdmitsOld
  <1>5. ssMutex[tab(j)] = j
    BY <1>1 DEF SSBase, JobBase, JobCred, MutexSteps
  <1>6. JobBase(j, ssJob[j], ssLease[j])'
    BY <1>1 DEF ExchangeFails, SSBase, JobBase, JobLease, JobCred, JobRecord, JobLocals,
                HeldSteps, CredSteps, MutexSteps, Steps, Ended
  <1>7. \A k \in Jobs : k # j /\ ssMutex[tab(k)] = k => ssMutex'[tab(k)] = k
    BY <1>1, <1>5, MutexKept
  <1>8. ssLapses <= ssLapses'
    BY <1>1 DEF SSBase, SSTypeOK
  <1> QED BY <1>1, <1>3, <1>4, <1>6, <1>7, <1>8, BaseLoud

LEMMA BaseAdopts ==
    ASSUME SSBase, NEW j \in Jobs, Adopts(j) \/ RenewKept(j) PROVE SSBase'
  <1>1. /\ UNCHANGED <<ssCur, ssGone, ssMinted, ssPhase, ssOutside, ssLapses, ssStrays, ssLostMade,
                       ssRecord, ssMutex>>
        /\ ssLease'[j] \in {"none", ssLease[j]} /\ Shared' = Shared
        /\ StepOf(j) /\ Holding(j, Shared.bearer)
    BY DEF Adopts, RenewKept, ssServer, ssHistory, ssWire, Shared
  <1>2. SSTypeOK' /\ (ssStrays <= ssLostMade)'
    BY <1>1, StepTypes DEF SSBase, SSTypeOK, Holding
  <1>3. Admits(j, ssLease'[j])
    BY <1>1, AdmitsOld
  <1>4. JobBase(j, ssJob[j], ssLease[j])'
    <2>1. JobBase(j, ssJob[j], ssLease[j]) /\ ssJob[j].retried \in BOOLEAN
      BY JobFields DEF SSBase
    <2>2. CASE Adopts(j)
      BY <1>1, <2>1, <2>2 DEF Adopts, JobBase, JobLease, JobCred, JobRecord, JobLocals,
                HeldSteps, CredSteps, MutexSteps, Steps, Holding, tab
    <2>3. CASE RenewKept(j)
      BY <1>1, <2>1, <2>3 DEF RenewKept, JobBase, JobLease, JobCred, JobRecord, JobLocals,
                HeldSteps, CredSteps, MutexSteps, Steps, Holding, tab, SameLocals, Ended
    <2> QED BY <2>2, <2>3
  <1>5. \A t \in Tabs : ssCred[t] # None <=> ssCred'[t] # None
    BY <1>1 DEF Holding
  <1>6. ssLapses <= ssLapses'
    BY <1>1 DEF SSBase, SSTypeOK
  <1> QED BY <1>1, <1>2, <1>3, <1>4, <1>5, <1>6, BaseLoud

LEMMA BaseRenewMarks ==
    ASSUME SSBase, NEW j \in Jobs, RenewMarks(j) PROVE SSBase'
  <1>1. /\ UNCHANGED <<ssCur, ssGone, ssMinted, ssPhase, ssOutside, ssLapses, ssStrays, ssLostMade>>
        /\ ssLease'[j] = ssLease[j] /\ MutexTo(j, j) /\ Free(j)
        /\ ssRecord' \in RecordType \cup {None} /\ ssRecord' # None /\ Shared' # None
        /\ StepOf(j) /\ Holding(j, Shared.bearer)
    BY DEF RenewMarks, ssServer, ssHistory, ssWire, RecordTo
  <1>2. SSTypeOK' /\ (ssStrays <= ssLostMade)'
    BY <1>1, StepTypes DEF SSBase, SSTypeOK, Holding, MutexTo
  <1>3. Admits(j, ssLease'[j])
    BY <1>1, AdmitsOld
  <1>4. JobBase(j, ssJob[j], ssLease[j])'
    <2>1. JobBase(j, ssJob[j], ssLease[j]) /\ ssJob[j].retried \in BOOLEAN
      BY JobFields DEF SSBase
    <2> QED
      BY <1>1, <2>1 DEF RenewMarks, JobBase, JobLease, JobCred, JobRecord, JobLocals,
                HeldSteps, CredSteps, MutexSteps, Steps, Holding, tab, MutexTo, SameLocals
  <1>5. \A t \in Tabs : ssCred[t] # None <=> ssCred'[t] # None
    BY <1>1 DEF Holding
  <1>6. ssLapses <= ssLapses'
    BY <1>1 DEF SSBase, SSTypeOK
  <1>7. \A k \in Jobs : k # j /\ ssMutex[tab(k)] = k => ssMutex'[tab(k)] = k
    BY <1>1, MutexKept
  <1> QED BY <1>1, <1>2, <1>3, <1>4, <1>5, <1>6, <1>7, BaseLoud

LEMMA BaseSharedMint ==
    ASSUME SSBase, NEW j \in Jobs, SharedMint(j) PROVE SSBase'
  <1>1. /\ UNCHANGED <<ssStrays, ssLostMade, ssRecord, ssCred, ssMutex>> /\ ssLease'[j] = ssLease[j]
        /\ StepOf(j) /\ Shared' = Shared
    BY DEF SharedMint, ssWire, Shared
  <1>2. /\ ssCur' \in Bearers /\ ssMinted' \in Bearers /\ ssOutside' \subseteq 1..MaxMint
        /\ ssLapses' \in Nat /\ ssLapses <= ssLapses' /\ ssLapses' = ssLapses
        /\ ssGone' \in BOOLEAN /\ ssPhase' = ssPhase
    BY MintFacts DEF SharedMint, SSBase
  <1>3. SSTypeOK' /\ (ssStrays <= ssLostMade)'
    BY <1>1, <1>2, StepTypes DEF SSBase, SSTypeOK
  <1>4. Admits(j, ssLease'[j])
    BY <1>1, AdmitsOld
  <1>5. JobBase(j, ssJob[j], ssLease[j])'
    <2>1. JobBase(j, ssJob[j], ssLease[j]) /\ ssJob[j].retried \in BOOLEAN
      BY JobFields DEF SSBase
    <2> QED
      BY <1>1, <1>2, <2>1 DEF SharedMint, JobBase, JobLease, JobCred, JobRecord, JobLocals,
                HeldSteps, CredSteps, MutexSteps, Steps, tab
  <1> QED BY <1>1, <1>2, <1>3, <1>4, <1>5, BaseLoud

LEMMA BaseKeeps ==
    ASSUME SSBase, NEW j \in Jobs, Keeps(j) PROVE SSBase'
  <1>1. /\ UNCHANGED <<ssCur, ssGone, ssMinted, ssPhase, ssOutside, ssLapses, ssStrays, ssLostMade>>
        /\ ssLease'[j] = "none" /\ MutexTo(j, None) /\ ssJob[j].pc = "keep"
        /\ ssRecord' \in RecordType \cup {None} /\ ssRecord' # None /\ Shared' # None
        /\ StepOf(j) /\ Holding(j, ssJob[j].using)
    BY DEF Keeps, ssServer, ssHistory, ssWire, RecordTo
  <1>2. SSTypeOK' /\ (ssStrays <= ssLostMade)'
    BY <1>1, StepTypes DEF SSBase, SSTypeOK, Holding, MutexTo
  <1>3. Admits(j, ssLease'[j])
    BY <1>1, AdmitsOld
  <1>4. JobBase(j, ssJob[j], ssLease[j])'
    <2>1. JobBase(j, ssJob[j], ssLease[j]) /\ ssJob[j].retried \in BOOLEAN
      BY JobFields DEF SSBase
    <2> QED
      BY <1>1, <2>1 DEF Keeps, JobBase, JobLease, JobCred, JobRecord, JobLocals,
                HeldSteps, CredSteps, MutexSteps, Steps, Holding, tab, SameLocals, Ended
  <1>5. \A t \in Tabs : ssCred[t] # None <=> ssCred'[t] # None
    BY <1>1 DEF Holding
  <1>6. ssLapses <= ssLapses'
    BY <1>1 DEF SSBase, SSTypeOK
  <1>7. ssMutex[tab(j)] = j
    BY <1>1 DEF SSBase, JobBase, JobCred, MutexSteps
  <1>8. \A k \in Jobs : k # j /\ ssMutex[tab(k)] = k => ssMutex'[tab(k)] = k
    BY <1>1, <1>7, MutexKept
  <1> QED BY <1>1, <1>2, <1>3, <1>4, <1>5, <1>6, <1>8, BaseLoud

LEMMA BaseLogoutMarked ==
    ASSUME SSBase, NEW j \in Jobs, LogoutMarked(j) PROVE SSBase'
  <1>1. /\ UNCHANGED <<ssCur, ssGone, ssMinted, ssPhase, ssOutside, ssLapses, ssStrays, ssLostMade,
                       ssMutex>>
        /\ ssLease'[j] = ssLease[j] /\ ssJob[j].pc = "mark"
        /\ ssRecord' \in RecordType \cup {None} /\ ssRecord' # None /\ Shared' # None
        /\ StepOf(j) /\ Holding(j, Shared.bearer)
    BY DEF LogoutMarked, ssServer, ssHistory, ssWire, RecordTo
  <1>2. SSTypeOK' /\ (ssStrays <= ssLostMade)'
    BY <1>1, StepTypes DEF SSBase, SSTypeOK, Holding
  <1>3. Admits(j, ssLease'[j])
    BY <1>1, AdmitsOld
  <1>4. JobBase(j, ssJob[j], ssLease[j])'
    <2>1. JobBase(j, ssJob[j], ssLease[j]) /\ ssJob[j].retried \in BOOLEAN
      BY JobFields DEF SSBase
    <2> QED
      BY <1>1, <2>1 DEF LogoutMarked, JobBase, JobLease, JobCred, JobRecord, JobLocals,
                HeldSteps, CredSteps, MutexSteps, Steps, Holding, tab, SameLocals
  <1>5. \A t \in Tabs : ssCred[t] # None <=> ssCred'[t] # None
    BY <1>1 DEF Holding
  <1>6. ssLapses <= ssLapses'
    BY <1>1 DEF SSBase, SSTypeOK
  <1> QED BY <1>1, <1>2, <1>3, <1>4, <1>5, <1>6, BaseLoud

LEMMA BaseDeletes ==
    ASSUME SSBase, NEW j \in Jobs, Deletes(j) PROVE SSBase'
  <1>1. /\ UNCHANGED <<ssMinted, ssPhase, ssOutside, ssLapses, ssStrays, ssLostMade, ssRecord,
                       ssCred, ssMutex>>
        /\ ssLease'[j] = ssLease[j] /\ StepOf(j) /\ Shared' = Shared
    BY DEF Deletes, ssHistory, ssWire, Shared
  <1>2. ssGone' \in BOOLEAN /\ ssCur' \in Bearers
    <2>1. ssGone \in BOOLEAN /\ ssCur \in Bearers /\ 0 \in Bearers
      BY SharedConstants DEF SSBase, SSTypeOK, Bearers
    <2> QED BY <2>1 DEF Deletes
  <1>3. SSTypeOK' /\ (ssStrays <= ssLostMade)'
    BY <1>1, <1>2, StepTypes DEF SSBase, SSTypeOK
  <1>4. Admits(j, ssLease'[j])
    BY <1>1, AdmitsOld
  <1>5. JobBase(j, ssJob[j], ssLease[j])'
    <2>1. JobBase(j, ssJob[j], ssLease[j]) /\ ssJob[j].retried \in BOOLEAN
          /\ ssLease[j] \in {"none", "shared", "exclusive"}
      BY JobFields DEF SSBase, Leases
    <2> QED
      BY <1>1, <2>1 DEF Deletes, JobBase, JobLease, JobCred, JobRecord, JobLocals,
                HeldSteps, CredSteps, MutexSteps, Steps, tab, SameLocals, Ended
  <1>6. ssLapses <= ssLapses'
    BY <1>1 DEF SSBase, SSTypeOK
  <1> QED BY <1>1, <1>3, <1>4, <1>5, <1>6, BaseLoud

LEMMA ForgetFacts ==
    ASSUME SSTypeOK, Forget
    PROVE  /\ ssRecord' = None /\ Shared' = None /\ ssLapses' = ssLapses + 1 /\ ssLapses' \in Nat
           /\ ssLapses <= ssLapses' /\ ssOutside' = ssOutside \cup 1..ssMinted
           /\ ssOutside' \subseteq 1..MaxMint
  BY SharedConstants DEF Forget, Shared, SSTypeOK, Bearers

LEMMA BaseErases ==
    ASSUME SSBase, NEW j \in Jobs, Erases(j) PROVE SSBase'
  <1>1. /\ UNCHANGED <<ssCur, ssGone, ssMinted, ssPhase, ssStrays, ssLostMade, ssCred, ssMutex>>
        /\ ssLease'[j] = "none" /\ StepOf(j) /\ ssJob[j].pc = "erase" /\ Forget
    BY DEF Erases, ssWire
  <1>2. /\ ssRecord' = None /\ ssLapses' \in Nat
        /\ ssLapses <= ssLapses' /\ ssOutside' \subseteq 1..MaxMint
    BY <1>1, ForgetFacts DEF SSBase
  <1>3. SSTypeOK' /\ (ssStrays <= ssLostMade)'
    BY <1>1, <1>2, StepTypes DEF SSBase, SSTypeOK
  <1>4. Admits(j, ssLease'[j])
    BY <1>1, AdmitsOld
  <1>5. JobBase(j, ssJob[j], ssLease[j])' /\ ssLease[j] = "exclusive"
    <2>1. JobBase(j, ssJob[j], ssLease[j])
      BY DEF SSBase
    <2> QED
      BY <1>1, <2>1 DEF Erases, JobBase, JobLease, JobCred, JobRecord, JobLocals,
                HeldSteps, CredSteps, MutexSteps, Steps, Ended
  <1> QED BY <1>1, <1>2, <1>3, <1>4, <1>5, BaseLoud

LEMMA BasePuts ==
    ASSUME SSBase, NEW j \in Jobs, Puts(j) PROVE SSBase'
  <1>1. /\ UNCHANGED <<ssCur, ssGone, ssMinted, ssPhase, ssOutside, ssLapses, ssStrays, ssLostMade,
                       ssCred, ssMutex>>
        /\ ssLease'[j] = ssLease[j] /\ StepOf(j)
        /\ ssRecord' \in RecordType /\ ssRecord' # None /\ Shared' = Shared
    BY DEF Puts, ssServer, ssHistory, ssWire
  <1>3. SSTypeOK' /\ (ssStrays <= ssLostMade)'
    BY <1>1, StepTypes DEF SSBase, SSTypeOK
  <1>4. Admits(j, ssLease'[j])
    BY <1>1, AdmitsOld
  <1>5. JobBase(j, ssJob[j], ssLease[j])'
    <2>1. JobBase(j, ssJob[j], ssLease[j]) /\ ssJob[j].retried \in BOOLEAN
      BY JobFields DEF SSBase
    <2> QED
      BY <1>1, <2>1 DEF Puts, JobBase, JobLease, JobCred, JobRecord, JobLocals,
                HeldSteps, CredSteps, MutexSteps, Steps, tab, SameLocals
  <1>6. ssLapses <= ssLapses'
    BY <1>1 DEF SSBase, SSTypeOK
  <1> QED BY <1>1, <1>3, <1>4, <1>5, <1>6, BaseLoud

LEMMA BaseJoins ==
    ASSUME SSBase, NEW j \in Jobs, JoinsAsSaved(j) \/ Rebuilt(j) PROVE SSBase'
  <1>1. /\ UNCHANGED <<ssCur, ssGone, ssMinted, ssPhase, ssOutside, ssLapses, ssStrays, ssLostMade,
                       ssMutex>>
        /\ ssLease'[j] = "none" /\ StepOf(j) /\ ssJob[j].pc \in {"join", "rebuild"}
        /\ ssRecord' \in RecordType \cup {None} /\ ssRecord' # None /\ Shared' # None
        /\ ssCred' \in [Tabs -> CredType \cup {None}] /\ ssCred'[tab(j)] # None
        /\ \A t \in Tabs : t # tab(j) => ssCred'[t] = ssCred[t]
    BY DEF JoinsAsSaved, Rebuilt, Joins, RecordTo, ssServer, ssHistory, ssWire, SSBase, SSTypeOK
  <1>3. SSTypeOK' /\ (ssStrays <= ssLostMade)'
    BY <1>1, StepTypes DEF SSBase, SSTypeOK
  <1>4. Admits(j, ssLease'[j])
    BY <1>1, AdmitsOld
  <1>5. JobBase(j, ssJob[j], ssLease[j])' /\ ssLease[j] = "exclusive"
    <2>1. JobBase(j, ssJob[j], ssLease[j]) /\ ssJob[j].retried \in BOOLEAN
      BY JobFields DEF SSBase
    <2>2. CASE JoinsAsSaved(j)
      BY <1>1, <2>1, <2>2 DEF JoinsAsSaved, JobBase, JobLease, JobCred, JobRecord, JobLocals,
                HeldSteps, CredSteps, MutexSteps, Steps, Ended
    <2>3. CASE Rebuilt(j)
      BY <1>1, <2>1, <2>3 DEF Rebuilt, JobBase, JobLease, JobCred, JobRecord, JobLocals,
                HeldSteps, CredSteps, MutexSteps, Steps, tab
    <2> QED BY <2>2, <2>3
  <1>6. ssLapses <= ssLapses'
    BY <1>1 DEF SSBase, SSTypeOK
  <1>7. \A t \in Tabs : ssCred[t] # None => ssCred'[t] # None
    BY <1>1
  <1> QED BY <1>1, <1>3, <1>4, <1>5, <1>6, <1>7, BaseLoud

\* A tab closes: its calls have ended, the others have what they had.
Closes(t) ==
    /\ UNCHANGED <<ssServer, ssRecord>>
    /\ ssStrays' \in 0..MaxStrays /\ ssLostMade' \in 0..MaxStrays /\ ssStrays' <= ssLostMade'
    /\ ssJob' \in [Jobs -> JobType] /\ ssLease' \in [Jobs -> Leases]
    /\ \A k \in Jobs : tab(k) = t =>
          /\ ssLease'[k] = "none"
          /\ \/ Ended(ssJob'[k]) /\ ssJob'[k].kind = ssJob[k].kind
             \/ ssJob'[k] = ssJob[k] /\ ssJob[k].pc \in {"idle", "done"}
    /\ \A k \in Jobs : tab(k) # t => ssJob'[k] = ssJob[k] /\ ssLease'[k] = ssLease[k]
    /\ ssMutex' \in [Tabs -> Jobs \cup {None}] /\ ssMutex'[t] = None
    /\ ssCred' \in [Tabs -> CredType \cup {None}] /\ ssCred'[t] = None
    /\ \A u \in Tabs : u # t => ssMutex'[u] = ssMutex[u] /\ ssCred'[u] = ssCred[u]

LEMMA CloseTabFacts ==
    ASSUME SSBase, NEW t \in Tabs, CloseTab(t)
    PROVE  Closes(t)
  <1> DEFINE mine == {j \in Jobs : tab(j) = t}
             sent == {j \in mine : ssJob[j].pc \in {"exchange", "exchangeLocal"}}
             busy == {j \in mine : ssJob[j].pc \notin {"idle", "done"}}
  <1>1. /\ ssLostMade + Cardinality(sent) <= MaxStrays
        /\ ssStrays' = ssStrays + Cardinality(sent)
        /\ ssLostMade' = ssLostMade + Cardinality(sent)
        /\ ssJob' = [j \in Jobs |-> IF j \in busy THEN Reply(j, "error") ELSE ssJob[j]]
        /\ ssLease' = [j \in Jobs |-> IF j \in mine THEN "none" ELSE ssLease[j]]
        /\ ssMutex' = [ssMutex EXCEPT ![t] = None]
        /\ ssCred' = [ssCred EXCEPT ![t] = None]
        /\ UNCHANGED <<ssServer, ssRecord>>
    BY DEF CloseTab
  <1>2. Cardinality(sent) \in Nat
    <2>1. sent \subseteq Jobs
      OBVIOUS
    <2> HIDE DEF sent
    <2> QED BY <2>1, SharedConstants, FS_Subset, FS_CardinalityType
  <1>3. ssStrays' \in 0..MaxStrays /\ ssLostMade' \in 0..MaxStrays /\ ssStrays' <= ssLostMade'
    <2> HIDE DEF sent
    <2> QED BY <1>1, <1>2, SharedConstants DEF SSBase, SSTypeOK
  <1>4. \A k \in Jobs : /\ Reply(k, "error") \in JobType /\ Ended(Reply(k, "error"))
                        /\ Reply(k, "error").kind = ssJob[k].kind
                        /\ ssJob[k] \in JobType /\ ssLease[k] \in Leases
    BY ReplyFacts, JobFields DEF SSBase
  <1>5. ssJob' \in [Jobs -> JobType] /\ ssLease' \in [Jobs -> Leases]
    BY <1>1, <1>4 DEF Leases
  <1>6. /\ \A k \in Jobs : tab(k) = t =>
             /\ ssLease'[k] = "none"
             /\ \/ Ended(ssJob'[k]) /\ ssJob'[k].kind = ssJob[k].kind
                \/ ssJob'[k] = ssJob[k] /\ ssJob[k].pc \in {"idle", "done"}
        /\ \A k \in Jobs : tab(k) # t => ssJob'[k] = ssJob[k] /\ ssLease'[k] = ssLease[k]
    BY <1>1, <1>4
  <1>7. /\ ssMutex' \in [Tabs -> Jobs \cup {None}] /\ ssMutex'[t] = None
        /\ ssCred' \in [Tabs -> CredType \cup {None}] /\ ssCred'[t] = None
        /\ \A u \in Tabs : u # t => ssMutex'[u] = ssMutex[u] /\ ssCred'[u] = ssCred[u]
    BY <1>1 DEF SSBase, SSTypeOK
  <1> QED BY <1>1, <1>3, <1>5, <1>6, <1>7 DEF Closes

LEMMA BaseCloses ==
    ASSUME SSBase, NEW t \in Tabs, Closes(t) PROVE SSBase'
  <1>1. UNCHANGED <<ssCur, ssGone, ssMinted, ssPhase, ssOutside, ssLapses, ssRecord>>
        /\ Shared' = Shared
    BY DEF Closes, ssServer, ssHistory, Shared
  <1>2. SSTypeOK' /\ (ssStrays <= ssLostMade)'
    BY <1>1 DEF Closes, SSBase, SSTypeOK, Leases
  <1>3. LeasesExclude'
    BY DEF Closes, SSBase, LeasesExclude
  <1>4. ASSUME NEW k \in Jobs PROVE JobBase(k, ssJob[k], ssLease[k])'
    <2>1. JobBase(k, ssJob[k], ssLease[k]) /\ tab(k) \in Tabs
      BY SharedConstants DEF SSBase
    <2>2. CASE tab(k) = t
      BY <1>1, <2>1, <2>2
         DEF Closes, JobBase, JobLease, JobCred, JobRecord, JobLocals, HeldSteps, CredSteps,
             MutexSteps, Steps, Ended
    <2>3. CASE tab(k) # t
      BY <1>1, <2>1, <2>3
         DEF Closes, JobBase, JobLease, JobCred, JobRecord, JobLocals, tab
    <2> QED BY <2>2, <2>3
  <1> QED BY <1>2, <1>3, <1>4 DEF SSBase

\* Nothing but the server's side changes, or the record goes while nobody has a lease.
Elsewhere ==
    /\ UNCHANGED <<ssCred, ssMutex, ssLease, ssJob>>
    /\ \/ Clear \/ StrayExecutes \/ Revoke \/ \E b \in 1..MaxMint : Age(b)

LEMMA ElsewhereFacts ==
    ASSUME SSBase, Clear \/ StrayExecutes \/ Revoke \/ \E b \in 1..MaxMint : Age(b)
    PROVE  /\ Elsewhere
           /\ ssCur' \in Bearers /\ ssGone' \in BOOLEAN /\ ssMinted' \in Bearers
           /\ ssPhase' \in [1..MaxMint -> {"fresh", "soon", "due", "expired"}]
           /\ ssOutside' \subseteq 1..MaxMint /\ ssLapses' \in Nat /\ ssLapses <= ssLapses'
           /\ ssStrays' \in 0..MaxStrays /\ ssLostMade' \in 0..MaxStrays /\ ssStrays' <= ssLostMade'
           /\ \/ ssRecord' = ssRecord
              \/ ssRecord' = None /\ \A j \in Jobs : ssLease[j] = "none"
  <1>0. /\ ssCur \in Bearers /\ ssGone \in BOOLEAN /\ ssMinted \in Bearers
        /\ ssPhase \in [1..MaxMint -> {"fresh", "soon", "due", "expired"}]
        /\ ssOutside \subseteq 1..MaxMint /\ ssLapses \in Nat /\ ssLapses <= ssLapses
        /\ ssStrays \in 0..MaxStrays /\ ssLostMade \in 0..MaxStrays /\ ssStrays <= ssLostMade
        /\ MaxStrays \in Nat /\ 0 \in Bearers
    BY SharedConstants DEF SSBase, SSTypeOK, Bearers
  <1>1. CASE Clear
    <2>1. /\ Forget /\ UNCHANGED <<ssCur, ssGone, ssMinted, ssPhase, ssStrays, ssLostMade, ssCred,
                                   ssMutex, ssLease, ssJob>>
          /\ \A j \in Jobs : ssLease[j] = "none"
      BY <1>1 DEF Clear, ssWire
    <2>2. ssRecord' = None /\ ssLapses' \in Nat /\ ssLapses <= ssLapses'
          /\ ssOutside' \subseteq 1..MaxMint
      BY <2>1, ForgetFacts DEF SSBase
    <2> QED BY <1>0, <1>1, <2>1, <2>2 DEF Elsewhere
  <1>2. CASE StrayExecutes
    <2>1. /\ UNCHANGED <<ssLostMade, ssRecord, ssCred, ssMutex, ssLease, ssJob>>
          /\ ssStrays > 0 /\ ssStrays' = ssStrays - 1
          /\ Mint(TRUE) \/ UNCHANGED ssServer
      BY <1>2 DEF StrayExecutes
    <2>2. ssStrays' \in 0..MaxStrays /\ ssLostMade' \in 0..MaxStrays /\ ssStrays' <= ssLostMade'
      BY <1>0, <2>1
    <2>3. /\ ssCur' \in Bearers /\ ssGone' \in BOOLEAN /\ ssMinted' \in Bearers
          /\ ssPhase' \in [1..MaxMint -> {"fresh", "soon", "due", "expired"}]
          /\ ssOutside' \subseteq 1..MaxMint /\ ssLapses' \in Nat /\ ssLapses <= ssLapses'
      <3>1. CASE Mint(TRUE)
        BY <1>0, <3>1, MintFacts DEF SSBase
      <3>2. CASE UNCHANGED ssServer
        BY <1>0, <3>2 DEF ssServer, ssHistory
      <3> QED BY <2>1, <3>1, <3>2
    <2> QED BY <1>2, <2>1, <2>2, <2>3 DEF Elsewhere
  <1>3. CASE Revoke
    BY <1>0, <1>3 DEF Revoke, Elsewhere, ssHistory, ssWire
  <1>4. ASSUME NEW b \in 1..MaxMint, Age(b) PROVE
           /\ ssGone' \in BOOLEAN
           /\ ssPhase' \in [1..MaxMint -> {"fresh", "soon", "due", "expired"}]
           /\ UNCHANGED <<ssCur, ssMinted, ssOutside, ssLapses, ssStrays, ssLostMade, ssRecord,
                          ssCred, ssMutex, ssLease, ssJob>>
    <2>1. /\ ssGone' = (ssGone \/ (b >= FinalFrom /\ ssPhase[b] = "due"))
          /\ UNCHANGED <<ssCur, ssMinted, ssOutside, ssLapses, ssStrays, ssLostMade, ssRecord,
                         ssCred, ssMutex, ssLease, ssJob>>
          /\ ssPhase' = [ssPhase EXCEPT ![b] = CASE @ = "fresh" -> "soon" [] @ = "soon" -> "due"
                                                 [] OTHER -> "expired"]
      BY <1>4 DEF Age, ssHistory, ssWire
    <2>2. ssPhase' \in [1..MaxMint -> {"fresh", "soon", "due", "expired"}]
      BY <1>0, <2>1
    <2> QED BY <1>0, <2>1, <2>2
  <1>5. CASE \E b \in 1..MaxMint : Age(b)
    BY <1>0, <1>4, <1>5 DEF Elsewhere
  <1> QED BY <1>1, <1>2, <1>3, <1>5

LEMMA BaseElsewhere ==
    ASSUME SSBase, Clear \/ StrayExecutes \/ Revoke \/ \E b \in 1..MaxMint : Age(b)
    PROVE  SSBase'
  <1>1. UNCHANGED <<ssCred, ssMutex, ssLease, ssJob>>
    BY ElsewhereFacts DEF Elsewhere
  <1>2. SSTypeOK' /\ (ssStrays <= ssLostMade)'
    BY <1>1, ElsewhereFacts DEF SSBase, SSTypeOK
  <1>3. LeasesExclude'
    BY <1>1 DEF SSBase, LeasesExclude
  <1>4. ASSUME NEW k \in Jobs PROVE JobBase(k, ssJob[k], ssLease[k])'
    <2>1. JobBase(k, ssJob[k], ssLease[k]) /\ ssJob[k].lapses \in Nat /\ ssLapses \in Nat
      BY JobFields DEF SSBase, SSTypeOK
    <2>2. ssLapses' \in Nat /\ ssLapses <= ssLapses'
      BY ElsewhereFacts
    <2>3. CASE ssRecord' = ssRecord
      BY <1>1, <2>1, <2>2, <2>3 DEF JobBase, JobLease, JobCred, JobRecord, JobLocals, Shared
    <2>4. CASE \A j \in Jobs : ssLease[j] = "none"
      BY <1>1, <2>1, <2>2, <2>4
         DEF JobBase, JobLease, JobCred, JobRecord, JobLocals, HeldSteps
    <2> QED BY <2>3, <2>4, ElsewhereFacts
  <1> QED BY <1>2, <1>3, <1>4 DEF SSBase

\* What a step of the system can be.
QuietSteps(j) ==
    \/ \E kind \in Kinds : Start(j, kind)
    \/ Begin(j) \/ BearerForRequest(j) \/ Refresh(j) \/ CurrentBearer(j) \/ LocalKept(j)
    \/ Answer(j) \/ AcquireShared(j) \/ AcquireExclusive(j) \/ EndsQuietly(j)

LoudSteps(j) ==
    \/ LocalTaken(j) \/ LocalMint(j) \/ ExchangeFails(j) \/ Adopts(j) \/ RenewKept(j)
    \/ RenewMarks(j) \/ SharedMint(j) \/ Keeps(j) \/ LogoutMarked(j) \/ Deletes(j) \/ Erases(j)
    \/ Puts(j) \/ JoinsAsSaved(j) \/ Rebuilt(j)

Outer == Clear \/ StrayExecutes \/ Revoke \/ \E b \in 1..MaxMint : Age(b)

LEMMA SharedSteps ==
    ASSUME SSBase, SSNext
    PROVE  \/ \E j \in Jobs : QuietSteps(j) \/ LoudSteps(j)
           \/ Outer
           \/ \E t \in Tabs : Closes(t)
  <1>1. ASSUME NEW j \in Jobs,
               \E k \in Kinds : Start(j, k) \/ JobStep(j) \/ ExchangeLost(j) \/ RequestLost(j)
        PROVE  QuietSteps(j) \/ LoudSteps(j)
    <2>1. ASSUME NotActive(j) \/ RequestLost(j) PROVE EndsQuietly(j)
      BY <2>1, EndFacts DEF EndsQuietly
    <2> QED
      BY <1>1, <2>1, RefreshLocalFacts, ExchangeLocalFacts, ExchangeLostFacts, PrepareSharedFacts,
         RefreshSharedFacts, ExchangeSharedFacts, KeepBearerFacts, MarkLogoutFacts,
         DeleteSessionFacts, EraseFacts, PutFacts, JoinFacts, RebuildFacts
      DEF JobStep, QuietSteps, LoudSteps
  <1> QED BY <1>1, CloseTabFacts DEF SSNext, Outer, Kinds

LEMMA SharedBaseInit == SSInit => SSBase
  <1> SUFFICES ASSUME SSInit PROVE SSBase
    OBVIOUS
  <1> DEFINE x == [kind |-> None, pc |-> "idle", back |-> "done", using |-> 0, rejected |-> 0,
                   retried |-> FALSE, lapses |-> 0, reply |-> None]
             c == [bearer |-> 1, joined |-> FALSE]
  <1>1. {0, 1} \subseteq Bearers /\ "idle" \in Steps /\ "done" \in Steps
    BY SharedConstants DEF Bearers, Steps
  <1>2. /\ x \in JobType /\ x.pc = "idle" /\ x.back = "done" /\ x.rejected = 0
        /\ x.retried = FALSE /\ x.lapses = 0 /\ x.reply = None /\ x.kind = None
    BY <1>1 DEF JobType
  <1>3. c \in CredType
    BY <1>1 DEF CredType
  <1> HIDE DEF x, c
  <1>4. /\ ssJob = [j \in Jobs |-> x] /\ ssLease = [j \in Jobs |-> "none"]
        /\ ssCred = [t \in Tabs |-> IF t = Opener THEN c ELSE None]
        /\ ssMutex = [t \in Tabs |-> None] /\ ssRecord = None /\ ssOutside = {}
        /\ ssStrays = 0 /\ ssLostMade = 0 /\ ssLapses = 0 /\ ssCur = 1 /\ ssMinted = 1
        /\ ssGone = FALSE /\ ssPhase = [b \in 1..MaxMint |-> "fresh"]
    BY DEF SSInit, x, c
  <1>5. SSTypeOK
    <2>1. ssJob \in [Jobs -> JobType] /\ ssCred \in [Tabs -> CredType \cup {None}]
      BY <1>2, <1>3, <1>4
    <2>2. ssStrays \in 0..MaxStrays /\ ssLostMade \in 0..MaxStrays /\ ssLapses \in Nat
      BY <1>4, SharedConstants
    <2> QED BY <1>1, <1>4, <2>1, <2>2 DEF SSTypeOK
  <1>6. \A j \in Jobs : ssJob[j] = x /\ ssLease[j] = "none"
    BY <1>4
  <1>8. \A j \in Jobs : JobBase(j, ssJob[j], ssLease[j])
    BY <1>2, <1>4, <1>6 DEF JobBase, JobLease, JobCred, JobRecord, JobLocals, HeldSteps, CredSteps,
                      MutexSteps, Steps
  <1> QED BY <1>4, <1>5, <1>6, <1>8 DEF SSBase, LeasesExclude

LEMMA SharedBaseStep == SSBase /\ [SSNext]_ssVars => SSBase'
  <1> SUFFICES ASSUME SSBase, [SSNext]_ssVars PROVE SSBase'
    OBVIOUS
  <1>1. CASE SSNext
    <2>1. ASSUME NEW j \in Jobs, QuietSteps(j) PROVE SSBase'
      BY <2>1, BaseQuietSteps, BaseLeaseSteps DEF QuietSteps
    <2>2. ASSUME NEW j \in Jobs, LoudSteps(j) PROVE SSBase'
      BY <2>2, BaseLocalTaken, BaseLocalMint, BaseExchangeFails, BaseAdopts, BaseRenewMarks,
         BaseSharedMint, BaseKeeps, BaseLogoutMarked, BaseDeletes, BaseErases, BasePuts, BaseJoins
      DEF LoudSteps
    <2> QED BY <1>1, <2>1, <2>2, SharedSteps, BaseCloses, BaseElsewhere DEF Outer
  <1>2. CASE UNCHANGED ssVars
    BY <1>2 DEF ssVars, SSBase, SSTypeOK, LeasesExclude, JobBase, JobLease, JobCred, JobRecord,
                JobLocals, Shared, tab
  <1> QED BY <1>1, <1>2

-----------------------------------------------------------------------------
(* Saving happens once, and a call that is sent again stays on its path.    *)

Unsaved(t) == ssCred[t] # None /\ ~ssCred[t].joined
Joined(t)  == ssCred[t] # None /\ ssCred[t].joined

\* A credential that was never saved is the only one: no other tab can have been
\* restored, and the record has no shared state yet.
SavedOnce ==
    \A t \in Tabs : Unsaved(t) =>
       /\ t = Opener
       /\ \A u \in Tabs : u # t => ssCred[u] = None
       /\ Shared = None
       /\ ssRecord # None => \E k \in Jobs : tab(k) = t /\ ssJob[k].pc = "join"

\* A call that is sent again refreshes where it was sent: locally or through the
\* record.  save and remove do nothing else.
JobPath(x, l) ==
    /\ x.retried /\ x.back = "bearer" =>
          x.pc \in {"local", "exchangeLocal", "bearer"} \/ (x.pc = "send" /\ l = "none")
    /\ x.retried /\ x.back = "wantShared" =>
          \/ x.pc \in {"wantExclusive", "renew", "exchange", "keep", "wantShared", "adopt"}
          \/ x.pc = "send" /\ l = "shared"
    /\ x.kind \in {"save", "remove"} =>
          x.pc \in {"idle", "wantExclusive", "put", "join", "erase", "done"}
    /\ x.retried => x.kind \notin {"signout", "save", "remove"}
    /\ x.pc = "begin" => x.back \in {"done", "rebuild"}

SSPath == SavedOnce /\ \A j \in Jobs : JobPath(ssJob[j], ssLease[j])

LEMMA SavedOnceKept ==
    ASSUME SavedOnce, \A t \in Tabs : Unsaved(t)' => Unsaved(t),
           \A t \in Tabs : ssCred[t] = None => ssCred'[t] = None,
           Shared = None => Shared' = None, ssRecord = None => ssRecord' = None,
           \A k \in Jobs : ssJob[k].pc = "join" /\ Unsaved(tab(k))' => ssJob'[k].pc = "join"
    PROVE  SavedOnce'
  <1> SUFFICES ASSUME NEW t \in Tabs, Unsaved(t)'
               PROVE  /\ t = Opener /\ \A u \in Tabs : u # t => ssCred'[u] = None
                      /\ Shared' = None
                      /\ ssRecord' # None => \E k \in Jobs : tab(k) = t /\ ssJob'[k].pc = "join"
    BY DEF SavedOnce, tab
  <1> QED BY DEF SavedOnce

\* The steps that touch nothing but the call.
LEMMA QuietWorld ==
    ASSUME SSBase, NEW j \in Jobs, QuietSteps(j)
    PROVE  StepOf(j) /\ UNCHANGED World /\ ssJob[j].pc \notin {"join", "keep", "done"}
  <1>1. ASSUME NEW kind \in Kinds, Start(j, kind)
        PROVE  StepOf(j) /\ UNCHANGED World /\ ssJob[j].pc \notin {"join", "keep", "done"}
    BY <1>1, StartFacts
  <1>2. CASE Begin(j)
    BY <1>2, BeginFacts
  <1>3. CASE BearerForRequest(j)
    BY <1>3, BearerForRequestFacts
  <1>4. CASE Refresh(j)
    BY <1>4, RefreshFacts
  <1>5. CASE CurrentBearer(j)
    BY <1>5, CurrentBearerFacts
  <1>6. CASE Answer(j)
    BY <1>6, AnswerFacts
  <1>7. CASE AcquireShared(j)
    BY <1>7, AcquireSharedFacts
  <1>8. CASE AcquireExclusive(j)
    BY <1>8, AcquireExclusiveFacts
  <1>9. CASE LocalKept(j) \/ EndsQuietly(j)
    BY <1>9 DEF LocalKept, EndsQuietly
  <1> QED BY <1>1, <1>2, <1>3, <1>4, <1>5, <1>6, <1>7, <1>8, <1>9 DEF QuietSteps

\* An ended call is on no path.
LEMMA EndedPath ==
    ASSUME NEW x, NEW l, Ended(x) PROVE JobPath(x, l)
  BY DEF Ended, JobPath

LEMMA QuietPath ==
    ASSUME SSBase, NEW j \in Jobs, QuietSteps(j), JobPath(ssJob[j], ssLease[j])
    PROVE  JobPath(ssJob'[j], ssLease'[j])
  <1>0. /\ JobLease(ssJob[j], ssLease[j]) /\ JobLocals(ssJob[j]) /\ ssJob[j].retried \in BOOLEAN
        /\ ssLease[j] \in {"none", "shared", "exclusive"}
        /\ ssJob[j].pc = "wantExclusive" /\ ssCred[tab(j)] = None =>
              ssJob[j].kind \in {"restore", "remove"} /\ ssJob[j].back = "done"
    BY JobFields DEF SSBase, JobBase, JobCred, Leases
  <1> USE DEF JobPath, JobLease, JobLocals, HeldSteps, SameLocals
  <1>1. ASSUME NEW kind \in Kinds, Start(j, kind) PROVE JobPath(ssJob'[j], ssLease'[j])
    BY <1>0, <1>1, StartFacts
  <1>2. CASE Begin(j)
    BY <1>0, <1>2, BeginFacts
  <1>3. CASE BearerForRequest(j)
    BY <1>0, <1>3, BearerForRequestFacts
  <1>4. CASE Refresh(j)
    BY <1>0, <1>4, RefreshFacts
  <1>5. CASE CurrentBearer(j)
    BY <1>0, <1>5, CurrentBearerFacts
  <1>6. CASE Answer(j)
    BY <1>0, <1>6, AnswerFacts, EndedPath
  <1>7. CASE AcquireShared(j)
    BY <1>0, <1>7, AcquireSharedFacts
  <1>8. CASE AcquireExclusive(j)
    BY <1>0, <1>8, AcquireExclusiveFacts
  <1>9. CASE LocalKept(j)
    BY <1>0, <1>9, EndedPath DEF LocalKept
  <1>10. CASE EndsQuietly(j)
    BY <1>10, EndedPath DEF EndsQuietly
  <1> QED BY <1>1, <1>2, <1>3, <1>4, <1>5, <1>6, <1>7, <1>8, <1>9, <1>10 DEF QuietSteps

LEMMA LoudPath ==
    ASSUME SSBase, NEW j \in Jobs, LoudSteps(j), JobPath(ssJob[j], ssLease[j])
    PROVE  JobPath(ssJob'[j], ssLease'[j])
  <1>0. /\ JobLease(ssJob[j], ssLease[j]) /\ JobLocals(ssJob[j]) /\ ssJob[j].retried \in BOOLEAN
        /\ ssLease[j] \in {"none", "shared", "exclusive"}
        /\ ssJob[j].pc = "rebuild" => ssJob[j].back = "done"
    BY JobFields DEF SSBase, JobBase, JobCred, Leases
  <1> USE DEF JobPath, JobLease, JobLocals, HeldSteps, SameLocals
  <1>1. CASE LocalTaken(j)
    BY <1>0, <1>1 DEF LocalTaken
  <1>2. CASE LocalMint(j)
    BY <1>0, <1>2, EndedPath DEF LocalMint
  <1>3. CASE ExchangeFails(j)
    BY <1>3, EndedPath DEF ExchangeFails
  <1>4. CASE Adopts(j)
    BY <1>0, <1>4 DEF Adopts
  <1>5. CASE RenewKept(j)
    BY <1>0, <1>5, EndedPath DEF RenewKept
  <1>6. CASE RenewMarks(j)
    BY <1>0, <1>6 DEF RenewMarks
  <1>7. CASE SharedMint(j)
    BY <1>0, <1>7 DEF SharedMint
  <1>8. CASE Keeps(j)
    BY <1>0, <1>8, EndedPath DEF Keeps
  <1>9. CASE LogoutMarked(j)
    BY <1>0, <1>9 DEF LogoutMarked
  <1>10. CASE Deletes(j)
    BY <1>0, <1>10, EndedPath DEF Deletes
  <1>11. CASE Erases(j)
    BY <1>11, EndedPath DEF Erases
  <1>12. CASE Puts(j)
    BY <1>0, <1>12 DEF Puts
  <1>13. CASE JoinsAsSaved(j)
    BY <1>13, EndedPath DEF JoinsAsSaved
  <1>14. CASE Rebuilt(j)
    BY <1>0, <1>14 DEF Rebuilt
  <1> QED BY <1>1, <1>2, <1>3, <1>4, <1>5, <1>6, <1>7, <1>8, <1>9, <1>10, <1>11, <1>12, <1>13,
             <1>14 DEF LoudSteps

\* The steps that keep every credential where it is, joined or not.
LEMMA SavedOnceHolding ==
    ASSUME SSBase, SavedOnce, NEW j \in Jobs, StepOf(j), ssJob[j].pc # "join",
           UNCHANGED ssCred \/ \E b \in Bearers : Holding(j, b),
           Shared = None => Shared' = None, ssRecord = None => ssRecord' = None
    PROVE  SavedOnce'
  <1>1. /\ \A t \in Tabs : ssCred'[t] = None <=> ssCred[t] = None
        /\ \A t \in Tabs : Unsaved(t)' => Unsaved(t)
    BY SharedConstants DEF Holding, Unsaved
  <1>2. \A k \in Jobs : ssJob[k].pc = "join" => ssJob'[k].pc = "join"
    BY DEF StepOf, Steps1
  <1> QED BY <1>1, <1>2, SavedOnceKept

LEMMA LoudSavedOnce ==
    ASSUME SSBase, SavedOnce, NEW j \in Jobs, LoudSteps(j) PROVE SavedOnce'
  <1>1. CASE LocalTaken(j) \/ ExchangeFails(j) \/ SharedMint(j) \/ Deletes(j)
    <2>1. /\ StepOf(j) /\ UNCHANGED <<ssCred, ssRecord>> /\ ssJob[j].pc # "join"
          /\ Shared' = Shared
      BY <1>1 DEF LocalTaken, ExchangeFails, SharedMint, Deletes, Shared
    <2> QED BY <2>1, SavedOnceHolding
  <1>2. CASE LocalMint(j)
    <2>1. ssMinted + 1 \in Bearers
      <3> DEFINE o == ssRecord # None \/ ssCred[tab(j)].joined
      <3>1. o \in BOOLEAN /\ Mint(o)
        BY <1>2 DEF LocalMint
      <3> HIDE DEF o
      <3> QED BY <3>1, MintFacts DEF SSBase, Bearers
    <2>2. /\ StepOf(j) /\ ssRecord' = ssRecord /\ Shared' = Shared /\ ssJob[j].pc # "join"
          /\ Holding(j, ssMinted + 1)
      BY <1>2 DEF LocalMint, Shared
    <2> QED BY <2>1, <2>2, SavedOnceHolding
  <1>3. CASE Adopts(j) \/ RenewKept(j) \/ RenewMarks(j) \/ LogoutMarked(j)
    <2>1. /\ StepOf(j) /\ ssJob[j].pc # "join" /\ Holding(j, Shared.bearer) /\ Shared # None
      BY <1>3 DEF Adopts, RenewKept, RenewMarks, LogoutMarked, Active
    <2>2. Shared.bearer \in Bearers /\ ssRecord # None
      BY <2>1, SharedFields DEF SSBase
    <2> QED BY <2>1, <2>2, SavedOnceHolding
  <1>4. CASE Keeps(j)
    <2>1. /\ StepOf(j) /\ ssJob[j].pc = "keep" /\ Holding(j, ssJob[j].using)
      BY <1>4 DEF Keeps
    <2>2. Shared # None /\ ssJob[j].using \in Bearers
      BY <2>1, JobFields DEF SSBase, JobBase, JobRecord
    <2>3. ssRecord # None
      BY <2>2, SharedFields DEF SSBase
    <2> QED BY <2>1, <2>2, <2>3, SavedOnceHolding
  <1>5. CASE Erases(j)
    <2>1. /\ StepOf(j) /\ ssJob[j].pc # "join" /\ UNCHANGED ssCred /\ Forget
      BY <1>5 DEF Erases
    <2> QED BY <2>1, ForgetFacts, SavedOnceHolding DEF SSBase
  <1>6. CASE Puts(j)
    <2>1. /\ ssCred' = ssCred /\ Shared' = Shared /\ ssJob'[j].pc = "join" /\ ssJob[j].pc = "put"
      BY <1>6 DEF Puts
    <2>2. ssCred[tab(j)] # None
      BY <2>1, HasCred DEF CredSteps, Steps
    <2> QED BY <2>1, <2>2, SharedConstants DEF SavedOnce, Unsaved, tab
  <1>7. CASE JoinsAsSaved(j)
    <2>1. /\ ssCred[tab(j)] # None /\ ssCred'[tab(j)].joined = TRUE
          /\ \A t \in Tabs : t # tab(j) => ssCred'[t] = ssCred[t]
      BY <1>7 DEF JoinsAsSaved, Joins
    <2>2. \A t \in Tabs : ~Unsaved(t)'
      BY <2>1, SharedConstants DEF SavedOnce, Unsaved
    <2> QED BY <2>2 DEF SavedOnce
  <1>8. CASE Rebuilt(j)
    <2>1. /\ ssRecord # None /\ ssJob[j].pc = "rebuild" /\ ssCred'[tab(j)].joined = TRUE
          /\ \A t \in Tabs : t # tab(j) => ssCred'[t] = ssCred[t]
      BY <1>8 DEF Rebuilt, Joins
    <2>2. \A k \in Jobs : ssJob[k].pc # "join"
      <3>1. ssLease[j] = "exclusive"
        BY <2>1 DEF SSBase, JobBase, JobLease, HeldSteps
      <3>2. \A k \in Jobs : ssJob[k].pc = "join" => ssLease[k] = "exclusive"
        BY DEF SSBase, JobBase, JobLease, HeldSteps
      <3> QED BY <2>1, <3>1, <3>2 DEF SSBase, LeasesExclude
    <2>3. \A t \in Tabs : ~Unsaved(t)
      BY <2>1, <2>2 DEF SavedOnce
    <2>4. \A t \in Tabs : ~Unsaved(t)'
      BY <2>1, <2>3, SharedConstants DEF Unsaved
    <2> QED BY <2>4 DEF SavedOnce
  <1> QED BY <1>1, <1>2, <1>3, <1>4, <1>5, <1>6, <1>7, <1>8 DEF LoudSteps

LEMMA OuterCalls ==
    ASSUME SSBase, Outer
    PROVE  UNCHANGED <<ssCred, ssMutex, ssLease, ssJob>>
           /\ (ssRecord' = ssRecord \/ (ssRecord' = None /\ \A j \in Jobs : ssLease[j] = "none"))
  <1>1. Clear \/ StrayExecutes \/ Revoke \/ \E b \in 1..MaxMint : Age(b)
    BY DEF Outer
  <1>2. /\ Elsewhere
        /\ ssRecord' = ssRecord \/ (ssRecord' = None /\ \A j \in Jobs : ssLease[j] = "none")
    BY <1>1, ElsewhereFacts
  <1>3. UNCHANGED <<ssCred, ssMutex, ssLease, ssJob>>
    BY <1>2 DEF Elsewhere
  <1> QED BY <1>2, <1>3

LEMMA SharedPathStep == SSBase /\ SSPath /\ [SSNext]_ssVars => SSPath'
  <1> SUFFICES ASSUME SSBase, SavedOnce, \A k \in Jobs : JobPath(ssJob[k], ssLease[k]),
                      [SSNext]_ssVars
               PROVE  SavedOnce' /\ \A k \in Jobs : JobPath(ssJob'[k], ssLease'[k])
    BY DEF SSPath, JobPath
  <1>1. ASSUME NEW j \in Jobs, QuietSteps(j) \/ LoudSteps(j)
        PROVE  SavedOnce' /\ \A k \in Jobs : JobPath(ssJob'[k], ssLease'[k])
    <2>1. StepOf(j)
      BY <1>1, QuietWorld DEF LoudSteps, LocalTaken, LocalMint, ExchangeFails, Adopts, RenewKept,
         RenewMarks, SharedMint, Keeps, LogoutMarked, Deletes, Erases, Puts, JoinsAsSaved, Rebuilt
    <2>2. JobPath(ssJob'[j], ssLease'[j])
      BY <1>1, QuietPath, LoudPath
    <2>3. \A k \in Jobs : k # j => ssJob'[k] = ssJob[k] /\ ssLease'[k] = ssLease[k]
      BY <2>1 DEF StepOf, Steps1
    <2>4. ASSUME QuietSteps(j) PROVE SavedOnce'
      <3>1. /\ ssJob[j].pc # "join" /\ UNCHANGED <<ssCred, ssRecord>>
        BY <2>4, QuietWorld DEF World
      <3>2. Shared' = Shared
        BY <3>1 DEF Shared
      <3> QED BY <2>1, <3>1, <3>2, SavedOnceHolding
    <2> QED BY <1>1, <2>2, <2>3, <2>4, LoudSavedOnce
  <1>2. ASSUME Outer PROVE SavedOnce' /\ \A k \in Jobs : JobPath(ssJob'[k], ssLease'[k])
    <2>1. UNCHANGED <<ssCred, ssLease, ssJob>> /\ (ssRecord' = ssRecord \/ ssRecord' = None)
      BY <1>2, OuterCalls
    <2>2. (Shared = None => Shared' = None) /\ (ssRecord = None => ssRecord' = None)
      BY <2>1 DEF Shared
    <2>3. SavedOnce'
      BY <2>1, <2>2, SavedOnceKept DEF Unsaved
    <2> QED BY <2>1, <2>3
  <1>3. ASSUME NEW t \in Tabs, Closes(t)
        PROVE  SavedOnce' /\ \A k \in Jobs : JobPath(ssJob'[k], ssLease'[k])
    <2>1. /\ ssRecord' = ssRecord /\ Shared' = Shared /\ ssCred'[t] = None
          /\ \A u \in Tabs : u # t => ssCred'[u] = ssCred[u]
          /\ \A k \in Jobs : tab(k) # t => ssJob'[k] = ssJob[k] /\ ssLease'[k] = ssLease[k]
          /\ \A k \in Jobs : tab(k) = t =>
                \/ Ended(ssJob'[k])
                \/ ssJob'[k] = ssJob[k] /\ ssJob[k].pc \in {"idle", "done"} /\ ssLease'[k] = "none"
      <3>1. ssRecord' = ssRecord
        BY <1>3 DEF Closes
      <3> QED BY <1>3, <3>1 DEF Closes, Shared
    <2>2. SavedOnce'
      <3>1. /\ \A u \in Tabs : Unsaved(u)' => Unsaved(u) /\ u # t
            /\ \A u \in Tabs : ssCred[u] = None => ssCred'[u] = None
        BY <2>1 DEF Unsaved
      <3>2. \A k \in Jobs : ssJob[k].pc = "join" /\ Unsaved(tab(k))' => ssJob'[k].pc = "join"
        BY <2>1, <3>1, SharedConstants
      <3> QED BY <2>1, <3>1, <3>2, SavedOnceKept
    <2>3. ASSUME NEW k \in Jobs PROVE JobPath(ssJob'[k], ssLease'[k])
      BY <2>1, EndedPath DEF JobPath
    <2> QED BY <2>2, <2>3
  <1>4. CASE UNCHANGED ssVars
    BY <1>4 DEF ssVars, SavedOnce, Unsaved, Shared, tab
  <1> QED BY <1>1, <1>2, <1>3, <1>4, SharedSteps

-----------------------------------------------------------------------------
(* What a step does to the server, and to a call it is not a step of.       *)

ServerMoves ==
    /\ ssMinted <= ssMinted' /\ ssLapses <= ssLapses' /\ (ssGone => ssGone')
    /\ \/ ssCur' = ssCur
       \/ ssCur' = 0 /\ ssGone'
       \/ ssCur' = ssMinted + 1 /\ ssMinted' = ssMinted + 1
    /\ \A b \in 1..MaxMint : /\ ssPhase[b] # "fresh" => ssPhase'[b] # "fresh"
                             /\ ssPhase[b] = "expired" => ssPhase'[b] = "expired"
    /\ \A b \in ssOutside' : b \in ssOutside \/ b <= ssMinted'

LEMMA MintMoves ==
    ASSUME SSTypeOK, NEW o \in BOOLEAN, Mint(o) PROVE ServerMoves
  <1>1. /\ ssMinted' = ssMinted + 1 /\ ssCur' = ssMinted + 1 /\ ssLapses <= ssLapses'
        /\ ssGone = FALSE /\ ssPhase' = ssPhase
        /\ o => ssOutside' = ssOutside \cup {ssMinted + 1}
        /\ ~o => ssOutside' = ssOutside
    BY MintFacts
  <1>2. ssMinted <= ssMinted' /\ ssMinted + 1 <= ssMinted'
    BY <1>1 DEF SSTypeOK, Bearers
  <1>3. \A b \in ssOutside' : b \in ssOutside \/ b <= ssMinted'
    <2>1. CASE o
      BY <1>1, <1>2, <2>1
    <2>2. CASE ~o
      BY <1>1, <2>2
    <2> QED BY <2>1, <2>2
  <1> QED BY <1>1, <1>2, <1>3 DEF ServerMoves

LEMMA StillMoves ==
    ASSUME SSTypeOK, UNCHANGED <<ssMinted, ssPhase, ssOutside, ssLapses>>,
           \/ ssCur' = ssCur /\ ssGone' = ssGone
           \/ ssCur' = 0 /\ ssGone' = TRUE
    PROVE  ServerMoves
  <1>1. ssMinted <= ssMinted' /\ ssLapses <= ssLapses'
    BY DEF SSTypeOK, Bearers
  <1> QED BY <1>1 DEF ServerMoves

LEMMA ForgetMoves ==
    ASSUME SSTypeOK, Forget, UNCHANGED <<ssCur, ssGone, ssMinted, ssPhase>>
    PROVE  ServerMoves
  <1>1. /\ ssMinted <= ssMinted' /\ ssLapses <= ssLapses'
        /\ \A b \in ssOutside' : b \in ssOutside \/ b <= ssMinted'
    BY ForgetFacts DEF SSTypeOK, Bearers
  <1> QED BY <1>1 DEF ServerMoves

LEMMA AgeMoves ==
    ASSUME SSTypeOK, NEW c \in 1..MaxMint, Age(c) PROVE ServerMoves
  <1>1. /\ ssPhase \in [1..MaxMint -> {"fresh", "soon", "due", "expired"}]
        /\ UNCHANGED <<ssCur, ssMinted, ssOutside, ssLapses>> /\ (ssGone => ssGone')
        /\ ssPhase[c] # "expired"
        /\ ssPhase' = [ssPhase EXCEPT ![c] = CASE @ = "fresh" -> "soon" [] @ = "soon" -> "due"
                                               [] OTHER -> "expired"]
    BY DEF Age, ssHistory, SSTypeOK
  <1>2. \A b \in 1..MaxMint : /\ b # c => ssPhase'[b] = ssPhase[b]
                              /\ b = c => ssPhase'[b] # "fresh"
    BY <1>1
  <1>3. ssMinted <= ssMinted' /\ ssLapses <= ssLapses'
    BY <1>1 DEF SSTypeOK, Bearers
  <1> QED BY <1>1, <1>2, <1>3 DEF ServerMoves

LEMMA LoudMoves ==
    ASSUME SSBase, NEW j \in Jobs, LoudSteps(j) PROVE ServerMoves
  <1>1. CASE LocalMint(j)
    <2> DEFINE o == ssRecord # None \/ ssCred[tab(j)].joined
    <2>1. o \in BOOLEAN /\ Mint(o)
      BY <1>1 DEF LocalMint
    <2> HIDE DEF o
    <2> QED BY <2>1, MintMoves DEF SSBase
  <1>2. CASE SharedMint(j)
    BY <1>2, MintMoves DEF SSBase, SharedMint
  <1>3. CASE Deletes(j)
    <2>1. /\ UNCHANGED <<ssMinted, ssPhase, ssOutside, ssLapses>>
          /\ \/ ssCur' = ssCur /\ ssGone' = ssGone
             \/ ssCur' = 0 /\ ssGone' = TRUE
      BY <1>3 DEF Deletes, ssHistory
    <2> QED BY <2>1, StillMoves DEF SSBase
  <1>4. CASE Erases(j)
    <2>1. Forget /\ UNCHANGED <<ssCur, ssGone, ssMinted, ssPhase>>
      BY <1>4 DEF Erases
    <2> QED BY <2>1, ForgetMoves DEF SSBase
  <1>5. ASSUME UNCHANGED ssServer PROVE ServerMoves
    BY <1>5, StillMoves DEF SSBase, ssServer, ssHistory
  <1>6. CASE LocalTaken(j) \/ ExchangeFails(j) \/ Adopts(j) \/ RenewKept(j) \/ RenewMarks(j)
             \/ Keeps(j) \/ LogoutMarked(j) \/ Puts(j) \/ JoinsAsSaved(j) \/ Rebuilt(j)
    <2>1. UNCHANGED ssServer
      BY <1>6 DEF LocalTaken, ExchangeFails, Adopts, RenewKept, RenewMarks, Keeps, LogoutMarked,
                  Puts, JoinsAsSaved, Rebuilt
    <2> QED BY <1>5, <2>1
  <1> QED BY <1>1, <1>2, <1>3, <1>4, <1>6 DEF LoudSteps

LEMMA OuterMoves ==
    ASSUME SSBase, Outer PROVE ServerMoves
  <1>1. CASE Clear
    <2>1. Forget /\ UNCHANGED <<ssCur, ssGone, ssMinted, ssPhase>>
      BY <1>1 DEF Clear
    <2> QED BY <2>1, ForgetMoves DEF SSBase
  <1>2. CASE StrayExecutes
    <2>1. CASE Mint(TRUE)
      BY <2>1, MintMoves DEF SSBase
    <2>2. CASE UNCHANGED ssServer
      BY <2>2, StillMoves DEF SSBase, ssServer, ssHistory
    <2> QED BY <1>2, <2>1, <2>2 DEF StrayExecutes
  <1>3. CASE Revoke
    BY <1>3, StillMoves DEF SSBase, Revoke, ssHistory
  <1>4. ASSUME NEW c \in 1..MaxMint, Age(c) PROVE ServerMoves
    BY <1>4, AgeMoves DEF SSBase
  <1> QED BY <1>1, <1>2, <1>3, <1>4 DEF Outer

\* A step that is not one of k's.
Untouched(k) ==
    /\ ssJob'[k] = ssJob[k] /\ ssLease'[k] = ssLease[k]
    /\ ssLease[k] # "none" => ssRecord' = ssRecord
    /\ ssMutex[tab(k)] = k => ssCred'[tab(k)] = ssCred[tab(k)]

LEMMA LoudUntouched ==
    ASSUME SSBase, NEW j \in Jobs, LoudSteps(j), NEW k \in Jobs, k # j PROVE Untouched(k)
  <1>1. StepOf(j)
    BY DEF LoudSteps, LocalTaken, LocalMint, ExchangeFails, Adopts, RenewKept,
         RenewMarks, SharedMint, Keeps, LogoutMarked, Deletes, Erases, Puts, JoinsAsSaved, Rebuilt
  <1>2. ssJob'[k] = ssJob[k] /\ ssLease'[k] = ssLease[k]
    BY <1>1 DEF StepOf, Steps1
  <1>3. ssRecord' = ssRecord \/ ssJob[j].pc \in HeldSteps
    BY DEF LoudSteps, LocalTaken, LocalMint, ExchangeFails, Adopts, RenewKept,
         RenewMarks, SharedMint, Keeps, LogoutMarked, Deletes, Erases, Puts, JoinsAsSaved, Rebuilt,
         HeldSteps
  <1>4. ssLease[k] # "none" => ssRecord' = ssRecord
    BY <1>3 DEF SSBase, JobBase, JobLease, LeasesExclude
  <1>5. \/ ssCred' = ssCred
        \/ /\ Free(j) \/ ssJob[j].pc \in MutexSteps
           /\ \A t \in Tabs : t # tab(j) => ssCred'[t] = ssCred[t]
    BY DEF LoudSteps, LocalTaken, LocalMint, ExchangeFails, Adopts, RenewKept,
         RenewMarks, SharedMint, Keeps, LogoutMarked, Deletes, Erases, Puts, JoinsAsSaved, Rebuilt,
         Holding, Joins, MutexSteps
  <1>6. ssMutex[tab(k)] = k => ssCred'[tab(k)] = ssCred[tab(k)]
    <2>1. ssJob[j].pc \in MutexSteps => ssMutex[tab(j)] = j
      BY DEF SSBase, JobBase, JobCred
    <2> QED BY <1>5, <2>1, SharedConstants DEF Free
  <1> QED BY <1>2, <1>4, <1>6 DEF Untouched

LEMMA OuterUntouched ==
    ASSUME SSBase, Outer, NEW k \in Jobs PROVE Untouched(k)
  BY OuterCalls DEF Untouched

LEMMA QuietUntouched ==
    ASSUME SSBase, NEW j \in Jobs, QuietSteps(j), NEW k \in Jobs, k # j PROVE Untouched(k)
  <1>1. StepOf(j) /\ UNCHANGED <<ssRecord, ssCred>>
    BY QuietWorld DEF World
  <1> QED BY <1>1 DEF Untouched, StepOf, Steps1

LEMMA ClosesUntouched ==
    ASSUME SSBase, NEW t \in Tabs, Closes(t), NEW k \in Jobs, tab(k) # t PROVE Untouched(k)
  BY SharedConstants DEF Closes, Untouched

-----------------------------------------------------------------------------
(* Bearers are known only once they were minted.                            *)

SSBounds ==
    /\ 1 <= ssMinted /\ ssCur <= ssMinted /\ (ssCur = 0 => ssGone)
    /\ \A b \in ssOutside : b <= ssMinted
    /\ Shared # None => Shared.bearer <= ssMinted
    /\ \A t \in Tabs : ssCred[t] # None => ssCred[t].bearer <= ssMinted
    /\ \A j \in Jobs : ssJob[j].using <= ssMinted /\ ssJob[j].rejected <= ssMinted

\* Nothing new is known, or the server has just minted it.
LEMMA BoundsKept ==
    ASSUME SSBase, SSBounds, SSTypeOK', ServerMoves,
           Shared' # None => \/ Shared # None /\ Shared'.bearer = Shared.bearer
                             \/ Shared'.bearer <= ssMinted',
           \A t \in Tabs : ssCred'[t] # None => \/ ssCred'[t] = ssCred[t]
                                                \/ ssCred'[t].bearer <= ssMinted',
           \A k \in Jobs : \/ ssJob'[k] = ssJob[k]
                           \/ ssJob'[k].using <= ssMinted' /\ ssJob'[k].rejected <= ssMinted'
    PROVE  SSBounds'
  <1>1. /\ ssMinted \in Nat /\ ssMinted' \in Nat /\ ssMinted <= ssMinted' /\ ssCur \in Nat
        /\ ssCur' \in Nat
    BY DEF SSBase, SSTypeOK, Bearers, ServerMoves
  <1>2. \A b \in Nat : b <= ssMinted => b <= ssMinted'
    BY <1>1
  <1>3. 1 <= ssMinted' /\ ssCur' <= ssMinted' /\ (ssCur' = 0 => ssGone')
    BY <1>1 DEF ServerMoves, SSBounds
  <1>4. \A b \in ssOutside' : b <= ssMinted'
    <2>1. \A b \in ssOutside : b \in Nat
      BY DEF SSBase, SSTypeOK
    <2> QED BY <1>2, <2>1 DEF ServerMoves, SSBounds
  <1>5. Shared' # None => Shared'.bearer <= ssMinted'
    <2>1. Shared # None => Shared.bearer \in Nat
      BY SharedFields DEF SSBase, Bearers
    <2> QED BY <1>2, <2>1 DEF SSBounds
  <1>6. \A t \in Tabs : ssCred'[t] # None => ssCred'[t].bearer <= ssMinted'
    <2>1. \A t \in Tabs : ssCred[t] # None => ssCred[t].bearer \in Nat
      BY CredFields DEF SSBase, Bearers
    <2> QED BY <1>2, <2>1 DEF SSBounds
  <1>7. \A k \in Jobs : ssJob'[k].using <= ssMinted' /\ ssJob'[k].rejected <= ssMinted'
    <2>1. \A k \in Jobs : ssJob[k].using \in Nat /\ ssJob[k].rejected \in Nat
      BY JobFields DEF SSBase, Bearers
    <2> QED BY <1>2, <2>1 DEF SSBounds
  <1> QED BY <1>3, <1>4, <1>5, <1>6, <1>7 DEF SSBounds

LEMMA QuietBounds ==
    ASSUME SSBase, SSBounds, NEW j \in Jobs, QuietSteps(j)
    PROVE  ssJob'[j].using <= ssMinted /\ ssJob'[j].rejected <= ssMinted
  <1>0. /\ 0 <= ssMinted /\ ssJob[j].using <= ssMinted /\ ssJob[j].rejected <= ssMinted
        /\ ssCred[tab(j)] # None => ssCred[tab(j)].bearer <= ssMinted
    BY SharedConstants DEF SSBase, SSTypeOK, Bearers, SSBounds
  <1>1. ASSUME NEW kind \in Kinds, Start(j, kind)
        PROVE  ssJob'[j].using <= ssMinted /\ ssJob'[j].rejected <= ssMinted
    BY <1>0, <1>1, StartFacts
  <1>2. CASE Begin(j)
    BY <1>0, <1>2, BeginFacts DEF SameLocals
  <1>3. CASE BearerForRequest(j)
    BY <1>0, <1>3, BearerForRequestFacts
  <1>4. CASE Refresh(j)
    BY <1>0, <1>4, RefreshFacts
  <1>5. CASE CurrentBearer(j)
    <2>1. ssCred[tab(j)] # None
      BY <1>5, CurrentBearerFacts, HasCred DEF CredSteps, Steps
    <2> QED BY <1>0, <1>5, <2>1, CurrentBearerFacts
  <1>6. CASE Answer(j)
    BY <1>0, <1>6, AnswerFacts DEF Ended
  <1>7. CASE AcquireShared(j)
    BY <1>0, <1>7, AcquireSharedFacts DEF SameLocals
  <1>8. CASE AcquireExclusive(j)
    BY <1>0, <1>8, AcquireExclusiveFacts DEF SameLocals
  <1>9. CASE LocalKept(j) \/ EndsQuietly(j)
    BY <1>0, <1>9 DEF LocalKept, EndsQuietly, Ended, SameLocals
  <1> QED BY <1>1, <1>2, <1>3, <1>4, <1>5, <1>6, <1>7, <1>8, <1>9 DEF QuietSteps

\* What the loud steps leave a call with, its credential and the record.
LEMMA LoudBounds ==
    ASSUME SSBase, SSBounds, SSTypeOK', NEW j \in Jobs, LoudSteps(j)
    PROVE  /\ ssJob'[j].using <= ssMinted' /\ ssJob'[j].rejected <= ssMinted'
           /\ Shared' # None => \/ Shared # None /\ Shared'.bearer = Shared.bearer
                                \/ Shared'.bearer <= ssMinted'
           /\ \A t \in Tabs : ssCred'[t] # None => \/ ssCred'[t] = ssCred[t]
                                                   \/ ssCred'[t].bearer <= ssMinted'
  <1>0. /\ 0 <= ssMinted' /\ ssJob[j].using <= ssMinted' /\ ssJob[j].rejected <= ssMinted'
        /\ ssCred[tab(j)] # None => ssCred[tab(j)].bearer <= ssMinted'
        /\ Shared # None => Shared.bearer <= ssMinted'
    <2>1. ssMinted \in Nat /\ ssMinted' \in Nat /\ ssMinted <= ssMinted'
      BY LoudMoves DEF SSBase, SSTypeOK, Bearers, ServerMoves
    <2>2. \A b \in Bearers : b <= ssMinted => b <= ssMinted'
      BY <2>1 DEF Bearers
    <2>3. ssJob[j].using \in Bearers /\ ssJob[j].rejected \in Bearers
      BY JobFields DEF SSBase
    <2>4. ssCred[tab(j)] # None => ssCred[tab(j)].bearer \in Bearers
      BY CredFields, SharedConstants DEF SSBase
    <2>5. Shared # None => Shared.bearer \in Bearers
      BY SharedFields DEF SSBase
    <2> QED BY <2>1, <2>2, <2>3, <2>4, <2>5, SharedConstants DEF SSBounds
  <1>1. CASE LocalTaken(j) \/ ExchangeFails(j) \/ Deletes(j)
    <2>1. UNCHANGED <<ssCred, ssRecord>> /\ Shared' = Shared
      BY <1>1 DEF LocalTaken, ExchangeFails, Deletes, Shared
    <2> QED BY <1>0, <1>1, <2>1 DEF LocalTaken, ExchangeFails, Deletes, SameLocals, Ended
  <1>2. CASE LocalMint(j)
    <2>1. Holding(j, ssMinted + 1) /\ ssRecord' = ssRecord /\ Shared' = Shared
          /\ ssMinted' = ssMinted + 1
      BY <1>2 DEF LocalMint, Shared, Mint
    <2>2. ssMinted + 1 <= ssMinted'
      BY <2>1 DEF SSTypeOK, Bearers
    <2> QED BY <1>0, <1>2, <2>1, <2>2 DEF LocalMint, Holding, SameLocals, Ended
  <1>3. CASE Adopts(j) \/ RenewKept(j)
    <2>1. Holding(j, Shared.bearer) /\ ssRecord' = ssRecord /\ Shared' = Shared /\ Shared # None
      BY <1>3 DEF Adopts, RenewKept, Shared, Active
    <2> QED BY <1>0, <1>3, <2>1 DEF Adopts, RenewKept, Holding, SameLocals, Ended
  <1>4. CASE RenewMarks(j) \/ LogoutMarked(j)
    <2>1. Holding(j, Shared.bearer) /\ Shared'.bearer = Shared.bearer /\ Shared # None
      BY <1>4 DEF RenewMarks, LogoutMarked, RecordTo, Active
    <2> QED BY <1>0, <1>4, <2>1 DEF RenewMarks, LogoutMarked, Holding, SameLocals, Ended
  <1>5. CASE SharedMint(j)
    <2>1. UNCHANGED <<ssCred, ssRecord>> /\ Shared' = Shared /\ ssMinted' = ssMinted + 1
      BY <1>5 DEF SharedMint, Shared, Mint
    <2>2. ssMinted + 1 <= ssMinted'
      BY <2>1 DEF SSTypeOK, Bearers
    <2> QED BY <1>0, <1>5, <2>1, <2>2 DEF SharedMint
  <1>6. CASE Keeps(j)
    BY <1>0, <1>6 DEF Keeps, Holding, RecordTo, SameLocals, Ended
  <1>7. CASE Erases(j)
    <2>1. ssCred' = ssCred /\ Shared' = None
      BY <1>7, ForgetFacts DEF Erases, SSBase
    <2> QED BY <1>0, <1>7, <2>1 DEF Erases, Ended
  <1>8. CASE Puts(j)
    BY <1>0, <1>8 DEF Puts, SameLocals
  <1>9. CASE JoinsAsSaved(j)
    <2>1. Shared'.bearer <= ssMinted'
      BY <1>0, <1>9 DEF JoinsAsSaved, Joins, RecordTo
    <2> QED BY <1>0, <1>9, <2>1 DEF JoinsAsSaved, Joins, Ended
  <1>10. CASE Rebuilt(j)
    <2>1. Shared'.bearer <= ssMinted'
      BY <1>0, <1>10 DEF Rebuilt, Joins, RecordTo
    <2> QED BY <1>0, <1>10, <2>1 DEF Rebuilt, Joins
  <1> QED BY <1>1, <1>2, <1>3, <1>4, <1>5, <1>6, <1>7, <1>8, <1>9, <1>10 DEF LoudSteps

LEMMA QuietMoves ==
    ASSUME SSBase, UNCHANGED ssServer PROVE ServerMoves
  BY StillMoves DEF SSBase, ssServer, ssHistory

LEMMA SharedBoundsStep == SSBase /\ SSBounds /\ SSTypeOK' /\ [SSNext]_ssVars => SSBounds'
  <1> SUFFICES ASSUME SSBase, SSBounds, SSTypeOK', [SSNext]_ssVars PROVE SSBounds'
    OBVIOUS
  <1>0. \A t \in Tabs : ssCred[t] # None => ssCred[t] = ssCred[t]
    OBVIOUS
  <1>1. ASSUME NEW j \in Jobs, QuietSteps(j) PROVE SSBounds'
    <2>1. StepOf(j) /\ UNCHANGED <<ssServer, ssRecord, ssCred>>
      BY <1>1, QuietWorld DEF World
    <2>2. ServerMoves /\ Shared' = Shared /\ ssMinted' = ssMinted
      BY <2>1, QuietMoves DEF ssServer, Shared
    <2>3. \A k \in Jobs : \/ ssJob'[k] = ssJob[k]
                          \/ ssJob'[k].using <= ssMinted' /\ ssJob'[k].rejected <= ssMinted'
      BY <1>1, <2>1, <2>2, QuietBounds DEF StepOf, Steps1
    <2> QED BY <2>1, <2>2, <2>3, BoundsKept
  <1>2. ASSUME NEW j \in Jobs, LoudSteps(j) PROVE SSBounds'
    <2>1. \A k \in Jobs : \/ ssJob'[k] = ssJob[k]
                          \/ ssJob'[k].using <= ssMinted' /\ ssJob'[k].rejected <= ssMinted'
      BY <1>2, LoudUntouched, LoudBounds DEF Untouched
    <2> QED BY <1>2, <2>1, LoudMoves, LoudBounds, BoundsKept
  <1>3. ASSUME Outer PROVE SSBounds'
    <2>1. UNCHANGED <<ssCred, ssJob>> /\ (ssRecord' = ssRecord \/ ssRecord' = None)
      BY <1>3, OuterCalls
    <2>2. Shared' # None => Shared # None /\ Shared'.bearer = Shared.bearer
      BY <2>1 DEF Shared
    <2> QED BY <1>3, <2>1, <2>2, OuterMoves, BoundsKept
  <1>4. ASSUME NEW t \in Tabs, Closes(t) PROVE SSBounds'
    <2>1. /\ UNCHANGED ssServer /\ ssRecord' = ssRecord /\ ssCred'[t] = None
          /\ \A u \in Tabs : u # t => ssCred'[u] = ssCred[u]
          /\ \A k \in Jobs : \/ ssJob'[k] = ssJob[k]
                             \/ ssJob'[k].using = 0 /\ ssJob'[k].rejected = 0
      BY <1>4 DEF Closes, Ended
    <2>2. ServerMoves /\ Shared' = Shared /\ 0 <= ssMinted'
      BY <2>1, QuietMoves DEF Shared, SSTypeOK, Bearers
    <2> QED BY <2>1, <2>2, BoundsKept
  <1>5. CASE UNCHANGED ssVars
    BY <1>5 DEF ssVars, SSBounds, Shared
  <1> QED BY <1>1, <1>2, <1>3, <1>4, <1>5, SharedSteps

-----------------------------------------------------------------------------
(* The pending mark, and the bearers that are known not to be good.         *)

\* A bearer that the homeserver refuses, or that is no longer new.
Worn(b) == b = 0 \/ b # ssCur \/ ssGone \/ ssPhase[b] # "fresh"

RecordWorn ==
    Shared # None => /\ Shared.refreshPending => Worn(Shared.bearer)
                     /\ Shared.bearer = 0 => Shared.refreshPending

\* An exchange replaces only a worn bearer, and the record says it is under way.
JobWorn(j, x) ==
    /\ x.pc \in {"exchange", "keep"} => Shared.refreshPending
    /\ x.pc = "keep" => x.using # 0
    /\ x.rejected # 0 => Worn(x.rejected)
    /\ x.pc = "exchangeLocal" => Worn(ssCred[tab(j)].bearer)

SSWorn == RecordWorn /\ \A j \in Jobs : JobWorn(j, ssJob[j])

LEMMA WornStays ==
    ASSUME SSBase, SSBounds, ServerMoves, NEW b \in Bearers, b <= ssMinted, Worn(b)
    PROVE  Worn(b)'
  <1>1. b \in Nat /\ ssMinted \in Nat /\ (b = 0 \/ b \in 1..MaxMint)
    BY SharedConstants DEF SSBase, SSTypeOK, Bearers
  <1>2. b # ssMinted + 1
    BY <1>1
  <1> QED BY <1>1, <1>2 DEF ServerMoves, Worn

LEMMA UntouchedWorn ==
    ASSUME SSBase, SSBounds, SSWorn, ServerMoves, NEW k \in Jobs, Untouched(k)
    PROVE  JobWorn(k, ssJob[k])'
  <1>1. JobWorn(k, ssJob[k]) /\ JobLease(ssJob[k], ssLease[k]) /\ JobCred(k, ssJob[k])
    BY DEF SSBase, SSWorn, JobBase
  <1>2. \A b : b = ssJob[k].rejected /\ b # 0 => Worn(b)'
    <2>1. ssJob[k].rejected \in Bearers /\ ssJob[k].rejected <= ssMinted
      BY JobFields DEF SSBase, SSBounds
    <2> QED BY <1>1, <2>1, WornStays DEF JobWorn
  <1>3. ssJob[k].pc \in {"exchange", "keep"} => Shared'.refreshPending
    <2>1. ssJob[k].pc \in {"exchange", "keep"} => ssLease[k] = "exclusive"
      BY <1>1 DEF JobLease, HeldSteps
    <2>2. ssLease[k] = "exclusive" => Shared' = Shared
      BY DEF Untouched, Shared
    <2> QED BY <1>1, <2>1, <2>2 DEF JobWorn
  <1>4. ssJob[k].pc = "exchangeLocal" => Worn(ssCred[tab(k)].bearer)'
    <2> SUFFICES ASSUME ssJob[k].pc = "exchangeLocal" PROVE Worn(ssCred[tab(k)].bearer)'
      OBVIOUS
    <2>1. ssCred'[tab(k)] = ssCred[tab(k)]
      BY <1>1 DEF JobCred, MutexSteps, Untouched
    <2>2. ssCred[tab(k)] # None /\ ssCred[tab(k)].bearer \in Bearers
      BY HasCred DEF CredSteps, Steps
    <2>3. ssCred[tab(k)].bearer <= ssMinted /\ Worn(ssCred[tab(k)].bearer)
      BY <1>1, <2>2, SharedConstants DEF SSBounds, JobWorn
    <2>4. \A b : b = ssCred[tab(k)].bearer => Worn(b)'
      BY <2>2, <2>3, WornStays
    <2> QED BY <2>1, <2>4 DEF tab
  <1> QED BY <1>1, <1>2, <1>3, <1>4 DEF JobWorn, Untouched

\* A bearer that needs a refresh, or was just refused, is worn.
LEMMA RefreshWorn ==
    ASSUME NEW b, NeedsRefresh(b, "half") PROVE Worn(b)
  BY DEF NeedsRefresh, Worn

LEMMA RefusedWorn ==
    ASSUME NEW b, ~Accepts(b) PROVE Worn(b)
  BY DEF Accepts, Worn

LEMMA QuietWorn ==
    ASSUME SSBase, SSWorn, NEW j \in Jobs, QuietSteps(j)
    PROVE  /\ ssJob'[j].pc \notin {"exchange", "keep", "exchangeLocal"}
           /\ ssJob'[j].rejected # 0 => Worn(ssJob'[j].rejected)
  <1>0. /\ ssJob[j].rejected # 0 => Worn(ssJob[j].rejected)
        /\ ssJob[j].back \in {"done", "bearer", "wantShared", "rebuild"}
    BY DEF SSWorn, JobWorn, SSBase, JobBase, JobLocals
  <1> DEFINE P == /\ ssJob'[j].pc \notin {"exchange", "keep", "exchangeLocal"}
                  /\ ssJob'[j].rejected # 0 => Worn(ssJob'[j].rejected)
  <1>1. ASSUME NEW kind \in Kinds, Start(j, kind) PROVE P
    BY <1>0, <1>1, StartFacts
  <1>2. CASE Begin(j)
    BY <1>0, <1>2, BeginFacts DEF SameLocals
  <1>3. CASE BearerForRequest(j)
    BY <1>0, <1>3, BearerForRequestFacts
  <1>4. CASE Refresh(j)
    BY <1>0, <1>4, RefreshFacts
  <1>5. CASE CurrentBearer(j)
    BY <1>0, <1>5, CurrentBearerFacts
  <1>6. CASE Answer(j)
    BY <1>0, <1>6, AnswerFacts, RefusedWorn DEF Ended
  <1>7. CASE AcquireShared(j)
    BY <1>0, <1>7, AcquireSharedFacts DEF SameLocals
  <1>8. CASE AcquireExclusive(j)
    BY <1>0, <1>8, AcquireExclusiveFacts DEF SameLocals
  <1>9. CASE LocalKept(j) \/ EndsQuietly(j)
    BY <1>0, <1>9 DEF LocalKept, EndsQuietly, Ended, SameLocals
  <1> QED BY <1>1, <1>2, <1>3, <1>4, <1>5, <1>6, <1>7, <1>8, <1>9 DEF QuietSteps

LEMMA RecordWornStays ==
    ASSUME SSBase, SSBounds, SSWorn, ServerMoves,
           Shared' # None => /\ Shared # None /\ Shared'.bearer = Shared.bearer
                             /\ Shared'.refreshPending = Shared.refreshPending
    PROVE  RecordWorn'
  <1> SUFFICES ASSUME Shared' # None
               PROVE  /\ Shared'.refreshPending => Worn(Shared.bearer)'
                      /\ Shared'.bearer = 0 => Shared'.refreshPending
    BY DEF RecordWorn
  <1>1. Shared # None /\ Shared.bearer \in Bearers /\ Shared.bearer <= ssMinted /\ RecordWorn
    BY SharedFields DEF SSBase, SSBounds, SSWorn
  <1>2. \A b : b = Shared.bearer /\ Shared.refreshPending => Worn(b)'
    BY <1>1, WornStays DEF RecordWorn
  <1> QED BY <1>1, <1>2 DEF RecordWorn

LEMMA LoudWorn ==
    ASSUME SSBase, SSBounds, SSWorn, NEW j \in Jobs, LoudSteps(j)
    PROVE  RecordWorn' /\ JobWorn(j, ssJob[j])'
  <1>0. /\ ssJob[j].rejected \in Bearers /\ ssJob[j].rejected <= ssMinted
        /\ ssJob[j].rejected # 0 => Worn(ssJob[j].rejected)
        /\ ssJob[j].back \in {"done", "bearer", "wantShared", "rebuild"}
        /\ RecordWorn /\ JobWorn(j, ssJob[j]) /\ ServerMoves
    BY LoudMoves, JobFields DEF SSWorn, JobWorn, SSBase, JobBase, JobLocals, SSBounds
  <1>1. \A b : b = ssJob[j].rejected /\ b # 0 => Worn(b)'
    BY <1>0, WornStays
  <1>2. ASSUME ssJob'[j].pc \notin {"exchange", "keep", "exchangeLocal"},
               ssJob'[j].rejected \in {0, ssJob[j].rejected}
        PROVE  JobWorn(j, ssJob[j])'
    BY <1>1, <1>2 DEF JobWorn
  <1>3. CASE LocalTaken(j)
    <2>1. /\ UNCHANGED <<ssRecord, ssCred, ssCur, ssGone, ssPhase>> /\ Shared' = Shared
          /\ ssJob'[j].pc = "exchangeLocal" /\ ssJob'[j].rejected = ssJob[j].rejected
          /\ \/ NeedsRefresh(ssCred[tab(j)].bearer, "half")
             \/ ssJob[j].rejected = ssCred[tab(j)].bearer
      BY <1>3 DEF LocalTaken, Shared, SameLocals, ssServer
    <2>2. Worn(ssCred[tab(j)].bearer)
      <3>1. ssCred[tab(j)].bearer = 0 => Worn(ssCred[tab(j)].bearer)
        BY DEF Worn
      <3> QED BY <1>0, <2>1, <3>1, RefreshWorn
    <2>3. \A b : Worn(b) => Worn(b)'
      BY <2>1 DEF Worn
    <2>4. JobWorn(j, ssJob[j])'
      BY <1>1, <2>1, <2>2, <2>3 DEF JobWorn, tab
    <2> QED BY <1>0, <2>1, <2>4, RecordWornStays
  <1>4. CASE LocalMint(j) \/ ExchangeFails(j) \/ Deletes(j) \/ Adopts(j) \/ RenewKept(j) \/ Puts(j)
    <2>1. /\ Shared' = Shared /\ ssJob'[j].rejected \in {0, ssJob[j].rejected}
          /\ ssJob'[j].pc \in {ssJob[j].back, "done", "wantExclusive", "send", "erase", "join"}
      BY <1>4 DEF LocalMint, ExchangeFails, Deletes, Adopts, RenewKept, Puts, Shared, SameLocals,
                  Ended
    <2> QED BY <1>0, <1>2, <2>1, RecordWornStays
  <1>5. CASE RenewMarks(j)
    <2>1. /\ UNCHANGED <<ssCur, ssGone, ssPhase>> /\ Shared # None
          /\ ssJob'[j].pc = "exchange" /\ ssJob'[j].rejected = ssJob[j].rejected
          /\ \/ Shared.refreshPending \/ NeedsRefresh(Shared.bearer, "half")
             \/ ssJob[j].rejected = Shared.bearer
          /\ Shared'.bearer = Shared.bearer /\ Shared'.refreshPending = TRUE
      BY <1>5 DEF RenewMarks, RecordTo, Active, SameLocals, ssServer
    <2>2. Worn(Shared.bearer)
      <3>1. Shared.bearer = 0 => Worn(Shared.bearer)
        BY DEF Worn
      <3> QED BY <1>0, <2>1, <3>1, RefreshWorn DEF RecordWorn
    <2>3. \A b : Worn(b) => Worn(b)'
      BY <2>1 DEF Worn
    <2>4. RecordWorn'
      BY <2>1, <2>2, <2>3 DEF RecordWorn
    <2>5. JobWorn(j, ssJob[j])'
      BY <1>1, <2>1 DEF JobWorn
    <2> QED BY <2>4, <2>5
  <1>6. CASE SharedMint(j)
    <2>1. /\ Shared' = Shared /\ ssJob[j].pc = "exchange" /\ ssJob'[j].pc = "keep"
          /\ ssJob'[j].rejected = ssJob[j].rejected /\ ssJob'[j].using = ssMinted + 1
      BY <1>6 DEF SharedMint, Shared
    <2>2. ssMinted + 1 # 0
      BY DEF SSBase, SSTypeOK, Bearers
    <2>3. JobWorn(j, ssJob[j])'
      BY <1>0, <1>1, <2>1, <2>2 DEF JobWorn
    <2> QED BY <1>0, <2>1, <2>3, RecordWornStays
  <1>7. CASE Keeps(j)
    <2>1. /\ ssJob'[j].rejected \in {0, ssJob[j].rejected} /\ ssJob[j].pc = "keep"
          /\ ssJob'[j].pc \in {ssJob[j].back, "done"}
          /\ Shared'.bearer = ssJob[j].using /\ Shared'.refreshPending = FALSE
      BY <1>7 DEF Keeps, SameLocals, Ended, RecordTo
    <2>2. RecordWorn'
      BY <1>0, <2>1 DEF RecordWorn, JobWorn
    <2> QED BY <1>0, <1>2, <2>1, <2>2
  <1>8. CASE LogoutMarked(j)
    <2>1. /\ ssJob'[j].rejected = ssJob[j].rejected /\ ssJob'[j].pc = "delete"
          /\ Shared'.bearer = Shared.bearer /\ Shared'.refreshPending = Shared.refreshPending
          /\ Shared # None
      BY <1>8 DEF LogoutMarked, SameLocals, RecordTo
    <2> QED BY <1>0, <1>2, <2>1, RecordWornStays
  <1>9. CASE Erases(j)
    <2>1. ssJob'[j].rejected = 0 /\ ssJob'[j].pc = "done" /\ Shared' = None
      BY <1>9, ForgetFacts DEF Erases, Ended, SSBase
    <2> QED BY <1>2, <2>1 DEF RecordWorn
  <1>10. CASE JoinsAsSaved(j) \/ Rebuilt(j)
    <2>1. /\ ssJob'[j].rejected \in {0, ssJob[j].rejected} /\ ssJob'[j].pc \in {"done", "begin"}
          /\ \/ Shared' = Shared
             \/ \E own : Shared'.bearer = own /\ Shared'.refreshPending = (own = 0)
      BY <1>10 DEF JoinsAsSaved, Rebuilt, Joins, RecordTo, Ended
    <2>2. RecordWorn'
      <3>1. Worn(0)'
        BY DEF Worn
      <3>2. CASE Shared' = Shared
        BY <1>0, <3>2, RecordWornStays
      <3>3. CASE \E own : Shared'.bearer = own /\ Shared'.refreshPending = (own = 0)
        BY <3>1, <3>3 DEF RecordWorn
      <3> QED BY <2>1, <3>2, <3>3
    <2> QED BY <1>2, <2>1, <2>2
  <1> QED BY <1>3, <1>4, <1>5, <1>6, <1>7, <1>8, <1>9, <1>10 DEF LoudSteps

LEMMA SharedWornStep == SSBase /\ SSBounds /\ SSWorn /\ [SSNext]_ssVars => SSWorn'
  <1> SUFFICES ASSUME SSBase, SSBounds, SSWorn, [SSNext]_ssVars PROVE SSWorn'
    OBVIOUS
  <1>1. ASSUME NEW j \in Jobs, QuietSteps(j) PROVE SSWorn'
    <2>1. StepOf(j) /\ UNCHANGED <<ssServer, ssRecord, ssCred>>
      BY <1>1, QuietWorld DEF World
    <2>2. ServerMoves /\ Shared' = Shared
      BY <2>1, QuietMoves DEF Shared
    <2>3. RecordWorn'
      BY <2>2, RecordWornStays
    <2>4. \A b : Worn(b) => Worn(b)'
      BY <2>1 DEF Worn, ssServer
    <2>5. JobWorn(j, ssJob[j])'
      BY <1>1, <2>4, QuietWorn DEF JobWorn
    <2>6. \A k \in Jobs : k # j => JobWorn(k, ssJob[k])'
      BY <1>1, <2>2, QuietUntouched, UntouchedWorn
    <2> QED BY <2>3, <2>5, <2>6 DEF SSWorn
  <1>2. ASSUME NEW j \in Jobs, LoudSteps(j) PROVE SSWorn'
    <2>1. \A k \in Jobs : k # j => JobWorn(k, ssJob[k])'
      BY <1>2, LoudMoves, LoudUntouched, UntouchedWorn
    <2> QED BY <1>2, <2>1, LoudWorn DEF SSWorn
  <1>3. ASSUME Outer PROVE SSWorn'
    <2>1. ssRecord' = ssRecord \/ ssRecord' = None
      BY <1>3, OuterCalls
    <2>2. Shared' # None => Shared # None /\ Shared' = Shared
      BY <2>1 DEF Shared
    <2>3. RecordWorn'
      BY <1>3, <2>2, OuterMoves, RecordWornStays
    <2> QED BY <1>3, <2>3, OuterMoves, OuterUntouched, UntouchedWorn DEF SSWorn
  <1>4. ASSUME NEW t \in Tabs, Closes(t) PROVE SSWorn'
    <2>1. /\ UNCHANGED ssServer /\ ssRecord' = ssRecord
          /\ \A k \in Jobs : tab(k) = t => \/ Ended(ssJob'[k])
                                           \/ /\ ssJob'[k] = ssJob[k]
                                              /\ ssJob[k].pc \in {"idle", "done"}
      BY <1>4 DEF Closes
    <2>2. ServerMoves /\ Shared' = Shared
      BY <2>1, QuietMoves DEF Shared
    <2>3. RecordWorn'
      BY <2>2, RecordWornStays
    <2>4. \A b : Worn(b) => Worn(b)'
      BY <2>1 DEF Worn, ssServer
    <2>5. \A k \in Jobs : tab(k) = t => JobWorn(k, ssJob[k])'
      BY <2>1, <2>4 DEF SSWorn, JobWorn, Ended
    <2>6. \A k \in Jobs : tab(k) # t => JobWorn(k, ssJob[k])'
      BY <1>4, <2>2, ClosesUntouched, UntouchedWorn
    <2> QED BY <2>3, <2>5, <2>6 DEF SSWorn
  <1>5. CASE UNCHANGED ssVars
    BY <1>5 DEF ssVars, SSWorn, RecordWorn, JobWorn, Worn, Shared, tab
  <1> QED BY <1>1, <1>2, <1>3, <1>4, <1>5, SharedSteps

-----------------------------------------------------------------------------
(* Who knows the homeserver's bearer.                                       *)

\* The record need not know the homeserver's bearer.
Settled == ssCur = 0 \/ ssCur \in ssOutside

Stored == Shared # None => Shared.refreshPending \/ Shared.bearer = ssCur \/ Settled

TabKnown(t) ==
    /\ Joined(t) /\ Shared = None => Settled
    /\ Unsaved(t) => ssCred[t].bearer = ssCur \/ Settled

\* What a call knows while it holds a lease.
JobKnown(j, x, l) ==
    /\ x.pc = "keep" => x.using = ssCur \/ Settled
    /\ x.pc = "delete" /\ l = "exclusive" =>
          ssCred[tab(j)].bearer = ssCur \/ Shared.refreshPending \/ Settled
    /\ x.pc = "send" /\ l = "shared" => /\ Shared # None /\ ~Shared.logoutPending
                                        /\ ~Shared.refreshPending /\ Shared.bearer = x.using
    /\ x.pc = "erase" /\ x.kind = "signout" =>
          ssGone \/ Shared.refreshPending \/ ssCur \in ssOutside \/ ssPhase[ssCur] = "expired"

SSKnown ==
    /\ Stored
    /\ \A t \in Tabs : TabKnown(t)
    /\ \A j \in Jobs : JobKnown(j, ssJob[j], ssLease[j])

\* Every step but an exchange under a lease, or before there is a record.
SettledMoves ==
    \/ ssCur' = ssCur /\ ssOutside \subseteq ssOutside'
    \/ Settled'

LEMMA SettledStays ==
    ASSUME SettledMoves
    PROVE  /\ Settled => Settled'
           /\ \A b : b = ssCur \/ Settled => b = ssCur' \/ Settled'
  BY DEF SettledMoves, Settled

\* A call at no such step knows nothing.
LEMMA NothingKnown ==
    ASSUME NEW j \in Jobs, ssJob'[j].pc \notin {"keep", "delete", "send", "erase"}
    PROVE  JobKnown(j, ssJob[j], ssLease[j])'
  BY DEF JobKnown

LEMMA UntouchedKnown ==
    ASSUME SSBase, SSBounds, SSKnown, ServerMoves, SettledMoves, NEW k \in Jobs, Untouched(k),
           ssLease[k] = "exclusive" => ssCred'[tab(k)] = ssCred[tab(k)] \/ Settled'
    PROVE  JobKnown(k, ssJob[k], ssLease[k])'
  <1>1. /\ JobKnown(k, ssJob[k], ssLease[k]) /\ JobLease(ssJob[k], ssLease[k])
        /\ ssJob'[k] = ssJob[k] /\ ssLease'[k] = ssLease[k]
    BY DEF SSBase, SSKnown, JobBase, Untouched
  <1>2. ssLease[k] # "none" => Shared' = Shared
    BY DEF Untouched, Shared
  <1>3. ssJob[k].pc = "keep" => ssJob[k].using = ssCur' \/ Settled'
    BY <1>1, SettledStays DEF JobKnown
  <1>4. ssJob[k].pc = "delete" /\ ssLease[k] = "exclusive" =>
           ssCred'[tab(k)].bearer = ssCur' \/ Shared'.refreshPending \/ Settled'
    BY <1>1, <1>2, SettledStays DEF JobKnown
  <1>5. ssJob[k].pc = "send" /\ ssLease[k] = "shared" =>
           /\ Shared' # None /\ ~Shared'.logoutPending
           /\ ~Shared'.refreshPending /\ Shared'.bearer = ssJob[k].using
    BY <1>1, <1>2 DEF JobKnown
  <1>6. ssJob[k].pc = "erase" /\ ssJob[k].kind = "signout" =>
           ssGone' \/ Shared'.refreshPending \/ ssCur' \in ssOutside' \/ ssPhase'[ssCur'] = "expired"
    <2> SUFFICES ASSUME ssJob[k].pc = "erase", ssJob[k].kind = "signout", ~ssGone'
                 PROVE  \/ Shared'.refreshPending \/ ssCur' \in ssOutside'
                        \/ ssPhase'[ssCur'] = "expired"
      OBVIOUS
    <2>1. Shared' = Shared /\ ~ssGone
      BY <1>1, <1>2 DEF JobLease, HeldSteps, ServerMoves
    <2>2. ssCur # 0 /\ ssCur \in 1..MaxMint
      BY <2>1, SharedConstants DEF SSBounds, SSBase, SSTypeOK, Bearers
    <2>3. Shared.refreshPending \/ ssCur \in ssOutside \/ ssPhase[ssCur] = "expired"
      BY <1>1, <2>1 DEF JobKnown
    <2>4. ssCur' # 0
      BY <2>1, <2>2 DEF ServerMoves, SSBase, SSTypeOK, Bearers
    <2> QED BY <2>1, <2>2, <2>3, <2>4 DEF SettledMoves, Settled, ServerMoves
  <1> QED BY <1>1, <1>3, <1>4, <1>5, <1>6 DEF JobKnown, tab

\* The others hold no lease, or there is no shared state to hold one for.
LEMMA UnleasedKnown ==
    ASSUME SSBase, SSKnown, NEW k \in Jobs, Untouched(k), ssLease[k] = "none" \/ Shared = None
    PROVE  JobKnown(k, ssJob[k], ssLease[k])'
  <1>1. /\ JobKnown(k, ssJob[k], ssLease[k]) /\ JobLease(ssJob[k], ssLease[k])
        /\ JobRecord(ssJob[k], ssLease[k])
        /\ ssJob'[k] = ssJob[k] /\ ssLease'[k] = ssLease[k]
    BY DEF SSBase, SSKnown, JobBase, Untouched
  <1> QED BY <1>1 DEF JobKnown, JobLease, JobRecord, HeldSteps

\* Another call's credential changes only if it has a lease, or exchanges locally.
LEMMA LoudCred ==
    ASSUME SSBase, NEW j \in Jobs, LoudSteps(j), NEW k \in Jobs, k # j, ssLease[k] = "exclusive"
    PROVE  ssCred'[tab(k)] = ssCred[tab(k)] \/ LocalMint(j)
  <1>1. ssLease[j] = "none"
    BY DEF SSBase, LeasesExclude
  <1>2. ssJob[j].pc \notin HeldSteps \cup {"adopt"}
    BY <1>1 DEF SSBase, JobBase, JobLease
  <1> QED BY <1>2 DEF LoudSteps, LocalTaken, LocalMint, ExchangeFails, Adopts, RenewKept,
         RenewMarks, SharedMint, Keeps, LogoutMarked, Deletes, Erases, Puts, JoinsAsSaved, Rebuilt,
         HeldSteps

\* With shared state there is no unsaved credential.
LEMMA AllSaved ==
    ASSUME SSPath, Shared # None, NEW t \in Tabs PROVE ~Unsaved(t)
  BY DEF SSPath, SavedOnce

LEMMA SettledKnown ==
    ASSUME Settled' PROVE Stored' /\ \A t \in Tabs : TabKnown(t)'
  BY DEF Stored, TabKnown

LEMMA TabsKept ==
    ASSUME SSKnown, SettledMoves, Shared # None => Shared' # None,
           \A t \in Tabs : ssCred'[t] = ssCred[t] \/ ssCred'[t] = None
    PROVE  \A t \in Tabs : TabKnown(t)'
  <1> SUFFICES ASSUME NEW t \in Tabs, ssCred'[t] # None
               PROVE  TabKnown(t)'
    BY DEF TabKnown, Joined, Unsaved
  <1>1. ssCred'[t] = ssCred[t] /\ TabKnown(t)
    BY DEF SSKnown
  <1> QED BY <1>1, SettledStays DEF TabKnown, Joined, Unsaved

LEMMA TabsHolding ==
    ASSUME SSPath, Shared # None, Shared' # None, NEW j \in Jobs, NEW b, Holding(j, b)
    PROVE  \A t \in Tabs : TabKnown(t)'
  <1>1. \A t \in Tabs : ~Unsaved(t)'
    BY AllSaved, SharedConstants DEF Holding, Unsaved
  <1> QED BY <1>1 DEF TabKnown

LEMMA StoredStays ==
    ASSUME SSKnown, SettledMoves,
           Shared' # None => /\ Shared # None /\ Shared'.bearer = Shared.bearer
                             /\ Shared'.refreshPending = Shared.refreshPending
    PROVE  Stored'
  BY SettledStays DEF SSKnown, Stored

LEMMA LoudOthers ==
    ASSUME SSBase, SSBounds, SSKnown, NEW j \in Jobs, LoudSteps(j), SettledMoves,
           LocalMint(j) => Settled',
           Stored', \A t \in Tabs : TabKnown(t)', JobKnown(j, ssJob[j], ssLease[j])'
    PROVE  SSKnown'
  <1>1. ASSUME NEW k \in Jobs, k # j PROVE JobKnown(k, ssJob[k], ssLease[k])'
    <2>1. Untouched(k) /\ ServerMoves
      BY <1>1, LoudUntouched, LoudMoves
    <2>2. ssLease[k] = "exclusive" => ssCred'[tab(k)] = ssCred[tab(k)] \/ Settled'
      BY <1>1, LoudCred
    <2> QED BY <2>1, <2>2, UntouchedKnown
  <1> QED BY <1>1 DEF SSKnown

LEMMA SameServer ==
    ASSUME UNCHANGED ssServer PROVE SettledMoves
  BY DEF ssServer, ssHistory, SettledMoves

\* The steps that leave server, record and credentials alone, and those that take
\* the stored bearer.
LEMMA KnownAdopts ==
    ASSUME SSBase, SSPath, SSBounds, SSKnown, NEW j \in Jobs,
           \/ LocalTaken(j) \/ ExchangeFails(j) \/ Adopts(j) \/ RenewKept(j) \/ RenewMarks(j)
           \/ LogoutMarked(j) \/ Keeps(j)
    PROVE  SSKnown'
  <1>0. LoudSteps(j) /\ SettledMoves /\ ~LocalMint(j)
        /\ ssJob[j].back \in {"done", "bearer", "wantShared", "rebuild"}
    <2>1. UNCHANGED ssServer
      BY DEF LocalTaken, ExchangeFails, Adopts, RenewKept, RenewMarks, Keeps, LogoutMarked
    <2>2. ~LocalMint(j)
      <3>1. ssMinted' = ssMinted /\ ssMinted \in Nat
        BY <2>1 DEF ssServer, SSBase, SSTypeOK, Bearers
      <3>2. LocalMint(j) => ssMinted' = ssMinted + 1
        BY DEF LocalMint, Mint
      <3> QED BY <3>1, <3>2
    <2> QED BY <2>1, <2>2, SameServer DEF LoudSteps, SSBase, JobBase, JobLocals
  <1>1. CASE LocalTaken(j) \/ ExchangeFails(j)
    <2>1. /\ UNCHANGED <<ssCred, ssRecord>> /\ Shared' = Shared
          /\ ssJob'[j].pc \in {"exchangeLocal", "done"}
      BY <1>1 DEF LocalTaken, ExchangeFails, Ended, Shared
    <2>2. JobKnown(j, ssJob[j], ssLease[j])'
      BY <2>1, NothingKnown
    <2>3. Stored' /\ \A t \in Tabs : TabKnown(t)'
      BY <1>0, <2>1, StoredStays, TabsKept
    <2> QED BY <1>0, <2>2, <2>3, LoudOthers
  <1>2. CASE Adopts(j) \/ RenewKept(j)
    <2>1. ssRecord' = ssRecord /\ Shared' = Shared /\ Active /\ Shared # None
          /\ Holding(j, Shared.bearer)
      BY <1>2 DEF Adopts, RenewKept, Shared, Active
    <2>2. JobKnown(j, ssJob[j], ssLease[j])'
      <3>1. CASE ssJob'[j].pc = "send"
        <4>1. /\ ~Shared.refreshPending /\ ssJob'[j].using = Shared.bearer /\ ~Shared.logoutPending
          BY <1>0, <1>2, <2>1, <3>1 DEF Adopts, RenewKept, Ended, Active
        <4> QED BY <2>1, <3>1, <4>1 DEF JobKnown
      <3>2. CASE ssJob'[j].pc # "send"
        <4>1. ssJob'[j].pc \in {"wantExclusive", "done", ssJob[j].back}
          BY <1>2, <3>2 DEF Adopts, RenewKept, Ended
        <4> QED BY <1>0, <3>2, <4>1, NothingKnown
      <3> QED BY <3>1, <3>2
    <2>3. Stored' /\ \A t \in Tabs : TabKnown(t)'
      BY <1>0, <2>1, StoredStays, TabsHolding
    <2> QED BY <1>0, <2>2, <2>3, LoudOthers
  <1>3. CASE RenewMarks(j)
    <2>1. /\ Shared # None /\ Shared' # None /\ Shared'.refreshPending = TRUE
          /\ Holding(j, Shared.bearer) /\ ssJob'[j].pc = "exchange"
      BY <1>3 DEF RenewMarks, RecordTo, Active
    <2>2. Stored' /\ \A t \in Tabs : TabKnown(t)'
      BY <2>1, TabsHolding DEF Stored
    <2> QED BY <1>0, <2>1, <2>2, NothingKnown, LoudOthers
  <1>4. CASE LogoutMarked(j)
    <2>1. /\ Shared # None /\ Shared' # None /\ Shared'.refreshPending = Shared.refreshPending
          /\ Shared'.bearer = Shared.bearer
          /\ Holding(j, Shared.bearer) /\ ssJob'[j].pc = "delete"
      BY <1>4 DEF LogoutMarked, RecordTo
    <2>2. Stored' /\ \A t \in Tabs : TabKnown(t)'
      BY <1>0, <2>1, StoredStays, TabsHolding
    <2>3. JobKnown(j, ssJob[j], ssLease[j])'
      <3>1. ssCred'[tab(j)].bearer = Shared'.bearer
        BY <2>1 DEF Holding
      <3> QED BY <2>1, <2>2, <3>1 DEF JobKnown, Stored, tab
    <2> QED BY <1>0, <2>2, <2>3, LoudOthers
  <1>5. CASE Keeps(j)
    <2>1. /\ ssJob[j].pc = "keep" /\ Shared' # None /\ Shared'.bearer = ssJob[j].using
          /\ Holding(j, ssJob[j].using) /\ ssJob'[j].pc \in {"done", ssJob[j].back}
      BY <1>5 DEF Keeps, RecordTo, Ended
    <2>2. Shared # None /\ (ssJob[j].using = ssCur \/ Settled)
      BY <2>1 DEF SSBase, JobBase, JobRecord, SSKnown, JobKnown
    <2>3. Stored'
      BY <1>0, <2>1, <2>2, SettledStays DEF Stored
    <2>4. \A t \in Tabs : TabKnown(t)'
      BY <2>1, <2>2, TabsHolding
    <2> QED BY <1>0, <2>1, <2>3, <2>4, NothingKnown, LoudOthers
  <1> QED BY <1>1, <1>2, <1>3, <1>4, <1>5

LEMMA MintSettles ==
    ASSUME SSTypeOK, Mint(TRUE) PROVE Settled'
  BY MintFacts DEF Settled

LEMMA ForgetSettles ==
    ASSUME SSBase, SSBounds, Forget, UNCHANGED <<ssCur, ssMinted>> PROVE Settled'
  <1>1. ssCur = 0 \/ ssCur \in 1..ssMinted
    BY DEF SSBounds, SSBase, SSTypeOK, Bearers
  <1> QED BY <1>1, ForgetFacts DEF Settled, SSBase

LEMMA KnownMints ==
    ASSUME SSBase, SSPath, SSBounds, SSWorn, SSKnown, NEW j \in Jobs, LocalMint(j) \/ SharedMint(j)
    PROVE  SSKnown'
  <1>0. /\ LoudSteps(j) /\ ssJob[j].back \in {"done", "bearer", "wantShared", "rebuild"}
    BY DEF LoudSteps, SSBase, JobBase, JobLocals
  <1>1. CASE SharedMint(j)
    <2>1. /\ UNCHANGED <<ssRecord, ssCred>> /\ Shared' = Shared /\ ssJob[j].pc = "exchange"
          /\ ssJob'[j].pc = "keep" /\ ssJob'[j].using = ssCur'
      BY <1>1 DEF SharedMint, Shared, Mint
    <2>2. Shared # None /\ Shared.refreshPending /\ ssLease[j] = "exclusive"
      BY <2>1 DEF SSBase, JobBase, JobRecord, JobLease, HeldSteps, SSWorn, JobWorn
    <2>3. \A k \in Jobs : k # j => JobKnown(k, ssJob[k], ssLease[k])'
      BY <1>0, <2>2, LoudUntouched, UnleasedKnown DEF SSBase, LeasesExclude
    <2>4. JobKnown(j, ssJob[j], ssLease[j])'
      BY <2>1 DEF JobKnown
    <2>5. \A t \in Tabs : TabKnown(t)'
      <3>1. \A t \in Tabs : ~Unsaved(t)'
        BY <2>1, <2>2, AllSaved DEF Unsaved
      <3> QED BY <2>1, <2>2, <3>1 DEF TabKnown
    <2> QED BY <2>1, <2>2, <2>3, <2>4, <2>5 DEF SSKnown, Stored
  <1>2. CASE LocalMint(j)
    <2>1. /\ ssRecord' = ssRecord /\ Shared' = Shared /\ ssJob[j].pc = "exchangeLocal"
          /\ ssJob'[j].pc \in {"done", ssJob[j].back} /\ Holding(j, ssMinted + 1)
      BY <1>2 DEF LocalMint, Shared, Ended
    <2>2. JobKnown(j, ssJob[j], ssLease[j])'
      BY <1>0, <2>1, NothingKnown
    <2>3. CASE ssRecord # None \/ ssCred[tab(j)].joined
      <3>1. Mint(TRUE)
        BY <1>2, <2>3 DEF LocalMint, Mint
      <3>2. Settled'
        BY <3>1, MintSettles DEF SSBase
      <3> QED BY <1>0, <2>2, <3>2, SettledKnown, LoudOthers DEF SettledMoves
    <2>4. CASE ssRecord = None /\ ~ssCred[tab(j)].joined
      <3>1. ssCur' = ssMinted + 1
        BY <1>2 DEF LocalMint, Mint
      <3>2. ssCred[tab(j)] # None /\ tab(j) \in Tabs
        BY <2>1, HasCred, SharedConstants DEF CredSteps, Steps
      <3>3. \A t \in Tabs : t # tab(j) => ssCred'[t] = None
        BY <2>1, <2>4, <3>2 DEF SSPath, SavedOnce, Unsaved, Holding
      <3>4. ssCred'[tab(j)].bearer = ssCur' /\ ~ssCred'[tab(j)].joined
        BY <2>1, <2>4, <3>1 DEF Holding
      <3>5. \A t \in Tabs : TabKnown(t)'
        BY <3>3, <3>4 DEF TabKnown, Joined, Unsaved
      <3>6. Shared = None
        BY <2>4 DEF Shared
      <3>7. \A k \in Jobs : k # j => JobKnown(k, ssJob[k], ssLease[k])'
        BY <1>0, <3>6, LoudUntouched, UnleasedKnown
      <3> QED BY <2>1, <2>2, <3>5, <3>6, <3>7 DEF SSKnown, Stored
    <2> QED BY <2>3, <2>4
  <1> QED BY <1>1, <1>2

LEMMA KnownDeletes ==
    ASSUME SSBase, SSPath, SSBounds, SSKnown, NEW j \in Jobs, Deletes(j)
    PROVE  SSKnown'
  <1>0. /\ UNCHANGED <<ssMinted, ssPhase, ssOutside, ssRecord, ssCred>> /\ Shared' = Shared
        /\ ssJob[j].pc = "delete"
        /\ \/ ssGone' = TRUE /\ ssCur' = 0
           \/ ~Accepts(ssCred[tab(j)].bearer) /\ ssGone' = ssGone /\ ssCur' = ssCur
        /\ \/ ssLease[j] = "exclusive" /\ ssJob'[j].pc = "erase"
           \/ ssJob'[j].pc = "done"
    BY DEF Deletes, Shared, Ended, ssHistory
  <1>1. LoudSteps(j) /\ SettledMoves /\ ~LocalMint(j)
    BY <1>0 DEF LoudSteps, SettledMoves, Settled, LocalMint
  <1>2. Stored' /\ \A t \in Tabs : TabKnown(t)'
    BY <1>0, <1>1, StoredStays, TabsKept
  <1>3. JobKnown(j, ssJob[j], ssLease[j])'
    <2>1. CASE ssJob'[j].pc = "done"
      BY <2>1, NothingKnown
    <2>2. CASE ssGone'
      BY <1>0, <2>2 DEF JobKnown
    <2>3. CASE /\ ssLease[j] = "exclusive" /\ ssJob'[j].pc = "erase"
               /\ ~Accepts(ssCred[tab(j)].bearer) /\ ssGone' = ssGone /\ ssCur' = ssCur
      <3>1. ssCred[tab(j)].bearer = ssCur \/ Shared.refreshPending \/ Settled
        BY <1>0, <2>3 DEF SSKnown, JobKnown
      <3>2. ssCur = 0 => ssGone
        BY DEF SSBounds
      <3>3. \/ ssGone \/ Shared.refreshPending \/ ssCur \in ssOutside
            \/ ssPhase[ssCur] = "expired"
        BY <2>3, <3>1, <3>2 DEF Accepts, Settled
      <3> QED BY <1>0, <2>3, <3>3 DEF JobKnown
    <2> QED BY <1>0, <2>1, <2>2, <2>3
  <1> QED BY <1>1, <1>2, <1>3, LoudOthers

LEMMA KnownSaves ==
    ASSUME SSBase, SSPath, SSBounds, SSKnown, NEW j \in Jobs,
           Erases(j) \/ Puts(j) \/ JoinsAsSaved(j) \/ Rebuilt(j)
    PROVE  SSKnown'
  <1>0. /\ LoudSteps(j) /\ ~LocalMint(j)
        /\ ssJob'[j].pc \in {"done", "join", "begin"}
    BY DEF LoudSteps, Erases, Puts, JoinsAsSaved, Rebuilt, LocalMint, Ended
  <1>1. JobKnown(j, ssJob[j], ssLease[j])'
    BY <1>0, NothingKnown
  <1>2. CASE Erases(j)
    <2>1. Settled'
      BY <1>2, ForgetSettles DEF Erases
    <2> QED BY <1>0, <1>1, <2>1, SettledKnown, LoudOthers DEF SettledMoves
  <1>3. CASE Puts(j)
    <2>1. SettledMoves /\ ssCred' = ssCred /\ Shared' = Shared
      BY <1>3, SameServer DEF Puts
    <2>2. Stored' /\ \A t \in Tabs : TabKnown(t)'
      BY <2>1, StoredStays, TabsKept
    <2> QED BY <1>0, <1>1, <2>1, <2>2, LoudOthers
  <1>4. CASE JoinsAsSaved(j) \/ Rebuilt(j)
    <2>1. /\ SettledMoves /\ Shared' # None
          /\ ssCred'[tab(j)].joined = TRUE
          /\ \A t \in Tabs : t # tab(j) => ssCred'[t] = ssCred[t]
      BY <1>4, SameServer DEF JoinsAsSaved, Rebuilt, Joins, RecordTo
    <2>2. \A t \in Tabs : TabKnown(t)'
      <3> SUFFICES ASSUME NEW t \in Tabs PROVE TabKnown(t)'
        OBVIOUS
      <3>1. CASE t = tab(j)
        BY <2>1, <3>1 DEF TabKnown, Unsaved, tab
      <3>2. CASE t # tab(j)
        <4>1. ssCred'[t] = ssCred[t] /\ TabKnown(t)
          BY <2>1, <3>2 DEF SSKnown
        <4> QED BY <2>1, <4>1, SettledStays DEF TabKnown, Unsaved
      <3> QED BY <3>1, <3>2
    <2>3. Stored'
      <3>1. CASE Shared # None
        <4>1. Shared' = Shared
          BY <1>4, <3>1 DEF JoinsAsSaved, Rebuilt, Joins
        <4> QED BY <2>1, <4>1, StoredStays
      <3>2. CASE Shared = None /\ Rebuilt(j)
        <4>1. Shared'.refreshPending = (0 = 0)
          BY <3>2 DEF Rebuilt, Joins, RecordTo
        <4> QED BY <4>1 DEF Stored
      <3>3. CASE Shared = None /\ JoinsAsSaved(j)
        <4>1. Shared'.bearer = ssCred[tab(j)].bearer /\ ssCred[tab(j)] # None
          BY <3>3 DEF JoinsAsSaved, Joins, RecordTo
        <4>2. TabKnown(tab(j))
          BY SharedConstants DEF SSKnown
        <4>3. ssCred[tab(j)].bearer = ssCur \/ Settled
          BY <3>3, <4>1, <4>2 DEF TabKnown, Joined, Unsaved
        <4> QED BY <2>1, <4>1, <4>3, SettledStays DEF Stored
      <3> QED BY <1>4, <3>1, <3>2, <3>3
    <2> QED BY <1>0, <1>1, <2>1, <2>2, <2>3, LoudOthers
  <1> QED BY <1>2, <1>3, <1>4

LEMMA QuietKnown ==
    ASSUME SSBase, NEW j \in Jobs, QuietSteps(j)
    PROVE  /\ ssJob'[j].pc # "keep"
           /\ ssJob'[j].pc = "delete" => ssLease'[j] # "exclusive"
           /\ ssJob'[j].pc = "send" => ssLease'[j] # "shared"
           /\ ssJob'[j].pc = "erase" => ssJob'[j].kind # "signout"
  <1>0. /\ ssJob[j].back \in {"done", "bearer", "wantShared", "rebuild"}
        /\ JobLease(ssJob[j], ssLease[j])
    BY DEF SSBase, JobBase, JobLocals
  <1> DEFINE P == /\ ssJob'[j].pc # "keep"
                  /\ ssJob'[j].pc = "delete" => ssLease'[j] # "exclusive"
                  /\ ssJob'[j].pc = "send" => ssLease'[j] # "shared"
                  /\ ssJob'[j].pc = "erase" => ssJob'[j].kind # "signout"
  <1>1. ASSUME NEW kind \in Kinds, Start(j, kind) PROVE P
    BY <1>0, <1>1, StartFacts
  <1>2. CASE Begin(j)
    BY <1>0, <1>2, BeginFacts DEF JobLease, HeldSteps
  <1>3. CASE BearerForRequest(j)
    BY <1>3, BearerForRequestFacts
  <1>4. CASE Refresh(j)
    BY <1>4, RefreshFacts
  <1>5. CASE CurrentBearer(j)
    BY <1>0, <1>5, CurrentBearerFacts DEF JobLease, HeldSteps
  <1>6. CASE Answer(j)
    BY <1>6, AnswerFacts DEF Ended
  <1>7. CASE AcquireShared(j)
    BY <1>7, AcquireSharedFacts
  <1>8. CASE AcquireExclusive(j)
    BY <1>8, AcquireExclusiveFacts DEF SameLocals
  <1>9. CASE LocalKept(j) \/ EndsQuietly(j)
    BY <1>0, <1>9 DEF LocalKept, EndsQuietly, Ended
  <1> QED BY <1>1, <1>2, <1>3, <1>4, <1>5, <1>6, <1>7, <1>8, <1>9 DEF QuietSteps

LEMMA OuterSettles ==
    ASSUME SSBase, SSBounds, Outer
    PROVE  SettledMoves /\ (ssRecord' = ssRecord \/ Settled')
  <1>1. CASE Clear
    <2>1. Settled'
      BY <1>1, ForgetSettles DEF Clear
    <2> QED BY <2>1 DEF SettledMoves
  <1>2. CASE StrayExecutes
    <2>1. CASE Mint(TRUE)
      BY <2>1, MintSettles DEF SettledMoves, SSBase
    <2>2. CASE UNCHANGED ssServer
      BY <1>2, <2>2, SameServer DEF StrayExecutes
    <2> QED BY <1>2, <2>1, <2>2 DEF StrayExecutes
  <1>3. CASE Revoke
    BY <1>3 DEF Revoke, SettledMoves, Settled
  <1>4. CASE \E b \in 1..MaxMint : Age(b)
    BY <1>4 DEF Age, SettledMoves, ssHistory
  <1> QED BY <1>1, <1>2, <1>3, <1>4 DEF Outer

LEMMA SharedKnownStep ==
    SSBase /\ SSPath /\ SSBounds /\ SSWorn /\ SSKnown /\ [SSNext]_ssVars => SSKnown'
  <1> SUFFICES ASSUME SSBase, SSPath, SSBounds, SSWorn, SSKnown, [SSNext]_ssVars PROVE SSKnown'
    OBVIOUS
  <1>1. ASSUME NEW j \in Jobs, QuietSteps(j) PROVE SSKnown'
    <2>1. StepOf(j) /\ UNCHANGED <<ssServer, ssRecord, ssCred>>
      BY <1>1, QuietWorld DEF World
    <2>2. ServerMoves /\ SettledMoves /\ Shared' = Shared
      BY <2>1, QuietMoves, SameServer DEF Shared
    <2>3. Stored' /\ \A t \in Tabs : TabKnown(t)'
      BY <2>1, <2>2, StoredStays, TabsKept
    <2>4. JobKnown(j, ssJob[j], ssLease[j])'
      BY <1>1, QuietKnown DEF JobKnown
    <2>5. \A k \in Jobs : k # j => JobKnown(k, ssJob[k], ssLease[k])'
      BY <1>1, <2>1, <2>2, QuietUntouched, UntouchedKnown
    <2> QED BY <2>3, <2>4, <2>5 DEF SSKnown
  <1>2. ASSUME NEW j \in Jobs, LoudSteps(j) PROVE SSKnown'
    BY <1>2, KnownAdopts, KnownMints, KnownDeletes, KnownSaves DEF LoudSteps
  <1>3. ASSUME Outer PROVE SSKnown'
    <2>1. UNCHANGED <<ssCred, ssJob>>
      BY <1>3, OuterCalls
    <2>2. SettledMoves /\ ServerMoves
      BY <1>3, OuterSettles, OuterMoves
    <2>3. Stored' /\ \A t \in Tabs : TabKnown(t)'
      <3>1. CASE ssRecord' = ssRecord
        <4>1. Shared' = Shared
          BY <3>1 DEF Shared
        <4> QED BY <2>1, <2>2, <4>1, StoredStays, TabsKept
      <3> QED BY <1>3, <3>1, OuterSettles, SettledKnown
    <2>4. \A k \in Jobs : JobKnown(k, ssJob[k], ssLease[k])'
      BY <1>3, <2>1, <2>2, OuterUntouched, UntouchedKnown
    <2> QED BY <2>3, <2>4 DEF SSKnown
  <1>4. ASSUME NEW t \in Tabs, Closes(t) PROVE SSKnown'
    <2>1. /\ UNCHANGED ssServer /\ ssRecord' = ssRecord /\ ssCred'[t] = None
          /\ \A u \in Tabs : u # t => ssCred'[u] = ssCred[u]
          /\ \A k \in Jobs : tab(k) = t => ssJob'[k].pc \in {"idle", "done"}
      BY <1>4 DEF Closes, Ended
    <2>2. ServerMoves /\ SettledMoves /\ Shared' = Shared
      BY <2>1, QuietMoves, SameServer DEF Shared
    <2>3. Stored' /\ \A u \in Tabs : TabKnown(u)'
      BY <2>1, <2>2, StoredStays, TabsKept
    <2>4. \A k \in Jobs : tab(k) = t => JobKnown(k, ssJob[k], ssLease[k])'
      BY <2>1, NothingKnown
    <2>5. \A k \in Jobs : tab(k) # t => JobKnown(k, ssJob[k], ssLease[k])'
      BY <1>4, <2>1, <2>2, ClosesUntouched, UntouchedKnown, SharedConstants
    <2> QED BY <2>3, <2>4, <2>5 DEF SSKnown
  <1>5. CASE UNCHANGED ssVars
    BY <1>5 DEF ssVars, SSKnown, Stored, TabKnown, JobKnown, Settled, Joined, Unsaved, Shared, tab
  <1> QED BY <1>1, <1>2, <1>3, <1>4, <1>5, SharedSteps

-----------------------------------------------------------------------------
(* Why one retry is enough.                                                 *)

\* Since the call began the grant lives and nothing happened outside the lease.
Undisturbed(x) == ~ssGone /\ x.lapses = ssLapses

\* The homeserver's bearer, or one that came to age.
Good(b) == b = ssCur \/ (b # 0 /\ ssPhase[b] # "fresh")

\* A call that is sent again through the record.
OnRecord(x) == x.retried /\ x.back = "wantShared"

\* A call that takes its bearer from the credential.
Local(x, l) ==
    \/ x.pc \in {"check", "local", "exchangeLocal", "bearer"}
    \/ x.pc = "send" /\ l = "none"
    \/ x.pc \in {"refresh", "wantExclusive", "renew", "exchange", "keep"} /\ x.back = "bearer"

\* The record has a good bearer, or the call will have it replaced.
SharedRetry(x) ==
    /\ Shared # None
    /\ \/ Shared.refreshPending \/ Shared.bearer = ssCur
       \/ x.pc \in {"wantExclusive", "renew"} /\ x.rejected # 0 /\ Shared.bearer = x.rejected

\* The same for the credential's bearer c, which once joined follows the record's.
LocalRetry(x, c, joined) ==
    /\ joined => /\ Shared # None /\ (c = ssCur => Shared.bearer = ssCur)
                 /\ Good(Shared.bearer) \/ Shared.bearer = c
    /\ x.pc = "send" /\ x.using = ssCur => (IF joined THEN Shared.bearer ELSE c) = ssCur
    /\ x.retried /\ x.pc = "local" => Good(c) \/ c = x.rejected
    /\ x.retried /\ x.pc = "bearer" => Good(c)
    /\ x.retried /\ x.pc = "send" => Good(x.using)
    /\ ~x.retried /\ x.pc = "send" => Good(c) \/ c = x.using

\* A bearer about to be stored is the homeserver's.
KeptBearer == \A k \in Jobs : ssJob[k].pc = "keep" => ssJob[k].using = ssCur

Waiting(x, l) == OnRecord(x) \/ Local(x, l) \/ x.pc = "keep"

Refused(x) ==
    x.reply = "rejected" =>
       ssGone \/ x.lapses > 0 \/ (x.using # 0 /\ ssPhase[x.using] # "fresh")

JobRetry(j, x, l) ==
    /\ Waiting(x, l) /\ Undisturbed(x) =>
          /\ KeptBearer
          /\ OnRecord(x) => SharedRetry(x)
          /\ Local(x, l) => LocalRetry(x, ssCred[tab(j)].bearer, ssCred[tab(j)].joined)
    /\ Refused(x)

SSRetry == \A j \in Jobs : JobRetry(j, ssJob[j], ssLease[j])

LEMMA GoodStays ==
    ASSUME SSBase, ServerMoves, ssCur' = ssCur, NEW b \in Bearers, Good(b) PROVE Good(b)'
  <1>1. b = 0 \/ b \in 1..MaxMint
    BY SharedConstants DEF Bearers
  <1> QED BY <1>1 DEF Good, ServerMoves

\* The bearer stays, or the credential takes the stored one.
LEMMA RetryTaken ==
    ASSUME SSBase, ServerMoves, ssCur' = ssCur,
           NEW x \in JobType, NEW c \in Bearers, NEW g \in BOOLEAN, NEW c2, NEW g2 \in BOOLEAN,
           LocalRetry(x, c, g),
           \/ c2 = c /\ g2 = g /\ (g => Shared' # None /\ Shared'.bearer = Shared.bearer)
           \/ /\ g2 /\ Shared' # None /\ c2 = Shared'.bearer
              /\ (g => Shared'.bearer = Shared.bearer) /\ (~g => Shared'.bearer = c)
    PROVE  LocalRetry(x, c2, g2)'
  <1>1. \A b \in Bearers : Good(b) => Good(b)'
    BY GoodStays
  <1>2. x.using \in Bearers /\ x.rejected \in Bearers
    BY DEF JobType
  <1>3. g => Shared # None /\ Shared.bearer \in Bearers
    BY SharedFields DEF LocalRetry, SSBase
  <1>4. CASE c2 = c /\ g2 = g /\ (g => Shared' # None /\ Shared'.bearer = Shared.bearer)
    BY <1>1, <1>2, <1>3, <1>4 DEF LocalRetry
  <1>5. CASE /\ g2 /\ Shared' # None /\ c2 = Shared'.bearer
             /\ (g => Shared'.bearer = Shared.bearer) /\ (~g => Shared'.bearer = c)
    <2>1. CASE g
      BY <1>1, <1>2, <1>3, <1>5, <2>1 DEF LocalRetry
    <2>2. CASE ~g
      BY <1>1, <1>2, <1>5, <2>2 DEF LocalRetry
    <2> QED BY <2>1, <2>2
  <1> QED BY <1>4, <1>5

\* The homeserver's bearer is stored.
LEMMA RetryKept ==
    ASSUME SSBase, ServerMoves, ssCur' = ssCur,
           NEW x \in JobType, NEW c \in Bearers, NEW c2,
           LocalRetry(x, c, TRUE), Shared' # None, Shared'.bearer = ssCur, c2 \in {c, ssCur}
    PROVE  LocalRetry(x, c2, TRUE)'
  <1>1. \A b \in Bearers : Good(b) => Good(b)'
    BY GoodStays
  <1>2. x.using \in Bearers /\ x.rejected \in Bearers
    BY DEF JobType
  <1>3. Good(ssCur)'
    BY DEF Good
  <1>4. \A b : b = ssCur => Good(b)'
    BY DEF Good
  <1> QED BY <1>1, <1>2, <1>4 DEF LocalRetry

\* An exchange replaces a worn bearer: who counted on it has a bearer that came to age.
LEMMA RetryMinted ==
    ASSUME SSBase, SSBounds, ssCur' = ssMinted + 1, ssPhase' = ssPhase, ~ssGone,
           NEW x \in JobType, NEW c \in Bearers,
           x.using <= ssMinted, c <= ssMinted,
           LocalRetry(x, c, TRUE), Shared' = Shared, Worn(Shared.bearer)
    PROVE  LocalRetry(x, c, TRUE)'
  <1>1. ssMinted \in Nat /\ x.using \in Nat /\ x.rejected \in Nat /\ c \in Nat
    BY DEF JobType, SSBase, SSTypeOK, Bearers
  <1>2. c # ssMinted + 1 /\ x.using # ssMinted + 1
    BY <1>1
  <1>3. ssCur # 0
    BY DEF SSBounds
  <1>4. Shared.bearer = ssCur => ssPhase[ssCur] # "fresh"
    BY <1>3 DEF Worn
  <1>5. \A b : Good(b) /\ (b = ssCur => Shared.bearer = ssCur) => Good(b)'
    BY <1>3, <1>4 DEF Good
  <1> QED BY <1>2, <1>5 DEF LocalRetry

\* The same before the session is saved.
LEMMA RetryMintedLocally ==
    ASSUME SSBase, SSBounds, ssCur' = ssMinted + 1, ssPhase' = ssPhase, ~ssGone,
           NEW x \in JobType, NEW c \in Bearers,
           x.using <= ssMinted, LocalRetry(x, c, FALSE), Worn(c)
    PROVE  \A d : d = ssMinted + 1 => LocalRetry(x, d, FALSE)'
  <1>1. ssMinted \in Nat /\ x.using \in Nat /\ x.rejected \in Nat /\ c \in Nat
    BY DEF JobType, SSBase, SSTypeOK, Bearers
  <1>2. x.using # ssMinted + 1
    BY <1>1
  <1>3. ssCur # 0
    BY DEF SSBounds
  <1>4. c = ssCur => ssPhase[ssCur] # "fresh"
    BY <1>3 DEF Worn
  <1>5. \A b : Good(b) /\ (b = ssCur => c = ssCur) => Good(b)'
    BY <1>3, <1>4 DEF Good
  <1>6. \A d : d = ssMinted + 1 => Good(d)'
    BY DEF Good
  <1> QED BY <1>2, <1>5, <1>6 DEF LocalRetry

\* The grant lives on and nothing happens outside the lease.
Calm == ssGone' = FALSE /\ ssLapses' = ssLapses

LEMMA RefusedStays ==
    ASSUME SSBase, ServerMoves, NEW x \in JobType, Refused(x) PROVE Refused(x)'
  <1>1. x.using = 0 \/ x.using \in 1..MaxMint
    BY SharedConstants DEF JobType, Bearers
  <1> QED BY <1>1 DEF Refused, ServerMoves

LEMMA LocalCred ==
    ASSUME SSBase, NEW k \in Jobs, Local(ssJob[k], ssLease[k])
    PROVE  /\ ssCred[tab(k)] # None /\ ssCred[tab(k)].bearer \in Bearers
           /\ ssCred[tab(k)].joined \in BOOLEAN /\ tab(k) \in Tabs
  <1>1. JobCred(k, ssJob[k]) /\ JobLocals(ssJob[k])
    BY DEF SSBase, JobBase
  <1>2. ssCred[tab(k)] # None
    BY <1>1 DEF JobCred, Local, CredSteps, Steps
  <1> QED BY <1>2, CredFields, SharedConstants DEF SSBase

\* A call that is undisturbed after a step was so before it, and the step was calm.
LEMMA CalmBefore ==
    ASSUME SSBase, SSPath, SSTypeOK', ServerMoves, NEW k \in Jobs, Waiting(ssJob[k], ssLease[k]),
           \A x : x = ssJob[k] => Undisturbed(x)'
    PROVE  Calm /\ Undisturbed(ssJob[k])
  <1>1. ssJob[k].pc # "done"
    BY DEF Waiting, OnRecord, Local, SSPath, JobPath
  <1>2. ssJob[k].lapses <= ssLapses /\ ssJob[k].lapses \in Nat /\ ssLapses \in Nat
        /\ ssLapses' \in Nat /\ ssLapses <= ssLapses' /\ ssGone' \in BOOLEAN
    BY <1>1, JobFields DEF SSBase, JobBase, JobLocals, SSTypeOK, ServerMoves
  <1>3. ~ssGone' /\ ssJob[k].lapses = ssLapses'
    BY DEF Undisturbed
  <1>4. ssLapses' = ssLapses
    BY <1>2, <1>3
  <1> QED BY <1>2, <1>3, <1>4 DEF Calm, Undisturbed, ServerMoves

\* Steps that leave record and credentials alone, and steps that take the stored bearer.
Stays(j) == LocalTaken(j) \/ ExchangeFails(j) \/ Deletes(j) \/ Puts(j)
Takes(j) == Adopts(j) \/ RenewKept(j) \/ RenewMarks(j) \/ LogoutMarked(j)

LEMMA StaysFacts ==
    ASSUME NEW j \in Jobs, Stays(j), Calm
    PROVE  ssCur' = ssCur /\ ssCred' = ssCred /\ Shared' = Shared /\ ssJob'[j].pc # "keep"
  <1>1. ssCred' = ssCred /\ ssCur' = ssCur /\ ssJob'[j].pc # "keep"
    BY DEF Stays, LocalTaken, ExchangeFails, Deletes, Puts, ssServer, Calm, Ended
  <1>2. Shared' = Shared
    <2>1. CASE Puts(j)
      BY <2>1 DEF Puts
    <2>2. CASE ~Puts(j)
      <3>1. ssRecord' = ssRecord
        BY <2>2 DEF Stays, LocalTaken, ExchangeFails, Deletes
      <3> QED BY <3>1 DEF Shared
    <2> QED BY <2>1, <2>2
  <1> QED BY <1>1, <1>2

LEMMA TakesFacts ==
    ASSUME SSBase, NEW j \in Jobs, Takes(j)
    PROVE  /\ ssCur' = ssCur /\ Shared # None /\ Shared' # None /\ Shared'.bearer = Shared.bearer
           /\ Shared.refreshPending => Shared'.refreshPending
           /\ Holding(j, Shared.bearer) /\ ssJob'[j].pc # "keep"
  <1>1. /\ ssCur' = ssCur /\ Shared # None /\ Holding(j, Shared.bearer) /\ ssJob'[j].pc # "keep"
    <2>1. ssJob[j].back # "keep"
      BY DEF SSBase, JobBase, JobLocals
    <2> QED BY <2>1 DEF Takes, Adopts, RenewKept, RenewMarks, LogoutMarked, Active, ssServer, Ended
  <1>2. CASE Adopts(j) \/ RenewKept(j)
    <2>1. ssRecord' = ssRecord
      BY <1>2 DEF Adopts, RenewKept
    <2> QED BY <1>1, <2>1 DEF Shared
  <1>3. CASE RenewMarks(j) \/ LogoutMarked(j)
    BY <1>1, <1>3 DEF RenewMarks, LogoutMarked, RecordTo
  <1> QED BY <1>1, <1>2, <1>3 DEF Takes

LEMMA SharedMintFacts ==
    ASSUME SSBase, SSPath, SSWorn, NEW j \in Jobs, SharedMint(j)
    PROVE  /\ ssCur' = ssMinted + 1 /\ ssPhase' = ssPhase /\ ~ssGone
           /\ ssCred' = ssCred /\ Shared' = Shared /\ Shared # None /\ Shared.refreshPending
           /\ Worn(Shared.bearer) /\ \A t \in Tabs : ~Unsaved(t)
           /\ ssJob'[j].pc = "keep" /\ ssJob'[j].using = ssCur'
           /\ \A k \in Jobs : k # j => ssJob[k].pc # "keep"
  <1>1. /\ ssCur' = ssMinted + 1 /\ ssPhase' = ssPhase /\ ~ssGone
        /\ ssCred' = ssCred /\ Shared' = Shared /\ ssJob[j].pc = "exchange"
        /\ ssJob'[j].pc = "keep" /\ ssJob'[j].using = ssCur'
    BY DEF SharedMint, Mint, Shared
  <1>2. Shared # None /\ Shared.refreshPending /\ ssLease[j] = "exclusive"
    BY <1>1 DEF SSBase, JobBase, JobRecord, JobLease, HeldSteps, SSWorn, JobWorn
  <1>3. Worn(Shared.bearer)
    BY <1>2 DEF SSWorn, RecordWorn
  <1>4. \A k \in Jobs : k # j => ssJob[k].pc # "keep"
    BY <1>2 DEF SSBase, LeasesExclude, JobBase, JobLease, HeldSteps
  <1> QED BY <1>1, <1>2, <1>3, <1>4, AllSaved

\* A calm local exchange happens before the session is saved.
LEMMA LocalMintFacts ==
    ASSUME SSBase, SSPath, SSWorn, NEW j \in Jobs, LocalMint(j), Calm
    PROVE  /\ ssCur' = ssMinted + 1 /\ ssPhase' = ssPhase /\ ~ssGone
           /\ Shared = None /\ Shared' = None
           /\ ssCred[tab(j)] # None /\ ssCred[tab(j)].joined = FALSE
           /\ ssCred'[tab(j)].bearer = ssMinted + 1 /\ ssCred'[tab(j)].joined = FALSE
           /\ Worn(ssCred[tab(j)].bearer)
           /\ \A t \in Tabs : t # tab(j) => ssCred[t] = None
  <1>1. /\ Mint(ssRecord # None \/ ssCred[tab(j)].joined) /\ ssRecord' = ssRecord
        /\ ssJob[j].pc = "exchangeLocal" /\ Holding(j, ssMinted + 1)
    BY DEF LocalMint
  <1>2. ssCur' = ssMinted + 1 /\ ssPhase' = ssPhase /\ ~ssGone
    BY <1>1 DEF Mint
  <1>3. ssLapses' # ssLapses + 1
    BY DEF Calm, SSBase, SSTypeOK
  <1>4. ssRecord = None /\ ~ssCred[tab(j)].joined
    BY <1>1, <1>3 DEF Mint
  <1>5. /\ ssCred[tab(j)] # None /\ ssCred[tab(j)].joined = FALSE /\ tab(j) \in Tabs
    BY <1>1, <1>4, HasCred, SharedConstants DEF CredSteps, Steps
  <1>6. \A t \in Tabs : t # tab(j) => ssCred[t] = None
    BY <1>5 DEF SSPath, SavedOnce, Unsaved
  <1>7. Shared = None /\ Shared' = None
    BY <1>1, <1>4 DEF Shared
  <1>8. Worn(ssCred[tab(j)].bearer)
    BY <1>1 DEF SSWorn, JobWorn
  <1> QED BY <1>1, <1>2, <1>5, <1>6, <1>7, <1>8 DEF Holding

LEMMA KeepsFacts ==
    ASSUME SSBase, SSPath, NEW j \in Jobs, Keeps(j), KeptBearer
    PROVE  /\ ssCur' = ssCur /\ Shared # None /\ Shared' # None /\ Shared'.bearer = ssCur
           /\ Holding(j, ssCur) /\ ssJob'[j].pc # "keep"
           /\ \A t \in Tabs : ~Unsaved(t)
  <1>1. /\ ssCur' = ssCur /\ Shared' # None /\ Shared'.bearer = ssJob[j].using
        /\ Holding(j, ssJob[j].using) /\ ssJob[j].pc = "keep"
    BY DEF Keeps, RecordTo, ssServer
  <1>2. ssJob[j].using = ssCur /\ Shared # None /\ ssJob[j].back # "keep"
    BY <1>1 DEF KeptBearer, SSBase, JobBase, JobRecord, JobLocals
  <1>3. ssJob'[j].pc # "keep"
    BY <1>2 DEF Keeps, Ended
  <1> QED BY <1>1, <1>2, <1>3, AllSaved

LEMMA JoinsFacts ==
    ASSUME SSBase, SSPath, NEW j \in Jobs, JoinsAsSaved(j) \/ Rebuilt(j)
    PROVE  /\ ssCur' = ssCur /\ Shared' # None /\ (Shared # None => Shared' = Shared)
           /\ ssJob'[j].pc # "keep"
           /\ ssCred'[tab(j)].bearer = Shared'.bearer /\ ssCred'[tab(j)].joined = TRUE
           /\ \A t \in Tabs : t # tab(j) => ssCred'[t] = ssCred[t]
           /\ \A t \in Tabs : t # tab(j) => ~Unsaved(t)
           /\ ssCred[tab(j)] # None /\ Shared = None => Shared'.bearer = ssCred[tab(j)].bearer
  <1>1. /\ ssCur' = ssCur /\ Shared' # None /\ (Shared # None => Shared' = Shared)
        /\ ssJob'[j].pc # "keep"
        /\ ssCred'[tab(j)].bearer = Shared'.bearer /\ ssCred'[tab(j)].joined = TRUE
        /\ \A t \in Tabs : t # tab(j) => ssCred'[t] = ssCred[t]
    BY DEF JoinsAsSaved, Rebuilt, Joins, RecordTo, Ended, ssServer
  <1>2. CASE JoinsAsSaved(j)
    <2>1. ssCred[tab(j)] # None /\ tab(j) \in Tabs
      BY <1>2, SharedConstants DEF JoinsAsSaved
    <2>2. \A t \in Tabs : t # tab(j) => ~Unsaved(t)
      BY <2>1 DEF SSPath, SavedOnce
    <2>3. Shared = None => Shared'.bearer = ssCred[tab(j)].bearer
      BY <1>2 DEF JoinsAsSaved, Joins, RecordTo
    <2> QED BY <1>1, <2>2, <2>3
  <1>3. CASE Rebuilt(j)
    <2>1. ssRecord # None /\ ssJob[j].pc = "rebuild"
      BY <1>3 DEF Rebuilt, Joins
    <2>2. ssCred[tab(j)] = None /\ ssLease[j] = "exclusive"
      BY <2>1 DEF SSBase, JobBase, JobCred, JobLease, HeldSteps
    <2>3. \A k \in Jobs : ssJob[k].pc # "join"
      BY <2>1, <2>2 DEF SSBase, LeasesExclude, JobBase, JobLease, HeldSteps
    <2>4. \A t \in Tabs : ~Unsaved(t)
      BY <2>1, <2>3 DEF SSPath, SavedOnce
    <2> QED BY <1>1, <2>2, <2>4
  <1> QED BY <1>2, <1>3

LEMMA CalmErases ==
    ASSUME SSBase, NEW j \in Jobs, Erases(j) PROVE ~Calm
  <1>1. ssLapses' = ssLapses + 1 /\ ssLapses \in Nat
    BY ForgetFacts DEF Erases, SSBase, SSTypeOK
  <1> QED BY <1>1 DEF Calm

\* What another call counts on outlives a step if the step keeps each part of it.
LEMMA RetryCarried ==
    ASSUME SSBase, SSPath, SSRetry, SSTypeOK', ServerMoves, NEW k \in Jobs,
           ssJob'[k] = ssJob[k], ssLease'[k] = ssLease[k],
           Calm /\ KeptBearer => KeptBearer',
           Calm /\ KeptBearer /\ SharedRetry(ssJob[k]) => \A x : x = ssJob[k] => SharedRetry(x)',
           /\ Calm /\ KeptBearer /\ Local(ssJob[k], ssLease[k])
           /\ LocalRetry(ssJob[k], ssCred[tab(k)].bearer, ssCred[tab(k)].joined)
           => \A x, c, g : x = ssJob[k] /\ c = ssCred'[tab(k)].bearer /\ g = ssCred'[tab(k)].joined
                => LocalRetry(x, c, g)'
    PROVE  JobRetry(k, ssJob[k], ssLease[k])'
  <1>1. JobRetry(k, ssJob[k], ssLease[k]) /\ ssJob[k] \in JobType
    BY JobFields DEF SSRetry, SSBase
  <1>2. \A x : x = ssJob[k] => Refused(x)'
    BY <1>1, RefusedStays DEF JobRetry
  <1>3. ASSUME NEW x, NEW l, x = ssJob[k], l = ssLease[k], Waiting(x, l), Undisturbed(x)'
        PROVE  /\ KeptBearer' /\ (OnRecord(x) => SharedRetry(x)')
               /\ Local(x, l) => \A c, g : c = ssCred'[tab(k)].bearer /\ g = ssCred'[tab(k)].joined
                                    => LocalRetry(x, c, g)'
    <2>1. Calm /\ Undisturbed(ssJob[k])
      BY <1>3, CalmBefore
    <2>2. /\ KeptBearer /\ (OnRecord(ssJob[k]) => SharedRetry(ssJob[k]))
          /\ Local(ssJob[k], ssLease[k]) =>
                LocalRetry(ssJob[k], ssCred[tab(k)].bearer, ssCred[tab(k)].joined)
      BY <1>1, <1>3, <2>1 DEF JobRetry
    <2> QED BY <1>3, <2>1, <2>2
  <1>4. \A x, l : x = ssJob[k] /\ l = ssLease[k] => JobRetry(k, x, l)'
    <2> SUFFICES ASSUME NEW x, NEW l, x = ssJob[k], l = ssLease[k] PROVE JobRetry(k, x, l)'
      OBVIOUS
    <2>1. Refused(x)'
      BY <1>2
    <2>2. Waiting(x, l)' = Waiting(x, l) /\ OnRecord(x)' = OnRecord(x) /\ Local(x, l)' = Local(x, l)
      BY DEF Waiting, OnRecord, Local
    <2>3. ASSUME Waiting(x, l), Undisturbed(x)'
          PROVE  /\ KeptBearer' /\ (OnRecord(x) => SharedRetry(x)')
                 /\ Local(x, l) => LocalRetry(x, ssCred[tab(k)].bearer, ssCred[tab(k)].joined)'
      BY <1>3, <2>3 DEF tab
    <2> QED BY <2>1, <2>2, <2>3 DEF JobRetry
  <1> QED BY <1>4

\* Server, record and credential stay.
LEMMA RetryStays ==
    ASSUME SSBase, SSPath, SSRetry, SSTypeOK', ServerMoves, NEW k \in Jobs,
           ssJob'[k] = ssJob[k], ssLease'[k] = ssLease[k],
           KeptBearer => KeptBearer', ssCur' = ssCur, Shared' = Shared,
           ssCred'[tab(k)] = ssCred[tab(k)]
    PROVE  JobRetry(k, ssJob[k], ssLease[k])'
  <1>1. SharedRetry(ssJob[k]) => \A x : x = ssJob[k] => SharedRetry(x)'
    BY DEF SharedRetry
  <1>2. ASSUME Local(ssJob[k], ssLease[k]),
               LocalRetry(ssJob[k], ssCred[tab(k)].bearer, ssCred[tab(k)].joined)
        PROVE  \A x, c, g : x = ssJob[k] /\ c = ssCred'[tab(k)].bearer /\ g = ssCred'[tab(k)].joined
                 => LocalRetry(x, c, g)'
    <2>1. /\ ssCred[tab(k)].bearer \in Bearers /\ ssCred[tab(k)].joined \in BOOLEAN
          /\ ssJob[k] \in JobType
      BY <1>2, LocalCred, JobFields DEF SSBase
    <2>2. ssCred[tab(k)].joined => Shared # None
      BY <1>2 DEF LocalRetry
    <2> QED BY <1>2, <2>1, <2>2, RetryTaken
  <1> QED BY <1>1, <1>2, RetryCarried

\* A step of j keeps the others' bearers.
LEMMA OthersKeep ==
    ASSUME SSBase, NEW j \in Jobs, StepOf(j), ssCur' = ssCur, ssJob'[j].pc # "keep", KeptBearer
    PROVE  KeptBearer'
  BY DEF StepOf, Steps1, KeptBearer

LEMMA LoudKept ==
    ASSUME SSBase, SSPath, SSWorn, NEW j \in Jobs, LoudSteps(j), Calm,
           KeptBearer \/ SharedMint(j) \/ LocalMint(j)
    PROVE  KeptBearer'
  <1>0. StepOf(j)
    BY DEF LoudSteps, LocalTaken, LocalMint, ExchangeFails, Adopts, RenewKept,
         RenewMarks, SharedMint, Keeps, LogoutMarked, Deletes, Erases, Puts, JoinsAsSaved, Rebuilt
  <1>1. CASE SharedMint(j)
    BY <1>0, <1>1, SharedMintFacts DEF KeptBearer, StepOf, Steps1
  <1>2. CASE LocalMint(j)
    <2>1. Shared = None
      BY <1>2, LocalMintFacts
    <2>2. \A k \in Jobs : ssJob[k].pc # "keep"
      BY <2>1 DEF SSBase, JobBase, JobRecord
    <2>3. ssJob'[j].pc # "keep"
      BY <1>2 DEF LocalMint, Ended, SSBase, JobBase, JobLocals
    <2> QED BY <1>0, <2>2, <2>3 DEF KeptBearer, StepOf, Steps1
  <1>3. CASE Stays(j) /\ KeptBearer
    BY <1>0, <1>3, StaysFacts, OthersKeep
  <1>4. CASE Takes(j) /\ KeptBearer
    BY <1>0, <1>4, TakesFacts, OthersKeep
  <1>5. CASE Keeps(j) /\ KeptBearer
    BY <1>0, <1>5, KeepsFacts, OthersKeep
  <1>6. CASE (JoinsAsSaved(j) \/ Rebuilt(j)) /\ KeptBearer
    BY <1>0, <1>6, JoinsFacts, OthersKeep
  <1>7. CASE Erases(j)
    BY <1>7, CalmErases
  <1> QED BY <1>1, <1>2, <1>3, <1>4, <1>5, <1>6, <1>7 DEF LoudSteps, Stays, Takes

\* A saved credential next to shared state.
LEMMA LocalJoined ==
    ASSUME SSBase, SSPath, NEW k \in Jobs, Local(ssJob[k], ssLease[k]),
           \A t \in Tabs : ~Unsaved(t)
    PROVE  ssCred[tab(k)].joined = TRUE
  BY LocalCred DEF Unsaved

\* What the other calls count on outlives a step of j.
LEMMA LoudRetryOthers ==
    ASSUME SSBase, SSPath, SSBounds, SSWorn, SSRetry, SSTypeOK', NEW j \in Jobs, LoudSteps(j),
           NEW k \in Jobs, k # j
    PROVE  JobRetry(k, ssJob[k], ssLease[k])'
  <1>0. /\ ServerMoves /\ ssJob'[k] = ssJob[k] /\ ssLease'[k] = ssLease[k]
        /\ ssJob[k] \in JobType /\ ssJob[k].using <= ssMinted /\ tab(k) \in Tabs
    BY LoudMoves, LoudUntouched, JobFields, SharedConstants DEF Untouched, SSBase, SSBounds
  <1>1. Calm /\ KeptBearer => KeptBearer'
    BY LoudKept
  <1>2. ASSUME Calm, KeptBearer, SharedRetry(ssJob[k])
        PROVE  \A x : x = ssJob[k] => SharedRetry(x)'
    <2>0. Shared # None
      BY <1>2 DEF SharedRetry
    <2>1. CASE Stays(j)
      BY <1>2, <2>1, StaysFacts DEF SharedRetry
    <2>2. CASE Takes(j)
      BY <1>2, <2>2, TakesFacts DEF SharedRetry
    <2>3. CASE SharedMint(j)
      BY <2>3, SharedMintFacts DEF SharedRetry
    <2>4. CASE LocalMint(j)
      BY <1>2, <2>0, <2>4, LocalMintFacts
    <2>5. CASE Keeps(j)
      BY <1>2, <2>5, KeepsFacts DEF SharedRetry
    <2>6. CASE JoinsAsSaved(j) \/ Rebuilt(j)
      BY <1>2, <2>0, <2>6, JoinsFacts DEF SharedRetry
    <2>7. CASE Erases(j)
      BY <1>2, <2>7, CalmErases
    <2> QED BY <2>1, <2>2, <2>3, <2>4, <2>5, <2>6, <2>7 DEF LoudSteps, Stays, Takes
  <1> DEFINE c1 == ssCred[tab(k)].bearer
             g1 == ssCred[tab(k)].joined
             c2 == ssCred'[tab(k)].bearer
             g2 == ssCred'[tab(k)].joined
  <1>3. ASSUME Calm, KeptBearer, Local(ssJob[k], ssLease[k]), LocalRetry(ssJob[k], c1, g1)
        PROVE  \A x, c, g : x = ssJob[k] /\ c = c2 /\ g = g2 => LocalRetry(x, c, g)'
    <2>0. /\ ssCred[tab(k)] # None /\ c1 \in Bearers /\ g1 \in BOOLEAN
          /\ c1 <= ssMinted /\ (g1 => Shared # None)
      BY <1>0, <1>3, LocalCred DEF SSBounds, LocalRetry
    <2>1. CASE Stays(j)
      <3>1. ssCur' = ssCur /\ c2 = c1 /\ g2 = g1 /\ (g1 => Shared' # None /\ Shared'.bearer = Shared.bearer)
        BY <1>3, <2>0, <2>1, StaysFacts
      <3> HIDE DEF c1, g1, c2, g2
      <3> QED BY <1>0, <1>3, <2>0, <3>1, RetryTaken
    <2>2. CASE Takes(j)
      <3>1. /\ ssCur' = ssCur /\ Shared # None /\ Shared' # None /\ Shared'.bearer = Shared.bearer
            /\ Holding(j, Shared.bearer)
        BY <2>2, TakesFacts
      <3>2. g1 = TRUE
        BY <1>3, <3>1, LocalJoined, AllSaved
      <3>3. g2 = TRUE /\ c2 \in {c1, Shared'.bearer}
        BY <1>0, <3>1, <3>2 DEF Holding
      <3> HIDE DEF c1, g1, c2, g2
      <3> QED BY <1>0, <1>3, <2>0, <3>1, <3>2, <3>3, RetryTaken
    <2>3. CASE SharedMint(j)
      <3>1. /\ ssCur' = ssMinted + 1 /\ ssPhase' = ssPhase /\ ~ssGone /\ Shared' = Shared
            /\ Worn(Shared.bearer) /\ \A t \in Tabs : ~Unsaved(t)
            /\ ssCred' = ssCred
        BY <2>3, SharedMintFacts
      <3>2. g1 = TRUE /\ g2 = TRUE /\ c2 = c1
        BY <1>3, <3>1, LocalJoined
      <3> HIDE DEF c1, g1, c2, g2
      <3> QED BY <1>0, <1>3, <2>0, <3>1, <3>2, RetryMinted
    <2>4. CASE LocalMint(j)
      <3>1. /\ ssCur' = ssMinted + 1 /\ ssPhase' = ssPhase /\ ~ssGone
            /\ tab(k) = tab(j) /\ g1 = FALSE /\ g2 = FALSE /\ c2 = ssMinted + 1 /\ Worn(c1)
        <4>1. tab(k) = tab(j)
          BY <1>0, <1>3, <2>0, <2>4, LocalMintFacts
        <4> QED BY <1>3, <2>4, <4>1, LocalMintFacts
      <3> HIDE DEF c1, g1, c2, g2
      <3> QED BY <1>0, <1>3, <2>0, <3>1, RetryMintedLocally
    <2>5. CASE Keeps(j)
      <3>1. /\ ssCur' = ssCur /\ Shared' # None /\ Shared'.bearer = ssCur
            /\ Holding(j, ssCur) /\ \A t \in Tabs : ~Unsaved(t)
        BY <1>3, <2>5, KeepsFacts
      <3>2. g1 = TRUE
        BY <1>3, <3>1, LocalJoined
      <3>3. g2 = TRUE /\ c2 \in {c1, ssCur}
        BY <1>0, <3>1, <3>2 DEF Holding
      <3> HIDE DEF c1, g1, c2, g2
      <3> QED BY <1>0, <1>3, <2>0, <3>1, <3>2, <3>3, RetryKept
    <2>6. CASE JoinsAsSaved(j) \/ Rebuilt(j)
      <3>1. /\ ssCur' = ssCur /\ Shared' # None /\ (Shared # None => Shared' = Shared)
            /\ tab(k) # tab(j) => c2 = c1 /\ g2 = g1
            /\ tab(k) = tab(j) => /\ c2 = Shared'.bearer /\ g2 = TRUE
                                  /\ Shared = None => Shared'.bearer = c1
        BY <1>0, <2>0, <2>6, JoinsFacts
      <3>2. tab(k) = tab(j) /\ ~g1 => Shared = None
        BY <1>0, <2>0 DEF SSPath, SavedOnce, Unsaved
      <3> HIDE DEF c1, g1, c2, g2
      <3>3. CASE tab(k) # tab(j)
        BY <1>0, <1>3, <2>0, <3>1, <3>3, RetryTaken
      <3>4. CASE tab(k) = tab(j)
        BY <1>0, <1>3, <2>0, <3>1, <3>2, <3>4, RetryTaken
      <3> QED BY <3>3, <3>4
    <2>7. CASE Erases(j)
      BY <1>3, <2>7, CalmErases
    <2> QED BY <2>1, <2>2, <2>3, <2>4, <2>5, <2>6, <2>7 DEF LoudSteps, Stays, Takes
  <1> QED BY <1>0, <1>1, <1>2, <1>3, RetryCarried

\* A call that has not ended was not refused.
LEMMA NotRefused ==
    ASSUME SSBase, NEW j \in Jobs, ssJob[j].pc # "done" PROVE ssJob[j].reply # "rejected"
  BY SharedConstants DEF SSBase, JobBase, JobLocals

\* The answers that refuse a request: for good, and for once.
RefusedAgain(j) ==
    /\ ssJob[j].retried /\ ~Accepts(ssJob[j].using)
    /\ ssJob'[j].pc = "done" /\ ssJob'[j].reply = "rejected" /\ ssJob'[j].using = ssJob[j].using
    /\ ssJob'[j].lapses = ssLapses - ssJob[j].lapses
    /\ ssJob'[j].retried = FALSE /\ ssJob'[j].back = "done"

Retries(j) ==
    /\ ssJob[j].retried = FALSE /\ ssJob'[j].retried /\ ssJob'[j].rejected = ssJob[j].using
    /\ ssJob'[j].lapses = ssJob[j].lapses /\ ssJob'[j].reply = ssJob[j].reply

RetriesShared(j) ==
    /\ Retries(j) /\ ssLease[j] = "shared"
    /\ ssJob'[j].pc = "wantExclusive" /\ ssJob'[j].back = "wantShared"

RetriesLocally(j) ==
    /\ Retries(j) /\ ssLease[j] # "shared"
    /\ ssJob'[j].pc = "local" /\ ssJob'[j].back = "bearer"

LEMMA AnswerCases ==
    ASSUME SSBase, NEW j \in Jobs, Answer(j)
    PROVE  Ended(ssJob'[j]) \/ RefusedAgain(j) \/ RetriesShared(j) \/ RetriesLocally(j)
  <1> DEFINE again == /\ ssJob[j].retried /\ ~Accepts(ssJob[j].using)
                      /\ ssJob'[j].pc = "done" /\ ssJob'[j].reply = "rejected"
                      /\ ssJob'[j].using = ssJob[j].using
                      /\ ssJob'[j].lapses = ssLapses - ssJob[j].lapses
                      /\ ssJob'[j].retried = FALSE /\ ssJob'[j].back = "done"
                      /\ ssJob'[j].rejected = 0
             once == /\ ssJob[j].retried = FALSE /\ ~Accepts(ssJob[j].using)
                     /\ ssJob'[j].retried /\ ssJob'[j].rejected = ssJob[j].using
                     /\ ssJob'[j].lapses = ssJob[j].lapses /\ ssJob'[j].using = ssJob[j].using
                     /\ ssJob'[j].reply = ssJob[j].reply
                     /\ \/ /\ ssLease[j] = "shared" /\ ssJob'[j].pc = "wantExclusive"
                           /\ ssJob'[j].back = "wantShared"
                        \/ /\ ssLease[j] # "shared" /\ ssJob'[j].pc = "local"
                           /\ ssJob'[j].back = "bearer"
  <1>1. Ended(ssJob'[j]) \/ again \/ once
    BY AnswerFacts, Zenon
  <1>2. again => RefusedAgain(j)
    BY DEF RefusedAgain
  <1>3. once => RetriesShared(j) \/ RetriesLocally(j)
    BY DEF Retries, RetriesShared, RetriesLocally
  <1> HIDE DEF again, once
  <1> QED BY <1>1, <1>2, <1>3

\* What a call counts on after a step of its own that leaves the world alone.
LEMMA QuietRetry ==
    ASSUME SSBase, SSPath, SSBounds, SSWorn, SSKnown, SSRetry, NEW j \in Jobs, QuietSteps(j)
    PROVE  JobRetry(j, ssJob'[j], ssLease'[j])
  <1> DEFINE x == ssJob[j]
             y == ssJob'[j]
             l == ssLease[j]
             m == ssLease'[j]
             c == ssCred[tab(j)].bearer
             g == ssCred[tab(j)].joined
  <1>0. /\ JobLease(x, l) /\ JobCred(j, x) /\ JobLocals(x) /\ JobPath(x, l) /\ JobRetry(j, x, l)
        /\ JobKnown(j, x, l) /\ x.reply # "rejected" /\ x.retried \in BOOLEAN
        /\ l \in {"none", "shared", "exclusive"} /\ x.pc # "done"
    BY QuietWorld, NotRefused, JobFields DEF SSBase, JobBase, SSPath, SSRetry, SSKnown, Leases
  <1>1. ASSUME Ended(y) PROVE JobRetry(j, y, m)
    BY <1>1 DEF Ended, JobRetry, Waiting, OnRecord, Local, Refused
  \* Nobody stores a bearer while there is none stored, or while j has a shared lease.
  <1>2. ASSUME ssCred[tab(j)] # None, ~g PROVE KeptBearer
    <2>1. Shared = None
      BY <1>2, AllSaved, SharedConstants DEF Unsaved
    <2> QED BY <2>1 DEF KeptBearer, SSBase, JobBase, JobRecord
  <1>3. ASSUME l = "shared" PROVE KeptBearer
    <2>1. \A k \in Jobs : ssLease[k] # "exclusive"
      BY <1>3 DEF SSBase, LeasesExclude
    <2> QED BY <2>1 DEF KeptBearer, SSBase, JobBase, JobLease, HeldSteps
  <1>4. ASSUME NEW kind \in Kinds, Start(j, kind) PROVE JobRetry(j, y, m)
    <2>1. ~Waiting(y, m) /\ y.reply # "rejected"
      BY <1>0, <1>4, StartFacts DEF Waiting, OnRecord, Local, JobLocals
    <2> QED BY <2>1 DEF JobRetry, Refused
  <1>5. CASE Begin(j)
    <2>1. /\ ~OnRecord(y) /\ y.pc # "keep" /\ y.reply # "rejected" /\ y.lapses = x.lapses
          /\ Local(y, m) => y.pc = "check" /\ ~g /\ ssCred[tab(j)] # None
      BY <1>0, <1>5, BeginFacts DEF OnRecord, Local, JobLocals, JobPath, SameLocals
    <2>2. Local(y, m) => LocalRetry(y, c, g)
      BY <2>1 DEF LocalRetry
    <2> QED BY <1>2, <2>1, <2>2 DEF JobRetry, Waiting, Refused
  <1>6. CASE BearerForRequest(j)
    <2>1. /\ x.pc = "check" /\ ~x.retried /\ ~y.retried /\ y.pc \in {"refresh", "bearer"}
          /\ y.reply # "rejected" /\ y.lapses = x.lapses
      BY <1>0, <1>6, BearerForRequestFacts DEF JobLocals, JobPath
    <2>2. LocalRetry(x, c, g) => LocalRetry(y, c, g)
      BY <2>1 DEF LocalRetry
    <2> QED BY <1>0, <2>1, <2>2 DEF JobRetry, Waiting, OnRecord, Local, Refused, Undisturbed
  <1>7. CASE Refresh(j)
    <2>1. /\ x.pc = "refresh" /\ ~x.retried /\ ~y.retried /\ y.back = x.back
          /\ y.reply # "rejected" /\ y.lapses = x.lapses
          /\ (y.pc = "wantExclusive" \/ (y.pc = "local" /\ ~g))
      BY <1>0, <1>7, RefreshFacts DEF JobLocals, JobPath
    <2>2. LocalRetry(x, c, g) => LocalRetry(y, c, g)
      BY <2>1 DEF LocalRetry
    <2>3. ssCred[tab(j)] # None
      BY <1>0, <2>1 DEF JobCred, CredSteps, Steps
    <2>4. CASE y.pc = "local" /\ ~g
      <3>1. LocalRetry(y, c, g)
        BY <2>1, <2>4 DEF LocalRetry
      <3> QED BY <1>2, <2>1, <2>3, <2>4, <3>1 DEF JobRetry, OnRecord, Refused
    <2>5. CASE y.pc = "wantExclusive"
      BY <1>0, <2>1, <2>2, <2>5 DEF JobRetry, Waiting, OnRecord, Local, Refused, Undisturbed
    <2> QED BY <2>1, <2>4, <2>5
  <1>8. CASE CurrentBearer(j)
    <2>1. /\ x.pc = "bearer" /\ y.pc = "send" /\ y.using = c /\ y.retried = x.retried
          /\ y.lapses = x.lapses /\ y.reply # "rejected" /\ y.back = x.back /\ m = "none"
      BY <1>0, <1>8, CurrentBearerFacts DEF JobLease, HeldSteps
    <2>2. LocalRetry(x, c, g) => LocalRetry(y, c, g)
      BY <2>1 DEF LocalRetry
    <2>3. ~OnRecord(y) /\ Local(x, l)
      BY <1>0, <2>1 DEF OnRecord, Local, JobPath
    <2> QED BY <1>0, <2>1, <2>2, <2>3 DEF JobRetry, Waiting, Refused, Undisturbed
  <1>9. CASE Answer(j)
    <2>1. x.pc = "send" /\ m = "none"
      BY <1>9, AnswerFacts
    <2>2. ASSUME RefusedAgain(j) PROVE JobRetry(j, y, m)
      <3>0. /\ x.retried /\ ~Accepts(x.using)
            /\ y.pc = "done" /\ y.reply = "rejected" /\ y.using = x.using
            /\ y.lapses = ssLapses - x.lapses /\ y.retried = FALSE /\ y.back = "done"
        BY <2>2 DEF RefusedAgain
      <3>1. ~Waiting(y, m)
        BY <3>0 DEF Waiting, OnRecord, Local
      <3> SUFFICES ASSUME ~ssGone, ~(y.lapses > 0)
                   PROVE  y.using # 0 /\ ssPhase[y.using] # "fresh"
        BY <3>1 DEF JobRetry, Refused
      <3>2. x.lapses = ssLapses
        <4>1. x.lapses \in Nat /\ ssLapses \in Nat /\ x.lapses <= ssLapses
          BY <1>0, JobFields DEF SSBase, SSTypeOK, JobLocals
        <4> QED BY <3>0, <4>1
      <3>3. Undisturbed(x) /\ ssCur # 0
        BY <3>2 DEF Undisturbed, SSBounds
      <3>4. x.using = ssCur => ssPhase[x.using] # "fresh"
        BY <3>0, <3>3 DEF Accepts
      <3>5. CASE l = "shared"
        <4>1. OnRecord(x)
          BY <1>0, <2>1, <3>0, <3>5 DEF OnRecord, JobPath, JobLocals
        <4>2. SharedRetry(x)
          BY <1>0, <3>3, <4>1 DEF JobRetry, Waiting
        <4>3. x.using = ssCur
          BY <1>0, <2>1, <3>5, <4>2 DEF SharedRetry, JobKnown
        <4> QED BY <3>0, <3>3, <3>4, <4>3
      <3>6. CASE l # "shared"
        <4>1. Local(x, l)
          BY <1>0, <2>1, <3>6 DEF Local, JobLease
        <4>2. Good(x.using)
          BY <1>0, <2>1, <3>0, <3>3, <4>1 DEF JobRetry, Waiting, LocalRetry
        <4> QED BY <3>0, <3>3, <3>4, <4>2 DEF Good
      <3> QED BY <3>5, <3>6
    <2>3. ASSUME RetriesShared(j) PROVE JobRetry(j, y, m)
      <3>0. /\ x.retried = FALSE /\ y.retried /\ y.rejected = x.using /\ y.lapses = x.lapses
            /\ y.reply = x.reply /\ l = "shared" /\ y.pc = "wantExclusive"
            /\ y.back = "wantShared"
        BY <2>3 DEF RetriesShared, Retries
      <3>1. Shared # None /\ ~Shared.refreshPending /\ Shared.bearer = y.rejected
        BY <1>0, <2>1, <3>0 DEF JobKnown
      <3>2. y.rejected # 0
        BY <3>1 DEF SSWorn, RecordWorn
      <3>3. SharedRetry(y) /\ ~Local(y, m)
        BY <3>0, <3>1, <3>2 DEF SharedRetry, Local
      <3> QED BY <1>0, <1>3, <3>0, <3>3 DEF JobRetry, Refused
    <2>4. ASSUME RetriesLocally(j) PROVE JobRetry(j, y, m)
      <3>0. /\ x.retried = FALSE /\ y.retried /\ y.rejected = x.using /\ y.lapses = x.lapses
            /\ y.reply = x.reply /\ l # "shared" /\ y.pc = "local" /\ y.back = "bearer"
        BY <2>4 DEF RetriesLocally, Retries
      <3>1. Local(x, l) /\ ~OnRecord(y)
        BY <1>0, <2>1, <3>0 DEF Local, JobLease, OnRecord
      <3>2. LocalRetry(x, c, g) => LocalRetry(y, c, g)
        BY <2>1, <3>0 DEF LocalRetry
      <3> QED BY <1>0, <3>0, <3>1, <3>2 DEF JobRetry, Waiting, Refused, Undisturbed
    <2> QED BY <1>1, <1>9, <2>2, <2>3, <2>4, AnswerCases
  <1>10. CASE AcquireShared(j)
    <2>1. /\ x.pc = "wantShared" /\ y.pc = "adopt" /\ SameLocals(x, y)
      BY <1>10, AcquireSharedFacts
    <2>2. ~Local(y, m) /\ (SharedRetry(x) => SharedRetry(y)) /\ OnRecord(y) = OnRecord(x)
      BY <2>1 DEF Local, SharedRetry, OnRecord, SameLocals
    <2> QED BY <1>0, <2>1, <2>2 DEF JobRetry, Waiting, Refused, Undisturbed, SameLocals
  <1>11. CASE AcquireExclusive(j)
    <2>1. /\ x.pc = "wantExclusive" /\ SameLocals(x, y)
          /\ y.pc \in {"mark", "put", "erase", "rebuild", "renew"}
          /\ x.retried => y.pc = "renew"
      <3>1. x.retried => x.kind \notin {"signout", "save", "remove"} /\ x.back # "done"
        BY <1>0 DEF JobPath, JobLocals
      <3>2. x.pc = "wantExclusive" /\ x.back # "done" => ssCred[tab(j)] # None
        BY <1>0 DEF JobCred
      <3> QED BY <1>11, <3>1, <3>2, AcquireExclusiveFacts
    <2>2. /\ Local(y, m) => Local(x, l)
          /\ LocalRetry(x, c, g) => LocalRetry(y, c, g)
          /\ OnRecord(y) => OnRecord(x) /\ y.pc = "renew"
          /\ SharedRetry(x) /\ y.pc = "renew" => SharedRetry(y)
      BY <2>1 DEF Local, LocalRetry, SharedRetry, OnRecord, SameLocals
    <2> QED BY <1>0, <2>1, <2>2 DEF JobRetry, Waiting, Refused, Undisturbed, SameLocals
  <1>12. CASE LocalKept(j)
    <2>1. CASE SameLocals(x, y) /\ y.pc = x.back
      <3>1. /\ x.pc = "local" /\ x.rejected # c /\ Local(x, l) /\ ~OnRecord(x)
            /\ y.pc \in {"done", "bearer", "wantShared", "rebuild"}
        BY <1>0, <1>12, <2>1 DEF LocalKept, Local, OnRecord, JobPath, JobLocals
      <3>2. ~OnRecord(y) /\ (Local(y, m) => y.pc = "bearer")
        BY <2>1, <3>1 DEF OnRecord, Local, SameLocals
      <3>3. LocalRetry(x, c, g) /\ y.pc = "bearer" => LocalRetry(y, c, g)
        BY <2>1, <3>1 DEF LocalRetry, SameLocals
      <3> QED BY <1>0, <2>1, <3>1, <3>2, <3>3 DEF JobRetry, Waiting, Refused, Undisturbed, SameLocals
    <2> QED BY <1>1, <1>12, <2>1 DEF LocalKept
  <1>13. CASE EndsQuietly(j)
    BY <1>1, <1>13 DEF EndsQuietly
  <1> QED BY <1>4, <1>5, <1>6, <1>7, <1>8, <1>9, <1>10, <1>11, <1>12, <1>13 DEF QuietSteps

\* A call is as it should be if it is so wherever it still waits.
LEMMA OwnRetry ==
    ASSUME NEW j \in Jobs, ssJob'[j].reply # "rejected",
           \A y, m : y = ssJob'[j] /\ m = ssLease'[j] /\ Waiting(y, m) /\ Undisturbed(y)' =>
              /\ KeptBearer' /\ (OnRecord(y) => SharedRetry(y)')
              /\ \A c, g : c = ssCred'[tab(j)].bearer /\ g = ssCred'[tab(j)].joined /\ Local(y, m)
                   => LocalRetry(y, c, g)'
    PROVE  JobRetry(j, ssJob[j], ssLease[j])'
  <1> SUFFICES ASSUME NEW y, NEW m, y = ssJob'[j], m = ssLease'[j] PROVE JobRetry(j, y, m)'
    OBVIOUS
  <1>1. Refused(y)'
    BY DEF Refused
  <1>2. Waiting(y, m)' = Waiting(y, m) /\ OnRecord(y)' = OnRecord(y) /\ Local(y, m)' = Local(y, m)
    BY DEF Waiting, OnRecord, Local
  <1>3. ASSUME Waiting(y, m), Undisturbed(y)'
        PROVE  /\ KeptBearer' /\ (OnRecord(y) => SharedRetry(y)')
               /\ Local(y, m) => LocalRetry(y, ssCred[tab(j)].bearer, ssCred[tab(j)].joined)'
    BY <1>3 DEF tab
  <1> QED BY <1>1, <1>2, <1>3 DEF JobRetry

\* What a call counts on after a step of its own that changes more.
LEMMA LoudRetry ==
    ASSUME SSBase, SSPath, SSBounds, SSWorn, SSRetry, SSTypeOK', NEW j \in Jobs, LoudSteps(j)
    PROVE  JobRetry(j, ssJob[j], ssLease[j])'
  <1> DEFINE x == ssJob[j]
             l == ssLease[j]
             c1 == ssCred[tab(j)].bearer
             g1 == ssCred[tab(j)].joined
             c2 == ssCred'[tab(j)].bearer
             g2 == ssCred'[tab(j)].joined
  <1>0. /\ JobLease(x, l) /\ JobLocals(x) /\ JobPath(x, l) /\ JobRetry(j, x, l)
        /\ x.retried \in BOOLEAN /\ x.pc # "done" /\ x.reply # "rejected" /\ x \in JobType
        /\ x.using <= ssMinted /\ tab(j) \in Tabs /\ ssGone' \in BOOLEAN /\ ServerMoves
    <2>1. x.pc # "done"
      BY DEF LoudSteps, LocalTaken, LocalMint, ExchangeFails, Adopts, RenewKept,
         RenewMarks, SharedMint, Keeps, LogoutMarked, Deletes, Erases, Puts, JoinsAsSaved, Rebuilt
    <2> QED BY <2>1, NotRefused, JobFields, LoudMoves, SharedConstants
            DEF SSBase, JobBase, SSPath, SSRetry, SSTypeOK, SSBounds
  <1>1. ssJob'[j].reply # "rejected"
    BY <1>0 DEF LoudSteps, LocalTaken, LocalMint, ExchangeFails, Adopts, RenewKept, RenewMarks,
         SharedMint, Keeps, LogoutMarked, Deletes, Erases, Puts, JoinsAsSaved, Rebuilt, Ended,
         SameLocals
  <1> SUFFICES ASSUME NEW y, NEW m, y = ssJob'[j], m = ssLease'[j], Waiting(y, m), Undisturbed(y)'
               PROVE  /\ KeptBearer' /\ (OnRecord(y) => SharedRetry(y)')
                      /\ \A c, g : c = c2 /\ g = g2 /\ Local(y, m) => LocalRetry(y, c, g)'
    BY <1>1, OwnRetry
  <1>2. ~Ended(y)
    BY DEF Ended, Waiting, OnRecord, Local
  \* The call waited already, and nothing disturbs it.
  <1>3. ASSUME Waiting(x, l), y.lapses = x.lapses
        PROVE  /\ Calm /\ Undisturbed(x) /\ KeptBearer /\ KeptBearer'
               /\ OnRecord(x) => SharedRetry(x)
               /\ Local(x, l) => LocalRetry(x, c1, g1)
    <2>1. \A z : z = x => Undisturbed(z)'
      BY <1>3 DEF Undisturbed
    <2>2. Calm /\ Undisturbed(x)
      BY <1>0, <1>3, <2>1, CalmBefore
    <2>3. /\ KeptBearer /\ (OnRecord(x) => SharedRetry(x))
          /\ Local(x, l) => LocalRetry(x, c1, g1)
      BY <1>0, <1>3, <2>2 DEF JobRetry
    <2> QED BY <2>2, <2>3, LoudKept
  <1>4. CASE LocalTaken(j)
    <2>1. /\ x.pc = "local" /\ y.pc = "exchangeLocal" /\ SameLocals(x, y)
          /\ ssCur' = ssCur /\ ssPhase' = ssPhase /\ c2 = c1 /\ g2 = g1 /\ ssRecord' = ssRecord
      BY <1>4 DEF LocalTaken, ssServer
    <2>2. Local(x, l) /\ ~OnRecord(y) /\ y.lapses = x.lapses
      BY <1>0, <2>1 DEF Local, OnRecord, JobPath, SameLocals
    <2>3. KeptBearer' /\ LocalRetry(x, c1, g1)
      BY <1>3, <2>2 DEF Waiting
    <2>4. Shared' = Shared
      BY <2>1 DEF Shared
    <2>5. \A c, g : c = c1 /\ g = g1 => LocalRetry(y, c, g)'
      <3> HIDE DEF c1, g1
      <3> QED BY <2>1, <2>3, <2>4 DEF LocalRetry, Good
    <2> QED BY <2>1, <2>2, <2>3, <2>5
  <1>5. CASE LocalMint(j)
    <2>1. x.pc = "exchangeLocal" /\ SameLocals(x, y) /\ y.pc = x.back
      BY <1>2, <1>5 DEF LocalMint
    <2>2. Local(x, l) /\ ~OnRecord(y) /\ y.lapses = x.lapses /\ (Local(y, m) => y.pc = "bearer")
      BY <1>0, <2>1 DEF Local, OnRecord, JobPath, JobLocals, SameLocals
    <2>3. Calm /\ KeptBearer'
      BY <1>3, <2>2 DEF Waiting
    <2>4. ssCur' = ssMinted + 1 /\ c2 = ssMinted + 1 /\ g2 = FALSE
      BY <1>5, <2>3, LocalMintFacts
    <2>5. ASSUME NEW c, NEW g, c = c2, g = g2, y.pc = "bearer" PROVE LocalRetry(y, c, g)'
      <3>1. c = ssCur' /\ g = FALSE
        BY <2>4, <2>5
      <3> QED BY <2>5, <3>1 DEF LocalRetry, Good
    <2> QED BY <2>2, <2>3, <2>5
  <1>6. CASE Adopts(j)
    <2>1. /\ x.pc = "adopt" /\ l = "shared" /\ y.retried = x.retried /\ y.lapses = x.lapses
          /\ ssCur' = ssCur /\ ssRecord' = ssRecord
          /\ \/ y.pc = "wantExclusive" /\ y.back = "wantShared"
             \/ y.pc = "send" /\ m = "shared"
      BY <1>0, <1>6 DEF Adopts, JobLease, ssServer
    <2>2. OnRecord(x) /\ ~Local(y, m)
      BY <1>0, <2>1 DEF Waiting, OnRecord, Local, JobPath, JobLocals
    <2>3. KeptBearer' /\ SharedRetry(x)
      BY <1>3, <2>1, <2>2 DEF Waiting
    <2>4. Shared' = Shared
      BY <2>1 DEF Shared
    <2>5. SharedRetry(y)'
      BY <2>1, <2>3, <2>4 DEF SharedRetry
    <2> QED BY <2>2, <2>3, <2>5
  <1>7. CASE RenewKept(j)
    <2>1. /\ x.pc = "renew" /\ SameLocals(x, y) /\ y.pc = x.back /\ ssCur' = ssCur
          /\ Shared # None /\ ~Shared.refreshPending /\ x.rejected # Shared.bearer
          /\ ssRecord' = ssRecord /\ Holding(j, Shared.bearer) /\ c2 = Shared.bearer
      BY <1>2, <1>7 DEF RenewKept, Active, ssServer, Holding
    <2>2. /\ OnRecord(y) => OnRecord(x)
          /\ Local(y, m) => Local(x, l) /\ y.pc = "bearer" /\ ~y.retried
          /\ y.pc # "keep"
      BY <1>0, <2>1 DEF OnRecord, Local, JobPath, JobLocals, SameLocals
    <2>3. /\ KeptBearer' /\ (OnRecord(y) => SharedRetry(x))
      BY <1>3, <2>1, <2>2 DEF Waiting, SameLocals
    <2>4. Shared' = Shared
      BY <2>1 DEF Shared
    <2>5. OnRecord(y) => SharedRetry(y)'
      BY <2>1, <2>3, <2>4 DEF SharedRetry
    <2>6. ASSUME NEW c, NEW g, c = c2, g = g2, Local(y, m) PROVE LocalRetry(y, c, g)'
      <3>1. c = Shared.bearer
        BY <2>1, <2>6
      <3> QED BY <2>1, <2>2, <2>4, <2>6, <3>1 DEF LocalRetry, Good
    <2> QED BY <2>3, <2>5, <2>6
  <1>8. CASE RenewMarks(j)
    <2>1. /\ x.pc = "renew" /\ SameLocals(x, y) /\ y.pc = "exchange" /\ ssCur' = ssCur
          /\ Shared' # None /\ Shared'.refreshPending /\ Shared'.bearer = Shared.bearer
          /\ c2 = Shared.bearer
      BY <1>8 DEF RenewMarks, RecordTo, ssServer, Holding
    <2>2. (OnRecord(y) => OnRecord(x)) /\ (Local(y, m) => Local(x, l))
      BY <2>1 DEF OnRecord, Local, SameLocals
    <2>3. KeptBearer'
      BY <1>3, <2>1, <2>2 DEF Waiting, SameLocals
    <2>4. SharedRetry(y)'
      BY <2>1 DEF SharedRetry
    <2>5. ASSUME NEW c, NEW g, c = c2, g = g2 PROVE LocalRetry(y, c, g)'
      <3>1. c = Shared'.bearer
        BY <2>1, <2>5
      <3> QED BY <2>1, <3>1 DEF LocalRetry
    <2> QED BY <2>3, <2>4, <2>5
  <1>9. CASE SharedMint(j)
    <2>1. /\ x.pc = "exchange" /\ y.pc = "keep" /\ y.back = x.back /\ y.lapses = x.lapses
          /\ y.retried = x.retried /\ Mint(FALSE)
      BY <1>9 DEF SharedMint
    <2>2. Calm
      BY <1>0, <2>1 DEF Mint, ssHistory, Calm, Undisturbed
    <2>3. KeptBearer'
      BY <1>9, <2>2, LoudKept
    <2>4. /\ ssCur' = ssMinted + 1 /\ ssPhase' = ssPhase /\ ~ssGone /\ ssCred' = ssCred
          /\ Shared' = Shared /\ Shared # None /\ Shared.refreshPending
          /\ Worn(Shared.bearer) /\ \A t \in Tabs : ~Unsaved(t)
      BY <1>9, SharedMintFacts
    <2>5. SharedRetry(y)'
      BY <2>4 DEF SharedRetry
    <2>6. ASSUME NEW c, NEW g, c = c2, g = g2, Local(y, m) PROVE LocalRetry(y, c, g)'
      <3>1. Local(x, l)
        BY <2>1, <2>6 DEF Local
      <3>2. c1 \in Bearers /\ c1 <= ssMinted /\ g1 = TRUE
        BY <1>0, <2>4, <3>1, LocalCred, LocalJoined DEF SSBounds
      <3>3. LocalRetry(x, c1, TRUE)
        BY <1>3, <2>1, <3>1, <3>2 DEF Waiting
      <3>4. c = c1 /\ g = TRUE
        BY <2>4, <2>6, <3>2
      <3> HIDE DEF c1, g1, c2, g2
      <3>5. PICK z \in JobType : z = x
        BY <1>0
      <3>6. LocalRetry(z, c, TRUE)'
        BY <1>0, <2>4, <3>2, <3>3, <3>4, <3>5, RetryMinted
      <3> QED BY <2>1, <3>4, <3>5, <3>6 DEF LocalRetry
    <2> QED BY <2>3, <2>5, <2>6
  <1>10. CASE Keeps(j)
    <2>1. x.pc = "keep" /\ SameLocals(x, y) /\ y.pc = x.back
      BY <1>2, <1>10 DEF Keeps
    <2>2. KeptBearer /\ KeptBearer'
      BY <1>3, <2>1 DEF Waiting, SameLocals
    <2>3. ssCur' = ssCur /\ Shared' # None /\ Shared'.bearer = ssCur /\ c2 = ssCur
      BY <1>10, <2>2, KeepsFacts DEF Holding
    <2>4. SharedRetry(y)'
      BY <2>3 DEF SharedRetry
    <2>5. ASSUME NEW c, NEW g, c = c2, g = g2, Local(y, m) PROVE LocalRetry(y, c, g)'
      <3>1. c = ssCur'
        BY <2>3, <2>5
      <3>2. y.pc = "bearer"
        BY <1>0, <2>1, <2>5 DEF Local, JobLocals
      <3> QED BY <2>3, <3>1, <3>2 DEF LocalRetry, Good
    <2> QED BY <2>2, <2>4, <2>5
  <1>11. CASE LogoutMarked(j) \/ Deletes(j) \/ Puts(j)
    <2>1. /\ SameLocals(x, y) /\ x.pc \in {"mark", "delete", "put"}
          /\ y.pc \in {"delete", "erase", "join"}
      BY <1>2, <1>11 DEF LogoutMarked, Deletes, Puts
    <2> QED BY <1>0, <2>1 DEF Waiting, OnRecord, Local, JobPath, SameLocals
  <1>12. CASE Rebuilt(j)
    <2>1. x.pc = "rebuild" /\ y.pc = "begin" /\ y.retried = x.retried
      BY <1>12 DEF Rebuilt
    <2> QED BY <1>0, <2>1 DEF Waiting, OnRecord, Local, JobPath, JobLocals
  <1>13. CASE ExchangeFails(j) \/ Erases(j) \/ JoinsAsSaved(j)
    BY <1>2, <1>13 DEF ExchangeFails, Erases, JoinsAsSaved
  <1> QED BY <1>4, <1>5, <1>6, <1>7, <1>8, <1>9, <1>10, <1>11, <1>12, <1>13 DEF LoudSteps

LEMMA OuterRetry ==
    ASSUME SSBase, SSPath, SSRetry, SSTypeOK', Outer PROVE SSRetry'
  <1>0. UNCHANGED <<ssCred, ssLease, ssJob>> /\ ServerMoves
    BY OuterCalls, OuterMoves
  <1>1. ASSUME ssCur' = ssCur, Shared' = Shared PROVE SSRetry'
    <2>1. KeptBearer => KeptBearer'
      BY <1>0, <1>1 DEF KeptBearer
    <2> QED BY <1>0, <1>1, <2>1, RetryStays DEF SSRetry
  <1>2. ASSUME ~Calm PROVE SSRetry'
    BY <1>0, <1>2, RetryCarried DEF SSRetry
  <1>3. ASSUME ssLapses' = ssLapses + 1 PROVE ~Calm
    BY <1>3 DEF SSBase, SSTypeOK, Calm
  <1>4. CASE Clear
    BY <1>2, <1>3, <1>4 DEF Clear, Forget
  <1>5. CASE StrayExecutes
    <2>1. CASE Mint(TRUE)
      BY <1>2, <1>3, <2>1 DEF Mint
    <2>2. CASE UNCHANGED ssServer
      BY <1>1, <1>5, <2>2 DEF StrayExecutes, ssServer, Shared
    <2> QED BY <1>5, <2>1, <2>2 DEF StrayExecutes
  <1>6. CASE Revoke
    BY <1>2, <1>6 DEF Revoke, Calm
  <1>7. CASE \E b \in 1..MaxMint : Age(b)
    BY <1>1, <1>7 DEF Age, Shared
  <1> QED BY <1>4, <1>5, <1>6, <1>7 DEF Outer

LEMMA SharedRetryStep ==
    SSBase /\ SSPath /\ SSBounds /\ SSWorn /\ SSKnown /\ SSRetry /\ SSTypeOK' /\ [SSNext]_ssVars
      => SSRetry'
  <1> SUFFICES ASSUME SSBase, SSPath, SSBounds, SSWorn, SSKnown, SSRetry, SSTypeOK',
                      [SSNext]_ssVars
               PROVE  SSRetry'
    OBVIOUS
  <1>1. ASSUME NEW j \in Jobs, QuietSteps(j) PROVE SSRetry'
    <2>1. StepOf(j) /\ UNCHANGED <<ssServer, ssRecord, ssCred>>
      BY <1>1, QuietWorld DEF World
    <2>2. /\ ServerMoves /\ Shared' = Shared /\ ssCur' = ssCur /\ ssGone' = ssGone
          /\ ssLapses' = ssLapses /\ ssPhase' = ssPhase /\ ssCred' = ssCred
      BY <2>1, QuietMoves DEF Shared, ssServer, ssHistory
    <2>3. KeptBearer => KeptBearer'
      BY <1>1, <2>1, <2>2, QuietKnown, OthersKeep
    <2>4. \A k \in Jobs : k # j => JobRetry(k, ssJob[k], ssLease[k])'
      BY <2>1, <2>2, <2>3, RetryStays DEF StepOf, Steps1
    <2>5. JobRetry(j, ssJob[j], ssLease[j])'
      <3>1. JobRetry(j, ssJob'[j], ssLease'[j])
        BY <1>1, QuietRetry
      <3>2. \A y : /\ Undisturbed(y)' = Undisturbed(y) /\ OnRecord(y)' = OnRecord(y)
                   /\ SharedRetry(y)' = SharedRetry(y) /\ Refused(y)' = Refused(y)
        BY <2>2 DEF Undisturbed, OnRecord, SharedRetry, Refused
      <3>3. \A y, c, g : LocalRetry(y, c, g)' = LocalRetry(y, c, g)
        BY <2>2 DEF LocalRetry, Good
      <3>4. \A y, m : Local(y, m)' = Local(y, m) /\ Waiting(y, m)' = Waiting(y, m)
        BY DEF Waiting, OnRecord, Local
      <3>5. \A y, m : JobRetry(j, y, m) => JobRetry(j, y, m)'
        BY <2>2, <2>3, <3>2, <3>3, <3>4 DEF JobRetry, tab
      <3>6. \A y, m : y = ssJob'[j] /\ m = ssLease'[j] => JobRetry(j, y, m)'
        BY <3>1, <3>5
      <3> QED BY <3>6
    <2> QED BY <2>4, <2>5 DEF SSRetry
  <1>2. ASSUME NEW j \in Jobs, LoudSteps(j) PROVE SSRetry'
    BY <1>2, LoudRetry, LoudRetryOthers DEF SSRetry
  <1>3. ASSUME Outer PROVE SSRetry'
    BY <1>3, OuterRetry
  <1>4. ASSUME NEW t \in Tabs, Closes(t) PROVE SSRetry'
    <2>1. /\ UNCHANGED ssServer /\ ssRecord' = ssRecord
          /\ \A u \in Tabs : u # t => ssCred'[u] = ssCred[u]
          /\ \A k \in Jobs : tab(k) = t => /\ ssLease'[k] = "none"
                                           /\ \/ Ended(ssJob'[k])
                                              \/ /\ ssJob'[k] = ssJob[k]
                                                 /\ ssJob[k].pc \in {"idle", "done"}
          /\ \A k \in Jobs : tab(k) # t => ssJob'[k] = ssJob[k] /\ ssLease'[k] = ssLease[k]
      BY <1>4 DEF Closes
    <2>2. /\ ServerMoves /\ Shared' = Shared /\ ssCur' = ssCur
      BY <2>1, QuietMoves DEF Shared, ssServer
    <2>3. KeptBearer => KeptBearer'
      BY <2>1, <2>2 DEF KeptBearer, Ended
    <2>4. ASSUME NEW k \in Jobs, tab(k) = t PROVE JobRetry(k, ssJob[k], ssLease[k])'
      <3>1. CASE Ended(ssJob'[k])
        BY <3>1 DEF Ended, JobRetry, Waiting, OnRecord, Local, Refused
      <3>2. CASE ssJob'[k] = ssJob[k] /\ ssJob[k].pc \in {"idle", "done"}
        <4>1. Refused(ssJob[k]) /\ ssJob[k] \in JobType /\ JobPath(ssJob[k], ssLease[k])
          BY JobFields DEF SSRetry, JobRetry, SSBase, SSPath
        <4>2. \A y : y = ssJob[k] => Refused(y)'
          BY <2>2, <4>1, RefusedStays
        <4>3. \A y, m : y = ssJob[k] => ~Waiting(y, m)
          BY <3>2, <4>1 DEF Waiting, OnRecord, Local, JobPath
        <4>4. Refused(ssJob[k])' /\ ~Waiting(ssJob[k], ssLease[k])'
          <5>1. Refused(ssJob[k])'
            BY <3>2, <4>2
          <5>2. ~Waiting(ssJob'[k], ssLease'[k])
            BY <3>2, <4>3
          <5> QED BY <5>1, <5>2 DEF Waiting, OnRecord, Local
        <4> QED BY <4>4 DEF JobRetry
      <3> QED BY <2>1, <2>4, <3>1, <3>2
    <2>5. ASSUME NEW k \in Jobs, tab(k) # t PROVE JobRetry(k, ssJob[k], ssLease[k])'
      BY <2>1, <2>2, <2>3, <2>5, RetryStays, SharedConstants
    <2> QED BY <2>4, <2>5 DEF SSRetry
  <1>5. CASE UNCHANGED ssVars
    <2>1. UNCHANGED <<ssCred, ssLease, ssJob, ssServer, ssRecord>>
      BY <1>5 DEF ssVars, ssServer, ssHistory
    <2>2. ServerMoves /\ Shared' = Shared /\ ssCur' = ssCur
      BY <2>1, QuietMoves DEF Shared, ssServer
    <2>3. KeptBearer => KeptBearer'
      BY <2>1, <2>2 DEF KeptBearer
    <2> QED BY <2>1, <2>2, <2>3, RetryStays DEF SSRetry
  <1> QED BY <1>1, <1>2, <1>3, <1>4, <1>5, SharedSteps

-----------------------------------------------------------------------------
(* The theorem.                                                             *)

\* The inductive invariant.
SSInv == SSBase /\ SSPath /\ SSBounds /\ SSWorn /\ SSKnown /\ SSRetry

LEMMA SharedInit == SSInit => SSInv
  <1> SUFFICES ASSUME SSInit PROVE SSInv
    OBVIOUS
  <1>1. /\ ssCur = 1 /\ ssGone = FALSE /\ ssMinted = 1 /\ ssOutside = {} /\ ssRecord = None
        /\ Shared = None
    BY DEF SSInit, Shared
  <1>2. \A j \in Jobs : /\ ssJob[j].kind = None /\ ssJob[j].pc = "idle" /\ ssJob[j].back = "done"
                        /\ ssJob[j].using = 0 /\ ssJob[j].rejected = 0
                        /\ ssJob[j].retried = FALSE /\ ssJob[j].reply = None
    BY DEF SSInit
  <1>3. \A t \in Tabs : /\ t # Opener => ssCred[t] = None
                        /\ t = Opener => ssCred[t].bearer = 1 /\ ssCred[t].joined = FALSE
    BY DEF SSInit
  <1>4. SSPath
    <2>1. SavedOnce
      BY <1>1, <1>3 DEF SavedOnce, Unsaved
    <2>2. \A j \in Jobs : JobPath(ssJob[j], ssLease[j])
      BY <1>2 DEF JobPath
    <2> QED BY <2>1, <2>2 DEF SSPath
  <1>5. SSBounds
    <2>1. \A t \in Tabs : ssCred[t] # None => ssCred[t].bearer <= 1
      BY <1>3
    <2> QED BY <1>1, <1>2, <2>1 DEF SSBounds
  <1>6. SSWorn
    BY <1>1, <1>2 DEF SSWorn, RecordWorn, JobWorn
  <1>7. SSKnown
    <2>1. Stored /\ \A j \in Jobs : JobKnown(j, ssJob[j], ssLease[j])
      BY <1>1, <1>2 DEF Stored, JobKnown
    <2>2. \A t \in Tabs : TabKnown(t)
      BY <1>1, <1>3 DEF TabKnown, Joined, Unsaved
    <2> QED BY <2>1, <2>2 DEF SSKnown
  <1>8. SSRetry
    BY <1>2, SharedConstants DEF SSRetry, JobRetry, Waiting, OnRecord, Local, Refused
  <1> QED BY <1>4, <1>5, <1>6, <1>7, <1>8, SharedBaseInit DEF SSInv

LEMMA SharedStep == SSInv /\ [SSNext]_ssVars => SSInv'
  <1> SUFFICES ASSUME SSInv, [SSNext]_ssVars PROVE SSInv'
    OBVIOUS
  <1>1. SSBase /\ SSPath /\ SSBounds /\ SSWorn /\ SSKnown /\ SSRetry
    BY DEF SSInv
  <1>2. SSBase'
    BY <1>1, SharedBaseStep
  <1>3. SSTypeOK'
    BY <1>2 DEF SSBase
  <1>4. SSPath' /\ SSBounds' /\ SSWorn' /\ SSKnown' /\ SSRetry'
    BY <1>1, <1>3, SharedPathStep, SharedBoundsStep, SharedWornStep, SharedKnownStep, SharedRetryStep
  <1> QED BY <1>2, <1>4 DEF SSInv

LEMMA SharedProtects == SSInv => LeasesProtect
  <1> SUFFICES ASSUME SSInv PROVE LeasesProtect
    OBVIOUS
  <1>0. SSBase /\ SSKnown /\ SSRetry
    BY DEF SSInv
  <1>1. StoredBearerCurrent
    BY <1>0 DEF SSKnown, Stored, Settled, StoredBearerCurrent
  <1>2. RequestKeepsItsBearer
    BY <1>0 DEF SSKnown, JobKnown, RequestKeepsItsBearer, Active
  <1>3. RefusedTwiceHasCause
    BY <1>0 DEF SSRetry, JobRetry, Refused, RefusedTwiceHasCause
  <1>4. LogoutRevokes
    BY <1>0 DEF SSKnown, JobKnown, LogoutRevokes
  <1> QED BY <1>0, <1>1, <1>2, <1>3, <1>4 DEF LeasesProtect, SSBase

\* Whatever calls whichever tabs make, and whichever exchanges lose their sender: a
\* stored bearer without the pending mark is the homeserver's, a request under way
\* keeps its bearer, one retry is enough, and a signout revokes before it erases,
\* each but for the causes the property names (credential.rs, shared_session.rs).
THEOREM LeasesDoProtect == SSSpec => []LeasesProtect
  <1>1. SSInit => SSInv
    BY SharedInit
  <1>2. SSInv /\ [SSNext]_ssVars => SSInv'
    BY SharedStep
  <1>3. SSInv => LeasesProtect
    BY SharedProtects
  <1> QED BY <1>1, <1>2, <1>3, PTL DEF SSSpec

-----------------------------------------------------------------------------
(* The authorization flow.                                                  *)

\* A message is on its way through the listener of the flow, or waits for a call.
Carries(f) == f.hand \in Messages \/ f.rx \in Messages

\* What a flow holds at each step of its listener, and that what a call took out
\* of it answers the request.
FlowInv(req, f) ==
    /\ f.lis = "poll" => f.hand = None /\ f.rx = None
    /\ f.lis = "ack" => f.hand # None /\ f.rx = None
    /\ f.lis = "ended" => f.hand = None
    /\ f.approval # None => Decodes(req, f.approval)
    /\ f.session # None => Decodes(req, f.session)

\* There is nothing before the request, and no message is lost.
AFInv ==
    /\ AFTypeOK
    /\ afRequest = None => /\ \A h \in Handles : afFlow[h] = None
                           /\ afSaved = None /\ afBox = None /\ afPosts = 0
    /\ \A h \in Handles : afFlow[h] # None => FlowInv(afRequest, afFlow[h])
    /\ afPosts > 0 => \/ afExcused \/ afBox # None \/ afTaken # {}
                      \/ \E h \in Handles : afFlow[h] # None /\ Carries(afFlow[h])

\* What the fields of a message say of it, whoever posted it.
LEMMA MessageFacts ==
    ASSUME NEW m \in Messages
    PROVE  m # None /\ m # Failed /\ m.id \in 1..MaxPosts /\ (m.kind = "grant" => m.keys = {})
<1>1. m # None /\ m # Failed
  BY FlowAssumption
<1>2. CASE \E req \in Requests, k \in Identities, caps \in Approvals, i \in 1..MaxPosts :
             m = BuildGrant(req, k, caps, i)
  <2> PICK req \in Requests, k \in Identities, caps \in Approvals, i \in 1..MaxPosts :
             m = BuildGrant(req, k, caps, i)
    BY <1>2
  <2> QED BY <1>1, FlowAssumption DEF BuildGrant
<1>3. CASE \E k \in Identities, caps \in Approvals, i \in 1..MaxPosts : m = BuildToken(k, caps, i)
  BY <1>1, <1>3 DEF BuildToken
<1>4. CASE \E s \in Strays, i \in 1..MaxPosts : m = [s EXCEPT !.id = i]
  <2> PICK s \in Strays, i \in 1..MaxPosts : m = [s EXCEPT !.id = i]
    BY <1>4
  <2>1. /\ s = [id |-> s.id, kind |-> s.kind, sealed |-> s.sealed, iss |-> s.iss,
                signer |-> s.signer, client |-> s.client, caps |-> s.caps, times |-> s.times,
                keys |-> s.keys]
        /\ s.kind = "grant" => s.keys = {}
    BY FlowAssumption
  <2>2. m.id = i /\ m.kind = s.kind /\ m.keys = s.keys
    BY <2>1
  <2> QED BY <1>1, <2>1, <2>2
<1> QED BY <1>2, <1>3, <1>4 DEF Messages

\* A step of one flow keeps the invariant when the new flow is sound and no message
\* leaves the flow or the relay but for a call or a cause that excuses it.
LEMMA FlowStep ==
    ASSUME AFInv, NEW h \in Handles, afRequest # None, NEW f \in Flows, FlowInv(afRequest, f),
           afFlow' = [afFlow EXCEPT ![h] = f],
           afBox' \in Messages \cup {None}, afExcused' \in BOOLEAN, afTaken' \subseteq 1..MaxPosts,
           afExcused => afExcused', afTaken \subseteq afTaken',
           afBox # None => afBox' # None \/ afExcused' \/ afTaken' # {} \/ Carries(f),
           afFlow[h] # None /\ Carries(afFlow[h]) =>
             afBox' # None \/ afExcused' \/ afTaken' # {} \/ Carries(f),
           UNCHANGED <<afRequest, afPosts, afSaved, afKey>>
    PROVE  AFInv'
<1>1. AFTypeOK'
  BY DEF AFInv, AFTypeOK
<1>2. afFlow'[h] = f /\ (\A g \in Handles : g # h => afFlow'[g] = afFlow[g]) /\ f # None
  BY FlowAssumption DEF AFInv, AFTypeOK
<1>3. \A g \in Handles : afFlow'[g] # None => FlowInv(afRequest', afFlow'[g])
  BY <1>2 DEF AFInv, FlowInv
<1>4. afPosts' > 0 => \/ afExcused' \/ afBox' # None \/ afTaken' # {}
                      \/ \E g \in Handles : afFlow'[g] # None /\ Carries(afFlow'[g])
  <2> SUFFICES ASSUME afPosts > 0
               PROVE  \/ afExcused' \/ afBox' # None \/ afTaken' # {}
                      \/ \E g \in Handles : afFlow'[g] # None /\ Carries(afFlow'[g])
    OBVIOUS
  <2>1. CASE afExcused \/ afTaken # {}
    BY <2>1
  <2>2. CASE afBox # None
    BY <2>2, <1>2
  <2>3. CASE \E g \in Handles : afFlow[g] # None /\ Carries(afFlow[g])
    BY <2>3, <1>2
  <2> QED BY <2>1, <2>2, <2>3 DEF AFInv
<1> QED BY <1>1, <1>3, <1>4 DEF AFInv, Carries

LEMMA FlowListenerStep ==
    ASSUME AFInv, NEW h \in Handles, NEW ok \in BOOLEAN,
           \/ InboxTimeout(h) \/ PollFails(h) \/ ReceiveInbox(h, ok) \/ ReceiveLink(h, ok)
           \/ Acknowledge(h, ok) \/ LinkPollLost(h, ok)
    PROVE  AFInv'
<1> DEFINE f == afFlow[h]
<1>1. f \in Flows /\ FlowInv(afRequest, f) /\ afRequest # None /\ f # None
  BY DEF AFInv, AFTypeOK, InboxTimeout, PollFails, ReceiveInbox, ReceiveLink, Acknowledge,
     LinkPollLost, Polling, Live
<1>2. afBox \in Messages \cup {None} /\ afExcused \in BOOLEAN /\ afTaken \subseteq 1..MaxPosts
  BY DEF AFInv, AFTypeOK
<1>3. /\ Deliver(f, Failed) \in Flows /\ FlowInv(afRequest, Deliver(f, Failed))
      /\ \A m \in Messages : /\ Deliver(f, m) \in Flows /\ FlowInv(afRequest, Deliver(f, m))
                             /\ Carries(Deliver(f, m))
  <2> SUFFICES ASSUME NEW r \in Messages \cup {Failed}
               PROVE  /\ Deliver(f, r) \in Flows /\ FlowInv(afRequest, Deliver(f, r))
                      /\ r \in Messages => Carries(Deliver(f, r))
    OBVIOUS
  <2>1. Deliver(f, r) \in Flows
    <3>1. [f EXCEPT !.lis = "ended", !.hand = None] \in Flows
      BY <1>1 DEF Flows
    <3>2. 0 \in 0..MaxFailures
      BY DEF MaxFailures
    <3>3. \A x \in Flows : [x EXCEPT !.rx = r, !.fails = 0] \in Flows
      BY <3>2 DEF Flows
    <3>4. Deliver(f, r) = [[f EXCEPT !.lis = "ended", !.hand = None] EXCEPT !.rx = r, !.fails = 0]
      BY <1>1 DEF Flows, Deliver
    <3> QED BY <3>1, <3>3, <3>4
  <2>2. /\ Deliver(f, r).lis = "ended" /\ Deliver(f, r).hand = None /\ Deliver(f, r).rx = r
        /\ Deliver(f, r).approval = f.approval /\ Deliver(f, r).session = f.session
    BY <1>1 DEF Flows, Deliver
  <2>3. FlowInv(afRequest, Deliver(f, r))
    BY <1>1, <2>2 DEF FlowInv
  <2> QED BY <2>1, <2>2, <2>3 DEF Carries
<1>4. f.lis = "poll" => ~Carries(f)
  BY <1>1, FlowAssumption DEF FlowInv, Carries
<1> HIDE DEF f
<1>5. CASE InboxTimeout(h)
  <2>1. f.lis = "poll" /\ afFlow' = [afFlow EXCEPT ![h] = [f EXCEPT !.fails = 0]]
        /\ UNCHANGED <<afRequest, afBox, afPosts, afExcused, afTaken, afSaved, afKey>>
    BY <1>5 DEF InboxTimeout, Polling, Set, f
  <2>2. [f EXCEPT !.fails = 0] \in Flows /\ FlowInv(afRequest, [f EXCEPT !.fails = 0])
    BY <1>1 DEF Flows, FlowInv, MaxFailures
  <2> QED BY <1>1, <1>2, <1>4, <2>1, <2>2, FlowStep DEF f
<1>f. Failing(f) \in Flows /\ FlowInv(afRequest, Failing(f))
  <2> DEFINE n == f.fails + 1
  <2>1. n < MaxFailures => [f EXCEPT !.fails = n] \in Flows /\ FlowInv(afRequest, [f EXCEPT !.fails = n])
    BY <1>1 DEF Flows, FlowInv, MaxFailures
  <2>2. n >= MaxFailures \/ n < MaxFailures
    BY <1>1 DEF Flows, MaxFailures
  <2>3. Failing(f) = IF n >= MaxFailures THEN Deliver(f, Failed) ELSE [f EXCEPT !.fails = n]
    BY DEF Failing
  <2> HIDE DEF n
  <2> QED BY <1>3, <2>1, <2>2, <2>3
<1>6. CASE PollFails(h)
  <2>1. f.lis = "poll" /\ afFlow' = [afFlow EXCEPT ![h] = Failing(f)]
        /\ UNCHANGED <<afRequest, afBox, afPosts, afExcused, afTaken, afSaved, afKey>>
    BY <1>6 DEF PollFails, Polling, Set, f
  <2> QED BY <1>1, <1>2, <1>4, <1>f, <2>1, FlowStep DEF f
<1>a. CASE LinkPollLost(h, ok)
  <2> DEFINE g == IF ok THEN f ELSE Failing(f)
  <2>1. afFlow' = [afFlow EXCEPT ![h] = g] /\ afBox' = None /\ afExcused' = TRUE
        /\ UNCHANGED <<afRequest, afPosts, afTaken, afSaved, afKey>>
    BY <1>a DEF LinkPollLost, Set, f
  <2>2. g \in Flows /\ FlowInv(afRequest, g)
    BY <1>1, <1>f
  <2> HIDE DEF g
  <2> QED BY <1>1, <1>2, <2>1, <2>2, FlowStep DEF f
<1>7. CASE ReceiveInbox(h, ok)
  <2> DEFINE took == [f EXCEPT !.lis = "ack", !.hand = afBox]
             g == IF ok /\ Opens(afRequest, afBox) THEN took ELSE Deliver(f, Failed)
  <2>1. f.lis = "poll" /\ afFlow' = [afFlow EXCEPT ![h] = g] /\ afBox # None
        /\ UNCHANGED <<afRequest, afBox, afPosts, afExcused, afTaken, afSaved, afKey>>
    BY <1>7 DEF ReceiveInbox, Polling, Set, f
  <2>2. took \in Flows /\ FlowInv(afRequest, took)
    BY <1>1, <1>2, <2>1 DEF Flows, FlowInv
  <2>3. g \in Flows /\ FlowInv(afRequest, g)
    BY <1>3, <2>2
  <2> HIDE DEF g
  <2> QED BY <1>1, <1>2, <2>1, <2>3, FlowStep DEF f
<1>8. CASE ReceiveLink(h, ok)
  <2> DEFINE opened == ok /\ Opens(afRequest, afBox)
             g == Deliver(f, IF opened THEN afBox ELSE Failed)
  <2>1. f.lis = "poll" /\ afFlow' = [afFlow EXCEPT ![h] = g] /\ afBox # None /\ afBox' = None
        /\ afExcused' = (afExcused \/ ~opened)
        /\ UNCHANGED <<afRequest, afPosts, afTaken, afSaved, afKey>>
    BY <1>8 DEF ReceiveLink, Polling, Set, f
  <2>2. g \in Flows /\ FlowInv(afRequest, g) /\ (opened => Carries(g))
    BY <1>2, <1>3, <2>1
  <2>3. afExcused' \in BOOLEAN /\ (afExcused => afExcused') /\ (~opened => afExcused')
    BY <1>2, <2>1
  <2> HIDE DEF g, opened
  <2> QED BY <1>1, <1>2, <1>4, <2>1, <2>2, <2>3, FlowStep DEF f
<1>9. CASE Acknowledge(h, ok)
  <2> DEFINE g == Deliver(f, f.hand)
  <2>1. f.lis = "ack" /\ afFlow' = [afFlow EXCEPT ![h] = g] /\ afBox' = (IF ok THEN None ELSE afBox)
        /\ UNCHANGED <<afRequest, afPosts, afExcused, afTaken, afSaved, afKey>>
    BY <1>9 DEF Acknowledge, Set, f
  <2>2. f.hand \in Messages
    BY <1>1, <2>1 DEF FlowInv, Flows
  <2>3. g \in Flows /\ FlowInv(afRequest, g) /\ Carries(g)
    BY <1>3, <2>2
  <2>4. afBox' \in Messages \cup {None}
    BY <1>2, <2>1
  <2> HIDE DEF g
  <2> QED BY <1>1, <1>2, <2>1, <2>3, <2>4, FlowStep DEF f
<1> QED BY <1>5, <1>6, <1>7, <1>8, <1>9, <1>a

LEMMA FlowCallStep ==
    ASSUME AFInv, NEW h \in Handles, NEW ok \in BOOLEAN,
           \/ AwaitCall(h) \/ PollCall(h) \/ NothingYet(h) \/ TakeResult(h) \/ EndCall(h, ok)
           \/ DropFlow(h)
    PROVE  AFInv'
<1> DEFINE f == afFlow[h]
<1>1. f \in Flows /\ FlowInv(afRequest, f) /\ afRequest # None /\ f # None
  BY DEF AFInv, AFTypeOK, AwaitCall, PollCall, NotInFlight, Borrowable, NothingYet, TakeResult,
         EndCall, DropFlow, Live
<1>2. afBox \in Messages \cup {None} /\ afExcused \in BOOLEAN /\ afTaken \subseteq 1..MaxPosts
  BY DEF AFInv, AFTypeOK
<1> HIDE DEF f
<1>3. ASSUME NEW g \in Flows, FlowInv(afRequest, g), Carries(f) => Carries(g), Call(h, g) PROVE AFInv'
  BY <1>1, <1>2, <1>3, FlowStep DEF f, Call, Set
<1>4. CASE AwaitCall(h)
  <2> DEFINE g == [f EXCEPT !.call = "await", !.st = "taken"]
  <2>1. g \in Flows /\ FlowInv(afRequest, g) /\ (Carries(f) => Carries(g))
    BY <1>1 DEF Flows, FlowInv, Carries
  <2>2. Call(h, g)
    BY <1>4 DEF AwaitCall, f
  <2> HIDE DEF g
  <2> QED BY <1>3, <2>1, <2>2
<1>5. CASE PollCall(h)
  <2> DEFINE g == [f EXCEPT !.call = "try"]
  <2>1. g \in Flows /\ FlowInv(afRequest, g) /\ (Carries(f) => Carries(g))
    BY <1>1 DEF Flows, FlowInv, Carries
  <2>2. Call(h, g)
    BY <1>5 DEF PollCall, f
  <2> HIDE DEF g
  <2> QED BY <1>3, <2>1, <2>2
<1>6. CASE NothingYet(h)
  <2> DEFINE g == [f EXCEPT !.call = None]
  <2>1. g \in Flows /\ FlowInv(afRequest, g) /\ (Carries(f) => Carries(g))
    BY <1>1 DEF Flows, FlowInv, Carries
  <2>2. Call(h, g)
    BY <1>6 DEF NothingYet, f
  <2> HIDE DEF g
  <2> QED BY <1>3, <2>1, <2>2
<1>7. CASE TakeResult(h)
  <2> DEFINE good == f.rx # Failed /\ Decodes(afRequest, f.rx)
             kept == [f EXCEPT !.rx = None, !.approval = f.rx]
             spent == [f EXCEPT !.rx = None, !.call = None]
             g == IF good THEN kept ELSE spent
  <2>1. /\ afFlow' = [afFlow EXCEPT ![h] = g] /\ f.rx # None
        /\ afTaken' = IF f.rx = Failed THEN afTaken ELSE afTaken \cup {f.rx.id}
        /\ UNCHANGED <<afRequest, afBox, afPosts, afExcused, afSaved, afKey>>
    BY <1>7 DEF TakeResult, Set, f
  <2>2. f.rx = Failed \/ f.rx \in Messages
    BY <1>1, <2>1 DEF Flows
  <2>3. good => kept \in Flows /\ FlowInv(afRequest, kept)
    BY <1>1, <2>1, <2>2 DEF Flows, FlowInv
  <2>4. spent \in Flows /\ FlowInv(afRequest, spent)
    BY <1>1, <2>1 DEF Flows, FlowInv
  <2>5. g \in Flows /\ FlowInv(afRequest, g)
    BY <2>3, <2>4
  <2>6. afTaken' \subseteq 1..MaxPosts /\ afTaken \subseteq afTaken'
    BY <1>2, <2>1, <2>2, MessageFacts
  <2>7. Carries(f) => afTaken' # {}
    <3> SUFFICES ASSUME Carries(f) PROVE afTaken' # {}
      OBVIOUS
    <3>1. f.hand = None
      BY <1>1, <2>1 DEF FlowInv, Flows
    <3>2. f.rx \in Messages /\ f.rx # Failed
      BY <3>1, FlowAssumption DEF Carries
    <3> QED BY <2>1, <3>2
  <2> HIDE DEF g
  <2> QED BY <1>1, <1>2, <2>1, <2>5, <2>6, <2>7, FlowStep DEF f
<1>8. CASE EndCall(h, ok)
  <2> DEFINE s == IF ok THEN f.approval ELSE None
             g == [f EXCEPT !.call = None, !.approval = None, !.session = s]
  <2>1. s \in Messages \cup {None} /\ (s # None => Decodes(afRequest, s))
    BY <1>1 DEF Flows, FlowInv
  <2>2. Call(h, g)
    BY <1>8 DEF EndCall, f
  <2> HIDE DEF s
  <2>3. g \in Flows /\ FlowInv(afRequest, g) /\ (Carries(f) => Carries(g))
    BY <1>1, <2>1 DEF Flows, FlowInv, Carries
  <2> HIDE DEF g
  <2> QED BY <1>3, <2>2, <2>3
<1>9. CASE DropFlow(h)
  <2> DEFINE held == {f.hand, f.rx, f.approval} \ {None, Failed}
             g == [f EXCEPT !.st = "dropped", !.lis = "ended", !.fails = 0, !.hand = None,
                            !.rx = None, !.call = None, !.approval = None]
  <2>1. /\ afFlow' = [afFlow EXCEPT ![h] = g] /\ afExcused' = (afExcused \/ held # {})
        /\ UNCHANGED <<afRequest, afBox, afPosts, afTaken, afSaved, afKey>>
    BY <1>9 DEF DropFlow, Set, f
  <2>2. g \in Flows /\ FlowInv(afRequest, g)
    <3>1. g \in Flows
      <4> DEFINE e == [f EXCEPT !.st = "dropped", !.lis = "ended", !.fails = 0]
      <4>1. 0 \in 0..MaxFailures
        BY DEF MaxFailures
      <4>2. e \in Flows
        BY <1>1, <4>1 DEF Flows
      <4>3. \A x \in Flows : [x EXCEPT !.hand = None, !.rx = None] \in Flows
        BY DEF Flows
      <4>4. \A x \in Flows : [x EXCEPT !.call = None, !.approval = None] \in Flows
        BY DEF Flows
      <4>5. g = [[e EXCEPT !.hand = None, !.rx = None] EXCEPT !.call = None, !.approval = None]
        BY <1>1 DEF Flows
      <4> HIDE DEF e, g
      <4> QED BY <4>2, <4>3, <4>4, <4>5
    <3>2. g.lis = "ended" /\ g.hand = None /\ g.approval = None /\ g.session = f.session
      BY <1>1 DEF Flows
    <3> HIDE DEF g
    <3> QED BY <1>1, <3>1, <3>2 DEF FlowInv
  <2>3. Carries(f) => held # {}
    BY FlowAssumption DEF Carries
  <2>4. afExcused' \in BOOLEAN /\ (afExcused => afExcused') /\ (Carries(f) => afExcused')
    BY <1>2, <2>1, <2>3
  <2> HIDE DEF g, held
  <2> QED BY <1>1, <1>2, <2>1, <2>2, <2>4, FlowStep DEF f
<1> QED BY <1>4, <1>5, <1>6, <1>7, <1>8, <1>9

LEMMA FlowOpenStep ==
    ASSUME AFInv, NEW req \in Requests, OpenFlow(req), afKey' \in BOOLEAN
    PROVE  AFInv'
<1>1. NewFlow \in Flows
  BY DEF NewFlow, Flows, MaxFailures
<1>2. AFTypeOK'
  BY <1>1 DEF AFInv, AFTypeOK, OpenFlow
<1>3. req # None /\ afPosts = 0 /\ \A h \in Handles : afFlow[h] = None
  BY FlowAssumption DEF AFInv, OpenFlow
<1>4. \A h \in Handles : afFlow'[h] # None => afFlow'[h] = NewFlow
  BY <1>3 DEF AFInv, AFTypeOK, OpenFlow
<1>5. FlowInv(afRequest', NewFlow)
  BY DEF FlowInv, NewFlow
<1>6. \A h \in Handles : afFlow'[h] # None => FlowInv(afRequest', afFlow'[h])
  BY <1>4, <1>5
<1> QED BY <1>2, <1>3, <1>6 DEF AFInv, OpenFlow

LEMMA FlowResumeStep ==
    ASSUME AFInv, NEW h \in Handles, Resume(h), afRequest # None
    PROVE  AFInv'
<1>1. NewFlow \in Flows /\ FlowInv(afRequest, NewFlow)
  BY DEF NewFlow, Flows, MaxFailures, FlowInv
<1>2. afBox \in Messages \cup {None} /\ afExcused \in BOOLEAN /\ afTaken \subseteq 1..MaxPosts
  BY DEF AFInv, AFTypeOK
<1>3. /\ afFlow' = [afFlow EXCEPT ![h] = NewFlow] /\ afFlow[h] = None
      /\ UNCHANGED <<afRequest, afBox, afPosts, afExcused, afTaken, afSaved, afKey>>
  BY DEF Resume, Call, Set
<1> QED BY <1>1, <1>2, <1>3, FlowStep

\* A step that leaves the flows alone.
LEMMA FlowChannelStep ==
    ASSUME AFInv, UNCHANGED <<afRequest, afFlow, afTaken>>, AFTypeOK',
           afExcused => afExcused', afBox # None \/ afPosts' > afPosts => afBox' # None \/ afExcused',
           afRequest = None => UNCHANGED <<afSaved, afBox, afPosts>>,
           UNCHANGED afPosts \/ afPosts' > afPosts
    PROVE  AFInv'
<1>1. \A h \in Handles : afFlow'[h] # None => FlowInv(afRequest', afFlow'[h])
  BY DEF AFInv, FlowInv
<1>2. afPosts' > 0 => \/ afExcused' \/ afBox' # None \/ afTaken' # {}
                      \/ \E h \in Handles : afFlow'[h] # None /\ Carries(afFlow'[h])
  BY DEF AFInv
<1> QED BY <1>1, <1>2 DEF AFInv, Carries

LEMMA FlowSendStep ==
    ASSUME AFInv, NEW m \in Messages, Send(m), afRequest # None
    PROVE  AFInv'
<1>1. AFTypeOK'
  BY FlowAssumption DEF AFInv, AFTypeOK, Send, Post
<1>2. afBox' # None /\ afPosts' > afPosts
  BY FlowAssumption DEF AFInv, AFTypeOK, Send, Post
<1> QED BY <1>1, <1>2, FlowChannelStep DEF Send

LEMMA FlowSignerStep ==
    ASSUME AFInv, NEW k \in Identities, NEW caps \in Approvals,
           ApproveGrant(k, caps) \/ ApproveCookie(k, caps)
    PROVE  AFInv'
<1>1. afRequest \in Requests /\ afRequest # None
  BY DEF AFInv, AFTypeOK, ApproveGrant, ApproveCookie, Selectable
<1>2. afPosts + 1 \in 1..MaxPosts
  BY FlowAssumption DEF AFInv, AFTypeOK, ApproveGrant, ApproveCookie, Send, Post
<1>3. /\ BuildGrant(afRequest, k, caps, afPosts + 1) \in Messages
      /\ BuildToken(k, caps, afPosts + 1) \in Messages
  BY <1>1, <1>2 DEF Messages
<1> QED BY <1>1, <1>3, FlowSendStep DEF ApproveGrant, ApproveCookie

LEMMA FlowStrayStep ==
    ASSUME AFInv, NEW m \in Strays, StrayPost(m)
    PROVE  AFInv'
<1>1. afPosts + 1 \in 1..MaxPosts
  BY FlowAssumption DEF AFInv, AFTypeOK, StrayPost, Send, Post
<1>2. [m EXCEPT !.id = afPosts + 1] \in Messages
  BY <1>1 DEF Messages
<1> QED BY <1>2, FlowSendStep DEF StrayPost

LEMMA FlowNext == AFInv /\ [AFNext]_afVars => AFInv'
  <1> SUFFICES ASSUME AFInv, [AFNext]_afVars PROVE AFInv'
    OBVIOUS
  <1>1. CASE UNCHANGED afVars
    BY <1>1, FlowChannelStep DEF afVars, AFInv, AFTypeOK, Flows
  <1>2. ASSUME NEW req \in Requests, StartGrant(req) \/ StartDelegated(req) \/ StartCookie(req)
        PROVE  AFInv'
    <2>1. OpenFlow(req) /\ afKey' \in BOOLEAN
      BY <1>2 DEF AFInv, AFTypeOK, StartGrant, StartDelegated, StartCookie, EnsureKey
    <2> QED BY <2>1, FlowOpenStep
  <1>3. ASSUME NEW h \in Handles, NEW ok \in BOOLEAN,
               \/ InboxTimeout(h) \/ PollFails(h) \/ ReceiveInbox(h, ok) \/ ReceiveLink(h, ok)
               \/ Acknowledge(h, ok) \/ LinkPollLost(h, ok)
        PROVE  AFInv'
    BY <1>3, FlowListenerStep
  <1>4. ASSUME NEW h \in Handles, NEW ok \in BOOLEAN,
               \/ NothingYet(h) \/ TakeResult(h) \/ DropFlow(h)
               \/ AwaitApproval(h) \/ TryPollOnce(h) \/ CookieCall(h)
               \/ ExchangeGrant(h, ok) \/ ExchangeDelegated(h, ok) \/ ExchangeToken(h, ok)
        PROVE  AFInv'
    <2>1. \/ AwaitCall(h) \/ PollCall(h) \/ NothingYet(h) \/ TakeResult(h) \/ EndCall(h, ok)
          \/ DropFlow(h)
      BY <1>4 DEF AwaitApproval, TryPollOnce, CookieCall, ExchangeGrant, ExchangeDelegated, ExchangeToken
    <2> QED BY <2>1, FlowCallStep
  <1>5. ASSUME NEW h \in Handles, SaveLocal(h) \/ SaveDelegated(h) PROVE AFInv'
    <2>1. AFTypeOK' /\ UNCHANGED <<afRequest, afFlow, afBox, afPosts, afExcused, afTaken>>
      BY <1>5 DEF AFInv, AFTypeOK, SaveLocal, SaveDelegated
    <2>2. afRequest # None
      BY <1>5 DEF AFInv, SaveLocal, SaveDelegated, Borrowable, Live
    <2>3. ~(afPosts' > afPosts)
      BY <2>1 DEF AFInv, AFTypeOK
    <2> QED BY <2>1, <2>2, <2>3, FlowChannelStep
  <1>6. ASSUME NEW h \in Handles, RestoreLocal(h) \/ RestoreDelegated(h) \/ ResumeCookie(h)
        PROVE  AFInv'
    <2>1. Resume(h) /\ (afSaved \in {"local", "delegated"} \/ afRequest # None)
      BY <1>6 DEF RestoreLocal, RestoreDelegated, ResumeCookie
    <2>2. afRequest # None
      BY <2>1, FlowAssumption DEF AFInv
    <2> QED BY <2>1, <2>2, FlowResumeStep
  <1>7. ASSUME NEW k \in Identities, NEW caps \in Approvals,
               ApproveGrant(k, caps) \/ ApproveCookie(k, caps)
        PROVE  AFInv'
    BY <1>7, FlowSignerStep
  <1>8. ASSUME NEW m \in Strays, StrayPost(m) PROVE AFInv'
    BY <1>8, FlowStrayStep
  <1>9. CASE RelayExpires
    <2>1. AFTypeOK' /\ afRequest # None
      BY <1>9 DEF AFInv, AFTypeOK, RelayExpires
    <2> QED BY <1>9, <2>1, FlowChannelStep DEF RelayExpires
  <1>10. CASE ClearKeys
    <2>1. AFTypeOK'
      BY <1>10 DEF AFInv, AFTypeOK, ClearKeys
    <2>2. ~(afPosts' > afPosts)
      BY <1>10 DEF AFInv, AFTypeOK, ClearKeys
    <2> QED BY <1>10, <2>1, <2>2, FlowChannelStep DEF ClearKeys
  <1> QED BY <1>1, <1>2, <1>3, <1>4, <1>5, <1>6, <1>7, <1>8, <1>9, <1>10 DEF AFNext

LEMMA FlowAnswers == AFInv => FlowSound
  <1> SUFFICES ASSUME AFInv PROVE FlowSound
    OBVIOUS
  <1>1. ApprovalAnswersRequest
    <2> SUFFICES ASSUME NEW h \in Handles, afFlow[h] # None, afFlow[h].session # None, afRequest.grant
                 PROVE  LET m == afFlow[h].session IN
                          /\ m.client = "app" /\ afRequest.expected \in {None, m.iss}
                          /\ \A c \in m.caps : \E r \in afRequest.caps :
                               r[2] = c[2] /\ r[1] \in {c[1], "root"}
                          /\ afRequest.signed => /\ m.signer = m.iss
                                                 /\ m.keys = {c[1] : c \in {x \in m.caps : x[2] = "e"}}
                          /\ ~afRequest.signed => m.keys = {}
      BY DEF ApprovalAnswersRequest
    <2> DEFINE m == afFlow[h].session
    <2>1. m \in Messages /\ Decodes(afRequest, m)
      BY DEF AFInv, AFTypeOK, FlowInv, Flows
    <2> HIDE DEF m
    <2>2. ValidApproval(afRequest, m)
      BY <2>1 DEF Decodes
    <2>3. \A c \in m.caps : \E r \in afRequest.caps : r[2] = c[2] /\ r[1] \in {c[1], "root"}
      BY <2>2 DEF ValidApproval, Covered, ScopeCoversPath
    <2>4. afRequest.signed => /\ m.signer = m.iss
                              /\ m.keys = {c[1] : c \in {x \in m.caps : x[2] = "e"}}
      BY <2>2 DEF ValidApproval, DecodeGrant, GrantsEncryptionKeys
    <2>5. ~afRequest.signed => m.keys = {}
      BY <2>1, <2>2, MessageFacts DEF ValidApproval, DecodeGrant
    <2>6. m.client = "app" /\ afRequest.expected \in {None, m.iss}
      BY <2>2 DEF ValidApproval
    <2> QED BY <2>3, <2>4, <2>5, <2>6 DEF m
  <1>2. ApprovalSurvives
    <2>1. ASSUME NEW h \in Handles, afFlow[h] # None, Carries(afFlow[h])
          PROVE  {afFlow[h].hand, afFlow[h].rx} \ {None, Failed} # {}
      BY <2>1, FlowAssumption DEF Carries
    <2> QED BY <2>1 DEF AFInv, ApprovalSurvives
  <1> QED BY <1>1, <1>2 DEF FlowSound, AFInv

\* However many handles the app resumes and whatever is posted to the channel, a
\* session answers the app's own request, and no approval is lost between the relay
\* and the app (grant/flow.rs, relay/http_relay_inbox_channel.rs).
THEOREM FlowIsSound == AFSpec => []FlowSound
  <1>1. AFInit => AFInv
    <2> SUFFICES ASSUME AFInit PROVE AFInv
      OBVIOUS
    <2>1. afPosts \in 0..MaxPosts
      BY FlowAssumption DEF AFInit
    <2>2. AFTypeOK
      BY <2>1 DEF AFInit, AFTypeOK
    <2>3. \A h \in Handles : afFlow[h] = None
      BY DEF AFInit
    <2> QED BY <2>2, <2>3 DEF AFInit, AFInv
  <1>2. AFInv /\ [AFNext]_afVars => AFInv'
    BY FlowNext
  <1>3. AFInv => FlowSound
    BY FlowAnswers
  <1> QED BY <1>1, <1>2, <1>3, PTL DEF AFSpec

-----------------------------------------------------------------------------
(* The reader of a stream: over any closures, homeserver changes and resumes  *)
(* it misses no event of a user it asked for that no stream skipped.          *)

EventLine == [user : EsUsers, kind : EsKinds, path : EsPaths]
DataLine == [t : {"path", "cursor", "hash"}, v : EsUsers \cup Nat \cup {None}]
SseBlock == [kind : EsKinds \cup {"message"}, data : Seq(DataLine)]
Cursors == UNION {[S -> Nat] : S \in SUBSET EsUsers}
Stream == [server : EsServers, query : EsQueries, cursors : Cursors,
           next : Nat, sent : Nat, wire : Seq(Nat), line : Nat, block : SseBlock,
           open : BOOLEAN, closing : BOOLEAN, tail : BOOLEAN]

\* The decoder's block after n lines of the block of an event.
BlockAfter(ev, id, n) ==
    [kind |-> IF n < 2 THEN "message" ELSE ev.kind,
     data |-> IF n < 3 THEN <<>>
              ELSE IF n = 3 THEN Append(<<>>, Line("path", ev.user))
              ELSE IF n = 4 THEN Append(Append(<<>>, Line("path", ev.user)), Line("cursor", id))
              ELSE Append(Append(Append(<<>>, Line("path", ev.user)), Line("cursor", id)), Line("hash", None))]

LinesOf(ev) == IF ev.kind = "PUT" THEN 6 ELSE 5

\* The lines of a block, one by one.
LEMMA BlockLines ==
    ASSUME NEW ev \in EventLine, NEW id
    PROVE  /\ Len(Block(ev, id)) = LinesOf(ev)
           /\ Block(ev, id)[1] = Line("comment", None) /\ Block(ev, id)[2] = Line("event", ev.kind)
           /\ Block(ev, id)[3] = Line("path", ev.user) /\ Block(ev, id)[4] = Line("cursor", id)
           /\ ev.kind = "PUT" => Block(ev, id)[5] = Line("hash", None)
           /\ Block(ev, id)[LinesOf(ev)] = Line("end", None)
<1> DEFINE first == <<Line("comment", None), Line("event", ev.kind), Line("path", ev.user), Line("cursor", id)>>
<1>1. CASE ev.kind = "PUT"
  <2>1. Block(ev, id) = (first \o <<Line("hash", None)>>) \o <<Line("end", None)>>
    BY <1>1 DEF Block
  <2> QED
    BY <1>1, <2>1 DEF LinesOf
<1>2. CASE ev.kind # "PUT"
  <2>1. Block(ev, id) = (first \o <<>>) \o <<Line("end", None)>>
    BY <1>2 DEF Block
  <2> QED
    BY <1>2, <2>1 DEF LinesOf
<1> QED
  BY <1>1, <1>2

\* Every line but the last brings the decoder on, and the last ends the block.
LEMMA DecodeLine ==
    ASSUME NEW ev \in EventLine, NEW id, NEW n \in 1..LinesOf(ev)
    PROVE  LET line == Block(ev, id)[n]
               block == DecodedEvent(BlockAfter(ev, id, n - 1), line)
           IN /\ line.t = "end" <=> n = LinesOf(ev)
              /\ n # LinesOf(ev) => block = BlockAfter(ev, id, n)
              /\ n = LinesOf(ev) => block = BlockAfter(ev, id, n - 1)
<1> DEFINE path == Line("path", ev.user)  cursor == Line("cursor", id)  hash == Line("hash", None)
           B(k) == BlockAfter(ev, id, k)
<1>1. /\ B(0) = [kind |-> "message", data |-> <<>>] /\ B(1) = [kind |-> "message", data |-> <<>>]
      /\ B(2) = [kind |-> ev.kind, data |-> <<>>] /\ B(3) = [kind |-> ev.kind, data |-> Append(<<>>, path)]
      /\ B(4) = [kind |-> ev.kind, data |-> Append(Append(<<>>, path), cursor)]
      /\ B(5) = [kind |-> ev.kind, data |-> Append(Append(Append(<<>>, path), cursor), hash)]
  BY DEF BlockAfter
<1>2. ASSUME NEW b, NEW t \in {"comment", "end"} PROVE DecodedEvent(b, Line(t, None)) = b
  BY DEF DecodedEvent, Line
<1>3. DecodedEvent(B(1), Line("event", ev.kind)) = B(2)
  <2> HIDE DEF B
  <2> QED
    BY <1>1 DEF DecodedEvent, Line
<1>4. ASSUME NEW k, NEW data, NEW t \in {"path", "cursor", "hash"}, NEW v
      PROVE DecodedEvent([kind |-> k, data |-> data], Line(t, v)) = [kind |-> k, data |-> Append(data, Line(t, v))]
  BY DEF DecodedEvent, Line
<1>6. DecodedEvent(B(2), path) = B(3) /\ DecodedEvent(B(3), cursor) = B(4) /\ DecodedEvent(B(4), hash) = B(5)
  <2>1. \A k, data : /\ DecodedEvent([kind |-> k, data |-> data], path) = [kind |-> k, data |-> Append(data, path)]
                     /\ DecodedEvent([kind |-> k, data |-> data], cursor) = [kind |-> k, data |-> Append(data, cursor)]
                     /\ DecodedEvent([kind |-> k, data |-> data], hash) = [kind |-> k, data |-> Append(data, hash)]
    <3> TAKE k, data
    <3>1. DecodedEvent([kind |-> k, data |-> data], path) = [kind |-> k, data |-> Append(data, path)]
      BY <1>4
    <3>2. DecodedEvent([kind |-> k, data |-> data], cursor) = [kind |-> k, data |-> Append(data, cursor)]
      BY <1>4
    <3>3. DecodedEvent([kind |-> k, data |-> data], hash) = [kind |-> k, data |-> Append(data, hash)]
      BY <1>4
    <3> QED
      BY <3>1, <3>2, <3>3
  <2> HIDE DEF B, path, cursor, hash
  <2>2. DecodedEvent(B(2), path) = B(3)
    BY <1>1, <2>1
  <2>3. DecodedEvent(B(3), cursor) = B(4)
    BY <1>1, <2>1
  <2>4. DecodedEvent(B(4), hash) = B(5)
    BY <1>1, <2>1
  <2> QED
    BY <2>2, <2>3, <2>4
<1>7. \A t \in {"comment", "event", "path", "cursor", "hash", "end"} : \A v : Line(t, v).t = t
  BY DEF Line
<1> HIDE DEF B
<1>8. CASE n = LinesOf(ev)
  <2>1. Block(ev, id)[n] = Line("end", None)
    BY <1>8, BlockLines
  <2> QED
    BY <1>2, <1>7, <1>8, <2>1 DEF B
<1>9. CASE n # LinesOf(ev)
  <2>1. n \in 1..5 /\ (n = 5 => ev.kind = "PUT")
    BY <1>9 DEF LinesOf
  <2>2. CASE n = 1
    BY <1>1, <1>2, <1>7, <1>9, <2>2, BlockLines DEF B
  <2>3. CASE n = 2
    BY <1>3, <1>7, <1>9, <2>3, BlockLines DEF B
  <2>4. CASE n = 3
    BY <1>6, <1>7, <1>9, <2>4, BlockLines DEF B
  <2>5. CASE n = 4
    BY <1>6, <1>7, <1>9, <2>5, BlockLines DEF B
  <2>6. CASE n = 5
    BY <1>6, <1>7, <1>9, <2>1, <2>6, BlockLines DEF B
  <2> QED
    BY <2>1, <2>2, <2>3, <2>4, <2>5, <2>6
<1> QED
  BY <1>8, <1>9

\* A whole block of a known kind is parsed as the event that was sent.
LEMMA ParsedWhole ==
    ASSUME NEW ev \in EventLine, NEW id
    PROVE  Parsed(BlockAfter(ev, id, LinesOf(ev) - 1)) =
             IF ev.kind \in {"PUT", "DEL"} THEN [user |-> ev.user, id |-> id] ELSE Failed
<1> DEFINE b == BlockAfter(ev, id, LinesOf(ev) - 1)
           path == Line("path", ev.user)  cursor == Line("cursor", id)  hash == Line("hash", None)
<1>0. path.t = "path" /\ cursor.t = "cursor" /\ hash.t = "hash" /\ cursor.v = id /\ path.v = ev.user
  BY DEF Line
<1>1. /\ b.kind = ev.kind
      /\ b.data = IF ev.kind = "PUT" THEN Append(Append(Append(<<>>, path), cursor), hash)
                 ELSE Append(Append(<<>>, path), cursor)
  BY DEF BlockAfter, LinesOf
<1> HIDE DEF b, path, cursor, hash
<1>2. DataOf(b, "cursor") = {cursor}
  <2>1. CASE ev.kind = "PUT"
    <3>1. {j \in DOMAIN b.data : b.data[j].t = "cursor"} = {2} /\ b.data[2] = cursor
      BY <1>0, <1>1, <2>1
    <3> QED
      BY <3>1 DEF DataOf
  <2>2. CASE ev.kind # "PUT"
    <3>1. {j \in DOMAIN b.data : b.data[j].t = "cursor"} = {2} /\ b.data[2] = cursor
      BY <1>0, <1>1, <2>2
    <3> QED
      BY <3>1 DEF DataOf
  <2> QED
    BY <2>1, <2>2
<1>3. ev.kind = "PUT" => HasHash(b)
  <2>1. ev.kind = "PUT" => 3 \in {j \in DOMAIN b.data : b.data[j].t = "hash"}
    BY <1>0, <1>1
  <2> QED
    BY <2>1 DEF HasHash, DataOf
<1>4. b.data # <<>> /\ b.data[1] = path
  BY <1>1
<1> QED
  BY <1>0, <1>1, <1>2, <1>3, <1>4 DEF Parsed, b

EsShape ==
    /\ esLog \in [EsServers -> Seq(EventLine)] /\ \A s \in EsServers : Len(esLog[s]) <= MaxEsEvents
    /\ esHome \in [EsUsers -> EsServers] /\ esCursor \in [EsUsers -> 0..MaxEsEvents]
    /\ esGot \in Seq(EsServers \X Nat)
    /\ \A j \in 1..Len(esGot) : esGot[j][2] \in 1..Len(esLog[esGot[j][1]])
    /\ esConn # None => /\ esConn \in Stream /\ esConn.next \in 1..(Len(esLog[esConn.server]) + 1)
                        /\ Len(esConn.block.data) <= 3

\* Only a user that moved has events on two homeservers.
HomeInv ==
    \A s \in EsServers : \A i \in 1..Len(esLog[s]) :
        esLog[s][i].user \notin esMoved => s = esHome[esLog[s][i].user]

\* What the application got of a user, up to its cursor, is all there is and in order.
GotInv ==
    \A u \in EsUsers \ esMoved :
        /\ esCursor[u] <= Len(esLog[esHome[u]])
        /\ \A j \in GotOf(u, esHome[u]) : esGot[j][2] <= esCursor[u]
        /\ \A i, j \in GotOf(u, esHome[u]) : i < j => esGot[i][2] < esGot[j][2]
        /\ \A e \in EventsOf(u, esHome[u]) : e <= esCursor[u] =>
             \E j \in GotOf(u, esHome[u]) : esGot[j][2] = e

\* The events under way, in order, the first of them decoded up to its line.
WireInv ==
    esConn # None /\ esConn.open =>
        /\ \A k \in 1..Len(esConn.wire) :
             esConn.wire[k] \in 1..(esConn.next - 1) /\ Wanted(esConn, esConn.wire[k])
        /\ \A k, l \in 1..Len(esConn.wire) : k < l => esConn.wire[k] < esConn.wire[l]
        /\ esConn.wire = <<>> => esConn.line = 1 /\ esConn.block = EmptyBlock
        /\ esConn.wire # <<>> =>
             LET id == esConn.wire[1]  ev == esLog[esConn.server][id]
             IN esConn.line \in 1..LinesOf(ev) /\ esConn.block = BlockAfter(ev, id, esConn.line - 1)

\* Of a user of the stream, every event that was asked for and passed was delivered or is
\* under way, and none under way was delivered.
PassedInv ==
    esConn # None /\ esConn.open =>
        \A u \in (EsUsers \ esMoved) \cap DOMAIN esConn.cursors :
            /\ esConn.cursors[u] <= esCursor[u]
            /\ esCursor[u] > esConn.cursors[u] => esCursor[u] < esConn.next
            /\ \A k \in 1..Len(esConn.wire) :
                 esLog[esConn.server][esConn.wire[k]].user = u => esConn.wire[k] > esCursor[u]
            /\ \A e \in EventsOf(u, esConn.server) :
                 e > esCursor[u] /\ e < esConn.next => \E k \in 1..Len(esConn.wire) : esConn.wire[k] = e

EsInv == EsShape /\ HomeInv /\ GotInv /\ WireInv /\ PassedInv

LEMMA EsBegins == EsInit => EsInv
<1> SUFFICES ASSUME EsInit PROVE EsInv
  OBVIOUS
<1>1. EsShape
  BY ReaderAssumption DEF EsInit, EsShape
<1>2. HomeInv
  BY DEF EsInit, HomeInv
<1>3. GotInv
  BY DEF EsInit, GotInv, GotOf, EventsOf
<1>4. WireInv /\ PassedInv
  BY DEF EsInit, WireInv, PassedInv
<1> QED
  BY <1>1, <1>2, <1>3, <1>4 DEF EsInv

\* A step that changes the stream alone, or closes it.
LEMMA StreamMoves ==
    ASSUME EsInv, UNCHANGED <<esLog, esSkipped, esHome, esCursor, esGot, esMoved>>,
           esConn' \in Stream, esConn'.next \in 1..(Len(esLog[esConn'.server]) + 1),
           Len(esConn'.block.data) <= 3, esConn'.open => WireInv' /\ PassedInv'
    PROVE  EsInv'
<1>0. EsShape /\ HomeInv /\ GotInv
  BY DEF EsInv
<1>1. EsShape'
  BY <1>0 DEF EsShape
<1>2. HomeInv' /\ GotInv'
  BY <1>0 DEF HomeInv, GotInv, GotOf, EventsOf
<1>3. WireInv' /\ PassedInv'
  BY DEF WireInv, PassedInv
<1> QED
  BY <1>1, <1>2, <1>3 DEF EsInv

LEMMA EndStreamStep ==
    ASSUME EsInv, NEW b \in BOOLEAN, EndStream(b)
    PROVE  EsInv'
<1>0. EsShape
  BY DEF EsInv
<1>1. esConn # None /\ esConn' = [esConn EXCEPT !.open = FALSE, !.wire = <<>>, !.line = 1]
  BY DEF EndStream
<1>2. esConn \in Stream /\ esConn.next \in 1..(Len(esLog[esConn.server]) + 1) /\ Len(esConn.block.data) <= 3
  BY <1>0, <1>1 DEF EsShape
<1>3. /\ esConn' \in Stream /\ esConn'.next = esConn.next /\ esConn'.server = esConn.server
      /\ esConn'.block = esConn.block /\ ~esConn'.open
  <2>1. <<>> \in Seq(Nat) /\ 1 \in Nat
    OBVIOUS
  <2>2. esConn' = [[[esConn EXCEPT !.open = FALSE] EXCEPT !.wire = <<>>] EXCEPT !.line = 1]
    BY <1>1
  <2>3. esConn' \in Stream
    BY <1>2, <2>1, <2>2 DEF Stream
  <2> QED
    BY <1>2, <2>2, <2>3 DEF Stream
<1>4. UNCHANGED <<esLog, esSkipped, esHome, esCursor, esGot, esMoved>>
  BY DEF EndStream
<1> QED
  BY <1>2, <1>3, <1>4, StreamMoves

\* A stream of a valid query begins at the first event, from the cursors the application has.
LEMMA SubscribeStep ==
    ASSUME EsInv, NEW q \in EsQueries, Subscribe(q)
    PROVE  EsInv'
<1>0. EsShape
  BY DEF EsInv
<1> DEFINE users == {q.users[i] : i \in DOMAIN q.users}
<1>1. esConn' = [server |-> ServerOf(q), query |-> q, cursors |-> RequestCursors(q),
                 next |-> 1, sent |-> 0, wire |-> <<>>, line |-> 1, block |-> EmptyBlock,
                 open |-> TRUE, closing |-> FALSE, tail |-> FALSE]
  BY DEF Subscribe, FirstBlock
<1>2. UNCHANGED <<esLog, esSkipped, esHome, esCursor, esGot, esMoved>>
  BY DEF Subscribe
<1>3. q.users \in Seq(EsUsers) /\ q.users # <<>> /\ q.server \in EsServers \cup {None}
  BY ReaderAssumption DEF Subscribe, ValidQuery
<1>4. users \in SUBSET EsUsers
  BY <1>3
<1>5. ServerOf(q) \in EsServers
  <2>1. q.users[1] \in EsUsers
    BY <1>3
  <2> QED
    BY <1>0, <1>3, <2>1 DEF ServerOf, EsShape
<1>6. RequestCursors(q) \in Cursors
      /\ RequestCursors(q) = [u \in users |-> esCursor[u]]
  <2>1. RequestCursors(q) = [u \in users |-> esCursor[u]]
    BY DEF RequestCursors
  <2>2. \A u \in users : esCursor[u] \in Nat
    BY <1>0, <1>4, ReaderAssumption DEF EsShape
  <2> HIDE DEF users
  <2>3. RequestCursors(q) \in [users -> Nat]
    BY <2>1, <2>2
  <2> QED
    BY <1>4, <2>1, <2>3 DEF Cursors
<1>7. EmptyBlock \in SseBlock /\ Len(EmptyBlock.data) <= 3
  BY DEF EmptyBlock, SseBlock
<1> HIDE DEF users
<1>8. /\ esConn' \in Stream /\ esConn'.server = ServerOf(q) /\ esConn'.next = 1
      /\ esConn'.block = EmptyBlock /\ esConn'.wire = <<>> /\ esConn'.line = 1
      /\ esConn'.cursors = [u \in users |-> esCursor[u]]
  <2> HIDE DEF EmptyBlock
  <2>1. esConn'.server = ServerOf(q) /\ esConn'.next = 1
      /\ esConn'.block = EmptyBlock /\ esConn'.wire = <<>> /\ esConn'.line = 1
      /\ esConn'.cursors = RequestCursors(q)
    BY <1>1
  <2>2. esConn' \in Stream
    BY <1>1, <1>5, <1>6, <1>7 DEF Stream
  <2> QED
    BY <2>1, <2>2, <1>6
<1>9. WireInv'
  <2>1. Len(esConn'.wire) = 0
    BY <1>8
  <2> QED
    BY <1>8, <2>1 DEF WireInv
<1>10. PassedInv'
  <2> SUFFICES ASSUME NEW u \in (EsUsers \ esMoved) \cap DOMAIN esConn'.cursors
         PROVE /\ esConn'.cursors[u] <= esCursor[u]
               /\ ~(esCursor[u] > esConn'.cursors[u])
               /\ Len(esConn'.wire) = 0
               /\ \A e \in EventsOf(u, esConn'.server) : ~(e < esConn'.next)
    BY <1>2 DEF PassedInv, EventsOf
  <2>1. esConn'.cursors[u] = esCursor[u] /\ esCursor[u] \in Nat
    BY <1>0, <1>8, ReaderAssumption DEF EsShape
  <2>2. \A e \in EventsOf(u, esConn'.server) : e \in 1..Len(esLog[esConn'.server])
    <3>1. esLog[esConn'.server] \in Seq(EventLine)
      BY <1>0, <1>5, <1>8 DEF EsShape
    <3> QED
      BY <3>1 DEF EventsOf
  <2> QED
    BY <1>8, <2>1, <2>2
<1>11. Len(esLog[esConn'.server]) \in Nat
  BY <1>0, <1>5, <1>8 DEF EsShape
<1> QED
  BY <1>2, <1>7, <1>8, <1>9, <1>10, <1>11, StreamMoves

\* A user that moves is no longer promised anything.
LEMMA MoveUserStep ==
    ASSUME EsInv, NEW u0 \in EsUsers, NEW s0 \in EsServers, NEW b \in BOOLEAN, MoveUser(u0, s0, b)
    PROVE  EsInv'
<1>0. EsShape /\ HomeInv /\ GotInv /\ WireInv /\ PassedInv
  BY DEF EsInv
<1>1. /\ UNCHANGED <<esLog, esSkipped, esConn, esCursor, esGot>> /\ esMoved' = esMoved \cup {u0}
      /\ esHome' = [esHome EXCEPT ![u0] = s0]
  BY DEF MoveUser
<1>2. \A u \in EsUsers \ esMoved' : u \in EsUsers \ esMoved /\ esHome'[u] = esHome[u]
  BY <1>0, <1>1 DEF EsShape
<1>3. EsShape'
  BY <1>0, <1>1 DEF EsShape
<1>4. HomeInv'
  <2> SUFFICES ASSUME NEW s \in EsServers, NEW i \in 1..Len(esLog[s]), esLog[s][i].user \notin esMoved'
         PROVE s = esHome'[esLog[s][i].user]
    BY <1>1 DEF HomeInv
  <2>1. esLog[s] \in Seq(EventLine)
    BY <1>0 DEF EsShape
  <2>2. esLog[s][i] \in EventLine
    BY <2>1
  <2>3. esLog[s][i].user \in EsUsers
    BY <2>2 DEF EventLine
  <2> QED
    BY <1>0, <1>2, <2>3 DEF HomeInv
<1>5. GotInv'
  BY <1>0, <1>1, <1>2 DEF GotInv, GotOf, EventsOf
<1>6. WireInv' /\ PassedInv'
  <2>1. \A k : Wanted(esConn, k)' = Wanted(esConn, k)
    BY <1>1 DEF Wanted
  <2>2. WireInv'
    BY <1>0, <1>1, <2>1 DEF WireInv
  <2>3. \A u : EventsOf(u, esConn.server)' = EventsOf(u, esConn.server)
    BY <1>1 DEF EventsOf
  <2>4. PassedInv'
    BY <1>0, <1>1, <2>3 DEF PassedInv
  <2> QED
    BY <2>2, <2>4
<1> QED
  BY <1>3, <1>4, <1>5, <1>6 DEF EsInv

\* An event is logged behind all that a stream has passed.
LEMMA LogEventStep ==
    ASSUME EsInv, NEW u0 \in EsUsers, NEW k0 \in EsKinds, NEW p0 \in EsPaths, LogEvent(u0, k0, p0)
    PROVE  EsInv'
<1>0. EsShape /\ HomeInv /\ GotInv /\ WireInv /\ PassedInv
  BY DEF EsInv
<1>1. UNCHANGED <<esSkipped, esHome, esConn, esCursor, esGot, esMoved>>
  BY DEF LogEvent
<1> DEFINE s0 == esHome[u0]
           N == Len(esLog[s0])
           row == [user |-> u0, kind |-> k0, path |-> p0]
<1>2. s0 \in EsServers /\ esLog \in [EsServers -> Seq(EventLine)] /\ N \in Nat /\ N < MaxEsEvents
  BY <1>0 DEF EsShape, LogEvent
<1>3. row \in EventLine /\ row.user = u0
  BY DEF EventLine
<1>4. esLog' = [esLog EXCEPT ![s0] = Append(esLog[s0], row)]
  BY DEF LogEvent
<1> HIDE DEF row
<1>5. /\ esLog'[s0] = Append(esLog[s0], row)
      /\ \A s \in EsServers : s # s0 => esLog'[s] = esLog[s]
  BY <1>2, <1>4
<1>6. /\ esLog'[s0] \in Seq(EventLine) /\ Len(esLog'[s0]) = N + 1 /\ esLog'[s0][N + 1] = row
      /\ \A i \in 1..N : esLog'[s0][i] = esLog[s0][i]
  BY <1>2, <1>3, <1>5
<1>7. ASSUME NEW s \in EsServers
      PROVE  /\ esLog'[s] \in Seq(EventLine) /\ Len(esLog[s]) \in Nat
             /\ Len(esLog[s]) <= Len(esLog'[s]) /\ Len(esLog'[s]) <= MaxEsEvents
             /\ DOMAIN esLog[s] = 1..Len(esLog[s]) /\ DOMAIN esLog'[s] = 1..Len(esLog'[s])
             /\ \A i \in 1..Len(esLog[s]) : i \in 1..Len(esLog'[s]) /\ esLog'[s][i] = esLog[s][i]
             /\ \A i \in 1..Len(esLog'[s]) : i \in 1..Len(esLog[s]) \/ (s = s0 /\ i = N + 1)
  <2>1. CASE s = s0
    BY <1>2, <1>6, <2>1, ReaderAssumption
  <2>2. CASE s # s0
    <3>1. esLog'[s] = esLog[s] /\ esLog[s] \in Seq(EventLine) /\ Len(esLog[s]) <= MaxEsEvents
      BY <1>0, <1>5, <2>2 DEF EsShape
    <3> QED
      BY <3>1
  <2> QED
    BY <2>1, <2>2
<1> HIDE DEF N, s0
<1>8. esLog' \in [EsServers -> Seq(EventLine)]
  BY <1>2, <1>4, <1>7
<1>9. ASSUME NEW j \in 1..Len(esGot)
      PROVE /\ esGot[j][1] \in EsServers /\ esGot[j][2] \in 1..Len(esLog[esGot[j][1]])
            /\ esLog'[esGot[j][1]][esGot[j][2]] = esLog[esGot[j][1]][esGot[j][2]]
  <2>1. esGot[j] \in EsServers \X Nat /\ esGot[j][2] \in 1..Len(esLog[esGot[j][1]])
    BY <1>0 DEF EsShape
  <2> QED
    BY <1>7, <2>1
<1>10. EsShape'
  <2>1. \A j \in 1..Len(esGot) : esGot[j][2] \in 1..Len(esLog'[esGot[j][1]])
    BY <1>7, <1>9
  <2>2. esConn # None => /\ esConn.next \in 1..(Len(esLog'[esConn.server]) + 1)
    <3> SUFFICES ASSUME esConn # None PROVE esConn.next \in 1..(Len(esLog'[esConn.server]) + 1)
      OBVIOUS
    <3>1. esConn.server \in EsServers /\ esConn.next \in 1..(Len(esLog[esConn.server]) + 1)
      BY <1>0 DEF EsShape, Stream
    <3> QED
      BY <1>7, <3>1
  <2> QED
    BY <1>0, <1>1, <1>7, <1>8, <2>1, <2>2 DEF EsShape
<1>11. HomeInv'
  <2> SUFFICES ASSUME NEW s \in EsServers, NEW i \in 1..Len(esLog'[s]), esLog'[s][i].user \notin esMoved
         PROVE s = esHome[esLog'[s][i].user]
    BY <1>1 DEF HomeInv
  <2>1. CASE i \in 1..Len(esLog[s])
    BY <1>0, <1>7, <2>1 DEF HomeInv
  <2>2. CASE s = s0 /\ i = N + 1
    BY <1>3, <1>6, <2>2 DEF s0
  <2> QED
    BY <1>7, <2>1, <2>2
<1>13. GotInv'
  <2> SUFFICES ASSUME NEW u \in EsUsers \ esMoved
         PROVE  /\ esCursor[u] <= Len(esLog'[esHome[u]])
                /\ \A j \in GotOf(u, esHome[u])' : esGot[j][2] <= esCursor[u]
                /\ \A i, j \in GotOf(u, esHome[u])' : i < j => esGot[i][2] < esGot[j][2]
                /\ \A e \in EventsOf(u, esHome[u])' : e <= esCursor[u] =>
                     \E j \in GotOf(u, esHome[u])' : esGot[j][2] = e
    BY <1>1 DEF GotInv
  <2>1. esHome[u] \in EsServers /\ esCursor[u] \in Nat
    BY <1>0, ReaderAssumption DEF EsShape
  <2>2. /\ esCursor[u] <= Len(esLog[esHome[u]])
        /\ \A j \in GotOf(u, esHome[u]) : esGot[j][2] <= esCursor[u]
        /\ \A i, j \in GotOf(u, esHome[u]) : i < j => esGot[i][2] < esGot[j][2]
        /\ \A e \in EventsOf(u, esHome[u]) : e <= esCursor[u] =>
             \E j \in GotOf(u, esHome[u]) : esGot[j][2] = e
    BY <1>0 DEF GotInv
  <2>3. GotOf(u, esHome[u])' = GotOf(u, esHome[u])
    <3>1. GotOf(u, esHome[u])' = {j \in DOMAIN esGot : esGot[j][1] = esHome[u] /\ esLog'[esHome[u]][esGot[j][2]].user = u}
      BY <1>1 DEF GotOf
    <3>2. DOMAIN esGot = 1..Len(esGot)
      BY <1>0 DEF EsShape
    <3> QED
      BY <1>9, <3>1, <3>2 DEF GotOf
  <2>4. \A e \in EventsOf(u, esHome[u])' : e \in EventsOf(u, esHome[u]) \/ e = Len(esLog[esHome[u]]) + 1
    <3> DEFINE s == esHome[u]
    <3> SUFFICES ASSUME NEW e \in EventsOf(u, s)' PROVE e \in EventsOf(u, s) \/ e = Len(esLog[s]) + 1
      BY <1>1
    <3>1. e \in 1..Len(esLog'[s]) /\ esLog'[s][e].user = u /\ Promised(esLog'[s][e])
          /\ <<s, e>> \notin esSkipped
      BY <1>1, <1>7, <2>1 DEF EventsOf
    <3>2. CASE e \in 1..Len(esLog[s])
      BY <1>7, <2>1, <3>1, <3>2 DEF EventsOf
    <3>3. CASE s = s0 /\ e = N + 1
      BY <3>3 DEF N
    <3> QED
      BY <1>7, <2>1, <3>1, <3>2, <3>3
  <2>5. Len(esLog[esHome[u]]) \in Nat /\ Len(esLog'[esHome[u]]) \in Nat
        /\ Len(esLog[esHome[u]]) <= Len(esLog'[esHome[u]])
    BY <1>7, <2>1
  <2>6. \A e \in EventsOf(u, esHome[u])' : e <= esCursor[u] => e \in EventsOf(u, esHome[u])
    BY <2>1, <2>2, <2>4, <2>5
  <2> QED
    BY <2>1, <2>2, <2>3, <2>5, <2>6
<1>14. WireInv'
  <2> SUFFICES ASSUME esConn # None, esConn.open PROVE WireInv'
    BY <1>1 DEF WireInv
  <2>1. /\ esConn.server \in EsServers /\ esConn.next \in 1..(Len(esLog[esConn.server]) + 1)
        /\ esConn.wire \in Seq(Nat)
    BY <1>0 DEF EsShape, Stream
  <2>2. /\ \A k \in 1..Len(esConn.wire) :
             esConn.wire[k] \in 1..(esConn.next - 1) /\ Wanted(esConn, esConn.wire[k])
        /\ \A k, l \in 1..Len(esConn.wire) : k < l => esConn.wire[k] < esConn.wire[l]
        /\ esConn.wire = <<>> => esConn.line = 1 /\ esConn.block = EmptyBlock
        /\ esConn.wire # <<>> =>
             LET id == esConn.wire[1]  ev == esLog[esConn.server][id]
             IN esConn.line \in 1..LinesOf(ev) /\ esConn.block = BlockAfter(ev, id, esConn.line - 1)
    BY <1>0 DEF WireInv
  <2>3. \A k \in 1..Len(esConn.wire) : esLog'[esConn.server][esConn.wire[k]] = esLog[esConn.server][esConn.wire[k]]
    <3> SUFFICES ASSUME NEW k \in 1..Len(esConn.wire)
           PROVE esLog'[esConn.server][esConn.wire[k]] = esLog[esConn.server][esConn.wire[k]]
      OBVIOUS
    <3> DEFINE w == esConn.wire[k]  n == esConn.next  len == Len(esLog[esConn.server])
    <3>0. w \in 1..(n - 1) /\ n \in 1..(len + 1)
      BY <2>1, <2>2
    <3>01. len \in Nat
      BY <1>7, <2>1
    <3> HIDE DEF w, n, len
    <3>02. w \in 1..len
      BY <3>0, <3>01
    <3>1. esConn.wire[k] \in 1..Len(esLog[esConn.server])
      BY <3>02 DEF w, len
    <3> QED
      BY <1>7, <2>1, <3>1
  <2>4. \A k \in 1..Len(esConn.wire) : Wanted(esConn, esConn.wire[k])'
    BY <1>1, <2>2, <2>3 DEF Wanted
  <2>5. esConn.wire # <<>> => 1 \in 1..Len(esConn.wire)
    BY <2>1
  <2> QED
    BY <1>1, <2>2, <2>3, <2>4, <2>5 DEF WireInv
<1>15. PassedInv'
  <2> SUFFICES ASSUME esConn # None, esConn.open,
                 NEW u \in (EsUsers \ esMoved) \cap DOMAIN esConn.cursors
         PROVE  /\ esConn.cursors[u] <= esCursor[u]
                /\ esCursor[u] > esConn.cursors[u] => esCursor[u] < esConn.next
                /\ \A k \in 1..Len(esConn.wire) :
                     esLog'[esConn.server][esConn.wire[k]].user = u => esConn.wire[k] > esCursor[u]
                /\ \A e \in EventsOf(u, esConn.server)' :
                     e > esCursor[u] /\ e < esConn.next => \E k \in 1..Len(esConn.wire) : esConn.wire[k] = e
    BY <1>1 DEF PassedInv
  <2>1. /\ esConn.server \in EsServers /\ esConn.next \in 1..(Len(esLog[esConn.server]) + 1)
        /\ esConn.wire \in Seq(Nat)
    BY <1>0 DEF EsShape, Stream
  <2>2. \A k \in 1..Len(esConn.wire) : esLog'[esConn.server][esConn.wire[k]] = esLog[esConn.server][esConn.wire[k]]
    <3> SUFFICES ASSUME NEW k \in 1..Len(esConn.wire)
           PROVE esLog'[esConn.server][esConn.wire[k]] = esLog[esConn.server][esConn.wire[k]]
      OBVIOUS
    <3>0. esConn.wire[k] \in 1..(esConn.next - 1)
      BY <1>0 DEF WireInv
    <3> DEFINE w == esConn.wire[k]  n == esConn.next  len == Len(esLog[esConn.server])
    <3>01. n \in 1..(len + 1)
      BY <2>1
    <3>02. len \in Nat
      BY <1>7, <2>1
    <3>03. w \in 1..(n - 1)
      BY <3>0
    <3> HIDE DEF w, n, len
    <3>04. w \in 1..len
      BY <3>01, <3>02, <3>03
    <3>1. esConn.wire[k] \in 1..Len(esLog[esConn.server])
      BY <3>04 DEF w, len
    <3> QED
      BY <1>7, <2>1, <3>1
  <2>3. /\ esConn.cursors[u] <= esCursor[u]
        /\ esCursor[u] > esConn.cursors[u] => esCursor[u] < esConn.next
        /\ \A k \in 1..Len(esConn.wire) :
             esLog[esConn.server][esConn.wire[k]].user = u => esConn.wire[k] > esCursor[u]
        /\ \A e \in EventsOf(u, esConn.server) :
             e > esCursor[u] /\ e < esConn.next => \E k \in 1..Len(esConn.wire) : esConn.wire[k] = e
    BY <1>0 DEF PassedInv
  <2>4. ASSUME NEW e \in EventsOf(u, esConn.server)', e < esConn.next PROVE e \in EventsOf(u, esConn.server)
    <3> DEFINE s == esConn.server
    <3>1. e \in 1..Len(esLog'[s]) /\ esLog'[s][e].user = u /\ Promised(esLog'[s][e])
          /\ <<s, e>> \notin esSkipped
      BY <1>1, <1>7, <2>1 DEF EventsOf
    <3>2. e \in 1..Len(esLog[s])
      BY <1>7, <2>1, <2>4, <3>1 DEF N
    <3> QED
      BY <1>7, <2>1, <3>1, <3>2 DEF EventsOf
  <2> QED
    BY <2>2, <2>3, <2>4
<1> QED
  BY <1>10, <1>11, <1>13, <1>14, <1>15 DEF EsInv

\* The homeserver passes an event, and sends it when it is wanted.
LEMMA SendNextStep ==
    ASSUME EsInv, SendNext
    PROVE  EsInv'
<1>0. EsShape /\ HomeInv /\ GotInv /\ WireInv /\ PassedInv
  BY DEF EsInv
<1> DEFINE c == esConn
           i == c.next
<1>1. esConn # None /\ esConn.open /\ UNCHANGED <<esLog, esSkipped, esHome, esCursor, esGot, esMoved>>
  BY DEF SendNext, Streaming
<1>2. /\ c \in Stream /\ i \in 1..(Len(esLog[c.server]) + 1) /\ Len(c.block.data) <= 3
      /\ c.server \in EsServers /\ c.wire \in Seq(Nat) /\ c.sent \in Nat
  BY <1>0, <1>1 DEF EsShape, Stream
<1>3. CASE esConn' = [c EXCEPT !.closing = TRUE] \/ esConn' = [c EXCEPT !.tail = TRUE]
  <2>1. esConn' \in Stream /\ esConn'.next = c.next /\ esConn'.server = c.server /\ esConn'.block = c.block
        /\ esConn'.wire = c.wire /\ esConn'.line = c.line /\ esConn'.cursors = c.cursors
        /\ esConn'.query = c.query
    BY <1>2, <1>3 DEF Stream
  <2>2. WireInv' /\ PassedInv'
    <3>1. WireInv'
      BY <1>0, <1>1, <2>1 DEF WireInv, Wanted
    <3>2. PassedInv'
      BY <1>0, <1>1, <2>1 DEF PassedInv, EventsOf
    <3> QED
      BY <3>1, <3>2
  <2> QED
    BY <1>1, <1>2, <2>1, <2>2, StreamMoves
<1> DEFINE sent == IF Wanted(c, i) THEN c.sent + 1 ELSE c.sent
           wire == IF Wanted(c, i) THEN Append(c.wire, i) ELSE c.wire
<1>4. CASE ~(i > Len(esLog[c.server])) /\ esConn' = [c EXCEPT !.next = i + 1, !.sent = sent, !.wire = wire]
  <2>1. i \in 1..Len(esLog[c.server]) /\ Len(esLog[c.server]) \in Nat /\ Len(c.wire) \in Nat
    <3>1. esLog[c.server] \in Seq(EventLine)
      BY <1>0, <1>2 DEF EsShape
    <3>2. Len(esLog[c.server]) \in Nat
      BY <3>1
    <3> QED
      BY <1>2, <1>4, <3>2
  <2>2. sent \in Nat /\ wire \in Seq(Nat) /\ i + 1 \in Nat
    BY <1>2, <2>1
  <2> HIDE DEF sent, wire
  <2>3. esConn' \in Stream /\ esConn'.next = i + 1 /\ esConn'.server = c.server /\ esConn'.block = c.block
        /\ esConn'.wire = wire /\ esConn'.line = c.line /\ esConn'.cursors = c.cursors
        /\ esConn'.query = c.query
    BY <1>2, <1>4, <2>2 DEF Stream
  <2>4. /\ \A k \in 1..Len(c.wire) : c.wire[k] \in 1..(i - 1) /\ Wanted(c, c.wire[k])
        /\ \A k, l \in 1..Len(c.wire) : k < l => c.wire[k] < c.wire[l]
        /\ c.wire = <<>> => c.line = 1 /\ c.block = EmptyBlock
        /\ c.wire # <<>> =>
             LET id == c.wire[1]  ev == esLog[c.server][id]
             IN c.line \in 1..LinesOf(ev) /\ c.block = BlockAfter(ev, id, c.line - 1)
    BY <1>0, <1>1 DEF WireInv
  <2>5. /\ \A k \in 1..Len(c.wire) : k \in 1..Len(wire) /\ wire[k] = c.wire[k]
        /\ \A k \in 1..Len(wire) : k \in 1..Len(c.wire) \/ (k = Len(c.wire) + 1 /\ wire[k] = i /\ Wanted(c, i))
        /\ Wanted(c, i) => Len(c.wire) + 1 \in 1..Len(wire) /\ wire[Len(c.wire) + 1] = i
        /\ Len(wire) \in Nat
    <3>1. CASE Wanted(c, i)
      <4>1. wire = Append(c.wire, i)
        BY <3>1 DEF wire
      <4>2. Len(wire) = Len(c.wire) + 1 /\ wire[Len(c.wire) + 1] = i /\ \A k \in 1..Len(c.wire) : wire[k] = c.wire[k]
        BY <1>2, <2>1, <4>1
      <4> QED
        BY <2>1, <3>1, <4>2
    <3>2. CASE ~Wanted(c, i)
      BY <2>1, <3>2 DEF wire
    <3> QED
      BY <3>1, <3>2
  <2>6. \A k \in 1..Len(wire) : wire[k] \in 1..i /\ Wanted(c, wire[k])
    <3> SUFFICES ASSUME NEW k \in 1..Len(wire) PROVE wire[k] \in 1..i /\ Wanted(c, wire[k])
      OBVIOUS
    <3>1. CASE k \in 1..Len(c.wire)
      <4>1. wire[k] = c.wire[k] /\ c.wire[k] \in 1..(i - 1) /\ Wanted(c, c.wire[k])
        BY <2>4, <2>5, <3>1
      <4> QED
        BY <2>1, <4>1
    <3>2. CASE k = Len(c.wire) + 1 /\ wire[k] = i /\ Wanted(c, i)
      BY <2>1, <3>2
    <3> QED
      BY <2>5, <3>1, <3>2
  <2>7. \A k, l \in 1..Len(wire) : k < l => wire[k] < wire[l]
    <3> SUFFICES ASSUME NEW k \in 1..Len(wire), NEW l \in 1..Len(wire), k < l PROVE wire[k] < wire[l]
      OBVIOUS
    <3>1. k \in 1..Len(c.wire)
      BY <2>1, <2>5
    <3>2. wire[k] = c.wire[k] /\ c.wire[k] \in 1..(i - 1)
      BY <2>4, <2>5, <3>1
    <3>3. CASE l \in 1..Len(c.wire)
      BY <2>4, <2>5, <3>1, <3>3
    <3>4. CASE wire[l] = i
      BY <2>1, <3>2, <3>4
    <3> QED
      BY <2>5, <3>3, <3>4
  <2>8. WireInv'
    <3>1. (\A k \in 1..Len(esConn.wire) : esConn.wire[k] \in 1..(esConn.next - 1) /\ Wanted(esConn, esConn.wire[k]))'
      <4>1. esConn'.next - 1 = i
        BY <2>1, <2>3
      <4>2. \A k \in 1..Len(wire) : wire[k] \in 1..i /\ esLog[c.server][wire[k]].user \in DOMAIN c.cursors
                                    /\ wire[k] > c.cursors[esLog[c.server][wire[k]].user]
                                    /\ Matches(c.query, esLog[c.server][wire[k]])
        BY <2>6 DEF Wanted
      <4> QED
        BY <1>1, <2>3, <4>1, <4>2 DEF Wanted
    <3>2. esConn'.wire = <<>> => esConn'.line = 1 /\ esConn'.block = EmptyBlock
      <4>1. wire = <<>> => c.wire = <<>>
        <5>1. c.wire \in Seq(Nat)
          BY <1>2
        <5> DEFINE w == c.wire
        <5> HIDE DEF w
        <5>2. w \in Seq(Nat) /\ (wire = w \/ wire = Append(w, i))
          BY <5>1 DEF wire, w
        <5>3. i \in Nat => (Append(w, i) # <<>>)
          BY <5>2
        <5> QED
          BY <5>2, <5>3, <2>1 DEF w
      <4> QED
        BY <2>3, <2>4, <4>1
    <3>3. esConn'.wire # <<>> =>
             LET id == esConn'.wire[1]  ev == esLog[esConn'.server][id]
             IN esConn'.line \in 1..LinesOf(ev) /\ esConn'.block = BlockAfter(ev, id, esConn'.line - 1)
      <4>1. CASE c.wire # <<>>
        <5>1. 1 \in 1..Len(c.wire)
          BY <1>2, <4>1
        <5> QED
          BY <2>3, <2>4, <2>5, <4>1, <5>1
      <4>2. CASE c.wire = <<>>
        <5>1. c.line = 1 /\ c.block = EmptyBlock
          BY <2>4, <4>2
        <5>2. \A ev, id : 1 \in 1..LinesOf(ev) /\ EmptyBlock = BlockAfter(ev, id, 1 - 1)
          BY DEF LinesOf, EmptyBlock, BlockAfter
        <5> QED
          BY <2>3, <5>1, <5>2
      <4> QED
        BY <4>1, <4>2
    <3> QED
      BY <1>1, <2>3, <2>7, <3>1, <3>2, <3>3 DEF WireInv
  <2>9. PassedInv'
    <3> SUFFICES ASSUME NEW u \in (EsUsers \ esMoved) \cap DOMAIN c.cursors
           PROVE  /\ c.cursors[u] <= esCursor[u]
                  /\ esCursor[u] > c.cursors[u] => esCursor[u] < i + 1
                  /\ \A k \in 1..Len(wire) : esLog[c.server][wire[k]].user = u => wire[k] > esCursor[u]
                  /\ \A e \in EventsOf(u, c.server) :
                       e > esCursor[u] /\ e < i + 1 => \E k \in 1..Len(wire) : wire[k] = e
      BY <1>1, <2>3 DEF PassedInv, EventsOf
    <3>1. /\ c.cursors[u] <= esCursor[u]
          /\ esCursor[u] > c.cursors[u] => esCursor[u] < i
          /\ \A k \in 1..Len(c.wire) : esLog[c.server][c.wire[k]].user = u => c.wire[k] > esCursor[u]
          /\ \A e \in EventsOf(u, c.server) :
               e > esCursor[u] /\ e < i => \E k \in 1..Len(c.wire) : c.wire[k] = e
      BY <1>0, <1>1 DEF PassedInv
    <3>2. esCursor[u] \in Nat /\ c.cursors[u] \in Nat
      <4>1. c.cursors \in Cursors
        BY <1>2 DEF Stream
      <4> QED
        BY <1>0, <4>1, ReaderAssumption DEF Cursors, EsShape
    <3>3. ASSUME NEW k \in 1..Len(wire), esLog[c.server][wire[k]].user = u PROVE wire[k] > esCursor[u]
      <4>1. CASE k \in 1..Len(c.wire)
        BY <2>5, <3>1, <3>3, <4>1
      <4>2. CASE wire[k] = i /\ Wanted(c, i)
        <5>1. i > c.cursors[u]
          BY <3>3, <4>2 DEF Wanted
        <5> QED
          BY <2>1, <3>1, <3>2, <4>2, <5>1
      <4> QED
        BY <2>5, <4>1, <4>2
    <3>4. ASSUME NEW e \in EventsOf(u, c.server), e > esCursor[u], e < i + 1
          PROVE \E k \in 1..Len(wire) : wire[k] = e
      <4>1. /\ e \in 1..Len(esLog[c.server]) /\ esLog[c.server][e].user = u
            /\ Matches(c.query, esLog[c.server][e])
        <5>1. esLog[c.server] \in Seq(EventLine)
          BY <1>0, <1>2 DEF EsShape
        <5>2. c.query \in EsQueries
          BY <1>2 DEF Stream
        <5> QED
          BY <5>1, <5>2 DEF EventsOf, Promised
      <4>2. CASE e = i
        <5>1. i > c.cursors[u]
          BY <2>1, <3>1, <3>2, <3>4, <4>1, <4>2
        <5>2. Wanted(c, i)
          BY <4>1, <4>2, <5>1 DEF Wanted
        <5> QED
          BY <2>5, <4>2, <5>2
      <4>3. CASE e # i
        <5>1. e < i
          BY <2>1, <3>4, <4>1, <4>3
        <5> QED
          BY <2>5, <3>1, <3>4, <5>1
      <4> QED
        BY <4>2, <4>3
    <3>5. esCursor[u] > c.cursors[u] => esCursor[u] < i + 1
      BY <2>1, <3>1, <3>2
    <3> QED
      BY <3>1, <3>3, <3>4, <3>5
  <2>10. i + 1 \in 1..(Len(esLog[c.server]) + 1)
    BY <2>1
  <2> QED
    BY <1>1, <1>2, <2>3, <2>8, <2>9, <2>10, StreamMoves
<1>5. \/ esConn' = [c EXCEPT !.closing = TRUE] \/ esConn' = [c EXCEPT !.tail = TRUE]
      \/ ~(i > Len(esLog[c.server])) /\ esConn' = [c EXCEPT !.next = i + 1, !.sent = sent, !.wire = wire]
  BY DEF SendNext
<1> QED
  BY <1>3, <1>4, <1>5

\* A page that fails: what a live stream goes past is no longer promised.
LEMMA HistoryFailsStep ==
    ASSUME EsInv, NEW n \in 1..(MaxEsEvents + 1), HistoryFails(n)
    PROVE  EsInv'
<1>0. EsShape /\ HomeInv /\ GotInv /\ WireInv /\ PassedInv
  BY DEF EsInv
<1> DEFINE c == esConn
<1>1. /\ esConn # None /\ esConn.open /\ UNCHANGED <<esLog, esHome, esCursor, esGot, esMoved>>
      /\ n \in c.next..(Len(esLog[c.server]) + 1)
  BY DEF HistoryFails, Streaming
<1>2. /\ c \in Stream /\ c.next \in 1..(Len(esLog[c.server]) + 1) /\ Len(c.block.data) <= 3
      /\ c.server \in EsServers /\ c.wire \in Seq(Nat) /\ c.query \in EsQueries
  BY <1>0, <1>1 DEF EsShape, Stream
<1>3. esLog[c.server] \in Seq(EventLine) /\ Len(esLog[c.server]) \in Nat
  BY <1>0, <1>2 DEF EsShape
<1>4. CASE ~c.query.live
  <2>1. esConn' = [c EXCEPT !.closing = TRUE] /\ esSkipped' = esSkipped
    BY <1>4 DEF HistoryFails
  <2>2. /\ esConn' \in Stream /\ esConn'.next = c.next /\ esConn'.server = c.server
        /\ esConn'.block = c.block /\ esConn'.wire = c.wire /\ esConn'.line = c.line
        /\ esConn'.cursors = c.cursors /\ esConn'.query = c.query
    BY <1>2, <2>1 DEF Stream
  <2>3. WireInv'
    BY <1>0, <1>1, <2>2 DEF WireInv, Wanted
  <2>4. PassedInv'
    BY <1>0, <1>1, <2>1, <2>2 DEF PassedInv, EventsOf
  <2> QED
    BY <1>1, <1>2, <2>1, <2>2, <2>3, <2>4, StreamMoves
<1>5. CASE c.query.live
  <2> DEFINE lost == {<<c.server, i>> : i \in {k \in c.next..(n - 1) : Wanted(c, k)}}
  <2>1. esConn' = [c EXCEPT !.tail = TRUE, !.next = n] /\ esSkipped' = esSkipped \cup lost
    BY <1>5 DEF HistoryFails
  <2>2. n \in Nat /\ n \in 1..(Len(esLog[c.server]) + 1) /\ c.next <= n
    BY <1>1, <1>2, <1>3
  <2>3. /\ esConn' \in Stream /\ esConn'.next = n /\ esConn'.server = c.server
        /\ esConn'.block = c.block /\ esConn'.wire = c.wire /\ esConn'.line = c.line
        /\ esConn'.cursors = c.cursors /\ esConn'.query = c.query
    BY <1>2, <2>1, <2>2 DEF Stream
  <2>4. \A u, s : EventsOf(u, s)' \subseteq EventsOf(u, s) /\ GotOf(u, s)' = GotOf(u, s)
    BY <1>1, <2>1 DEF EventsOf, GotOf
  <2>5. EsShape' /\ HomeInv'
    BY <1>0, <1>1, <1>2, <2>2, <2>3 DEF EsShape, HomeInv
  <2>6. GotInv'
    BY <1>0, <1>1, <2>4 DEF GotInv
  <2>7. WireInv'
    <3>1. \A k \in 1..Len(c.wire) : c.wire[k] \in 1..(n - 1) /\ Wanted(c, c.wire[k])
      <4>1. \A k \in 1..Len(c.wire) : c.wire[k] \in 1..(c.next - 1) /\ Wanted(c, c.wire[k])
        BY <1>0, <1>1 DEF WireInv
      <4>2. \A x \in 1..(c.next - 1) : x \in 1..(n - 1)
        BY <1>2, <1>3, <2>2
      <4> QED
        BY <4>1, <4>2
    <3>2. \A k \in 1..Len(c.wire) : Wanted(esConn, c.wire[k])'
      BY <1>1, <2>3, <3>1 DEF Wanted
    <3> QED
      BY <1>0, <1>1, <2>3, <3>1, <3>2 DEF WireInv
  <2>8. PassedInv'
    <3> SUFFICES ASSUME NEW u \in (EsUsers \ esMoved) \cap DOMAIN c.cursors
           PROVE  /\ c.cursors[u] <= esCursor[u]
                  /\ esCursor[u] > c.cursors[u] => esCursor[u] < n
                  /\ \A k \in 1..Len(c.wire) : esLog[c.server][c.wire[k]].user = u => c.wire[k] > esCursor[u]
                  /\ \A e \in EventsOf(u, c.server)' :
                       e > esCursor[u] /\ e < n => \E k \in 1..Len(c.wire) : c.wire[k] = e
      BY <1>1, <2>3 DEF PassedInv, EventsOf
    <3>1. /\ c.cursors[u] <= esCursor[u]
          /\ esCursor[u] > c.cursors[u] => esCursor[u] < c.next
          /\ \A k \in 1..Len(c.wire) : esLog[c.server][c.wire[k]].user = u => c.wire[k] > esCursor[u]
          /\ \A e \in EventsOf(u, c.server) :
               e > esCursor[u] /\ e < c.next => \E k \in 1..Len(c.wire) : c.wire[k] = e
      BY <1>0, <1>1 DEF PassedInv
    <3>2. esCursor[u] \in Nat /\ c.cursors[u] \in Nat /\ c.next \in Nat
      <4>1. c.cursors \in Cursors /\ c.next \in Nat
        BY <1>2 DEF Stream
      <4> QED
        BY <1>0, <4>1, ReaderAssumption DEF Cursors, EsShape
    <3>3. ASSUME NEW e \in EventsOf(u, c.server)', e > esCursor[u], e < n, ~(e < c.next) PROVE FALSE
      <4>1. /\ e \in 1..Len(esLog[c.server]) /\ esLog[c.server][e].user = u
            /\ Matches(c.query, esLog[c.server][e]) /\ <<c.server, e>> \notin esSkipped'
        BY <1>1, <1>2, <1>3, <2>3 DEF EventsOf, Promised
      <4>2. e \in c.next..(n - 1) /\ e > c.cursors[u]
        BY <2>2, <3>1, <3>2, <3>3, <4>1
      <4>3. Wanted(c, e)
        BY <4>1, <4>2 DEF Wanted
      <4> QED
        BY <2>1, <4>1, <4>2, <4>3
    <3>4. esCursor[u] > c.cursors[u] => esCursor[u] < n
      BY <2>2, <3>1, <3>2
    <3>5. ASSUME NEW e \in EventsOf(u, c.server)', e > esCursor[u], e < n
          PROVE  \E k \in 1..Len(c.wire) : c.wire[k] = e
      <4> PICK s : s = c.server /\ s = c.server'
        BY <1>1, <2>3
      <4>1. e \in EventsOf(u, s)'
        BY <3>5
      <4>2. e \in EventsOf(u, s)
        BY <2>4, <4>1
      <4>3. e \in EventsOf(u, c.server) /\ e < c.next
        BY <3>3, <3>5, <4>2
      <4> QED
        BY <3>1, <3>5, <4>3
    <3> QED
      BY <3>1, <3>4, <3>5
  <2> QED
    BY <2>5, <2>6, <2>7, <2>8 DEF EsInv
<1> QED
  BY <1>4, <1>5

\* A line more: at the end of a block its event is delivered, behind all that were.
LEMMA ReceiveLineStep ==
    ASSUME EsInv, ReceiveLine
    PROVE  EsInv'
<1>0. EsShape /\ HomeInv /\ GotInv /\ WireInv /\ PassedInv
  BY DEF EsInv
<1> DEFINE c == esConn
           id == c.wire[1]
           ev == esLog[c.server][id]
           line == NextLine(c)
           block == DecodedEvent(c.block, line)
<1>1. /\ esConn # None /\ c.open /\ c.wire # <<>> /\ UNCHANGED <<esLog, esSkipped, esHome, esMoved>>
  BY DEF ReceiveLine
<1>2. /\ c \in Stream /\ c.next \in 1..(Len(esLog[c.server]) + 1) /\ Len(c.block.data) <= 3
      /\ c.server \in EsServers /\ c.wire \in Seq(Nat) /\ c.block \in SseBlock /\ c.line \in Nat
  BY <1>0, <1>1 DEF EsShape, Stream
<1>3. esLog[c.server] \in Seq(EventLine) /\ Len(esLog[c.server]) \in Nat /\ Len(esLog[c.server]) <= MaxEsEvents
  BY <1>0, <1>2 DEF EsShape
<1>4. 1 \in 1..Len(c.wire) /\ Head(c.wire) = id /\ Len(c.wire) \in Nat
  BY <1>1, <1>2
<1>5. /\ \A k \in 1..Len(c.wire) : c.wire[k] \in 1..(c.next - 1) /\ Wanted(c, c.wire[k])
      /\ \A k, l \in 1..Len(c.wire) : k < l => c.wire[k] < c.wire[l]
      /\ c.line \in 1..LinesOf(ev) /\ c.block = BlockAfter(ev, id, c.line - 1)
  BY <1>0, <1>1 DEF WireInv
<1>6. id \in 1..(c.next - 1) /\ id \in 1..Len(esLog[c.server]) /\ id \in 1..MaxEsEvents
  <2>1. id \in 1..(c.next - 1)
    BY <1>4, <1>5
  <2> QED
    BY <1>2, <1>3, <2>1, ReaderAssumption, SMTT(30)
<1>7. ev \in EventLine /\ ev.user \in EsUsers /\ ev.kind \in EsKinds
  <2>1. ev \in EventLine
    BY <1>3, <1>6
  <2> QED
    BY <2>1 DEF EventLine
<1>8. line = Block(ev, id)[c.line]
  BY <1>4 DEF NextLine
<1>b. block = DecodedEvent(BlockAfter(ev, id, c.line - 1), Block(ev, id)[c.line])
  BY <1>5, <1>8
<1> HIDE DEF line, block, id, ev
<1>9. /\ line.t = "end" <=> c.line = LinesOf(ev)
      /\ c.line # LinesOf(ev) => block = BlockAfter(ev, id, c.line)
      /\ c.line = LinesOf(ev) => block = BlockAfter(ev, id, c.line - 1)
  BY <1>5, <1>7, <1>8, <1>b, DecodeLine
<1>10. CASE line.t # "end"
  <2> DEFINE open == ~TooLarge(block, c.query.max)
  <2>1. /\ esConn' = [c EXCEPT !.line = c.line + 1, !.block = block, !.open = open]
        /\ UNCHANGED <<esCursor, esGot>>
    BY <1>10 DEF ReceiveLine, line, block
  <2>2. c.line + 1 \in 1..LinesOf(ev) /\ c.line + 1 \in Nat /\ block = BlockAfter(ev, id, (c.line + 1) - 1)
    BY <1>5, <1>9, <1>10 DEF LinesOf
  <2>3. block \in SseBlock /\ Len(block.data) <= 3
    <3>1. Line("path", ev.user) \in DataLine /\ Line("cursor", id) \in DataLine /\ Line("hash", None) \in DataLine
      <4>1. id \in Nat
        BY <1>6
      <4> QED
        BY <1>7, <4>1 DEF Line, DataLine
    <3>2. block = BlockAfter(ev, id, c.line) /\ c.line \in Nat
      BY <1>2, <1>9, <1>10
    <3> DEFINE d == block.data
    <3>3. d \in Seq(DataLine) /\ Len(d) <= 3
      BY <3>1, <3>2 DEF BlockAfter
    <3>4. block = [kind |-> IF c.line < 2 THEN "message" ELSE ev.kind, data |-> d]
      BY <3>2 DEF BlockAfter
    <3> HIDE DEF d
    <3>5. (IF c.line < 2 THEN "message" ELSE ev.kind) \in EsKinds \cup {"message"}
      BY <1>7
    <3> QED
      BY <3>3, <3>4, <3>5 DEF SseBlock
  <2>4. open \in BOOLEAN
    BY DEF TooLarge
  <2> HIDE DEF open
  <2>5. esConn' \in Stream /\ esConn'.next = c.next /\ esConn'.server = c.server /\ esConn'.block = block
        /\ esConn'.wire = c.wire /\ esConn'.line = c.line + 1 /\ esConn'.cursors = c.cursors
        /\ esConn'.query = c.query
    BY <1>2, <2>1, <2>2, <2>3, <2>4 DEF Stream
  <2>6. WireInv'
    BY <1>1, <1>5, <2>2, <2>5 DEF WireInv, Wanted, id, ev
  <2>7. PassedInv'
    BY <1>0, <1>1, <2>1, <2>5 DEF PassedInv, EventsOf
  <2> QED
    BY <1>1, <1>2, <2>1, <2>3, <2>5, <2>6, <2>7, StreamMoves
<1>11. CASE line.t = "end"
  <2> DEFINE known == ev.kind \in {"PUT", "DEL"}
  <2>1. Parsed(block) = IF known THEN [user |-> ev.user, id |-> id] ELSE Failed
    BY <1>7, <1>9, <1>11, ParsedWhole
  <2>2. esConn' = [c EXCEPT !.wire = Tail(c.wire), !.line = 1, !.block = EmptyBlock]
    BY <1>11 DEF ReceiveLine, line, block
  <2>3. IF known THEN /\ esCursor' = [esCursor EXCEPT ![ev.user] = id]
                      /\ esGot' = Append(esGot, <<c.server, id>>)
        ELSE UNCHANGED <<esCursor, esGot>>
    <3>1. IF Parsed(block) = Failed THEN UNCHANGED <<esCursor, esGot>> ELSE DeliverEvent(Parsed(block))
      BY <1>11 DEF ReceiveLine, line, block
    <3>2. CASE known
      <4>1. Failed # [user |-> ev.user, id |-> id]
        BY <1>6, <1>7, ReaderAssumption
      <4>2. DeliverEvent([user |-> ev.user, id |-> id])
        BY <2>1, <3>1, <3>2, <4>1
      <4> QED
        BY <3>2, <4>2 DEF DeliverEvent
    <3>3. CASE ~known
      BY <2>1, <3>1, <3>3
    <3> QED
      BY <3>2, <3>3
  <2> DEFINE wire == Tail(c.wire)
  <2>4. /\ wire \in Seq(Nat) /\ Len(wire) = Len(c.wire) - 1 /\ \A k \in 1..Len(wire) : wire[k] = c.wire[k + 1]
    BY <1>1, <1>2
  <2> HIDE DEF wire, known
  <2>5. EmptyBlock \in SseBlock /\ Len(EmptyBlock.data) <= 3
    BY DEF EmptyBlock, SseBlock
  <2>6. /\ esConn' \in Stream /\ esConn'.next = c.next /\ esConn'.server = c.server /\ esConn'.block = EmptyBlock
        /\ esConn'.wire = wire /\ esConn'.line = 1 /\ esConn'.cursors = c.cursors /\ esConn'.open = c.open
        /\ esConn'.query = c.query
    <3>1. esConn' = [[[c EXCEPT !.wire = wire] EXCEPT !.line = 1] EXCEPT !.block = EmptyBlock]
      BY <2>2 DEF wire
    <3> HIDE DEF EmptyBlock
    <3>2. esConn' \in Stream
      BY <1>2, <2>4, <2>5, <3>1 DEF Stream
    <3> QED
      BY <1>2, <2>4, <2>5, <3>1, <3>2 DEF Stream
  <2>7. \A k \in 1..Len(wire) : k + 1 \in 1..Len(c.wire) /\ wire[k] = c.wire[k + 1] /\ wire[k] > id
    <3> SUFFICES ASSUME NEW k \in 1..Len(wire)
           PROVE k + 1 \in 1..Len(c.wire) /\ wire[k] = c.wire[k + 1] /\ wire[k] > id
      OBVIOUS
    <3>1. k + 1 \in 1..Len(c.wire) /\ 1 < k + 1 /\ wire[k] = c.wire[k + 1]
      <4>1. wire[k] = c.wire[k + 1] /\ Len(wire) = Len(c.wire) - 1 /\ Len(c.wire) \in Nat
        BY <1>4, <2>4
      <4> HIDE DEF c
      <4> QED
        BY <4>1
    <3>2. c.wire[1] < c.wire[k + 1]
      BY <1>4, <1>5, <3>1
    <3>3. c.wire[1] \in Nat /\ c.wire[k + 1] \in Nat
      <4>1. \A i \in 1..Len(c.wire) : c.wire[i] \in Nat
        BY <1>2, SMTT(30)
      <4>2. 1 \in 1..Len(c.wire)
        BY <1>4
      <4> QED
        BY <3>1, <4>1, <4>2
    <3> QED
      BY <3>1, <3>2, <3>3 DEF id
  <2>8. WireInv'
    <3>1. (\A k \in 1..Len(esConn.wire) : esConn.wire[k] \in 1..(esConn.next - 1) /\ Wanted(esConn, esConn.wire[k]))'
      BY <1>1, <1>5, <2>6, <2>7 DEF Wanted
    <3>2. \A k, l \in 1..Len(wire) : k < l => wire[k] < wire[l]
      <4> SUFFICES ASSUME NEW k \in 1..Len(wire), NEW l \in 1..Len(wire), k < l PROVE wire[k] < wire[l]
        OBVIOUS
      <4>1. k + 1 < l + 1
        OBVIOUS
      <4> QED
        BY <1>5, <2>7, <4>1
    <3>3. \A e, n : 1 \in 1..LinesOf(e) /\ EmptyBlock = BlockAfter(e, n, 1 - 1)
      BY DEF LinesOf, EmptyBlock, BlockAfter
    <3> QED
      BY <2>6, <3>1, <3>2, <3>3 DEF WireInv
  <2>9. ASSUME NEW e, \E k \in 1..Len(c.wire) : c.wire[k] = e, e # id
        PROVE  \E k \in 1..Len(wire) : wire[k] = e
    <3>1. PICK k \in 1..Len(c.wire) : c.wire[k] = e
      BY <2>9
    <3>2. k # 1
      BY <2>9, <3>1 DEF id
    <3>3. k - 1 \in 1..Len(wire) /\ wire[k - 1] = c.wire[(k - 1) + 1] /\ (k - 1) + 1 = k
      <4>1. Len(wire) = Len(c.wire) - 1 /\ Len(c.wire) \in Nat
        BY <1>4, <2>4
      <4> HIDE DEF c
      <4>2. k - 1 \in 1..Len(wire) /\ (k - 1) + 1 = k
        BY <3>2, <4>1
      <4> QED
        BY <2>4, <4>2 DEF c
    <3> QED
      BY <3>1, <3>3
  <2>10. ASSUME NEW u \in (EsUsers \ esMoved) \cap DOMAIN c.cursors
         PROVE  /\ c.cursors[u] <= esCursor[u]
                /\ esCursor[u] > c.cursors[u] => esCursor[u] < c.next
                /\ \A k \in 1..Len(c.wire) : esLog[c.server][c.wire[k]].user = u => c.wire[k] > esCursor[u]
                /\ \A e \in EventsOf(u, c.server) :
                     e > esCursor[u] /\ e < c.next => \E k \in 1..Len(c.wire) : c.wire[k] = e
                /\ esCursor[u] \in Nat /\ c.cursors[u] \in Nat
    <3>1. c.cursors \in Cursors
      BY <1>2 DEF Stream
    <3> QED
      BY <1>0, <1>1, <3>1, ReaderAssumption DEF PassedInv, Cursors, EsShape
  <2>11. \A u : \A e \in EventsOf(u, c.server) : /\ e \in 1..Len(esLog[c.server]) /\ esLog[c.server][e].user = u
                                                 /\ esLog[c.server][e].kind \in {"PUT", "DEL"}
    BY <1>3 DEF EventsOf, Promised
  <2>12. CASE ~known
    <3>1. UNCHANGED <<esCursor, esGot>>
      BY <2>3, <2>12
    <3>2. PassedInv'
      <4> SUFFICES ASSUME NEW u \in (EsUsers \ esMoved) \cap DOMAIN c.cursors
             PROVE  /\ c.cursors[u] <= esCursor[u]
                    /\ esCursor[u] > c.cursors[u] => esCursor[u] < c.next
                    /\ \A k \in 1..Len(wire) : esLog[c.server][wire[k]].user = u => wire[k] > esCursor[u]
                    /\ \A e \in EventsOf(u, c.server) :
                         e > esCursor[u] /\ e < c.next => \E k \in 1..Len(wire) : wire[k] = e
        BY <1>1, <2>6, <3>1 DEF PassedInv, EventsOf
      <4>1. \A e \in EventsOf(u, c.server) : e # id
        BY <2>11, <2>12 DEF known, ev
      <4>2. \A k \in 1..Len(wire) : esLog[c.server][wire[k]].user = u => wire[k] > esCursor[u]
        BY <2>7, <2>10
      <4>3. ASSUME NEW e \in EventsOf(u, c.server), e > esCursor[u], e < c.next
            PROVE  \E k \in 1..Len(wire) : wire[k] = e
        <5>1. \E k \in 1..Len(c.wire) : c.wire[k] = e
          BY <2>10, <4>3
        <5> QED
          BY <2>9, <4>1, <5>1
      <4> QED
        BY <2>10, <4>2, <4>3
    <3> QED
      BY <1>1, <1>2, <2>5, <2>6, <2>8, <3>1, <3>2, StreamMoves
  <2>13. CASE known
    <3> DEFINE u1 == ev.user
               n == Len(esGot)
    <3>1. esCursor' = [esCursor EXCEPT ![u1] = id] /\ esGot' = Append(esGot, <<c.server, id>>)
      BY <2>3, <2>13
    <3>2. u1 \in EsUsers /\ u1 \in DOMAIN c.cursors /\ id > c.cursors[u1] /\ id \in Nat
      <4>1. Wanted(c, id) /\ id \in Nat
        BY <1>4, <1>5, <1>6, <1>7 DEF id
      <4> QED
        BY <4>1, <1>6, <1>7 DEF Wanted, ev
    <3>3. esLog[c.server][id].user = u1 /\ (u1 \notin esMoved => c.server = esHome[u1])
      BY <1>0, <1>2, <1>6 DEF HomeInv, ev
    <3>4. /\ esCursor'[u1] = id /\ (\A u \in EsUsers : u # u1 => esCursor'[u] = esCursor[u])
          /\ esCursor' \in [EsUsers -> 0..MaxEsEvents]
      <4>1. id \in 0..MaxEsEvents /\ esCursor \in [EsUsers -> 0..MaxEsEvents]
        BY <1>0, <1>6, ReaderAssumption DEF EsShape
      <4> QED
        BY <3>1, <3>2, <4>1
    <3>5. /\ n \in Nat /\ esGot' \in Seq(EsServers \X Nat) /\ Len(esGot') = n + 1
          /\ esGot'[n + 1] = <<c.server, id>> /\ \A j \in 1..n : esGot'[j] = esGot[j]
          /\ DOMAIN esGot = 1..n /\ DOMAIN esGot' = 1..(n + 1)
      <4>1. esGot \in Seq(EsServers \X Nat) /\ <<c.server, id>> \in EsServers \X Nat
        BY <1>0, <1>2, <3>2 DEF EsShape
      <4> DEFINE x == <<c.server, id>>
      <4> HIDE DEF x, c
      <4> QED
        BY <3>1, <4>1 DEF x
    <3> HIDE DEF n, u1
    <3>6. EsShape'
      <4>1. \A j \in 1..Len(esGot') : esGot'[j][2] \in 1..Len(esLog[esGot'[j][1]])
        <5> SUFFICES ASSUME NEW j \in 1..Len(esGot') PROVE esGot'[j][2] \in 1..Len(esLog[esGot'[j][1]])
          OBVIOUS
        <5>1. CASE j \in 1..n
          BY <1>0, <3>5, <5>1 DEF EsShape, n
        <5>2. CASE j = n + 1
          BY <1>6, <3>5, <5>2
        <5> QED
          BY <3>5, <5>1, <5>2
      <4> QED
        BY <1>0, <1>1, <1>2, <2>5, <2>6, <3>4, <3>5, <4>1 DEF EsShape
    <3>7. HomeInv'
      BY <1>0, <1>1 DEF HomeInv
    <3> DEFINE Old(u, s) == {m \in 1..n : esGot[m][1] = s /\ esLog[s][esGot[m][2]].user = u}
               New(u, s) == {m \in 1..(n + 1) : esGot'[m][1] = s /\ esLog[s][esGot'[m][2]].user = u}
    <3>8. ASSUME NEW u, NEW s, NEW j
          PROVE  /\ j \in New(u, s) => \/ j \in Old(u, s) /\ j \in 1..n /\ esGot'[j] = esGot[j]
                                       \/ j = n + 1 /\ s = c.server /\ u = u1 /\ esGot'[j][2] = id
                 /\ j \in Old(u, s) => j \in New(u, s) /\ j \in 1..n /\ esGot'[j] = esGot[j]
      <4>1. esGot'[n + 1][1] = c.server /\ esGot'[n + 1][2] = id
        BY <3>5
      <4>2. 1..(n + 1) = 1..n \cup {n + 1}
        BY <3>5
      <4> QED
        BY <3>3, <3>5, <4>1, <4>2
    <3>9. \A j \in 1..n : esGot[j][2] \in Nat
      BY <1>0 DEF EsShape, n
    <3>10. GotInv'
      <4> SUFFICES ASSUME NEW u \in EsUsers \ esMoved
             PROVE  /\ esCursor'[u] <= Len(esLog[esHome[u]])
                    /\ \A j \in GotOf(u, esHome[u])' : esGot'[j][2] <= esCursor'[u]
                    /\ \A i, j \in GotOf(u, esHome[u])' : i < j => esGot'[i][2] < esGot'[j][2]
                    /\ \A e \in EventsOf(u, esHome[u]) : e <= esCursor'[u] =>
                         \E j \in GotOf(u, esHome[u])' : esGot'[j][2] = e
        BY <1>1 DEF GotInv, EventsOf
      <4> DEFINE h == esHome[u]
      <4>g. GotOf(u, esHome[u])' = New(u, h) /\ GotOf(u, esHome[u]) = Old(u, h)
        BY <1>1, <3>5 DEF GotOf
      <4> HIDE DEF Old, New
      <4>1. /\ esCursor[u] <= Len(esLog[h])
            /\ \A j \in Old(u, h) : esGot[j][2] <= esCursor[u]
            /\ \A i, j \in Old(u, h) : i < j => esGot[i][2] < esGot[j][2]
            /\ \A e \in EventsOf(u, h) : e <= esCursor[u] => \E j \in Old(u, h) : esGot[j][2] = e
        BY <1>0, <4>g DEF GotInv
      <4>n. n + 1 \in 1..(n + 1) /\ esGot'[n + 1][1] = c.server /\ esGot'[n + 1][2] = id
        BY <3>5
      <4>m. c.server = h /\ u = u1 => n + 1 \in New(u, h)
        BY <3>3, <4>n DEF New
      <4>2. CASE u # u1
        BY <1>1, <3>4, <3>8, <4>g, <4>1, <4>2
      <4>3. CASE u = u1
        <5>1. h = c.server /\ esCursor'[u] = id
          BY <3>3, <3>4, <4>3
        <5>2. esCursor[u] < id /\ esCursor[u] \in Nat
          BY <1>4, <2>10, <3>2, <3>3, <4>3 DEF id
        <5>3. id <= Len(esLog[h])
          BY <1>3, <1>6, <5>1
        <5>4. \A j \in New(u, h) : esGot'[j][2] <= id
          BY <3>2, <3>8, <3>9, <4>1, <5>2
        <5>5. ASSUME NEW i \in New(u, h), NEW j \in New(u, h), i < j PROVE esGot'[i][2] < esGot'[j][2]
          <6>1. CASE j \in Old(u, h) /\ j \in 1..n
            <7>1. i \in 1..n
              BY <3>5, <3>8, <5>5, <6>1
            <7>2. i \in Old(u, h)
              BY <3>5, <3>8, <5>5, <7>1
            <7> QED
              BY <3>8, <4>1, <5>5, <6>1, <7>2
          <6>2. CASE j = n + 1 /\ esGot'[j][2] = id
            <7>1. i \in Old(u, h) /\ i \in 1..n /\ esGot'[i] = esGot[i]
              BY <3>5, <3>8, <5>5, <6>2
            <7> QED
              BY <3>2, <3>9, <4>1, <5>2, <6>2, <7>1
          <6> QED
            BY <3>8, <6>1, <6>2
        <5>6. ASSUME NEW e \in EventsOf(u, h), e <= id PROVE \E j \in New(u, h) : esGot'[j][2] = e
          <6>1. CASE e <= esCursor[u]
            BY <3>8, <4>1, <6>1
          <6>2. CASE e = id
            <7> QED
              BY <4>m, <4>n, <4>3, <5>1, <6>2
          <6>3. CASE e > esCursor[u] /\ e < id
            <7>1. e < c.next
              BY <1>2, <1>6, <2>11, <5>1, <6>3
            <7>a. \E k \in 1..Len(c.wire) : c.wire[k] = e
              BY <2>10, <3>2, <4>3, <5>1, <6>3, <7>1
            <7>b. e # id
              BY <3>2, <6>3
            <7>2. PICK k \in 1..Len(wire) : wire[k] = e
              BY <2>9, <7>a, <7>b
            <7> QED
              BY <2>7, <3>2, <6>3, <7>2, <2>11, <5>1
          <6>4. e \in Nat
            BY <2>11, <5>1
          <6> QED
            BY <3>2, <5>2, <5>6, <6>1, <6>2, <6>3, <6>4
        <5> QED
          BY <4>g, <5>1, <5>3, <5>4, <5>5, <5>6
      <4> QED
        BY <4>2, <4>3
    <3>11. PassedInv'
      <4> SUFFICES ASSUME NEW u \in (EsUsers \ esMoved) \cap DOMAIN c.cursors
             PROVE  /\ c.cursors[u] <= esCursor'[u]
                    /\ esCursor'[u] > c.cursors[u] => esCursor'[u] < c.next
                    /\ \A k \in 1..Len(wire) : esLog[c.server][wire[k]].user = u => wire[k] > esCursor'[u]
                    /\ \A e \in EventsOf(u, c.server) :
                         e > esCursor'[u] /\ e < c.next => \E k \in 1..Len(wire) : wire[k] = e
        BY <1>1, <2>6 DEF PassedInv, EventsOf
      <4>1. CASE u # u1
        <5>1. esCursor'[u] = esCursor[u]
          BY <3>4, <4>1
        <5>2. \A e \in EventsOf(u, c.server) : e # id
          BY <2>11, <3>3, <4>1
        <5>3. \A k \in 1..Len(wire) : esLog[c.server][wire[k]].user = u => wire[k] > esCursor[u]
          BY <2>7, <2>10
        <5>4. \A e \in EventsOf(u, c.server) :
                e > esCursor[u] /\ e < c.next => \E k \in 1..Len(wire) : wire[k] = e
          BY <2>9, <2>10, <5>2
        <5> QED
          BY <2>10, <5>1, <5>3, <5>4
      <4>2. CASE u = u1
        <5>1. esCursor'[u] = id
          BY <3>4, <4>2
        <5>2. esCursor[u] < id /\ esCursor[u] \in Nat
          BY <1>4, <2>10, <3>2, <3>3, <4>2 DEF id
        <5>3. id < c.next /\ c.cursors[u] <= id
          BY <1>2, <1>6, <2>10, <3>2, <4>2
        <5>4. ASSUME NEW e \in EventsOf(u, c.server), e > id, e < c.next PROVE \E k \in 1..Len(wire) : wire[k] = e
          <6>1. e \in Nat
            BY <2>11
          <6>2. e > esCursor[u] /\ e # id
            BY <3>2, <5>2, <5>4, <6>1
          <6> QED
            BY <2>9, <2>10, <5>4, <6>2
        <5> QED
          BY <2>7, <5>1, <5>3, <5>4
      <4> QED
        BY <4>1, <4>2
    <3> QED
      BY <2>8, <3>6, <3>7, <3>10, <3>11 DEF EsInv
  <2> QED
    BY <2>12, <2>13
<1> QED
  BY <1>10, <1>11

\* Every step keeps the invariant.
LEMMA EsStep ==
    ASSUME EsInv, [EsNext]_esVars
    PROVE  EsInv'
<1>1. CASE UNCHANGED esVars
  <2>1. UNCHANGED <<esLog, esSkipped, esHome, esConn, esCursor, esGot, esMoved>>
    BY <1>1 DEF esVars
  <2>2. EsShape' /\ HomeInv'
    BY <2>1 DEF EsInv, EsShape, HomeInv
  <2>3. \A u, h : EventsOf(u, h)' = EventsOf(u, h) /\ GotOf(u, h)' = GotOf(u, h)
    BY <2>1 DEF EventsOf, GotOf
  <2>4. GotInv'
    BY <2>1, <2>3 DEF EsInv, GotInv
  <2>5. \A k : Wanted(esConn, k)' = Wanted(esConn, k)
    BY <2>1 DEF Wanted
  <2>6. WireInv'
    BY <2>1, <2>5 DEF EsInv, WireInv
  <2>7. PassedInv'
    BY <2>1, <2>3 DEF EsInv, PassedInv
  <2> QED
    BY <2>2, <2>4, <2>6, <2>7 DEF EsInv
<1>2. CASE EsNext
  <2>1. CASE \E u \in EsUsers, k \in EsKinds, p \in EsPaths : LogEvent(u, k, p)
    BY <2>1, LogEventStep
  <2>2. CASE \E u \in EsUsers, s \in EsServers, b \in BOOLEAN : MoveUser(u, s, b)
    BY <2>2, MoveUserStep
  <2>3. CASE \E q \in EsQueries : Subscribe(q)
    BY <2>3, SubscribeStep
  <2>4. CASE \E b \in BOOLEAN : EndStream(b)
    BY <2>4, EndStreamStep
  <2> QED
    BY <1>2, <2>1, <2>2, <2>3, <2>4, SendNextStep, HistoryFailsStep, ReceiveLineStep DEF EsNext
<1> QED
  BY <1>1, <1>2

\* The invariant says more of every user that has not moved than was promised.
LEMMA EsInvSound == EsInv => ReaderSound
<1> SUFFICES ASSUME EsInv PROVE ReaderSound
  OBVIOUS
<1>0. EsShape /\ HomeInv /\ GotInv
  BY DEF EsInv
<1>1. EsTypeOK
  <2>1. esConn # None => /\ esConn.server \in EsServers /\ esConn.next \in 1..(MaxEsEvents + 1)
                         /\ {esConn.open, esConn.tail} \subseteq BOOLEAN /\ Len(esConn.block.data) <= 3
    <3> SUFFICES ASSUME esConn # None
           PROVE /\ esConn.server \in EsServers /\ esConn.next \in 1..(MaxEsEvents + 1)
                 /\ {esConn.open, esConn.tail} \subseteq BOOLEAN /\ Len(esConn.block.data) <= 3
      OBVIOUS
    <3>1. /\ esConn.server \in EsServers /\ esConn.next \in 1..(Len(esLog[esConn.server]) + 1)
          /\ {esConn.open, esConn.tail} \subseteq BOOLEAN /\ Len(esConn.block.data) <= 3
      BY <1>0 DEF EsShape, Stream
    <3>2. Len(esLog[esConn.server]) \in Nat /\ Len(esLog[esConn.server]) <= MaxEsEvents
      BY <1>0, <3>1 DEF EsShape
    <3> QED
      BY <3>1, <3>2, ReaderAssumption
  <2> QED
    BY <1>0, <2>1 DEF EsTypeOK, EsShape
<1>2. ResumedReaderMissesNothing
  <2> SUFFICES ASSUME NEW u \in EsUsers \ esMoved, NEW s \in EsServers
         PROVE  /\ \A i, j \in GotOf(u, s) : i < j => esGot[i][2] < esGot[j][2]
                /\ \A i \in {esGot[j][2] : j \in GotOf(u, s)} : \A e \in EventsOf(u, s) :
                     e < i => e \in {esGot[j][2] : j \in GotOf(u, s)}
    BY DEF ResumedReaderMissesNothing
  <2>1. ASSUME NEW j \in GotOf(u, s) PROVE s = esHome[u] /\ esGot[j][2] \in Nat
    <3>1. j \in 1..Len(esGot) /\ esGot[j][1] = s /\ esLog[s][esGot[j][2]].user = u
      BY <1>0 DEF GotOf, EsShape
    <3>2. esGot[j][2] \in 1..Len(esLog[s])
      BY <1>0, <3>1 DEF EsShape
    <3> QED
      BY <1>0, <3>1, <3>2 DEF HomeInv
  <2>2. CASE s = esHome[u]
    <3>1. /\ \A j \in GotOf(u, s) : esGot[j][2] <= esCursor[u]
          /\ \A i, j \in GotOf(u, s) : i < j => esGot[i][2] < esGot[j][2]
          /\ \A e \in EventsOf(u, s) : e <= esCursor[u] => \E j \in GotOf(u, s) : esGot[j][2] = e
          /\ esCursor[u] \in Nat
      BY <1>0, <2>2, ReaderAssumption DEF GotInv, EsShape
    <3>2. \A e \in EventsOf(u, s) : e \in Nat
      <4>1. esLog[s] \in Seq(EventLine)
        BY <1>0 DEF EsShape
      <4> QED
        BY <4>1 DEF EventsOf
    <3> QED
      BY <2>1, <3>1, <3>2
  <2>3. CASE s # esHome[u]
    BY <2>1, <2>3
  <2> QED
    BY <2>2, <2>3
<1> QED
  BY <1>1, <1>2 DEF ReaderSound

\* For any users, homeservers, queries and logs: an application that subscribes again from
\* its last cursors misses no event of a user that has not moved, unless a live stream went
\* past it when a page of the history could not be read; it gets none twice and none out of
\* order, wherever in a block its streams end (event_stream.rs, services/events_service/stream.rs).
THEOREM ReadersAreSound == EsSpec => []ReaderSound
<1>1. EsInit => EsInv
  BY EsBegins
<1>2. EsInv /\ [EsNext]_esVars => EsInv'
  BY EsStep
<1>3. EsInv => ReaderSound
  BY EsInvSound
<1> QED
  BY <1>1, <1>2, <1>3, PTL DEF EsSpec

================================================================================
