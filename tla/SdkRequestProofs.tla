---------------------------- MODULE SdkRequestProofs ----------------------------
(***************************************************************************)
(* Proofs about the requests of the SDK: whom they reach and how they are   *)
(* answered, what a storage call asks of a homeserver and what a deep link  *)
(* carries, for any owners, homeservers, requests, paths, locks and links,  *)
(* and the keys, grants and proofs that a session is built from.            *)
(***************************************************************************)
EXTENDS Transport, SdkStorage, DeepLinks, GrantMaterial, SumTheorems, FiniteSetTheorems,
        SequenceTheorems, TLAPS

-----------------------------------------------------------------------------
(* Requests: whom they reach through the caches of the client.                *)

TrAsks == [step : {"via", "cell", "info", "probe", "ask", "resolve", "send"}, owner : TrOwners,
           name : TrNames, server : TrServers \cup {None}, cell : Nat, path : BOOLEAN,
           via : TrServers \cup {"direct"}, stale : Int, since : Nat, asked : Nat]
TrCells == [path : BOOLEAN, until : Nat]
TrEndpoints == [at : Nat, via : TrServers \cup {"direct"}]

WorldTypes ==
    /\ trHome \in [TrOwners -> TrServers] /\ trOffers \in [TrServers -> {"path", "legacy", "noinfo"}]
    /\ trClock \in Nat /\ trMoved \subseteq TrOwners \X Nat /\ trFailed \subseteq TrServers \X Nat
    /\ trWas \in [TrOwners -> [TrServers -> Nat]] /\ trServed \in [TrServers -> Nat]

TrTypes ==
    /\ WorldTypes
    /\ trLru \in Seq(TrServers \X Nat) /\ trCell \in Seq(TrCells \cup {None})
    /\ trCache \in [TrNames -> TrEndpoints \cup {None}]
    /\ trReq \in [TrRequests -> TrAsks \cup {None}]

\* Steps that hold the lock of a cell, that have a cell, and that hold a guard.
Locking == {"info", "probe", "ask"}
Linking == {"cell", "info", "probe", "ask"}
Guarding == {"probe", "resolve"}

\* Who has a cell: the cache, and requests that found it there.
Asks(r, s, c) ==
    trReq[r] # None /\ trReq[r].step \in Linking /\ trReq[r].server = s /\ trReq[r].cell = c
Holds(s, c) == (\E i \in 1..Len(trLru) : trLru[i] = <<s, c>>) \/ \E r \in TrRequests : Asks(r, s, c)

\* What backs the path-addressed form of a request that looked at time t: the homeserver
\* served by path a lifetime before, or its features were kept.  A cell is backed until
\* it expires.
Fresh(s, t) == \/ trServed[s] + InfoTtl > t
               \/ \E f \in trFailed : f[1] = s /\ f[2] + InfoFailureTtl > t
Backed(s, t) == \/ trServed[s] + InfoTtl >= t
                \/ \E f \in trFailed : f[1] = s /\ f[2] + InfoFailureTtl >= t

\* The owner moved after a request began, or shortly before.
Excused(o, t) == \E m \in trMoved : m[1] = o /\ m[2] + TransportTtl > t

\* A cell is that of one homeserver for good, also when it was evicted.
CellOk(s, e) == e # None /\ e.path => Backed(s, e.until)
CellsInv ==
    \A s \in TrServers, c \in Nat : Holds(s, c) =>
      /\ c \in 1..Len(trCell) /\ CellOk(s, trCell[c])
      /\ \A t \in TrServers : Holds(t, c) => t = s

LruInv ==
    /\ Len(trLru) <= TrCapacity
    /\ \A i, j \in 1..Len(trLru) : trLru[i][1] = trLru[j][1] => i = j

\* A cell's lock and a name's guard are held by one request.
LocksInv ==
    \A r, q \in TrRequests : trReq[r] # None /\ trReq[q] # None =>
      /\ (trReq[r].step \in Locking /\ trReq[q].step \in Locking /\ trReq[r].cell = trReq[q].cell) => r = q
      /\ (trReq[r].step \in Guarding /\ trReq[q].step \in Guarding /\ NameOf(trReq[r]) = NameOf(trReq[q])) => r = q

\* What a request goes by belongs to where its name leads, unless its owner moved.
AskOk(q) ==
    /\ q.name = q.owner \/ q.name \in TrServers
    /\ q.since <= trClock
    /\ q.step \in Linking \/ q.path =>
         q.server \in TrServers /\ (q.server = ServerAt(q.name) \/ Excused(q.owner, q.since))
    /\ q.path => Fresh(q.server, q.asked)
    /\ q.step = "send" =>
         /\ q.stale < TransportTtl
         /\ q.path /\ q.via # "direct" => q.via = q.server \/ Excused(q.owner, q.since)
AsksInv == \A r \in TrRequests : trReq[r] # None => AskOk(trReq[r])

NameOk(n, e) ==
    /\ \/ e.via \in {"direct", ServerAt(n)}
       \/ n \in TrOwners /\ \E m \in trMoved : m[1] = n /\ m[2] >= e.at
    /\ e.at <= trClock
    /\ n \in TrOwners /\ e.via \in TrServers => e.at <= trWas[n][e.via]
NamesInv == \A n \in TrNames : trCache[n] # None => NameOk(n, trCache[n])

\* The record names its homeserver now, and who serves by path does so now.
RecordsInv ==
    /\ \A o \in TrOwners : trWas[o][trHome[o]] = trClock /\ \A s \in TrServers : trWas[o][s] <= trClock
    /\ \A s \in TrServers : trServed[s] <= trClock /\ (trOffers[s] = "path" => trServed[s] = trClock)

SentInv == PathOnlyWhereUnderstood /\ DomainIsRecent

TrInv == TrTypes /\ CellsInv /\ LruInv /\ LocksInv /\ AsksInv /\ NamesInv /\ RecordsInv /\ SentInv

-----------------------------------------------------------------------------
\* A name leads to a homeserver.
LEMMA NameLeads ==
    ASSUME TrTypes, NEW n \in TrNames
    PROVE  ServerAt(n) \in TrServers /\ (n \in TrServers => ServerAt(n) = n)
  BY TransportAssumption DEF TrTypes, WorldTypes, TrNames, ServerAt

\* Where nothing was sent there is nothing to show.
LEMMA NothingSent == ASSUME trSent' = None PROVE SentInv'
  BY DEF SentInv, PathOnlyWhereUnderstood, DomainIsRecent

\* What backs a request is not lost.
LEMMA BackingStays ==
    ASSUME WorldTypes, WorldTypes', trFailed \subseteq trFailed', trMoved \subseteq trMoved',
           \A s \in TrServers : trServed[s] <= trServed'[s],
           NEW s \in TrServers, NEW t \in Nat, NEW o
    PROVE  /\ Fresh(s, t) => Fresh(s, t)'
           /\ Backed(s, t) => Backed(s, t)'
           /\ Excused(o, t) => Excused(o, t)'
<1>1. trServed[s] \in Nat /\ trServed'[s] \in Nat /\ InfoTtl \in Nat
  BY TransportAssumption DEF WorldTypes
<1>2. trServed[s] <= trServed'[s]
  OBVIOUS
<1>3. trServed[s] + InfoTtl > t => trServed'[s] + InfoTtl > t
  BY <1>1, <1>2
<1>4. trServed[s] + InfoTtl >= t => trServed'[s] + InfoTtl >= t
  BY <1>1, <1>2
<1>5. Fresh(s, t) => Fresh(s, t)'
  BY <1>3 DEF Fresh
<1>6. Backed(s, t) => Backed(s, t)'
  BY <1>4 DEF Backed
<1>7. Excused(o, t) => Excused(o, t)'
  BY DEF Excused
<1> QED
  BY <1>5, <1>6, <1>7

\* A cell that has not expired backs a request that looks at it now.
LEMMA BackedIsFresh ==
    ASSUME WorldTypes, NEW s \in TrServers, NEW t \in Nat, Backed(s, t), trClock < t
    PROVE  Fresh(s, trClock)
<1>1. trClock \in Nat /\ trServed[s] \in Nat /\ InfoTtl \in Nat /\ InfoFailureTtl \in Nat
  BY TransportAssumption DEF WorldTypes
<1>2. CASE trServed[s] + InfoTtl >= t
  <2>1. trServed[s] + InfoTtl > trClock
    BY <1>1, <1>2
  <2> QED
    BY <2>1 DEF Fresh
<1>3. CASE \E f \in trFailed : f[1] = s /\ f[2] + InfoFailureTtl >= t
  <2>1. PICK f \in trFailed : f[1] = s /\ f[2] + InfoFailureTtl >= t
    BY <1>3
  <2>2. f \in TrServers \X Nat
    BY <2>1 DEF WorldTypes
  <2>3. f[2] \in Nat
    BY <2>2
  <2>4. f[2] + InfoFailureTtl > trClock
    BY <1>1, <2>1, <2>3
  <2> QED
    BY <2>1, <2>4 DEF Fresh
<1> QED
  BY <1>2, <1>3 DEF Backed

\* The world: what a request goes by is kept when owners move, homeservers change
\* and the clock goes on.
LEMMA WorldStep ==
    ASSUME TrInv, UNCHANGED <<trLru, trCell, trCache, trReq>>, trSent' = None,
           WorldTypes', RecordsInv', trClock <= trClock', trMoved \subseteq trMoved', trFailed \subseteq trFailed',
           \A s \in TrServers : trServed[s] <= trServed'[s],
           \A o \in TrOwners : trHome'[o] = trHome[o] \/ <<o, trClock>> \in trMoved',
           \A o \in TrOwners, s \in TrServers : trWas[o][s] <= trWas'[o][s]
    PROVE  TrInv'
<1>0. WorldTypes /\ TrTypes
  BY DEF TrInv, TrTypes
<1>1. TrTypes'
  BY DEF TrInv, TrTypes
<1>2. \A n \in TrNames : ServerAt(n)' = ServerAt(n) \/ (n \in TrOwners /\ <<n, trClock>> \in trMoved')
  BY DEF ServerAt, TrNames
<1>3. \A s \in TrServers, c \in Nat : Holds(s, c)' = Holds(s, c)
  BY DEF Holds, Asks
<1>c. trClock \in Nat /\ trClock' \in Nat /\ TransportTtl \in Nat \ {0}
  BY <1>0, <1>1, TransportAssumption DEF TrTypes, WorldTypes
<1>4. CellsInv'
  <2> SUFFICES ASSUME NEW s \in TrServers, NEW c \in Nat, Holds(s, c)'
               PROVE  /\ c \in 1..Len(trCell') /\ CellOk(s, trCell[c])'
                      /\ \A t \in TrServers : Holds(t, c)' => t = s
    BY DEF CellsInv
  <2>1. Holds(s, c)
    BY <1>3
  <2>2. PICK e : e = trCell[c]
    OBVIOUS
  <2>3. c \in 1..Len(trCell) /\ CellOk(s, e) /\ \A t \in TrServers : Holds(t, c) => t = s
    BY <2>1, <2>2 DEF TrInv, CellsInv
  <2>4. e # None => e.until \in Nat
    BY <1>0, <2>2, <2>3 DEF TrTypes, TrCells
  <2>5. e # None /\ e.path => Backed(s, e.until)'
    BY <1>0, <2>3, <2>4, BackingStays DEF CellOk
  <2> QED
    BY <1>3, <2>2, <2>3, <2>5 DEF CellOk
<1>5. LruInv' /\ LocksInv'
  BY DEF TrInv, LruInv, LocksInv, NameOf
<1>6. AsksInv'
  <2> SUFFICES ASSUME NEW r \in TrRequests, trReq[r] # None PROVE AskOk(trReq[r])'
    BY DEF AsksInv
  <2>1. PICK q : q = trReq[r] /\ q = trReq'[r]
    OBVIOUS
  <2>2. q \in TrAsks /\ AskOk(q)
    BY <1>0, <2>1 DEF TrInv, TrTypes, AsksInv
  <2>3. /\ q.name \in TrNames /\ q.owner \in TrOwners /\ q.since \in Nat /\ q.asked \in Nat
        /\ q.since <= trClock /\ (q.name = q.owner \/ q.name \in TrServers)
    BY <2>2 DEF TrAsks, AskOk
  <2>4. Excused(q.owner, q.since) => Excused(q.owner, q.since)'
    BY <1>0, <2>3, BackingStays DEF Excused
  <2>5. ServerAt(q.name)' = ServerAt(q.name) \/ Excused(q.owner, q.since)'
    <3>1. CASE ServerAt(q.name)' # ServerAt(q.name)
      <4>1. q.name \in TrOwners /\ <<q.name, trClock>> \in trMoved'
        BY <1>2, <2>3, <3>1
      <4>2. q.name = q.owner
        BY <2>3, <4>1, TransportAssumption
      <4>3. trClock + TransportTtl > q.since
        BY <1>c, <2>3
      <4>4. <<q.name, trClock>>[1] = q.owner /\ <<q.name, trClock>>[2] = trClock
        BY <4>2
      <4> QED
        BY <4>1, <4>3, <4>4 DEF Excused
    <3> QED
      BY <3>1
  <2>6. q.since <= trClock'
    BY <1>c, <2>3
  <2>7. ASSUME q.path PROVE Fresh(q.server, q.asked)'
    BY <1>0, <2>2, <2>3, <2>7, BackingStays DEF AskOk
  <2>8. ASSUME q.step \in Linking \/ q.path
        PROVE  q.server \in TrServers /\ (q.server = ServerAt(q.name)' \/ Excused(q.owner, q.since)')
    BY <2>2, <2>4, <2>5, <2>8 DEF AskOk
  <2>9. ASSUME q.step = "send"
        PROVE  /\ q.stale < TransportTtl
               /\ q.path /\ q.via # "direct" => q.via = q.server \/ Excused(q.owner, q.since)'
    BY <2>2, <2>4, <2>9 DEF AskOk
  <2>10. AskOk(q)'
    BY <2>3, <2>6, <2>7, <2>8, <2>9 DEF AskOk
  <2> QED
    BY <2>1, <2>10 DEF AskOk, ServerAt, Fresh, Excused
<1>7. NamesInv'
  <2> SUFFICES ASSUME NEW n \in TrNames, trCache[n] # None PROVE NameOk(n, trCache[n])'
    BY DEF NamesInv
  <2>1. PICK e : e = trCache[n]
    OBVIOUS
  <2>2. e \in TrEndpoints /\ NameOk(n, e)
    BY <1>0, <2>1 DEF TrInv, TrTypes, NamesInv
  <2>3. e.at \in Nat /\ e.at <= trClock
    BY <2>2 DEF TrEndpoints, NameOk
  <2>4. e.at <= trClock'
    BY <1>c, <2>3
  <2>5. ASSUME n \in TrOwners, e.via \in TrServers PROVE e.at <= trWas'[n][e.via]
    <3>1. e.at <= trWas[n][e.via] /\ trWas[n][e.via] \in Nat /\ trWas'[n][e.via] \in Nat
      BY <2>2, <2>5, <1>0, <1>1 DEF NameOk, TrTypes, WorldTypes
    <3>2. trWas[n][e.via] <= trWas'[n][e.via]
      BY <2>5
    <3> QED
      BY <2>3, <3>1, <3>2
  <2>6. \/ e.via \in {"direct", ServerAt(n)'}
        \/ n \in TrOwners /\ \E m \in trMoved' : m[1] = n /\ m[2] >= e.at
    <3>1. CASE ServerAt(n)' # ServerAt(n)
      <4>1. n \in TrOwners /\ <<n, trClock>> \in trMoved'
        BY <1>2, <3>1
      <4>2. <<n, trClock>>[1] = n /\ <<n, trClock>>[2] = trClock /\ trClock >= e.at
        BY <1>c, <2>3
      <4> QED
        BY <4>1, <4>2
    <3>2. CASE ServerAt(n)' = ServerAt(n)
      BY <2>2, <3>2 DEF NameOk
    <3> QED
      BY <3>1, <3>2
  <2>7. NameOk(n, e)'
    BY <2>4, <2>5, <2>6 DEF NameOk
  <2>8. trCache'[n] = e
    BY <2>1
  <2> QED
    BY <2>7, <2>8 DEF NameOk, ServerAt
<1> QED
  BY <1>1, <1>4, <1>5, <1>6, <1>7, NothingSent DEF TrInv

\* Time passes.
LEMMA TickStep == ASSUME TrInv, TickTransport PROVE TrInv'
<1>1. /\ trClock' = trClock + 1 /\ trSent' = None
      /\ trWas' = [o \in TrOwners |-> [trWas[o] EXCEPT ![trHome[o]] = trClock + 1]]
      /\ trServed' = [s \in TrServers |-> IF trOffers[s] = "path" THEN trClock + 1 ELSE trServed[s]]
      /\ UNCHANGED <<trHome, trOffers, trMoved, trFailed>> /\ UNCHANGED <<trLru, trCell, trCache, trReq>>
  BY DEF TickTransport
<1>2. WorldTypes /\ RecordsInv
  BY DEF TrInv, TrTypes
<1>3. trClock \in Nat /\ trClock + 1 \in Nat /\ trClock <= trClock + 1
  BY <1>2 DEF WorldTypes
<1>4. trWas' \in [TrOwners -> [TrServers -> Nat]]
  BY <1>1, <1>2, <1>3 DEF WorldTypes
<1>5. \A o \in TrOwners : /\ trWas'[o][trHome[o]] = trClock + 1
                          /\ \A s \in TrServers : s # trHome[o] => trWas'[o][s] = trWas[o][s]
  BY <1>1, <1>2 DEF WorldTypes
<1>6. \A o \in TrOwners, s \in TrServers : trWas[o][s] <= trWas'[o][s] /\ trWas'[o][s] <= trClock + 1
  <2> SUFFICES ASSUME NEW o \in TrOwners, NEW s \in TrServers
               PROVE  trWas[o][s] <= trWas'[o][s] /\ trWas'[o][s] <= trClock + 1
    OBVIOUS
  <2>1. trWas[o][s] \in Nat /\ trWas[o][s] <= trClock
    BY <1>2 DEF WorldTypes, RecordsInv
  <2>2. CASE s = trHome[o]
    BY <1>3, <1>5, <2>1, <2>2
  <2>3. CASE s # trHome[o]
    BY <1>3, <1>5, <2>1, <2>3
  <2> QED
    BY <2>2, <2>3
<1>7. \A s \in TrServers : /\ trServed'[s] \in Nat /\ trServed[s] <= trServed'[s] /\ trServed'[s] <= trClock + 1
                           /\ trOffers[s] = "path" => trServed'[s] = trClock + 1
  <2> SUFFICES ASSUME NEW s \in TrServers
               PROVE  /\ trServed'[s] \in Nat /\ trServed[s] <= trServed'[s] /\ trServed'[s] <= trClock + 1
                      /\ trOffers[s] = "path" => trServed'[s] = trClock + 1
    OBVIOUS
  <2>1. trServed[s] \in Nat /\ trServed[s] <= trClock
    BY <1>2 DEF WorldTypes, RecordsInv
  <2>2. trServed'[s] = IF trOffers[s] = "path" THEN trClock + 1 ELSE trServed[s]
    BY <1>1
  <2> QED
    BY <1>3, <2>1, <2>2
<1>8. trServed' \in [TrServers -> Nat]
  BY <1>1, <1>2, <1>3 DEF WorldTypes
<1>9. WorldTypes'
  BY <1>1, <1>2, <1>3, <1>4, <1>8 DEF WorldTypes
<1>10. RecordsInv'
  BY <1>1, <1>5, <1>6, <1>7 DEF RecordsInv
<1> QED
  BY <1>1, <1>3, <1>6, <1>7, <1>9, <1>10, WorldStep

\* An owner moves to another homeserver.
LEMMA MoveStep ==
    ASSUME TrInv, NEW o \in TrOwners, NEW s \in TrServers, OwnerMoves(o, s) PROVE TrInv'
<1>1. /\ trHome' = [trHome EXCEPT ![o] = s] /\ trWas' = [trWas EXCEPT ![o][s] = trClock]
      /\ trMoved' = trMoved \cup {<<o, trClock>>} /\ trSent' = None
      /\ UNCHANGED <<trOffers, trClock, trServed, trFailed>> /\ UNCHANGED <<trLru, trCell, trCache, trReq>>
  BY DEF OwnerMoves
<1>2. WorldTypes /\ RecordsInv
  BY DEF TrInv, TrTypes
<1>3. trClock \in Nat /\ trClock <= trClock
  BY <1>2 DEF WorldTypes
<1>4. WorldTypes'
  BY <1>1, <1>2, <1>3 DEF WorldTypes
<1>5. trHome'[o] = s /\ trWas'[o][s] = trClock
  BY <1>1, <1>2 DEF WorldTypes
<1>6. \A p \in TrOwners : p # o => trHome'[p] = trHome[p] /\ trWas'[p] = trWas[p]
  BY <1>1, <1>2 DEF WorldTypes
<1>7. \A t \in TrServers : t # s => trWas'[o][t] = trWas[o][t]
  BY <1>1, <1>2 DEF WorldTypes
<1>8. RecordsInv'
  BY <1>1, <1>2, <1>3, <1>5, <1>6, <1>7 DEF RecordsInv
<1>9. \A p \in TrOwners, t \in TrServers : trWas[p][t] <= trWas'[p][t]
  <2> SUFFICES ASSUME NEW p \in TrOwners, NEW t \in TrServers PROVE trWas[p][t] <= trWas'[p][t]
    OBVIOUS
  <2>1. trWas[p][t] \in Nat /\ trWas[p][t] <= trClock
    BY <1>2 DEF WorldTypes, RecordsInv
  <2> QED
    BY <1>3, <1>5, <1>6, <1>7, <2>1
<1>10. \A t \in TrServers : trServed[t] <= trServed'[t]
  BY <1>1, <1>2 DEF WorldTypes
<1>11. \A p \in TrOwners : trHome'[p] = trHome[p] \/ <<p, trClock>> \in trMoved'
  BY <1>1, <1>6
<1> QED
  BY <1>1, <1>3, <1>4, <1>8, <1>9, <1>10, <1>11, WorldStep

\* A homeserver is replaced by one of another version.
LEMMA VersionStep ==
    ASSUME TrInv, NEW s \in TrServers, NEW v \in {"path", "legacy", "noinfo"}, VersionChanges(s, v) PROVE TrInv'
<1>1. /\ trOffers' = [trOffers EXCEPT ![s] = v] /\ trSent' = None
      /\ trServed' = IF v = "path" THEN [trServed EXCEPT ![s] = trClock] ELSE trServed
      /\ UNCHANGED <<trHome, trClock, trMoved, trFailed, trWas>> /\ UNCHANGED <<trLru, trCell, trCache, trReq>>
  BY DEF VersionChanges
<1>2. WorldTypes /\ RecordsInv
  BY DEF TrInv, TrTypes
<1>3. trClock \in Nat /\ trClock <= trClock
  BY <1>2 DEF WorldTypes
<1>4. WorldTypes'
  BY <1>1, <1>2, <1>3 DEF WorldTypes
<1>5. \A t \in TrServers : /\ trServed[t] <= trServed'[t] /\ trServed'[t] <= trClock
                           /\ trOffers'[t] = "path" => trServed'[t] = trClock
  <2> SUFFICES ASSUME NEW t \in TrServers
               PROVE  /\ trServed[t] <= trServed'[t] /\ trServed'[t] <= trClock
                      /\ trOffers'[t] = "path" => trServed'[t] = trClock
    OBVIOUS
  <2>1. /\ trServed[t] \in Nat /\ trServed[t] <= trClock
        /\ trOffers[t] = "path" => trServed[t] = trClock
    BY <1>2 DEF WorldTypes, RecordsInv
  <2>2. trOffers'[t] = (IF t = s THEN v ELSE trOffers[t])
    BY <1>1, <1>2 DEF WorldTypes
  <2>3. trServed'[t] = (IF t = s /\ v = "path" THEN trClock ELSE trServed[t])
    BY <1>1, <1>2 DEF WorldTypes
  <2> QED
    BY <1>3, <2>1, <2>2, <2>3
<1>6. RecordsInv'
  BY <1>1, <1>2, <1>5 DEF RecordsInv
<1>7. \A o \in TrOwners, t \in TrServers : trWas[o][t] <= trWas'[o][t]
  <2>1. \A o \in TrOwners, t \in TrServers : trWas[o][t] \in Nat
    BY <1>2 DEF WorldTypes
  <2> QED
    BY <1>1, <2>1
<1> QED
  BY <1>1, <1>3, <1>4, <1>5, <1>6, <1>7, WorldStep

\* The address of a homeserver stops answering.
LEMMA AddressStep == ASSUME TrInv, NEW s \in TrServers, AddressFails(s) PROVE TrInv'
<1>1. /\ trSent' = None /\ UNCHANGED <<trHome, trOffers, trClock, trMoved, trFailed, trWas, trServed>>
      /\ UNCHANGED <<trLru, trCell, trCache, trReq>>
  BY DEF AddressFails
<1>2. WorldTypes /\ RecordsInv
  BY DEF TrInv, TrTypes
<1>3. WorldTypes' /\ RecordsInv'
  BY <1>1, <1>2 DEF RecordsInv, WorldTypes
<1>4. /\ trClock <= trClock' /\ \A o \in TrOwners, t \in TrServers : trWas[o][t] <= trWas'[o][t]
      /\ \A t \in TrServers : trServed[t] <= trServed'[t]
  <2>1. \A o \in TrOwners, t \in TrServers : trWas[o][t] \in Nat /\ trServed[t] \in Nat
    BY <1>2 DEF WorldTypes
  <2>2. \A t \in TrServers : trServed[t] \in Nat
    BY <1>2 DEF WorldTypes
  <2> QED
    BY <1>1, <1>2, <2>1, <2>2 DEF WorldTypes
<1> QED
  BY <1>1, <1>2, <1>3, <1>4, WorldStep

\* A step of a request: the world stays, and at most a failed /info is noted.
Quiet == UNCHANGED trWorld /\ trFailed \subseteq trFailed' /\ (trFailed \subseteq TrServers \X Nat)'

\* What a request goes by stays good.
LEMMA QuietStays ==
    ASSUME TrInv, Quiet
    PROVE  /\ WorldTypes' /\ RecordsInv'
           /\ \A q \in TrAsks : AskOk(q) => AskOk(q)'
           /\ \A s \in TrServers, e \in TrCells : CellOk(s, e) => CellOk(s, e)'
           /\ \A n, e : NameOk(n, e)' = NameOk(n, e)
<1>1. UNCHANGED <<trHome, trOffers, trClock, trMoved, trWas, trServed>> /\ trFailed \subseteq trFailed'
  BY DEF Quiet, trWorld
<1>2. WorldTypes /\ RecordsInv
  BY DEF TrInv, TrTypes
<1>3. WorldTypes' /\ RecordsInv'
  BY <1>1, <1>2 DEF WorldTypes, RecordsInv, Quiet
<1>4. \A s \in TrServers : trServed[s] <= trServed'[s]
  BY <1>1, <1>2 DEF WorldTypes
<1>5. ASSUME NEW q \in TrAsks, AskOk(q) PROVE AskOk(q)'
  <2>1. q.asked \in Nat /\ q.since \in Nat
    BY DEF TrAsks
  <2>2. q.path => Fresh(q.server, q.asked)'
    BY <1>1, <1>2, <1>3, <1>4, <1>5, <2>1, BackingStays DEF AskOk
  <2>3. Excused(q.owner, q.since)' = Excused(q.owner, q.since) /\ ServerAt(q.name)' = ServerAt(q.name)
    BY <1>1 DEF Excused, ServerAt
  <2> QED
    BY <1>1, <1>5, <2>2, <2>3 DEF AskOk
<1>6. ASSUME NEW s \in TrServers, NEW e \in TrCells, CellOk(s, e) PROVE CellOk(s, e)'
  <2>1. e.until \in Nat
    BY DEF TrCells
  <2>2. e # None /\ e.path => Backed(s, e.until)'
    BY <1>1, <1>2, <1>3, <1>4, <1>6, <2>1, BackingStays DEF CellOk
  <2> QED
    BY <2>2 DEF CellOk
<1>7. \A n, e : NameOk(n, e)' = NameOk(n, e)
  BY <1>1 DEF NameOk, ServerAt
<1> QED
  BY <1>3, <1>5, <1>6, <1>7

\* Nobody else holds what a request is to hold.
Alone(r, new) ==
    /\ new.step \in Locking => InCell(new.cell) \subseteq {r}
    /\ new.step \in Guarding => InGuard(NameOf(new)) \subseteq {r}

\* One request goes on while the world stays, by what is noted in its step.
LEMMA OneAsksThen ==
    ASSUME TrInv, Quiet, NEW r \in TrRequests, NEW new \in TrAsks \cup {None},
           trReq' = [trReq EXCEPT ![r] = new], new # None => AskOk(new)' /\ Alone(r, new)
    PROVE  (trReq \in [TrRequests -> TrAsks \cup {None}])' /\ LocksInv' /\ AsksInv' /\ RecordsInv'
<1>2. trReq \in [TrRequests -> TrAsks \cup {None}]
  BY DEF TrInv, TrTypes
<1>3. trReq'[r] = new /\ \A q \in TrRequests : q # r => trReq'[q] = trReq[q]
  BY <1>2
<1>4. trReq' \in [TrRequests -> TrAsks \cup {None}]
  BY <1>2
<1>6. AsksInv'
  <2> SUFFICES ASSUME NEW q \in TrRequests, trReq'[q] # None PROVE AskOk(trReq[q])'
    BY DEF AsksInv
  <2>1. PICK k : k = trReq'[q]
    OBVIOUS
  <2>4. AskOk(k)'
    <3>1. CASE q = r
      <4>1. k = new /\ new # None
        BY <1>3, <2>1, <3>1
      <4> QED
        BY <4>1
    <3>2. CASE q # r
      <4>1. k = trReq[q] /\ k # None /\ trReq[q] # None
        BY <1>3, <2>1, <3>2
      <4>2. AskOk(trReq[q])
        BY <4>1 DEF TrInv, AsksInv
      <4>3. k \in TrAsks /\ AskOk(k)
        BY <1>2, <4>1, <4>2
      <4> QED
        BY <4>3, QuietStays
    <3> QED
      BY <3>1, <3>2
  <2> QED
    BY <2>1, <2>4 DEF AskOk, ServerAt, Fresh, Excused
<1>7. LocksInv'
  <2> SUFFICES ASSUME NEW p \in TrRequests, NEW q \in TrRequests, trReq'[p] # None, trReq'[q] # None, p # q
               PROVE  /\ ~(trReq'[p].step \in Locking /\ trReq'[q].step \in Locking /\ trReq'[p].cell = trReq'[q].cell)
                      /\ ~(trReq'[p].step \in Guarding /\ trReq'[q].step \in Guarding /\ NameOf(trReq'[p]) = NameOf(trReq'[q]))
    BY DEF LocksInv, NameOf
  <2>1. ASSUME NEW q1 \in TrRequests, q1 # r, new # None, trReq[q1] # None
        PROVE  /\ ~(new.step \in Locking /\ trReq[q1].step \in Locking /\ trReq[q1].cell = new.cell)
               /\ ~(new.step \in Guarding /\ trReq[q1].step \in Guarding /\ NameOf(trReq[q1]) = NameOf(new))
    <3>1. new.step \in Locking => InCell(new.cell) \subseteq {r}
      BY <2>1 DEF Alone
    <3>2. new.step \in Guarding => InGuard(NameOf(new)) \subseteq {r}
      BY <2>1 DEF Alone
    <3>3. trReq[q1].step \in Locking /\ trReq[q1].cell = new.cell => q1 \in InCell(new.cell)
      BY <2>1 DEF InCell, Locking
    <3>4. trReq[q1].step \in Guarding /\ NameOf(trReq[q1]) = NameOf(new) => q1 \in InGuard(NameOf(new))
      BY <2>1 DEF InGuard, Guarding
    <3> QED
      BY <2>1, <3>1, <3>2, <3>3, <3>4
  <2>2. CASE p = r
    <3>1. trReq'[p] = new /\ trReq'[q] = trReq[q]
      BY <1>3, <2>2
    <3> QED
      BY <2>1, <2>2, <3>1
  <2>3. CASE q = r
    <3>1. trReq'[q] = new /\ trReq'[p] = trReq[p]
      BY <1>3, <2>3
    <3> QED
      BY <2>1, <2>3, <3>1
  <2>4. CASE p # r /\ q # r
    <3>1. trReq'[q] = trReq[q] /\ trReq'[p] = trReq[p]
      BY <1>3, <2>4
    <3> QED
      BY <3>1 DEF TrInv, LocksInv
  <2> QED
    BY <2>2, <2>3, <2>4
<1> QED
  BY <1>4, <1>6, <1>7, QuietStays

\* One request goes on while the world stays.
LEMMA OneAsks ==
    ASSUME TrInv, Quiet, NEW r \in TrRequests, NEW new \in TrAsks \cup {None},
           trReq' = [trReq EXCEPT ![r] = new], new # None => AskOk(new) /\ Alone(r, new)
    PROVE  (trReq \in [TrRequests -> TrAsks \cup {None}])' /\ LocksInv' /\ AsksInv' /\ RecordsInv'
<1>1. new # None => AskOk(new)'
  BY QuietStays
<1> QED
  BY <1>1, OneAsksThen

\* A request that goes on takes no other cell.
LEMMA NoOtherCell ==
    ASSUME TrInv, UNCHANGED trLru, NEW r \in TrRequests, NEW new,
           trReq' = [trReq EXCEPT ![r] = new],
           new = None \/ new.step \notin Linking \/ Asks(r, new.server, new.cell)
    PROVE  \A s \in TrServers, c \in Nat : Holds(s, c)' => Holds(s, c)
<1>1. trReq'[r] = new /\ \A q \in TrRequests : q # r => trReq'[q] = trReq[q]
  BY DEF TrInv, TrTypes
<1>2. ASSUME NEW s \in TrServers, NEW c \in Nat, NEW q \in TrRequests, Asks(q, s, c)' PROVE Asks(q, s, c)
  BY <1>1, <1>2 DEF Asks
<1> QED
  BY <1>2 DEF Holds

\* Cells stand when nobody takes one and none is written.
LEMMA CellsStand ==
    ASSUME TrInv, Quiet, UNCHANGED trCell,
           \A s \in TrServers, c \in Nat : Holds(s, c)' => Holds(s, c)
    PROVE  CellsInv'
<1> SUFFICES ASSUME NEW s \in TrServers, NEW c \in Nat, Holds(s, c)'
             PROVE  /\ c \in 1..Len(trCell') /\ CellOk(s, trCell[c])'
                    /\ \A t \in TrServers : Holds(t, c)' => t = s
  BY DEF CellsInv
<1>1. PICK e : e = trCell[c]
  OBVIOUS
<1>2. c \in 1..Len(trCell) /\ CellOk(s, e) /\ \A t \in TrServers : Holds(t, c) => t = s
  BY <1>1 DEF TrInv, CellsInv
<1>3. e \in TrCells \cup {None}
  BY <1>1, <1>2 DEF TrInv, TrTypes
<1>4. CellOk(s, e)'
  BY <1>2, <1>3, QuietStays DEF CellOk
<1> QED
  BY <1>1, <1>2, <1>4 DEF CellOk, Backed

\* Names are told apart by what they stand for.
LEMMA NamesStand ==
    ASSUME TrInv, Quiet, UNCHANGED trCache PROVE NamesInv'
<1> SUFFICES ASSUME NEW n \in TrNames, trCache[n] # None PROVE NameOk(n, trCache[n])'
  BY DEF NamesInv
<1>1. PICK e : e = trCache[n] /\ e = trCache'[n]
  OBVIOUS
<1>2. NameOk(n, e)
  BY <1>1 DEF TrInv, NamesInv
<1>3. NameOk(n, e)'
  BY <1>2, QuietStays
<1> QED
  BY <1>1, <1>3 DEF NameOk, ServerAt

\* A request for a plain address.
LEMMA PlainStep ==
    ASSUME TrInv, Quiet, UNCHANGED <<trLru, trCell, trCache>>, SentInv',
           NEW r \in TrRequests, NEW new \in TrAsks \cup {None},
           trReq' = [trReq EXCEPT ![r] = new], new # None => AskOk(new) /\ Alone(r, new),
           new = None \/ new.step \notin Linking \/ Asks(r, new.server, new.cell)
    PROVE  TrInv'
<1>1. (trReq \in [TrRequests -> TrAsks \cup {None}])' /\ LocksInv' /\ AsksInv' /\ RecordsInv'
  BY OneAsks
<1>2. \A s \in TrServers, c \in Nat : Holds(s, c)' => Holds(s, c)
  BY NoOtherCell
<1>3. CellsInv' /\ NamesInv'
  BY <1>2, CellsStand, NamesStand
<1>4. TrTypes'
  BY <1>1, QuietStays DEF TrInv, TrTypes
<1>5. LruInv'
  BY DEF TrInv, LruInv
<1> QED
  BY <1>1, <1>3, <1>4, <1>5 DEF TrInv

\* Nothing is noted.
LEMMA NothingNoted == ASSUME TrInv, UNCHANGED trWorld, UNCHANGED trFailed PROVE Quiet
  BY DEF Quiet, TrInv, TrTypes, WorldTypes

\* What AskVia makes of a request.
ViaOf(q, path) == [q EXCEPT !.step = "via", !.path = path, !.cell = 0,
                            !.server = IF path THEN @ ELSE None, !.asked = IF path THEN trClock ELSE 0]

\* What a request becomes that knows its form.
LEMMA AskViaFacts ==
    ASSUME TrInv, NEW r \in TrRequests, trReq[r] # None, trReq[r].step \in Linking,
           NEW path \in BOOLEAN, AskVia(r, path)
    PROVE  \E k \in TrAsks :
             /\ trReq' = [trReq EXCEPT ![r] = k] /\ k.step = "via" /\ k.path = path
             /\ k.name = trReq[r].name /\ k.owner = trReq[r].owner /\ k.since = trReq[r].since
             /\ path => k.server = trReq[r].server /\ k.asked = trClock
             /\ path => (Fresh(trReq[r].server, trClock) => AskOk(k))
             /\ ~path => AskOk(k)
             /\ Alone(r, k) /\ k.step \notin Linking
<1> DEFINE q == trReq[r]  k == ViaOf(q, path)
<1>1. q \in TrAsks /\ AskOk(q) /\ trClock \in Nat
  BY DEF TrInv, TrTypes, WorldTypes, AsksInv
<1>2. trReq' = [trReq EXCEPT ![r] = k]
  BY DEF AskVia, ViaOf, TrInv, TrTypes
<1>3. q.step \in Linking
  OBVIOUS
<1> HIDE DEF q
<1>4. /\ k \in TrAsks /\ k.step = "via" /\ k.path = path /\ k.name = q.name /\ k.owner = q.owner
      /\ k.since = q.since /\ (path => k.server = q.server /\ k.asked = trClock)
  BY <1>1 DEF ViaOf, TrAsks
<1> HIDE DEF k
<1>5. path => (Fresh(q.server, trClock) => AskOk(k))
  BY <1>1, <1>3, <1>4 DEF AskOk, Linking
<1>6. ~path => AskOk(k)
  BY <1>1, <1>3, <1>4 DEF AskOk, Linking
<1>7. Alone(r, k) /\ k.step \notin Linking
  BY <1>4 DEF Alone, Locking, Guarding, Linking
<1> QED
  BY <1>2, <1>4, <1>5, <1>6, <1>7 DEF q

\* A request holds its cell.
LEMMA AskerHolds ==
    ASSUME TrInv, NEW r \in TrRequests, trReq[r] # None, trReq[r].step \in Linking
    PROVE  /\ trReq[r].server \in TrServers /\ trReq[r].cell \in 1..Len(trCell)
           /\ Holds(trReq[r].server, trReq[r].cell)
           /\ trCell[trReq[r].cell] # None => trCell[trReq[r].cell] \in TrCells
           /\ CellOk(trReq[r].server, trCell[trReq[r].cell])
<1>1. trReq[r] \in TrAsks /\ AskOk(trReq[r]) /\ trCell \in Seq(TrCells \cup {None})
  BY DEF TrInv, TrTypes, AsksInv
<1>2. trReq[r].server \in TrServers /\ trReq[r].cell \in Nat
  BY <1>1 DEF AskOk, TrAsks
<1>3. Holds(trReq[r].server, trReq[r].cell)
  BY DEF Holds, Asks
<1>4. trReq[r].cell \in 1..Len(trCell)
  BY <1>2, <1>3 DEF TrInv, CellsInv
<1> QED
  BY <1>1, <1>2, <1>3, <1>4 DEF TrInv, CellsInv

\* A request is alone with what it holds.
LEMMA HolderIsAlone ==
    ASSUME TrInv, NEW r \in TrRequests, trReq[r] # None
    PROVE  /\ trReq[r].step \in Locking => InCell(trReq[r].cell) \subseteq {r}
           /\ trReq[r].step \in Guarding => InGuard(NameOf(trReq[r])) \subseteq {r}
  BY DEF TrInv, LocksInv, InCell, InGuard, Locking, Guarding

\* A request looks at the cell of its homeserver.
LEMMA LookStep == ASSUME TrInv, NEW r \in TrRequests, LookAtCell(r) PROVE TrInv'
<1>1. /\ trReq[r] # None /\ trReq[r].step = "cell" /\ InCell(trReq[r].cell) = {} /\ trSent' = None
      /\ UNCHANGED trWorld /\ UNCHANGED trFailed /\ UNCHANGED <<trLru, trCell, trCache>>
  BY DEF LookAtCell
<1>q. Quiet /\ trReq[r].step \in Linking
  BY <1>1, NothingNoted DEF Linking
<1>2. trReq[r] \in TrAsks /\ AskOk(trReq[r])
  BY <1>1 DEF TrInv, TrTypes, AsksInv
<1>3. CASE Current(trReq[r].cell)
  <2> DEFINE path == trCell[trReq[r].cell].path
  <2>1. AskVia(r, path)
    BY <1>3 DEF LookAtCell
  <2>2. path \in BOOLEAN /\ (path => Fresh(trReq[r].server, trClock))
    <3>1. PICK e : e = trCell[trReq[r].cell]
      OBVIOUS
    <3>2. e \in TrCells /\ trClock < e.until /\ CellOk(trReq[r].server, e) /\ trReq[r].server \in TrServers /\ e # None
      BY <1>1, <1>q, <1>3, <3>1, AskerHolds DEF Current
    <3>3. e.until \in Nat /\ e.path \in BOOLEAN /\ WorldTypes
      BY <3>2 DEF TrCells, TrInv, TrTypes
    <3>4. e.path => Fresh(trReq[r].server, trClock)
      BY <3>2, <3>3, BackedIsFresh DEF CellOk
    <3> QED
      BY <3>1, <3>3, <3>4
  <2> HIDE DEF path
  <2>3. PICK k \in TrAsks : trReq' = [trReq EXCEPT ![r] = k] /\ AskOk(k) /\ Alone(r, k) /\ k.step \notin Linking
    BY <1>1, <1>q, <2>1, <2>2, AskViaFacts
  <2> QED
    BY <1>1, <1>q, <2>3, PlainStep, NothingSent
<1>4. CASE ~Current(trReq[r].cell)
  <2> DEFINE k == [trReq[r] EXCEPT !.step = "info"]
  <2>1. trReq' = [trReq EXCEPT ![r] = k]
    BY <1>1, <1>4 DEF LookAtCell, TrInv, TrTypes
  <2>2. /\ k \in TrAsks /\ k.step = "info" /\ k.server = trReq[r].server /\ k.cell = trReq[r].cell
        /\ k.name = trReq[r].name /\ k.owner = trReq[r].owner /\ k.path = trReq[r].path
        /\ k.since = trReq[r].since /\ k.asked = trReq[r].asked
    BY <1>2 DEF TrAsks
  <2> HIDE DEF k
  <2>3. AskOk(k)
    BY <1>1, <1>q, <1>2, <2>2 DEF AskOk
  <2>4. Asks(r, k.server, k.cell)
    BY <1>1, <1>q, <2>2 DEF Asks
  <2>5. Alone(r, k)
    BY <1>1, <2>2 DEF Alone, Guarding
  <2> QED
    BY <1>1, <1>q, <2>1, <2>2, <2>3, <2>4, <2>5, PlainStep, NothingSent
<1> QED
  BY <1>3, <1>4

\* A request is dropped.
LEMMA DropStep == ASSUME TrInv, NEW r \in TrRequests, DropRequest(r) PROVE TrInv'
<1>1. /\ trReq' = [trReq EXCEPT ![r] = None] /\ trSent' = None
      /\ UNCHANGED trWorld /\ UNCHANGED trFailed /\ UNCHANGED <<trLru, trCell, trCache>>
  BY DEF DropRequest
<1> QED
  BY <1>1, NothingNoted, PlainStep, NothingSent

\* A request is sent.
LEMMA SendStep == ASSUME TrInv, NEW r \in TrRequests, SendRequest(r) PROVE TrInv'
<1> DEFINE q == trReq[r]
           to == IF q.via = "direct" THEN ServerAt(q.name) ELSE q.via
<1>1. /\ trReq' = [trReq EXCEPT ![r] = None] /\ q # None /\ q.step = "send"
      /\ trSent' = [owner |-> q.owner, path |-> q.path, server |-> q.server, to |-> to,
                    stale |-> q.stale, since |-> q.since, asked |-> q.asked]
      /\ UNCHANGED trWorld /\ UNCHANGED trFailed /\ UNCHANGED <<trLru, trCell, trCache>>
  BY DEF SendRequest
<1>2. AskOk(q)
  BY <1>1 DEF TrInv, AsksInv
<1>3. q.stale < TransportTtl
  BY <1>1, <1>2 DEF AskOk
<1>4. q.path => Fresh(q.server, q.asked) /\ (to = q.server \/ Excused(q.owner, q.since))
  BY <1>1, <1>2 DEF AskOk
<1> HIDE DEF q, to
<1>5. /\ trSent'.owner = q.owner /\ trSent'.path = q.path /\ trSent'.to = to /\ trSent'.stale = q.stale
      /\ trSent'.server = q.server /\ trSent'.since = q.since /\ trSent'.asked = q.asked
  BY <1>1
<1>6. UNCHANGED <<trServed, trMoved, trFailed>>
  BY <1>1 DEF trWorld
<1>7. SentInv'
  BY <1>3, <1>4, <1>5, <1>6 DEF SentInv, PathOnlyWhereUnderstood, DomainIsRecent, Fresh, Excused
<1> QED
  BY <1>1, <1>7, NothingNoted, PlainStep

\* What a request may go through: its name's homeserver, or one that its owner left
\* shortly before.
RightWay(q, via) ==
    /\ via = "direct" \/ via = ServerAt(q.name) \/ Excused(q.owner, q.since)
    /\ q.name \in TrOwners /\ via \in TrServers => trClock - trWas[q.name][via] < TransportTtl

\* What GoesVia makes of a request.
SentVia(q, via) == [q EXCEPT !.step = "send", !.via = via, !.stale = Staleness(q, via)]

\* What a request goes through.
LEMMA SentViaFacts ==
    ASSUME TrInv, NEW q \in TrAsks, AskOk(q), q.step \in {"via", "resolve"},
           NEW via \in TrServers \cup {"direct"}, RightWay(q, via)
    PROVE  /\ SentVia(q, via) \in TrAsks /\ AskOk(SentVia(q, via)) /\ SentVia(q, via).step = "send"
<1> DEFINE k == SentVia(q, via)
<1>1. q.name \in TrNames /\ q.owner \in TrOwners /\ (q.name = q.owner \/ q.name \in TrServers)
  BY DEF TrAsks, AskOk
<1>2. q.name \in TrOwners => q.name = q.owner
  BY <1>1, TransportAssumption
<1>3. Staleness(q, via) \in Int /\ Staleness(q, via) < TransportTtl
  <2>1. CASE via \in TrServers /\ q.name \in TrOwners
    <3>1. Staleness(q, via) = trClock - trWas[q.name][via]
      BY <1>2, <2>1 DEF Staleness
    <3>2. trWas[q.name][via] \in Nat /\ trClock \in Nat
      BY <2>1 DEF TrInv, TrTypes, WorldTypes
    <3>3. trClock - trWas[q.name][via] < TransportTtl
      BY <2>1 DEF RightWay
    <3> QED
      BY <3>1, <3>2, <3>3
  <2>2. CASE ~(via \in TrServers /\ q.name \in TrOwners)
    <3>1. Staleness(q, via) = 0 /\ TransportTtl \in Nat \ {0}
      BY <2>2, TransportAssumption DEF Staleness
    <3> QED
      BY <3>1
  <2> QED
    BY <2>1, <2>2
<1>4. /\ k \in TrAsks /\ k.step = "send" /\ k.path = q.path /\ k.name = q.name /\ k.owner = q.owner
      /\ k.via = via /\ k.stale = Staleness(q, via) /\ k.server = q.server /\ k.since = q.since
      /\ k.asked = q.asked
  BY <1>3 DEF SentVia, TrAsks
<1> HIDE DEF k
<1>5. k.path /\ k.via # "direct" => k.via = k.server \/ Excused(k.owner, k.since)
  BY <1>4 DEF RightWay, AskOk
<1>6. AskOk(k)
  BY <1>3, <1>4, <1>5 DEF AskOk, Linking
<1> QED
  BY <1>4, <1>6 DEF k

\* A request that knows its way, or that of its question.
LEMMA GoesOn ==
    ASSUME TrInv, NEW r \in TrRequests, trReq[r] # None, trReq[r].step \in {"info", "probe", "via", "resolve"},
           NEW via \in TrServers \cup {"direct"}, GoesVia(r, via),
           trReq[r].step \in {"via", "resolve"} => RightWay(trReq[r], via)
    PROVE  \E new \in TrAsks : /\ trReq' = [trReq EXCEPT ![r] = new] /\ AskOk(new) /\ Alone(r, new)
                               /\ new.step \notin Linking \/ Asks(r, new.server, new.cell)
<1> DEFINE q == trReq[r]
<1>1. q \in TrAsks /\ AskOk(q)
  BY DEF TrInv, TrTypes, AsksInv
<1>2. CASE q.step \in {"info", "probe"}
  <2> DEFINE k == [q EXCEPT !.step = "ask"]
  <2>1. trReq' = [trReq EXCEPT ![r] = k]
    BY <1>2 DEF GoesVia, TrInv, TrTypes
  <2>2. /\ k \in TrAsks /\ k.step = "ask" /\ k.server = q.server /\ k.cell = q.cell
        /\ k.name = q.name /\ k.owner = q.owner /\ k.path = q.path /\ k.since = q.since /\ k.asked = q.asked
    BY <1>1 DEF TrAsks
  <2>3. q.step \in Linking /\ q.step \in Locking
    BY <1>2 DEF Linking, Locking
  <2>4. AskOk(k)
    <3> HIDE DEF k, q
    <3> QED
      BY <1>1, <2>2, <2>3 DEF AskOk
  <2>5. Asks(r, k.server, k.cell)
    <3> HIDE DEF k
    <3> QED
      BY <2>2, <2>3 DEF Asks
  <2>6. Alone(r, k)
    <3> HIDE DEF k
    <3> QED
      BY <2>2, <2>3, HolderIsAlone DEF Alone, Guarding
  <2> QED
    BY <2>1, <2>2, <2>4, <2>5, <2>6
<1>3. CASE q.step \in {"via", "resolve"}
  <2> DEFINE k == SentVia(q, via)
  <2>1. trReq' = [trReq EXCEPT ![r] = k]
    BY <1>3 DEF GoesVia, SentVia, TrInv, TrTypes
  <2>2. k \in TrAsks /\ AskOk(k) /\ k.step = "send"
    BY <1>1, <1>3, SentViaFacts
  <2> HIDE DEF k
  <2>3. Alone(r, k) /\ k.step \notin Linking
    BY <2>2 DEF Alone, Locking, Guarding, Linking
  <2> QED
    BY <2>1, <2>2, <2>3
<1> QED
  BY <1>2, <1>3

\* The record's own homeserver is named now.
LEMMA NamedNow ==
    ASSUME TrInv, NEW n \in TrNames, NEW via, via \in {"direct", ServerAt(n)}
    PROVE  /\ via \in TrServers \cup {"direct"}
           /\ n \in TrOwners /\ via \in TrServers => trWas[n][via] = trClock /\ trClock - trWas[n][via] < TransportTtl
<1>1. ServerAt(n) \in TrServers
  BY NameLeads DEF TrInv
<1>2. ASSUME n \in TrOwners, via \in TrServers PROVE trWas[n][via] = trClock
  BY <1>2, TransportAssumption DEF TrInv, RecordsInv, ServerAt
<1>3. trClock \in Nat /\ TransportTtl \in Nat \ {0}
  BY TransportAssumption DEF TrInv, TrTypes, WorldTypes
<1>4. trClock - trClock < TransportTtl
  BY <1>3
<1> QED
  BY <1>1, <1>2, <1>4

\* The name a request asks for.
LEMMA AsksName ==
    ASSUME TrInv, NEW r \in TrRequests, trReq[r] # None, trReq[r].step \in {"info", "probe", "via", "resolve"}
    PROVE  /\ NameOf(trReq[r]) \in TrNames
           /\ trReq[r].step \in {"via", "resolve"} => NameOf(trReq[r]) = trReq[r].name
<1>1. trReq[r] \in TrAsks /\ AskOk(trReq[r])
  BY DEF TrInv, TrTypes, AsksInv
<1>2. CASE trReq[r].step \in {"info", "probe"}
  BY <1>1, <1>2 DEF AskOk, Linking, NameOf, TrNames
<1>3. CASE trReq[r].step \in {"via", "resolve"}
  BY <1>1, <1>3 DEF NameOf, TrAsks
<1> QED
  BY <1>2, <1>3

\* A request asks for the way to its homeserver.
LEMMA AskTransportStep == ASSUME TrInv, NEW r \in TrRequests, AskTransport(r) PROVE TrInv'
<1> DEFINE q == trReq[r]  n == NameOf(q)
<1>1. /\ q # None /\ q.step \in {"info", "via"} /\ trSent' = None
      /\ UNCHANGED trWorld /\ UNCHANGED trFailed /\ UNCHANGED <<trLru, trCell, trCache>>
  BY DEF AskTransport
<1>q. Quiet
  BY <1>1, NothingNoted
<1>2. q \in TrAsks /\ AskOk(q) /\ n \in TrNames /\ (q.step = "via" => n = q.name)
  BY <1>1, AsksName DEF TrInv, TrTypes, AsksInv
<1>3. CASE trWasm
  <2>1. GoesVia(r, ServerAt(n))
    BY <1>3 DEF AskTransport
  <2>2. ServerAt(n) \in TrServers \cup {"direct"} /\ (q.step = "via" => RightWay(q, ServerAt(n)))
    BY <1>2, NamedNow DEF RightWay
  <2>3. PICK new \in TrAsks : /\ trReq' = [trReq EXCEPT ![r] = new] /\ AskOk(new) /\ Alone(r, new)
                              /\ new.step \notin Linking \/ Asks(r, new.server, new.cell)
    BY <1>1, <2>1, <2>2, GoesOn
  <2> QED
    BY <1>1, <1>q, <2>3, PlainStep, NothingSent
<1>4. CASE ~trWasm /\ Known(n)
  <2> DEFINE e == trCache[n]
  <2>1. GoesVia(r, e.via)
    BY <1>4 DEF AskTransport
  <2>2. e # None /\ trClock - e.at < TransportTtl
    BY <1>4 DEF Known
  <2>3. e \in TrEndpoints /\ NameOk(n, e)
    BY <1>2, <2>2 DEF TrInv, TrTypes, NamesInv
  <2>4. e.at \in Nat /\ e.via \in TrServers \cup {"direct"}
    BY <2>3 DEF TrEndpoints
  <2>5. trClock \in Nat /\ TransportTtl \in Nat /\ trMoved \subseteq TrOwners \X Nat
    BY TransportAssumption DEF TrInv, TrTypes, WorldTypes
  <2> HIDE DEF e, n
  <2>6. ASSUME n \in TrOwners, e.via \in TrServers PROVE trClock - trWas[n][e.via] < TransportTtl
    <3>1. e.at <= trWas[n][e.via] /\ trWas[n][e.via] \in Nat
      BY <2>3, <2>6 DEF NameOk, TrInv, TrTypes, WorldTypes
    <3> QED
      BY <2>2, <2>4, <2>5, <3>1
  <2>7. ASSUME q.step = "via" PROVE RightWay(q, e.via)
    <3>1. q.name = n /\ q.since \in Nat /\ q.since <= trClock /\ (n \in TrOwners => n = q.owner)
      BY <1>2, <2>7, TransportAssumption DEF TrAsks, AskOk
    <3>2. CASE e.via \in {"direct", ServerAt(n)}
      BY <2>6, <3>1, <3>2 DEF RightWay
    <3>3. CASE n \in TrOwners /\ \E m \in trMoved : m[1] = n /\ m[2] >= e.at
      <4>1. PICK m \in trMoved : m[1] = n /\ m[2] >= e.at
        BY <3>3
      <4>2. m[2] \in Nat
        BY <2>5, <4>1
      <4>3. m[2] + TransportTtl > q.since
        BY <2>2, <2>4, <2>5, <3>1, <4>1, <4>2
      <4>4. Excused(q.owner, q.since)
        BY <3>1, <3>3, <4>1, <4>3 DEF Excused
      <4> QED
        BY <2>6, <3>1, <4>4 DEF RightWay
    <3> QED
      BY <2>3, <3>2, <3>3 DEF NameOk
  <2>8. PICK new \in TrAsks : /\ trReq' = [trReq EXCEPT ![r] = new] /\ AskOk(new) /\ Alone(r, new)
                              /\ new.step \notin Linking \/ Asks(r, new.server, new.cell)
    BY <1>1, <2>1, <2>4, <2>7, GoesOn
  <2> QED
    BY <1>1, <1>q, <2>8, PlainStep, NothingSent
<1>5. CASE ~trWasm /\ ~Known(n)
  <2> DEFINE step == IF q.step = "info" THEN "probe" ELSE "resolve"
             k == [q EXCEPT !.step = step]
  <2>1. InGuard(n) = {} /\ trReq' = [trReq EXCEPT ![r] = k]
    BY <1>5 DEF AskTransport, TrInv, TrTypes
  <2>2. step \in {"probe", "resolve"} /\ (step = "probe" <=> q.step = "info")
    BY <1>1
  <2> HIDE DEF step
  <2>3. /\ k \in TrAsks /\ k.step = step /\ k.name = q.name /\ k.owner = q.owner /\ k.path = q.path
        /\ k.server = q.server /\ k.cell = q.cell /\ k.since = q.since /\ k.asked = q.asked
    BY <1>2, <2>2 DEF TrAsks
  <2>4. NameOf(k) = n
    <3> HIDE DEF k
    <3> QED
      BY <1>1, <2>2, <2>3 DEF NameOf
  <2>5. q.step = "info" => q.step \in Linking /\ q.step \in Locking
    BY DEF Linking, Locking
  <2>6. step \in Linking => q.step = "info"
    BY <2>2 DEF Linking
  <2>7. step \in Locking => q.step = "info"
    BY <2>2 DEF Locking
  <2> HIDE DEF k
  <2>8. AskOk(k)
    <3> HIDE DEF q
    <3> QED
      BY <1>2, <2>2, <2>3, <2>5, <2>6 DEF AskOk
  <2>9. Alone(r, k)
    BY <1>1, <2>1, <2>3, <2>4, <2>5, <2>7, HolderIsAlone DEF Alone
  <2>10. k.step \notin Linking \/ Asks(r, k.server, k.cell)
    BY <1>1, <2>3, <2>5, <2>6 DEF Asks
  <2> QED
    BY <1>1, <1>q, <2>1, <2>3, <2>8, <2>9, <2>10, PlainStep, NothingSent
<1> QED
  BY <1>3, <1>4, <1>5

\* A name is resolved.
LEMMA ResolveStep ==
    ASSUME TrInv, NEW r \in TrRequests, NEW found \in BOOLEAN, ResolveTransport(r, found) PROVE TrInv'
<1> DEFINE q == trReq[r]  n == NameOf(q)  via == Resolved(ServerAt(n), found)
           e == [at |-> trClock, via |-> via]
<1>1. /\ q # None /\ q.step \in {"probe", "resolve"} /\ trCache' = [trCache EXCEPT ![n] = e] /\ GoesVia(r, via)
      /\ trSent' = None /\ UNCHANGED trWorld /\ UNCHANGED trFailed /\ UNCHANGED <<trLru, trCell>>
  BY DEF ResolveTransport
<1>q. Quiet
  BY <1>1, NothingNoted
<1>2. q \in TrAsks /\ AskOk(q) /\ n \in TrNames /\ (q.step = "resolve" => n = q.name)
  BY <1>1, AsksName DEF TrInv, TrTypes, AsksInv
<1>3. via \in {"direct", ServerAt(n)}
  BY DEF Resolved
<1>5. /\ via \in TrServers \cup {"direct"}
      /\ n \in TrOwners /\ via \in TrServers => trWas[n][via] = trClock /\ trClock - trWas[n][via] < TransportTtl
  BY <1>2, <1>3, NamedNow
<1> HIDE DEF via, n
<1>c. q.step = "resolve" => RightWay(q, via)
  BY <1>2, <1>3, <1>5 DEF RightWay
<1>4. PICK k \in TrAsks : /\ trReq' = [trReq EXCEPT ![r] = k] /\ AskOk(k) /\ Alone(r, k)
                          /\ k.step \notin Linking \/ Asks(r, k.server, k.cell)
  BY <1>1, <1>5, <1>c, GoesOn
<1> HIDE DEF q
<1>6. (trReq \in [TrRequests -> TrAsks \cup {None}])' /\ LocksInv' /\ AsksInv' /\ RecordsInv'
  BY <1>q, <1>4, OneAsks
<1>7. \A s \in TrServers, c \in Nat : Holds(s, c)' => Holds(s, c)
  BY <1>1, <1>4, NoOtherCell
<1>8. CellsInv'
  BY <1>1, <1>q, <1>7, CellsStand
<1>9. trClock \in Nat /\ trCache \in [TrNames -> TrEndpoints \cup {None}]
  BY DEF TrInv, TrTypes, WorldTypes
<1>10. e \in TrEndpoints /\ e.at = trClock /\ e.via = via
  BY <1>5, <1>9 DEF TrEndpoints
<1> HIDE DEF e
<1>11. trCache'[n] = e /\ \A m \in TrNames : m # n => trCache'[m] = trCache[m]
  BY <1>1, <1>2, <1>9
<1>12. trCache' \in [TrNames -> TrEndpoints \cup {None}]
  BY <1>1, <1>9, <1>10
<1>13. NameOk(n, e)
  BY <1>3, <1>5, <1>9, <1>10 DEF NameOk
<1>14. NamesInv'
  <2> SUFFICES ASSUME NEW m \in TrNames, trCache'[m] # None PROVE NameOk(m, trCache[m])'
    BY DEF NamesInv
  <2>1. PICK f : f = trCache'[m]
    OBVIOUS
  <2>2. NameOk(m, f)
    BY <1>11, <1>13, <2>1 DEF TrInv, NamesInv
  <2>3. NameOk(m, f)'
    BY <1>q, <2>2, QuietStays
  <2> QED
    BY <2>1, <2>3 DEF NameOk, ServerAt
<1>15. TrTypes'
  BY <1>1, <1>q, <1>6, <1>12, QuietStays DEF TrInv, TrTypes
<1>16. LruInv'
  BY <1>1 DEF TrInv, LruInv
<1> QED
  BY <1>1, <1>6, <1>8, <1>14, <1>15, <1>16, NothingSent DEF TrInv

\* A homeserver's features arrive, or the last known ones are kept.
LEMMA InfoStep ==
    ASSUME TrInv, NEW r \in TrRequests, NEW ok \in BOOLEAN, InfoAnswers(r, ok) PROVE TrInv'
<1> DEFINE q == trReq[r]
           form == IF ok THEN trOffers[q.server] = "path"
                   ELSE trCell[q.cell] # None /\ trCell[q.cell].path
           lives == IF ok THEN InfoTtl ELSE InfoFailureTtl
<1>1. /\ q # None /\ q.step \in {"ask", "info"} /\ AskVia(r, form)
      /\ trCell' = [trCell EXCEPT ![q.cell] = [path |-> form, until |-> trClock + lives]]
      /\ trFailed' = IF ok \/ ~form THEN trFailed ELSE trFailed \cup {<<q.server, trClock>>}
      /\ trSent' = None /\ UNCHANGED trWorld /\ UNCHANGED <<trLru, trCache>>
  BY DEF InfoAnswers
<1>2. q.step \in Linking /\ q \in TrAsks /\ AskOk(q)
  BY <1>1 DEF Linking, TrInv, TrTypes, AsksInv
<1>3. PICK s, c, now : s = q.server /\ c = q.cell /\ now = trClock
  OBVIOUS
<1>4. /\ s \in TrServers /\ c \in 1..Len(trCell) /\ Holds(s, c)
      /\ trCell[c] # None => trCell[c] \in TrCells
  BY <1>1, <1>2, <1>3, AskerHolds
<1>5. PICK path \in BOOLEAN : path = form
  BY <1>3, <1>4 DEF TrCells
<1>6. /\ now \in Nat /\ trCell \in Seq(TrCells \cup {None}) /\ trFailed \subseteq TrServers \X Nat
      /\ InfoTtl \in Nat \ {0} /\ InfoFailureTtl \in Nat \ {0} /\ trServed[s] \in Nat
  BY <1>3, <1>4, TransportAssumption DEF TrInv, TrTypes, WorldTypes
<1>7. PICK until \in Nat : until = now + lives /\ until > now
  BY <1>6
<1>v. [path |-> path, until |-> until] \in TrCells
  BY DEF TrCells
<1>8. PICK cell \in TrCells : cell = [path |-> path, until |-> until] /\ cell.path = path /\ cell.until = until
  BY <1>v
<1>9. trCell' = [trCell EXCEPT ![c] = cell]
  BY <1>1, <1>3, <1>5, <1>7, <1>8
<1>10. trFailed' = IF ok \/ ~path THEN trFailed ELSE trFailed \cup {<<s, now>>}
  BY <1>1, <1>3, <1>5
<1>11. Quiet
  <2>1. <<s, now>> \in TrServers \X Nat
    BY <1>4, <1>6
  <2> QED
    BY <1>1, <1>6, <1>10, <2>1 DEF Quiet
<1>12. ok /\ path => trServed[s] = now
  BY <1>3, <1>4, <1>5 DEF TrInv, RecordsInv
<1>13. PICK k \in TrAsks :
             /\ trReq' = [trReq EXCEPT ![r] = k] /\ k.step = "via" /\ k.path = path
             /\ k.name = q.name /\ k.owner = q.owner /\ k.since = q.since
             /\ path => k.server = s /\ k.asked = now
             /\ ~path => AskOk(k)
             /\ Alone(r, k) /\ k.step \notin Linking
  BY <1>1, <1>2, <1>3, <1>5, AskViaFacts
<1>14. path => Backed(s, until)' /\ Fresh(s, now)'
  <2>1. CASE ok /\ path
    <3>1. trServed[s] + InfoTtl >= until /\ trServed[s] + InfoTtl > now
      BY <1>6, <1>7, <1>12, <2>1
    <3>2. trServed' = trServed
      BY <1>1 DEF trWorld
    <3> QED
      BY <3>1, <3>2 DEF Backed, Fresh
  <2>2. CASE ~ok /\ path
    <3>1. PICK f : f = <<s, now>>
      OBVIOUS
    <3>2. f \in trFailed' /\ f[1] = s /\ f[2] = now
      BY <1>10, <2>2, <3>1
    <3>3. f[2] + InfoFailureTtl >= until /\ f[2] + InfoFailureTtl > now
      BY <1>6, <1>7, <2>2, <3>2
    <3> QED
      BY <3>2, <3>3 DEF Backed, Fresh
  <2> QED
    BY <2>1, <2>2
<1>15. AskOk(k)'
  <2>1. CASE ~path
    BY <1>11, <1>13, <2>1, QuietStays
  <2>2. CASE path
    <3>1. UNCHANGED <<trHome, trClock, trMoved>>
      BY <1>1 DEF trWorld
    <3>2. \A o, t, n : Excused(o, t)' = Excused(o, t) /\ ServerAt(n)' = ServerAt(n)
      BY <3>1 DEF Excused, ServerAt
    <3>3. /\ k.name = k.owner \/ k.name \in TrServers
          /\ k.since <= trClock
          /\ k.server = ServerAt(k.name) \/ Excused(k.owner, k.since)
      BY <1>2, <1>3, <1>13, <2>2 DEF AskOk
    <3> HIDE DEF q
    <3> QED
      BY <1>4, <1>13, <1>14, <2>2, <3>1, <3>2, <3>3 DEF AskOk
  <2> QED
    BY <2>1, <2>2
<1> HIDE DEF q, form, lives
<1>16. trCell' \in Seq(TrCells \cup {None}) /\ Len(trCell') = Len(trCell)
  <2>1. Len(trCell) \in Nat /\ trCell \in [1..Len(trCell) -> TrCells \cup {None}]
    BY <1>6
  <2>2. trCell' \in [1..Len(trCell) -> TrCells \cup {None}]
    BY <1>9, <2>1
  <2> QED
    BY <2>1, <2>2
<1>17. trCell'[c] = cell /\ \A d \in 1..Len(trCell) : d # c => trCell'[d] = trCell[d]
  BY <1>4, <1>6, <1>9
<1>18. (trReq \in [TrRequests -> TrAsks \cup {None}])' /\ LocksInv' /\ AsksInv' /\ RecordsInv'
  BY <1>11, <1>13, <1>15, OneAsksThen
<1>19. \A t \in TrServers, d \in Nat : Holds(t, d)' => Holds(t, d)
  BY <1>1, <1>13, NoOtherCell
<1>20. CellsInv'
  <2> SUFFICES ASSUME NEW t \in TrServers, NEW d \in Nat, Holds(t, d)'
               PROVE  /\ d \in 1..Len(trCell') /\ CellOk(t, trCell[d])'
                      /\ \A u \in TrServers : Holds(u, d)' => u = t
    BY DEF CellsInv
  <2>1. Holds(t, d)
    BY <1>19
  <2>2. d \in 1..Len(trCell) /\ CellOk(t, trCell[d]) /\ \A u \in TrServers : Holds(u, d) => u = t
    BY <2>1 DEF TrInv, CellsInv
  <2>3. PICK e : e = trCell'[d]
    OBVIOUS
  <2>4. CellOk(t, e)'
    <3>1. CASE d = c
      <4>1. t = s /\ e = cell
        BY <1>4, <1>17, <2>2, <2>3, <3>1
      <4> QED
        BY <1>8, <1>14, <4>1 DEF CellOk
    <3>2. CASE d # c
      <4>1. e = trCell[d] /\ e \in TrCells \cup {None}
        BY <1>6, <1>17, <2>2, <2>3, <3>2
      <4> QED
        BY <1>11, <2>2, <4>1, QuietStays DEF CellOk
    <3> QED
      BY <3>1, <3>2
  <2> QED
    BY <1>16, <1>19, <2>2, <2>3, <2>4 DEF CellOk, Backed
<1>21. TrTypes'
  BY <1>1, <1>11, <1>16, <1>18, QuietStays DEF TrInv, TrTypes
<1>22. LruInv' /\ NamesInv'
  BY <1>1, <1>11, NamesStand DEF TrInv, LruInv
<1> QED
  BY <1>1, <1>18, <1>20, <1>21, <1>22, NothingSent DEF TrInv

\* The cache without one of its entries: the others, in their order.
LEMMA WithoutFacts ==
    ASSUME trLru \in Seq(TrServers \X Nat), NEW i \in 1..Len(trLru)
    PROVE  /\ Without(i) \in Seq(TrServers \X Nat) /\ Len(Without(i)) = Len(trLru) - 1
           /\ \A j \in 1..(Len(trLru) - 1) : Without(i)[j] = trLru[IF j < i THEN j ELSE j + 1]
<1> DEFINE n == Len(trLru)  a == SubSeq(trLru, 1, i - 1)  b == SubSeq(trLru, i + 1, n)
<1>1. n \in Nat /\ i \in Nat /\ 1 <= i /\ i <= n
  OBVIOUS
<1>2. a \in Seq(TrServers \X Nat) /\ Len(a) = i - 1 /\ \A j \in 1..(i - 1) : a[j] = trLru[j]
  BY <1>1
<1>3. b \in Seq(TrServers \X Nat) /\ Len(b) = n - i /\ \A j \in 1..(n - i) : b[j] = trLru[i + j]
  <2>1. \A k \in (i + 1)..n : k \in 1..n
    BY <1>1
  <2>2. b = [k \in 1..(n - i) |-> trLru[i + k]]
    BY <1>1, <2>1
  <2>3. \A k \in 1..(n - i) : i + k \in 1..n /\ trLru[i + k] \in TrServers \X Nat
    BY <1>1
  <2> HIDE DEF b
  <2>4. b \in [1..(n - i) -> TrServers \X Nat] /\ n - i \in Nat
    BY <1>1, <2>2, <2>3
  <2> QED
    BY <2>2, <2>4
<1>4. Without(i) = a \o b
  BY DEF Without
<1> HIDE DEF a, b, n
<1>5. Len(a \o b) = n - 1 /\ a \o b \in Seq(TrServers \X Nat)
  <2> DEFINE T == TrServers \X Nat
  <2>1. a \in Seq(T) /\ b \in Seq(T) /\ Len(a) + Len(b) = n - 1
    BY <1>1, <1>2, <1>3
  <2> HIDE DEF T
  <2>2. a \o b \in Seq(T) /\ Len(a \o b) = Len(a) + Len(b)
    BY <2>1
  <2> QED
    BY <2>1, <2>2 DEF T
<1>6. ASSUME NEW j \in 1..(n - 1) PROVE (a \o b)[j] = trLru[IF j < i THEN j ELSE j + 1]
  <2>1. (a \o b)[j] = IF j <= Len(a) THEN a[j] ELSE b[j - Len(a)]
    <3> DEFINE T == TrServers \X Nat
    <3>1. a \in Seq(T) /\ b \in Seq(T) /\ j \in 1..(Len(a) + Len(b))
      BY <1>1, <1>2, <1>3
    <3> HIDE DEF T
    <3> QED
      BY <3>1
  <2>2. CASE j < i
    BY <1>1, <1>2, <2>1, <2>2
  <2>3. CASE ~(j < i)
    <3>1. j - (i - 1) \in 1..(n - i) /\ i + (j - (i - 1)) = j + 1 /\ ~(j <= i - 1)
      BY <1>1, <2>3
    <3> QED
      BY <1>2, <1>3, <2>1, <2>3, <3>1
  <2> QED
    BY <2>2, <2>3
<1> QED
  BY <1>4, <1>5, <1>6 DEF n

\* What is kept of the cache: entries of other homeservers, with room for one more.
LEMMA KeptFacts ==
    ASSUME TrInv, NEW s \in TrServers, NEW cell \in Nat
    PROVE  \E kept \in Seq(TrServers \X Nat) :
             /\ Used(s, cell) = Append(kept, <<s, cell>>) /\ Len(kept) < TrCapacity
             /\ \A j \in 1..Len(kept) : kept[j][1] # s /\ \E i \in 1..Len(trLru) : kept[j] = trLru[i]
             /\ \A i, j \in 1..Len(kept) : kept[i][1] = kept[j][1] => i = j
<1>1. trLru \in Seq(TrServers \X Nat) /\ LruInv /\ TrCapacity \in Nat \ {0} /\ Len(trLru) \in Nat
  BY TransportAssumption DEF TrInv, TrTypes
<1>2. Len(trLru) <= TrCapacity /\ \A i, j \in 1..Len(trLru) : trLru[i][1] = trLru[j][1] => i = j
  BY <1>1 DEF LruInv
<1>3. CASE Entry(s) # {}
  <2> DEFINE i == CHOOSE i \in Entry(s) : TRUE
             kept == Without(i)
  <2>1. i \in Entry(s)
    BY <1>3
  <2>2. i \in 1..Len(trLru) /\ trLru[i][1] = s
    BY <1>1, <2>1 DEF Entry
  <2>3. Used(s, cell) = Append(kept, <<s, cell>>)
    BY <1>3 DEF Used
  <2> HIDE DEF i
  <2>4. /\ kept \in Seq(TrServers \X Nat) /\ Len(kept) = Len(trLru) - 1
        /\ \A j \in 1..(Len(trLru) - 1) : kept[j] = trLru[IF j < i THEN j ELSE j + 1]
    BY <1>1, <2>2, WithoutFacts
  <2> HIDE DEF kept
  <2>5. \A j \in 1..Len(kept) : (IF j < i THEN j ELSE j + 1) \in 1..Len(trLru) /\ (IF j < i THEN j ELSE j + 1) # i
    BY <1>1, <2>2, <2>4
  <2>6. \A j \in 1..Len(kept) : kept[j][1] # s /\ \E m \in 1..Len(trLru) : kept[j] = trLru[m]
    BY <1>2, <2>2, <2>4, <2>5
  <2>7. ASSUME NEW j \in 1..Len(kept), NEW m \in 1..Len(kept), kept[j][1] = kept[m][1] PROVE j = m
    <3> DEFINE x == IF j < i THEN j ELSE j + 1
               y == IF m < i THEN m ELSE m + 1
    <3>1. x \in 1..Len(trLru) /\ y \in 1..Len(trLru) /\ kept[j] = trLru[x] /\ kept[m] = trLru[y]
      BY <2>4, <2>5
    <3>2. x = y => j = m
      <4>1. i \in Nat /\ j \in Nat /\ m \in Nat
        BY <1>1, <2>2, <2>4
      <4> QED
        BY <4>1
    <3> HIDE DEF x, y
    <3> QED
      BY <1>2, <2>7, <3>1, <3>2
  <2>8. Len(kept) < TrCapacity
    BY <1>1, <1>2, <2>4
  <2> QED
    BY <2>3, <2>4, <2>6, <2>7, <2>8
<1>4. CASE Entry(s) = {} /\ Len(trLru) >= TrCapacity
  <2> DEFINE kept == Tail(trLru)
  <2>1. Used(s, cell) = Append(kept, <<s, cell>>)
    BY <1>4 DEF Used
  <2>2. trLru # <<>> /\ Len(trLru) > 0
    BY <1>1, <1>4
  <2>3. kept \in Seq(TrServers \X Nat) /\ Len(kept) = Len(trLru) - 1 /\ \A j \in 1..(Len(trLru) - 1) : kept[j] = trLru[j + 1]
    BY <1>1, <2>2
  <2> HIDE DEF kept
  <2>4. \A j \in 1..Len(kept) : j + 1 \in 1..Len(trLru) /\ kept[j] = trLru[j + 1]
    BY <1>1, <2>2, <2>3
  <2>5. \A j \in 1..Len(trLru) : trLru[j][1] # s
    BY <1>1, <1>4 DEF Entry
  <2>6. \A j, m \in 1..Len(kept) : kept[j][1] = kept[m][1] => j = m
    <3> SUFFICES ASSUME NEW j \in 1..Len(kept), NEW m \in 1..Len(kept), kept[j][1] = kept[m][1] PROVE j = m
      OBVIOUS
    <3>1. j + 1 = m + 1
      BY <1>2, <2>4
    <3> QED
      BY <1>1, <2>3, <3>1
  <2>7. Len(kept) < TrCapacity
    BY <1>1, <1>2, <2>3
  <2>8. \A j \in 1..Len(kept) : kept[j][1] # s /\ \E i \in 1..Len(trLru) : kept[j] = trLru[i]
    BY <2>4, <2>5
  <2> QED
    BY <2>1, <2>3, <2>6, <2>7, <2>8
<1>5. CASE Entry(s) = {} /\ ~(Len(trLru) >= TrCapacity)
  <2>1. Used(s, cell) = Append(trLru, <<s, cell>>)
    BY <1>5 DEF Used
  <2>2. \A j \in 1..Len(trLru) : trLru[j][1] # s
    BY <1>1, <1>5 DEF Entry
  <2>3. Len(trLru) < TrCapacity
    BY <1>1, <1>5
  <2> QED
    BY <1>1, <1>2, <2>1, <2>2, <2>3
<1> QED
  BY <1>3, <1>4, <1>5

\* A request begins.
LEMMA BeginStep ==
    ASSUME TrInv, NEW r \in TrRequests, NEW o \in TrOwners, NEW n \in TrNames, NEW found \in BOOLEAN,
           BeginRequest(r, o, n, found)
    PROVE  TrInv'
<1> DEFINE s == ServerAt(n)
           begun == [step |-> "via", owner |-> o, name |-> n, server |-> None, cell |-> 0,
                     path |-> FALSE, via |-> "direct", stale |-> 0, since |-> trClock, asked |-> 0]
<1>1. trReq[r] = None /\ (n = o \/ n \in TrServers) /\ UNCHANGED trWorld /\ UNCHANGED trFailed
      /\ UNCHANGED trCache /\ trSent' = None
  BY DEF BeginRequest
<1>q. Quiet /\ trClock \in Nat
  BY <1>1, NothingNoted DEF TrInv, TrTypes, WorldTypes
<1>2. s \in TrServers
  BY NameLeads DEF TrInv
<1>3. CASE ~found
  <2>1. trReq' = [trReq EXCEPT ![r] = begun] /\ UNCHANGED <<trLru, trCell>>
    BY <1>3 DEF BeginRequest
  <2>2. begun \in TrAsks
    BY <1>q DEF TrAsks
  <2>3. AskOk(begun)
    BY <1>1, <1>q DEF AskOk, Linking
  <2>4. begun.step = "via"
    OBVIOUS
  <2> HIDE DEF begun
  <2>5. Alone(r, begun) /\ begun.step \notin Linking
    BY <2>4 DEF Alone, Locking, Guarding, Linking
  <2> QED
    BY <1>1, <1>q, <2>1, <2>2, <2>3, <2>5, PlainStep, NothingSent
<1>4. CASE found
  <2> DEFINE c == CellOf(s)
             k == [begun EXCEPT !.step = "cell", !.server = s, !.cell = c]
  <2>1. /\ trReq' = [trReq EXCEPT ![r] = k] /\ trLru' = Used(s, c)
        /\ trCell' = IF c \in DOMAIN trCell THEN trCell ELSE Append(trCell, None)
    BY <1>4 DEF BeginRequest
  <2>2. /\ trLru \in Seq(TrServers \X Nat) /\ Len(trLru) \in Nat
        /\ trCell \in Seq(TrCells \cup {None}) /\ Len(trCell) \in Nat /\ DOMAIN trCell = 1..Len(trCell)
    BY DEF TrInv, TrTypes
  \* The cell of the homeserver is its own, or a new one.
  <2>3. c \in Nat /\ ((Holds(s, c) /\ c \in 1..Len(trCell)) \/ c = Len(trCell) + 1)
    <3>1. CASE Entry(s) # {}
      <4>1. PICK i \in Entry(s) : c = trLru[i][2]
        BY <3>1 DEF CellOf
      <4>2. i \in 1..Len(trLru) /\ trLru[i] \in TrServers \X Nat /\ trLru[i][1] = s
        BY <2>2 DEF Entry
      <4>3. trLru[i] = <<s, c>> /\ c \in Nat
        BY <4>1, <4>2
      <4>4. Holds(s, c)
        BY <4>2, <4>3 DEF Holds
      <4> QED
        BY <1>2, <4>3, <4>4 DEF TrInv, CellsInv
    <3>2. CASE Entry(s) = {}
      BY <2>2, <3>2 DEF CellOf
    <3> QED
      BY <3>1, <3>2
  <2> HIDE DEF c
  <2>4. /\ k \in TrAsks /\ k.step = "cell" /\ k.server = s /\ k.cell = c /\ k.name = n /\ k.owner = o
        /\ k.since = trClock /\ k.path = FALSE
    <3> HIDE DEF s
    <3>1. begun \in TrAsks /\ begun.name = n /\ begun.owner = o /\ begun.since = trClock /\ begun.path = FALSE
      BY <1>q DEF TrAsks
    <3> HIDE DEF begun
    <3> QED
      BY <1>2, <2>3, <3>1 DEF TrAsks
  <2> HIDE DEF k, begun
  <2>5. AskOk(k) /\ Alone(r, k)
    BY <1>1, <1>q, <1>2, <2>4 DEF AskOk, Alone, Locking, Guarding
  <2> HIDE DEF s
  <2>6. (trReq \in [TrRequests -> TrAsks \cup {None}])' /\ LocksInv' /\ AsksInv' /\ RecordsInv'
    BY <1>q, <2>1, <2>4, <2>5, OneAsks
  <2>7. PICK kept \in Seq(TrServers \X Nat) :
             /\ Used(s, c) = Append(kept, <<s, c>>) /\ Len(kept) < TrCapacity
             /\ \A j \in 1..Len(kept) : kept[j][1] # s /\ \E i \in 1..Len(trLru) : kept[j] = trLru[i]
             /\ \A i, j \in 1..Len(kept) : kept[i][1] = kept[j][1] => i = j
    BY <1>2, <2>3, KeptFacts
  <2>8. /\ trLru' \in Seq(TrServers \X Nat) /\ Len(trLru') = Len(kept) + 1 /\ Len(kept) \in Nat
        /\ trLru'[Len(kept) + 1] = <<s, c>> /\ \A j \in 1..Len(kept) : trLru'[j] = kept[j]
    <3>1. <<s, c>> \in TrServers \X Nat
      BY <1>2, <2>3
    <3> QED
      BY <2>1, <2>7, <3>1
  <2>9. \A j \in 1..(Len(kept) + 1) : j \in 1..Len(kept) \/ j = Len(kept) + 1
    BY <2>8
  <2>10. LruInv'
    <3>1. Len(trLru') <= TrCapacity
      BY <2>7, <2>8, TransportAssumption
    <3>2. <<s, c>>[1] = s
      OBVIOUS
    <3>3. \A i, j \in 1..(Len(kept) + 1) : trLru'[i][1] = trLru'[j][1] => i = j
      <4> SUFFICES ASSUME NEW i \in 1..(Len(kept) + 1), NEW j \in 1..(Len(kept) + 1), trLru'[i][1] = trLru'[j][1]
                   PROVE  i = j
        OBVIOUS
      <4>1. \A m \in 1..Len(kept) : trLru'[m][1] # s /\ trLru'[m] = kept[m]
        BY <2>7, <2>8
      <4>2. trLru'[Len(kept) + 1][1] = s
        BY <2>8, <3>2
      <4>3. CASE i \in 1..Len(kept) /\ j \in 1..Len(kept)
        BY <2>7, <4>1, <4>3
      <4>4. CASE ~(i \in 1..Len(kept) /\ j \in 1..Len(kept))
        BY <2>9, <4>1, <4>2, <4>4
      <4> QED
        BY <4>3, <4>4
    <3> QED
      BY <2>8, <3>1, <3>3 DEF LruInv
  <2>11. /\ trCell' \in Seq(TrCells \cup {None}) /\ c \in 1..Len(trCell') /\ Len(trCell) <= Len(trCell')
         /\ \A d \in 1..Len(trCell) : d \in 1..Len(trCell') /\ trCell'[d] = trCell[d]
         /\ c = Len(trCell) + 1 => trCell'[c] = None
    <3>1. CASE c \in DOMAIN trCell
      BY <2>1, <2>2, <3>1
    <3>2. CASE c \notin DOMAIN trCell
      <4>1. c = Len(trCell) + 1 /\ trCell' = Append(trCell, None)
        BY <2>1, <2>2, <2>3, <3>2
      <4>2. trCell' \in Seq(TrCells \cup {None}) /\ Len(trCell') = Len(trCell) + 1 /\ trCell'[Len(trCell) + 1] = None
            /\ \A d \in 1..Len(trCell) : trCell'[d] = trCell[d]
        BY <2>2, <4>1
      <4> QED
        BY <2>2, <4>1, <4>2
    <3> QED
      BY <3>1, <3>2
  <2>12. \A t \in TrServers, d \in Nat : Holds(t, d)' => Holds(t, d) \/ (t = s /\ d = c)
    <3> SUFFICES ASSUME NEW t \in TrServers, NEW d \in Nat, Holds(t, d)' PROVE Holds(t, d) \/ (t = s /\ d = c)
      OBVIOUS
    <3>1. CASE \E i \in 1..Len(trLru') : trLru'[i] = <<t, d>>
      <4>1. PICK i \in 1..(Len(kept) + 1) : trLru'[i] = <<t, d>>
        BY <2>8, <3>1
      <4>2. CASE i = Len(kept) + 1
        BY <2>8, <4>1, <4>2
      <4>3. CASE i \in 1..Len(kept)
        <5>1. PICK m \in 1..Len(trLru) : kept[i] = trLru[m]
          BY <2>7, <4>3
        <5>2. trLru[m] = <<t, d>>
          BY <2>8, <4>1, <4>3, <5>1
        <5> QED
          BY <5>2 DEF Holds
      <4> QED
        BY <2>9, <4>2, <4>3
    <3>2. ASSUME NEW q \in TrRequests, Asks(q, t, d)' PROVE Holds(t, d) \/ (t = s /\ d = c)
      <4>1. trReq'[r] = k /\ (q # r => trReq'[q] = trReq[q])
        BY <2>1 DEF TrInv, TrTypes
      <4>2. CASE q = r
        BY <2>4, <3>2, <4>1, <4>2 DEF Asks
      <4>3. CASE q # r
        BY <3>2, <4>1, <4>3 DEF Asks, Holds
      <4> QED
        BY <4>2, <4>3
    <3> QED
      BY <3>1, <3>2 DEF Holds
  <2>13. CellsInv'
    <3>1. c = Len(trCell) + 1 => \A t \in TrServers : ~Holds(t, c)
      BY <2>2, <2>3 DEF TrInv, CellsInv
    <3> SUFFICES ASSUME NEW t \in TrServers, NEW d \in Nat, Holds(t, d)'
                 PROVE  /\ d \in 1..Len(trCell') /\ CellOk(t, trCell[d])'
                        /\ \A u \in TrServers : Holds(u, d)' => u = t
      BY DEF CellsInv
    <3>2. PICK e : e = trCell'[d]
      OBVIOUS
    <3>3. ASSUME NEW u \in TrServers, Holds(u, d) PROVE
             /\ d \in 1..Len(trCell) /\ CellOk(u, trCell[d]) /\ \A v \in TrServers : Holds(v, d) => v = u
      BY <3>3 DEF TrInv, CellsInv
    <3>4. d \in 1..Len(trCell') /\ CellOk(t, e) /\ \A u \in TrServers : Holds(u, d)' => u = t
      <4>1. CASE d # c
        BY <2>11, <2>12, <3>2, <3>3, <4>1
      <4>2. CASE d = c /\ c = Len(trCell) + 1
        BY <1>2, <2>11, <2>12, <3>1, <3>2, <4>2 DEF CellOk
      <4>3. CASE d = c /\ c # Len(trCell) + 1
        <5>1. Holds(s, d)
          BY <2>3, <4>3
        <5>2. \A v \in TrServers : Holds(v, d)' => v = s
          BY <1>2, <2>12, <3>3, <5>1
        <5>3. t = s /\ d \in 1..Len(trCell) /\ CellOk(s, trCell[d]) /\ e = trCell[d]
          BY <1>2, <2>11, <3>2, <3>3, <5>1, <5>2
        <5> QED
          BY <2>11, <5>2, <5>3
      <4> QED
        BY <4>1, <4>2, <4>3
    <3>5. e = None \/ e \in TrCells
      BY <2>11, <3>2, <3>4
    <3>6. CellOk(t, e)'
      BY <1>q, <3>4, <3>5, QuietStays DEF CellOk
    <3> QED
      BY <3>2, <3>4, <3>6 DEF CellOk, Backed
  <2>14. TrTypes'
    BY <1>1, <1>q, <2>6, <2>8, <2>11, QuietStays DEF TrInv, TrTypes
  <2> QED
    BY <1>1, <1>q, <2>6, <2>10, <2>13, <2>14, NamesStand, NothingSent DEF TrInv
<1> QED
  BY <1>3, <1>4

\* Every step keeps what requests go by.
LEMMA TransportStep == TrInv /\ [TrNext]_trVars => TrInv'
<1> SUFFICES ASSUME TrInv, [TrNext]_trVars PROVE TrInv'
  OBVIOUS
<1>1. CASE UNCHANGED trVars
  <2>1. UNCHANGED trWorld /\ UNCHANGED trFailed /\ UNCHANGED <<trLru, trCell, trCache, trReq, trSent>>
    BY <1>1 DEF trVars, trWorld
  <2>q. Quiet
    BY <2>1, NothingNoted
  <2>2. TrTypes' /\ LruInv' /\ LocksInv' /\ RecordsInv'
    BY <2>1, <2>q, QuietStays DEF TrInv, TrTypes, LruInv, LocksInv, NameOf
  <2>3. CellsInv'
    <3>1. \A s \in TrServers, c \in Nat : Holds(s, c)' => Holds(s, c)
      BY <2>1 DEF Holds, Asks
    <3> QED
      BY <2>1, <2>q, <3>1, CellsStand
  <2>4. AsksInv'
    BY <2>1 DEF TrInv, AsksInv, AskOk, Excused, Fresh, ServerAt, trWorld
  <2>5. SentInv'
    BY <2>1 DEF TrInv, SentInv, PathOnlyWhereUnderstood, DomainIsRecent, trWorld
  <2> QED
    BY <2>1, <2>q, <2>2, <2>3, <2>4, <2>5, NamesStand DEF TrInv
<1> QED
  BY <1>1, TickStep, MoveStep, AddressStep, VersionStep, LookStep, AskTransportStep, SendStep, DropStep,
     InfoStep, ResolveStep, BeginStep DEF TrNext

\* A set whose members are one has at most one.
LEMMA AtMostOne == ASSUME NEW S, \A a, b \in S : a = b PROVE Cardinality(S) <= 1
<1>1. CASE S = {}
  BY <1>1, FS_EmptySet
<1>2. CASE S # {}
  <2>1. PICK a : S = {a}
    BY <1>2
  <2> QED
    BY <2>1, FS_Singleton
<1> QED
  BY <1>1, <1>2

\* The caches never mix homeservers: a request keeps the path-addressed form only for a
\* homeserver that served by path less than the lifetime of its features before they were
\* looked at, or whose /info failed less than the shorter lifetime before; it reaches that
\* homeserver unless the owner moved while the request was under way or less than a
\* transport's lifetime before; and it goes through a domain that its owner's record named
\* less than that lifetime ago (features.rs, native.rs).  For any owners, homeservers and
\* requests, any capacity and any lifetimes of the caches, and at any time.
THEOREM TransportIsSound == TrSpec => []TransportSound
<1>1. TrInit => TrInv
  <2> SUFFICES ASSUME TrInit PROVE TrInv
    OBVIOUS
  <2>1. PICK w \in TrWorlds : trHome = w.home /\ trOffers = w.offers
    BY DEF TrInit
  <2>2. TrTypes
    BY <2>1, TransportAssumption DEF TrInit, TrTypes, WorldTypes
  <2>3. RecordsInv
    BY <2>2 DEF TrInit, RecordsInv, TrTypes, WorldTypes
  <2>4. LruInv /\ LocksInv /\ AsksInv /\ NamesInv
    BY TransportAssumption DEF TrInit, LruInv, LocksInv, AsksInv, NamesInv
  <2>5. CellsInv
    BY DEF TrInit, CellsInv, Holds, Asks
  <2>6. SentInv
    BY DEF TrInit, SentInv, PathOnlyWhereUnderstood, DomainIsRecent
  <2> QED
    BY <2>2, <2>3, <2>4, <2>5, <2>6 DEF TrInv
<1>2. TrInv => TransportSound
  <2> SUFFICES ASSUME TrInv PROVE TransportSound
    OBVIOUS
  <2>1. trLru \in Seq(TrServers \X Nat) /\ DOMAIN trLru = 1..Len(trLru) /\ DOMAIN trCell = 1..Len(trCell)
    BY DEF TrInv, TrTypes
  <2>2. \A i \in DOMAIN trLru : trLru[i][2] \in DOMAIN trCell
    <3> SUFFICES ASSUME NEW i \in 1..Len(trLru) PROVE trLru[i][2] \in 1..Len(trCell)
      BY <2>1
    <3>1. trLru[i] \in TrServers \X Nat
      BY <2>1
    <3>2. trLru[i] = <<trLru[i][1], trLru[i][2]>> /\ trLru[i][1] \in TrServers /\ trLru[i][2] \in Nat
      BY <3>1
    <3>3. Holds(trLru[i][1], trLru[i][2])
      BY <3>2 DEF Holds
    <3> QED
      BY <3>2, <3>3 DEF TrInv, CellsInv
  <2>3. \A c \in DOMAIN trCell : Cardinality(InCell(c)) <= 1
    <3> SUFFICES ASSUME NEW c PROVE Cardinality(InCell(c)) <= 1
      OBVIOUS
    <3>1. \A a, b \in InCell(c) : a = b
      BY DEF TrInv, LocksInv, InCell, Locking
    <3> QED
      BY <3>1, AtMostOne
  <2>4. \A n \in TrNames : Cardinality(InGuard(n)) <= 1
    <3> SUFFICES ASSUME NEW n PROVE Cardinality(InGuard(n)) <= 1
      OBVIOUS
    <3>1. \A a, b \in InGuard(n) : a = b
      BY DEF TrInv, LocksInv, InGuard, Guarding
    <3> QED
      BY <3>1, AtMostOne
  <2>5. TrTypeOK
    BY <2>1, <2>2, <2>3, <2>4 DEF TrTypeOK, TrInv, LruInv
  <2> QED
    BY <2>5 DEF TransportSound, TrInv, SentInv
<1> QED
  BY <1>1, <1>2, TransportStep, PTL DEF TrSpec

-----------------------------------------------------------------------------
(* Answers: how a body is read and what an application learns of a failure.   *)

\* A call that is not over has returned nothing, and keeps what it has read.
CallOpen(c) ==
    /\ c \in RpCalls /\ c.kept = c.seen /\ c.seen <= c.total
    /\ c.step = "sent" => c.status = None /\ c.seen = 0
    /\ c.step = "body" => IsSuccess(c.status) /\ (Limited(c.use) => c.kept <= BodyLimit)
    /\ c.step = "error" => /\ c.status # None /\ ~IsSuccess(c.status)
                           /\ c.use \notin {"info", "refresh"} /\ c.kept <= rpLimit

\* What a call returns when it is over.
CallOver ==
    /\ rpCall.kept <= rpCall.seen /\ rpCall.seen <= rpCall.total /\ rpCall.step = "done"
    /\ rpBody # None \/ rpError # None
    /\ BodiesWholeAndBounded /\ StatusReachesApplication

RpInv ==
    /\ rpLimit \in Nat
    /\ rpCall = None => rpBody = None /\ rpError = None
    /\ rpCall # None /\ rpCall.step # "done" => CallOpen(rpCall) /\ rpBody = None /\ rpError = None
    /\ rpCall # None /\ rpCall.step = "done" => CallOver

\* What the errors tell, and what an application sees of them.
LEMMA ErrorFacts ==
    ASSUME NEW cause \in RpCauses \cup {{}}, NEW status \in RpStatuses \cup {None},
           NEW text \in RpTexts \cup {None}
    PROVE  /\ TransportFailed(cause) \in RpErrors /\ TransportFailed(cause).top = "Request"
           /\ TransportFailed(cause).sub = "Transport" /\ TransportFailed(cause).status = None
           /\ Unexplained \in RpErrors /\ Unexplained.top = "Unknown" /\ Unexplained.sub = "Transport"
           /\ DecodeJson \in RpErrors /\ DecodeJson.top = "Request" /\ DecodeJson.sub = "DecodeJson"
           /\ DecodeJson.status = None
           /\ BodyTooLarge \in RpErrors /\ BodyTooLarge.top = "Authentication" /\ BodyTooLarge.sub = "Validation"
           /\ RefreshFailed(status) \in RpErrors /\ RefreshFailed(status).top = "CredentialRefresh"
           /\ RefreshFailed(status).sub = "Request" /\ RefreshFailed(status).status = status
           /\ ServerFailed(status, text) \in RpErrors /\ ServerFailed(status, text).top = "Request"
           /\ ServerFailed(status, text).sub = "Server" /\ ServerFailed(status, text).status = status
           /\ ServerFailed(status, text).text = text
           /\ \A top \in {"Pkarr", "Parse", "Authentication"} :
                /\ PreparationFailed(top) \in RpErrors /\ PreparationFailed(top).top = top
                /\ PreparationFailed(top).sub = "Prepare"
<1>1. \A c \in RpCauses \cup {{}} :
        TransportFailed(c) \in RpErrors /\ TransportFailed(c).top = "Request"
        /\ TransportFailed(c).sub = "Transport" /\ TransportFailed(c).status = None
  BY DEF TransportFailed, RpErrors
<1>2. TransportFailed({}) \in RpErrors /\ TransportFailed({}).top = "Request"
        /\ TransportFailed({}).sub = "Transport" /\ TransportFailed({}).status = None
  BY <1>1
<1>3. Unexplained \in RpErrors /\ Unexplained.top = "Unknown" /\ Unexplained.sub = "Transport"
  BY <1>2 DEF Unexplained, RpErrors
<1>4. DecodeJson \in RpErrors /\ DecodeJson.top = "Request" /\ DecodeJson.sub = "DecodeJson" /\ DecodeJson.status = None
  BY <1>2 DEF DecodeJson, RpErrors
<1>5. BodyTooLarge \in RpErrors /\ BodyTooLarge.top = "Authentication" /\ BodyTooLarge.sub = "Validation"
  BY <1>2 DEF BodyTooLarge, RpErrors
<1>6. RefreshFailed(status) \in RpErrors /\ RefreshFailed(status).top = "CredentialRefresh"
      /\ RefreshFailed(status).sub = "Request" /\ RefreshFailed(status).status = status
  BY <1>2 DEF RefreshFailed, RpErrors
<1>7. ServerFailed(status, text) \in RpErrors /\ ServerFailed(status, text).top = "Request"
      /\ ServerFailed(status, text).sub = "Server" /\ ServerFailed(status, text).status = status
      /\ ServerFailed(status, text).text = text
  BY <1>2 DEF ServerFailed, RpErrors
<1>8. \A top \in {"Pkarr", "Parse", "Authentication"} :
        /\ PreparationFailed(top) \in RpErrors /\ PreparationFailed(top).top = top
        /\ PreparationFailed(top).sub = "Prepare"
  BY <1>2 DEF PreparationFailed, RpErrors
<1> QED
  BY <1>1, <1>3, <1>4, <1>5, <1>6, <1>7, <1>8

\* The error that carries a server's status and the text of its body.
LEMMA ServerErrorFacts ==
    ASSUME NEW status \in RpStatuses \cup {None}, NEW text \in RpTexts
    PROVE  /\ ServerFailed(status, text) \in RpErrors /\ ServerFailed(status, text).top = "Request"
           /\ ServerFailed(status, text).sub = "Server" /\ ServerFailed(status, text).status = status
           /\ ServerFailed(status, text).text = text
<1>1. TransportFailed({}) \in RpErrors /\ TransportFailed({}).top = "Request"
  BY DEF TransportFailed, RpErrors
<1> QED
  BY <1>1 DEF ServerFailed, RpErrors

\* What an application sees of an error.
LEMMA Seen ==
    ASSUME NEW e
    PROVE  /\ e.top = "Request" => JsError(e).status = e.status
           /\ e.top = "CredentialRefresh" => JsError(e).status = e.status /\ JsError(e).name = "CredentialRefreshError"
           /\ e.top \in {"Pkarr", "Parse", "Authentication"} => JsError(e).status = None /\ JsError(e).name # "RequestError"
  BY DEF JsError, JsRequest

\* An error that ends a call.
ErrorFits(c, e) ==
    /\ e.sub = "Validation" => c.total > BodyLimit
    /\ e.sub = "Server" /\ e.text # Reason =>
         e.text = [whole |-> c.total <= rpLimit, kept |-> IF c.total > rpLimit THEN rpLimit ELSE c.total,
                   truncated |-> c.total > rpLimit]
    /\ c.use # "info" =>
         /\ c.status = None => JsError(e).status = None
         /\ c.status # None /\ ~IsSuccess(c.status) => JsError(e).status = c.status
         /\ c.use = "refresh" =>
              \/ JsError(e).name = "CredentialRefreshError"
              \/ (e.sub = "Prepare" /\ JsError(e).name # "RequestError")

\* A call ends with an error that fits it.
LEMMA CallFails ==
    ASSUME RpInv, rpCall # None, rpCall.step # "done", NEW e \in RpErrors,
           NEW k \in RpCalls, k.step = "done", k.kept = k.seen, k.seen <= k.total,
           Limited(k.use) /\ IsSuccess(k.status) => k.kept <= BodyLimit,
           ErrorFits(k, e), rpError' = e, rpCall' = k, UNCHANGED <<rpLimit, rpNative, rpBody>>
    PROVE  RpInv'
<1>1. e # None /\ k # None /\ k.kept <= k.seen /\ rpBody = None /\ rpLimit \in Nat
  BY ResponsesAssumption DEF RpInv, RpCalls
<1>2. JsError(rpError)' = JsError(e)
  BY DEF JsError, JsRequest, KindOf, TransportKind
<1>3. BodiesWholeAndBounded'
  BY <1>1 DEF BodiesWholeAndBounded, ErrorFits
<1>4. StatusReachesApplication'
  BY <1>2 DEF StatusReachesApplication, ErrorFits
<1>5. CallOver'
  BY <1>1, <1>3, <1>4 DEF CallOver
<1> QED
  BY <1>1, <1>5 DEF RpInv, CallOver

\* A call goes on.
LEMMA CallGoesOn ==
    ASSUME RpInv, rpCall = None \/ rpCall.step # "done", NEW k, CallOpen(k), k.step # "done",
           rpCall' = k, UNCHANGED <<rpLimit, rpNative, rpBody, rpError>>
    PROVE  RpInv'
<1>1. rpBody = None /\ rpError = None /\ rpLimit \in Nat
  BY DEF RpInv
<1>2. CallOpen(rpCall)'
  BY DEF CallOpen
<1> QED
  BY <1>1, <1>2 DEF RpInv

\* The state of an open call.
LEMMA OpenFacts ==
    ASSUME RpInv, rpCall # None, rpCall.step # "done"
    PROVE  /\ rpCall \in RpCalls /\ CallOpen(rpCall) /\ rpLimit \in Nat /\ rpBody = None /\ rpError = None
           /\ rpCall.use \in RpUses /\ rpCall.status \in RpStatuses \cup {None}
           /\ rpCall.total \in Nat /\ rpCall.seen \in Nat /\ rpCall.kept \in Nat
  BY DEF RpInv, CallOpen, RpCalls

\* Fails ends the call as it is.
LEMMA FailsStep ==
    ASSUME RpInv, rpCall # None, rpCall.step # "done", NEW e \in RpErrors, ErrorFits(rpCall, e),
           Limited(rpCall.use) /\ IsSuccess(rpCall.status) => rpCall.kept <= BodyLimit, Fails(e)
    PROVE  RpInv'
<1> DEFINE k == [rpCall EXCEPT !.step = "done"]
<1>1. rpError' = e /\ rpCall' = k /\ UNCHANGED <<rpLimit, rpNative, rpBody>>
  BY DEF Fails
<1>2. rpCall \in RpCalls /\ CallOpen(rpCall)
  BY OpenFacts
<1>3. /\ k \in RpCalls /\ k.step = "done" /\ k.use = rpCall.use /\ k.status = rpCall.status
      /\ k.total = rpCall.total /\ k.seen = rpCall.seen /\ k.kept = rpCall.kept
  BY <1>2 DEF RpCalls
<1> HIDE DEF k
<1>4. ErrorFits(k, e)
  BY <1>3 DEF ErrorFits
<1>5. k.kept = k.seen /\ k.seen <= k.total
  BY <1>2, <1>3 DEF CallOpen
<1> QED
  BY <1>1, <1>3, <1>4, <1>5, CallFails

\* A call starts.
LEMMA StartStep == ASSUME RpInv, NEW u \in RpUses, StartCall(u) PROVE RpInv'
<1> DEFINE k == [use |-> u, step |-> "sent", status |-> None, total |-> 0, seen |-> 0, kept |-> 0]
<1>1. rpCall = None /\ rpCall' = k /\ UNCHANGED <<rpLimit, rpNative, rpBody, rpError>>
  BY DEF StartCall
<1>2. CallOpen(k) /\ k.step # "done"
  BY DEF CallOpen, RpCalls
<1> QED
  BY <1>1, <1>2, CallGoesOn

\* No answer, no status.
LEMMA NoStatus == IsSuccess(None) = FALSE
  BY ResponsesAssumption DEF IsSuccess

\* No answer comes.
LEMMA RequestFailsStep == ASSUME RpInv, NEW c \in RpCauses, RequestFails(c) PROVE RpInv'
<1>1. rpCall # None /\ rpCall.step = "sent"
  BY DEF RequestFails
<1>2. CallOpen(rpCall) /\ rpCall.use \in RpUses /\ rpCall.status = None
  BY <1>1, OpenFacts DEF CallOpen
<1>3. CASE rpCall.use = "info"
  <2>1. Fails(Unexplained)
    BY <1>1, <1>3 DEF RequestFails, InfoUnknown
  <2>2. Unexplained \in RpErrors /\ Unexplained.sub = "Transport"
    BY ErrorFacts
  <2>3. ErrorFits(rpCall, Unexplained)
    BY <1>3, <2>2 DEF ErrorFits
  <2> QED
    BY <1>1, <1>2, <2>1, <2>2, <2>3, NoStatus, FailsStep
<1>4. CASE rpCall.use # "info"
  <2> DEFINE e == Redacted(rpCall.use, TransportFailed(c))
  <2>1. Fails(e)
    BY <1>1, <1>4 DEF RequestFails
  <2>2. e \in RpErrors /\ e.status = None /\ e.sub \notin {"Validation", "Server"}
        /\ e.top \in {"Request", "CredentialRefresh"} /\ (rpCall.use = "refresh" => e.top = "CredentialRefresh")
    BY ErrorFacts DEF Redacted
  <2> HIDE DEF e
  <2>3. ErrorFits(rpCall, e)
    BY <1>2, <2>2, Seen DEF ErrorFits
  <2> QED
    BY <1>1, <1>2, <2>1, <2>2, <2>3, NoStatus, FailsStep
<1> QED
  BY <1>3, <1>4

\* Nothing can be sent.
LEMMA CannotPrepareStep ==
    ASSUME RpInv, NEW top \in {"Pkarr", "Parse", "Authentication"}, CannotPrepare(top) PROVE RpInv'
<1>1. rpCall # None /\ rpCall.step = "sent"
  BY DEF CannotPrepare
<1>2. CallOpen(rpCall) /\ rpCall.use \in RpUses /\ rpCall.status = None
  BY <1>1, OpenFacts DEF CallOpen
<1>3. CASE rpCall.use = "info"
  <2>1. Fails(Unexplained)
    BY <1>1, <1>3 DEF CannotPrepare, InfoUnknown
  <2>2. Unexplained \in RpErrors /\ Unexplained.sub = "Transport"
    BY ErrorFacts
  <2>3. ErrorFits(rpCall, Unexplained)
    BY <1>3, <2>2 DEF ErrorFits
  <2> QED
    BY <1>1, <1>2, <2>1, <2>2, <2>3, NoStatus, FailsStep
<1>4. CASE rpCall.use # "info"
  <2> DEFINE e == PreparationFailed(top)
  <2>1. e \in RpErrors /\ e.top = top /\ e.sub = "Prepare"
    BY ErrorFacts
  <2>2. Redacted(rpCall.use, e) = e
    BY <2>1 DEF Redacted
  <2>3. Fails(e)
    BY <1>1, <1>4, <2>2 DEF CannotPrepare
  <2> HIDE DEF e
  <2>4. ErrorFits(rpCall, e)
    BY <1>2, <2>1, Seen DEF ErrorFits
  <2> QED
    BY <1>1, <1>2, <2>1, <2>3, <2>4, NoStatus, FailsStep
<1> QED
  BY <1>3, <1>4

\* The headers of an answer come.
LEMMA AnsweredStep ==
    ASSUME RpInv, NEW s \in RpStatuses, NEW t \in 0..MaxRpBytes, NEW d \in BOOLEAN, Answered(s, t, d)
    PROVE  RpInv'
<1> DEFINE use == rpCall.use
           at(step) == [rpCall EXCEPT !.step = step, !.status = s, !.total = t]
           To(step) == rpCall' = at(step) /\ UNCHANGED <<rpLimit, rpNative, rpBody, rpError>>
           Ends(e) == rpError' = e /\ rpCall' = at("done") /\ UNCHANGED <<rpLimit, rpNative, rpBody>>
<1>1. rpCall # None /\ rpCall.step = "sent"
  BY DEF Answered
<1>2. rpCall \in RpCalls /\ CallOpen(rpCall) /\ use \in RpUses /\ rpLimit \in Nat
  BY <1>1, OpenFacts
<1>3. s # None /\ s \in Nat /\ t \in Nat
  BY ResponsesAssumption
<1>4. rpCall.seen \in Nat /\ rpCall.kept = rpCall.seen /\ rpCall.seen <= rpCall.total /\ rpCall.total \in Nat
  BY <1>2 DEF CallOpen, RpCalls
<1>5. rpCall.seen = 0
  BY <1>1, <1>2 DEF CallOpen
<1>6. \A step \in {"body", "error", "done"} :
        /\ at(step) \in RpCalls /\ at(step).step = step /\ at(step).use = use /\ at(step).status = s
        /\ at(step).total = t /\ at(step).seen = 0 /\ at(step).kept = 0
  BY <1>2, <1>3, <1>4, <1>5 DEF RpCalls
<1>7. ASSUME NEW e \in RpErrors, Ends(e), ErrorFits(at("done"), e) PROVE RpInv'
  <2>1. Limited(at("done").use) /\ IsSuccess(at("done").status) => at("done").kept <= BodyLimit
    BY <1>6, ResponsesAssumption
  <2>2. at("done") \in RpCalls /\ at("done").step = "done" /\ at("done").kept = at("done").seen
        /\ at("done").seen <= at("done").total
    BY <1>3, <1>6
  <2> HIDE DEF at
  <2> QED
    BY <1>1, <1>7, <2>1, <2>2, CallFails
<1>8. ASSUME NEW step \in {"body", "error"}, To(step), CallOpen(at(step)) PROVE RpInv'
  <2>1. at(step).step # "done"
    BY <1>6
  <2> HIDE DEF at
  <2> QED
    BY <1>1, <1>8, <2>1, CallGoesOn
<1>9. CASE ~IsSuccess(s)
  <2>1. CASE use = "info"
    <3>1. Ends(Unexplained)
      BY <1>9, <2>1 DEF Answered
    <3>2. Unexplained \in RpErrors /\ Unexplained.sub = "Transport"
      BY ErrorFacts
    <3>3. ErrorFits(at("done"), Unexplained)
      BY <1>6, <2>1, <3>2 DEF ErrorFits
    <3> QED
      BY <1>7, <3>1, <3>2, <3>3
  <2>2. CASE use = "refresh"
    <3>1. Ends(RefreshFailed(s))
      BY <1>9, <2>2 DEF Answered
    <3>2. RefreshFailed(s) \in RpErrors /\ RefreshFailed(s).top = "CredentialRefresh"
          /\ RefreshFailed(s).sub = "Request" /\ RefreshFailed(s).status = s
      BY ErrorFacts
    <3>3. ErrorFits(at("done"), RefreshFailed(s))
      BY <1>3, <1>6, <3>2, Seen DEF ErrorFits
    <3> QED
      BY <1>7, <3>1, <3>2, <3>3
  <2>3. CASE use \notin {"info", "refresh"} /\ rpLimit = 0
    <3>1. Ends(ServerFailed(s, Reason))
      BY <1>9, <2>3 DEF Answered
    <3>2. Reason \in RpTexts
      BY DEF Reason, RpTexts
    <3>3. ServerFailed(s, Reason) \in RpErrors /\ ServerFailed(s, Reason).top = "Request"
          /\ ServerFailed(s, Reason).sub = "Server" /\ ServerFailed(s, Reason).status = s
          /\ ServerFailed(s, Reason).text = Reason
      BY <3>2, ServerErrorFacts
    <3>4. ErrorFits(at("done"), ServerFailed(s, Reason))
      BY <1>3, <1>6, <2>3, <3>3, Seen DEF ErrorFits
    <3> QED
      BY <1>7, <3>1, <3>3, <3>4
  <2>4. CASE use \notin {"info", "refresh"} /\ rpLimit # 0
    <3>1. To("error")
      BY <1>9, <2>4 DEF Answered
    <3>2. CallOpen(at("error"))
      BY <1>2, <1>3, <1>6, <1>9, <2>4 DEF CallOpen
    <3> QED
      BY <1>8, <3>1, <3>2
  <2> QED
    BY <2>1, <2>2, <2>3, <2>4
<1>10. CASE IsSuccess(s) /\ Limited(use) /\ d /\ t > BodyLimit
  <2>1. CASE use = "relay"
    <3>1. Ends(BodyTooLarge)
      BY <1>10, <2>1 DEF Answered
    <3>2. BodyTooLarge \in RpErrors /\ BodyTooLarge.sub = "Validation"
      BY ErrorFacts
    <3>3. ErrorFits(at("done"), BodyTooLarge)
      BY <1>3, <1>6, <1>10, <2>1, <3>2 DEF ErrorFits
    <3> QED
      BY <1>7, <3>1, <3>2, <3>3
  <2>2. CASE use = "info"
    <3>1. Ends(Unexplained)
      BY <1>10, <2>2 DEF Answered
    <3>2. Unexplained \in RpErrors /\ Unexplained.sub = "Transport"
      BY ErrorFacts
    <3>3. ErrorFits(at("done"), Unexplained)
      BY <1>6, <2>2, <3>2 DEF ErrorFits
    <3> QED
      BY <1>7, <3>1, <3>2, <3>3
  <2> QED
    BY <1>10, <2>1, <2>2 DEF Limited
<1>11. CASE IsSuccess(s) /\ ~(Limited(use) /\ d /\ t > BodyLimit)
  <2>1. To("body")
    BY <1>11 DEF Answered
  <2>2. CallOpen(at("body"))
    BY <1>3, <1>6, <1>11, ResponsesAssumption DEF CallOpen
  <2> QED
    BY <1>8, <2>1, <2>2
<1> QED
  BY <1>9, <1>10, <1>11

\* A call that has got more.
LEMMA GetsFacts ==
    ASSUME RpInv, rpCall # None, rpCall.step \in {"body", "error"}, NEW n \in 1..MaxChunk,
           n <= rpCall.total - rpCall.seen
    PROVE  LET k == Gets(n, n) IN
           /\ k \in RpCalls /\ k.step = rpCall.step /\ k.use = rpCall.use /\ k.status = rpCall.status
           /\ k.total = rpCall.total /\ k.seen = rpCall.seen + n /\ k.kept = rpCall.kept + n
           /\ k.kept = k.seen /\ k.seen <= k.total
<1>1. rpCall \in RpCalls /\ CallOpen(rpCall) /\ rpCall.total \in Nat /\ rpCall.seen \in Nat /\ rpCall.kept \in Nat
  BY OpenFacts
<1>2. n \in Nat /\ rpCall.kept = rpCall.seen
  BY <1>1, ResponsesAssumption DEF CallOpen
<1>3. rpCall.seen + n \in Nat /\ rpCall.kept + n \in Nat /\ rpCall.seen + n <= rpCall.total
  BY <1>1, <1>2
<1> DEFINE k == Gets(n, n)
<1>4. /\ k \in RpCalls /\ k.step = rpCall.step /\ k.use = rpCall.use /\ k.status = rpCall.status
      /\ k.total = rpCall.total /\ k.seen = rpCall.seen + n /\ k.kept = rpCall.kept + n
  BY <1>1, <1>3 DEF Gets, RpCalls
<1> HIDE DEF k
<1> QED
  BY <1>2, <1>3, <1>4 DEF k

\* A chunk of a body comes.
LEMMA BodyChunkStep == ASSUME RpInv, NEW n \in 1..MaxChunk, BodyChunk(n) PROVE RpInv'
<1>1. /\ rpCall # None /\ rpCall.step = "body" /\ rpCall.use # "check" /\ n <= rpCall.total - rpCall.seen
  BY DEF BodyChunk, More
<1>2. /\ CallOpen(rpCall) /\ rpCall.use \in RpUses /\ rpCall.total \in Nat /\ rpCall.seen \in Nat
      /\ rpCall.kept \in Nat /\ n \in Nat /\ BodyLimit \in Nat
  BY <1>1, OpenFacts, ResponsesAssumption
<1>3. IsSuccess(rpCall.status) /\ (Limited(rpCall.use) => rpCall.kept <= BodyLimit) /\ rpCall.kept = rpCall.seen
  BY <1>1, <1>2 DEF CallOpen
<1>4. rpCall.status # None
  BY <1>3, NoStatus
<1>5. CASE Limited(rpCall.use) /\ n > BodyLimit - rpCall.kept
  <2>1. rpCall.total > BodyLimit
    BY <1>1, <1>2, <1>3, <1>5
  <2>2. BodyTooLarge \in RpErrors /\ BodyTooLarge.sub = "Validation" /\ Unexplained \in RpErrors
        /\ Unexplained.sub = "Transport"
    BY ErrorFacts
  <2>3. CASE rpCall.use = "relay"
    <3>1. ErrorFits(rpCall, BodyTooLarge)
      BY <1>3, <1>4, <2>1, <2>2, <2>3 DEF ErrorFits
    <3>2. Fails(BodyTooLarge)
      BY <1>5, <2>3 DEF BodyChunk
    <3> QED
      BY <1>1, <1>3, <2>2, <3>1, <3>2, FailsStep
  <2>4. CASE rpCall.use = "info"
    <3>1. ErrorFits(rpCall, Unexplained)
      BY <2>2, <2>4 DEF ErrorFits
    <3>2. Fails(Unexplained)
      BY <1>5, <2>4 DEF BodyChunk, InfoUnknown
    <3> QED
      BY <1>1, <1>3, <2>2, <3>1, <3>2, FailsStep
  <2> QED
    BY <1>5, <2>3, <2>4 DEF Limited
<1>6. CASE ~(Limited(rpCall.use) /\ n > BodyLimit - rpCall.kept)
  <2> DEFINE k == Gets(n, n)
  <2>1. rpCall' = k /\ UNCHANGED <<rpLimit, rpNative, rpBody, rpError>>
    BY <1>6 DEF BodyChunk
  <2>2. /\ k \in RpCalls /\ k.step = rpCall.step /\ k.use = rpCall.use /\ k.status = rpCall.status
        /\ k.kept = rpCall.kept + n /\ k.kept = k.seen /\ k.seen <= k.total
    BY <1>1, GetsFacts
  <2> HIDE DEF k
  <2>3. Limited(k.use) => k.kept <= BodyLimit
    BY <1>2, <1>6, <2>2
  <2>4. CallOpen(k)
    BY <1>1, <1>3, <2>2, <2>3 DEF CallOpen
  <2> QED
    BY <1>1, <2>1, <2>2, <2>4, CallGoesOn
<1> QED
  BY <1>5, <1>6

\* A body breaks off.
LEMMA BodyFailsStep == ASSUME RpInv, NEW c \in RpCauses, BodyFails(c) PROVE RpInv'
<1>1. rpCall # None /\ rpCall.step = "body"
  BY DEF BodyFails
<1>2. CallOpen(rpCall) /\ rpCall.use \in RpUses /\ rpCall.status \in RpStatuses \cup {None}
  BY <1>1, OpenFacts
<1>3. IsSuccess(rpCall.status) /\ (Limited(rpCall.use) => rpCall.kept <= BodyLimit)
  BY <1>1, <1>2 DEF CallOpen
<1>4. rpCall.status # None
  BY <1>3, NoStatus
<1>5. ASSUME NEW e \in RpErrors, e.sub \notin {"Validation", "Server"}, Fails(e),
             rpCall.use = "refresh" => e.top = "CredentialRefresh"
      PROVE  RpInv'
  <2>1. ErrorFits(rpCall, e)
    BY <1>3, <1>4, <1>5, Seen DEF ErrorFits
  <2> QED
    BY <1>1, <1>3, <1>5, <2>1, FailsStep
<1>6. CASE rpCall.use = "exchange"
  <2>1. Fails(DecodeJson)
    BY <1>6 DEF BodyFails
  <2> QED
    BY <1>5, <1>6, <2>1, ErrorFacts
<1>7. CASE rpCall.use = "refresh"
  <2>1. Fails(RefreshFailed(rpCall.status))
    BY <1>7 DEF BodyFails
  <2> QED
    BY <1>2, <1>5, <1>7, <2>1, ErrorFacts
<1>8. CASE rpCall.use = "info"
  <2>1. Fails(Unexplained)
    BY <1>8 DEF BodyFails, InfoUnknown
  <2> QED
    BY <1>5, <1>8, <2>1, ErrorFacts
<1>9. CASE rpCall.use \in {"json", "relay"}
  <2>1. Fails(TransportFailed(c))
    BY <1>9 DEF BodyFails
  <2> QED
    BY <1>5, <1>9, <2>1, ErrorFacts
<1>10. CASE rpCall.use = "check"
  BY <1>10 DEF BodyFails
<1> QED
  BY <1>2, <1>6, <1>7, <1>8, <1>9, <1>10 DEF RpUses

\* A body ends.
LEMMA BodyEndsStep == ASSUME RpInv, BodyEnds PROVE RpInv'
<1>1. rpCall # None /\ rpCall.step = "body"
  BY DEF BodyEnds
<1>2. /\ rpCall \in RpCalls /\ CallOpen(rpCall) /\ rpLimit \in Nat /\ rpError = None
      /\ rpCall.total \in Nat /\ rpCall.seen \in Nat /\ rpCall.kept \in Nat
  BY <1>1, OpenFacts
<1>3. (Limited(rpCall.use) => rpCall.kept <= BodyLimit) /\ rpCall.kept = rpCall.seen /\ rpCall.seen <= rpCall.total
  BY <1>1, <1>2 DEF CallOpen
<1> DEFINE k == [rpCall EXCEPT !.step = "done"]
<1>4. PICK bytes \in Nat : Returns(bytes) /\ (rpCall.use # "check" => bytes = rpCall.total)
  <2>1. CASE rpCall.use = "check"
    BY <2>1 DEF BodyEnds
  <2>2. CASE rpCall.use # "check"
    BY <1>2, <1>3, <2>2 DEF BodyEnds
  <2> QED
    BY <2>1, <2>2
<1>5. rpBody' = bytes /\ rpCall' = k /\ UNCHANGED <<rpLimit, rpNative, rpError>>
  BY <1>4 DEF Returns
<1>6. /\ k \in RpCalls /\ k.step = "done" /\ k.use = rpCall.use /\ k.status = rpCall.status
      /\ k.total = rpCall.total /\ k.seen = rpCall.seen /\ k.kept = rpCall.kept
  BY <1>2 DEF RpCalls
<1> HIDE DEF k
<1>7. k # None /\ bytes # None
  BY <1>6, ResponsesAssumption
<1>8. BodiesWholeAndBounded'
  BY <1>2, <1>3, <1>4, <1>5, <1>6 DEF BodiesWholeAndBounded
<1>9. StatusReachesApplication'
  BY <1>2, <1>5 DEF StatusReachesApplication
<1>10. CallOver'
  BY <1>2, <1>3, <1>5, <1>6, <1>7, <1>8, <1>9 DEF CallOver
<1> QED
  BY <1>2, <1>5, <1>6, <1>7, <1>10 DEF RpInv

\* An error of the server ends a call with the text of its body, or with its reason.
LEMMA TextFits ==
    ASSUME RpInv, rpCall # None, rpCall.step = "error", NEW text \in RpTexts,
           \/ text = Reason
           \/ text = [whole |-> rpCall.total <= rpLimit,
                      kept |-> IF rpCall.total > rpLimit THEN rpLimit ELSE rpCall.total,
                      truncated |-> rpCall.total > rpLimit],
           Fails(ServerFailed(rpCall.status, text))
    PROVE  RpInv'
<1>1. CallOpen(rpCall) /\ rpCall.status \in RpStatuses \cup {None}
  BY OpenFacts
<1>2. rpCall.status # None /\ ~IsSuccess(rpCall.status) /\ rpCall.use \notin {"info", "refresh"}
  BY <1>1 DEF CallOpen
<1>3. PICK e : e = ServerFailed(rpCall.status, text)
  OBVIOUS
<1>4. /\ ServerFailed(rpCall.status, text) \in RpErrors /\ ServerFailed(rpCall.status, text).top = "Request"
      /\ ServerFailed(rpCall.status, text).sub = "Server" /\ ServerFailed(rpCall.status, text).text = text
      /\ ServerFailed(rpCall.status, text).status = rpCall.status
  BY <1>1, ServerErrorFacts
<1>5. e \in RpErrors /\ e.top = "Request" /\ e.sub = "Server" /\ e.status = rpCall.status /\ e.text = text
  BY <1>3, <1>4
<1>6. ErrorFits(rpCall, e)
  BY <1>2, <1>5, Seen DEF ErrorFits
<1>7. Fails(e)
  BY <1>3
<1> QED
  BY <1>2, <1>5, <1>6, <1>7, FailsStep

\* A chunk of the body of an error.
LEMMA ErrorChunkStep == ASSUME RpInv, NEW n \in 1..MaxChunk, ErrorChunk(n) PROVE RpInv'
<1>1. rpCall # None /\ rpCall.step = "error" /\ n <= rpCall.total - rpCall.seen
  BY DEF ErrorChunk, More
<1>2. /\ CallOpen(rpCall) /\ rpCall.total \in Nat /\ rpCall.seen \in Nat /\ rpCall.kept \in Nat /\ n \in Nat
      /\ rpLimit \in Nat /\ rpCall.kept = rpCall.seen
  BY <1>1, OpenFacts, ResponsesAssumption DEF CallOpen
<1>3. CASE n > rpLimit - rpCall.kept
  <2>1. Fails(ErrorText(rpLimit, TRUE))
    BY <1>3 DEF ErrorChunk, ExceedsErrorLimit
  <2>2. rpCall.total > rpLimit
    BY <1>1, <1>2, <1>3
  <2>3. PICK text : text = [whole |-> ~TRUE, kept |-> rpLimit, truncated |-> TRUE]
    OBVIOUS
  <2>4. text \in RpTexts /\ Fails(ServerFailed(rpCall.status, text))
    BY <1>2, <2>1, <2>3 DEF ErrorText, RpTexts
  <2>5. text = [whole |-> rpCall.total <= rpLimit,
                kept |-> IF rpCall.total > rpLimit THEN rpLimit ELSE rpCall.total,
                truncated |-> rpCall.total > rpLimit]
    <3>1. (rpCall.total <= rpLimit) = FALSE /\ (rpCall.total > rpLimit) = TRUE
      BY <1>2, <2>2
    <3> QED
      BY <2>3, <3>1
  <2> QED
    BY <1>1, <2>4, <2>5, TextFits
<1>4. CASE ~(n > rpLimit - rpCall.kept)
  <2> DEFINE k == Gets(n, n)
  <2>1. rpCall' = k /\ UNCHANGED <<rpLimit, rpNative, rpBody, rpError>>
    BY <1>4 DEF ErrorChunk, ExceedsErrorLimit
  <2>2. /\ k \in RpCalls /\ k.step = rpCall.step /\ k.use = rpCall.use /\ k.status = rpCall.status
        /\ k.kept = rpCall.kept + n /\ k.kept = k.seen /\ k.seen <= k.total
    BY <1>1, GetsFacts
  <2> HIDE DEF k
  <2>3. k.kept <= rpLimit
    BY <1>2, <1>4, <2>2
  <2>4. CallOpen(k)
    BY <1>1, <1>2, <2>2, <2>3 DEF CallOpen
  <2> QED
    BY <1>1, <2>1, <2>2, <2>4, CallGoesOn
<1> QED
  BY <1>3, <1>4

\* The end of the body of an error.
LEMMA ErrorEndsStep == ASSUME RpInv, ErrorEnds PROVE RpInv'
<1>1. rpCall # None /\ rpCall.step = "error" /\ rpCall.seen = rpCall.total /\ Fails(ErrorText(rpCall.kept, FALSE))
  BY DEF ErrorEnds
<1>2. rpCall.total \in Nat /\ rpCall.kept \in Nat /\ rpLimit \in Nat /\ rpCall.kept = rpCall.seen /\ rpCall.kept <= rpLimit
  BY <1>1, OpenFacts DEF CallOpen
<1>3. PICK text : text = [whole |-> ~FALSE, kept |-> rpCall.kept, truncated |-> FALSE]
  OBVIOUS
<1>4. text \in RpTexts /\ Fails(ServerFailed(rpCall.status, text))
  BY <1>1, <1>2, <1>3 DEF ErrorText, RpTexts
<1>5. text = [whole |-> rpCall.total <= rpLimit,
              kept |-> IF rpCall.total > rpLimit THEN rpLimit ELSE rpCall.total,
              truncated |-> rpCall.total > rpLimit]
  <2>1. (rpCall.total <= rpLimit) = TRUE /\ (rpCall.total > rpLimit) = FALSE /\ rpCall.kept = rpCall.total
    BY <1>1, <1>2
  <2> QED
    BY <1>3, <2>1
<1> QED
  BY <1>1, <1>4, <1>5, TextFits

\* The body of an error breaks off.
LEMMA ErrorBodyFailsStep == ASSUME RpInv, ErrorBodyFails PROVE RpInv'
<1>1. Reason \in RpTexts
  BY DEF Reason, RpTexts
<1> QED
  BY <1>1, TextFits DEF ErrorBodyFails

\* Every step of a call.
LEMMA ResponsesStep == RpInv /\ [RpNext]_rpVars => RpInv'
<1> SUFFICES ASSUME RpInv, [RpNext]_rpVars PROVE RpInv'
  OBVIOUS
<1>1. CASE UNCHANGED rpVars
  <2>1. UNCHANGED <<rpLimit, rpNative, rpCall, rpBody, rpError>>
    BY <1>1 DEF rpVars
  <2>2. StatusReachesApplication => StatusReachesApplication'
    BY <2>1 DEF StatusReachesApplication, JsError, JsRequest, KindOf, TransportKind
  <2>3. BodiesWholeAndBounded => BodiesWholeAndBounded'
    BY <2>1 DEF BodiesWholeAndBounded
  <2> QED
    BY <2>1, <2>2, <2>3 DEF RpInv, CallOver, CallOpen
<1> QED
  BY <1>1, StartStep, CannotPrepareStep, RequestFailsStep, AnsweredStep, BodyChunkStep, BodyFailsStep, BodyEndsStep,
     ErrorChunkStep, ErrorEndsStep, ErrorBodyFailsStep DEF RpNext

\* Bodies are returned whole or not at all and kept within their limits, and an
\* application sees the status that the homeserver answered with (util.rs, errors.rs,
\* js_error.rs); for any lengths, chunks, limits, statuses and causes of a failure.
THEOREM ResponsesAreSound == RpSpec => []ResponsesSound
<1>1. RpInit => RpInv
  BY ResponsesAssumption DEF RpInit, RpInv
<1>2. RpInv => ResponsesSound
  <2> SUFFICES ASSUME RpInv PROVE ResponsesSound
    OBVIOUS
  <2>1. CASE rpCall = None
    BY <2>1 DEF RpInv, ResponsesSound, RpTypeOK, BodiesWholeAndBounded, StatusReachesApplication
  <2>2. CASE rpCall # None /\ rpCall.step = "done"
    BY <2>2 DEF RpInv, CallOver, ResponsesSound, RpTypeOK
  <2>3. CASE rpCall # None /\ rpCall.step # "done"
    <3>1. /\ CallOpen(rpCall) /\ rpBody = None /\ rpError = None /\ rpCall.kept \in Nat
          /\ rpCall.seen \in Nat /\ rpCall.total \in Nat /\ rpCall.step \in {"sent", "body", "error"}
      BY <2>3, OpenFacts DEF RpCalls
    <3>2. RpTypeOK
      BY <2>3, <3>1 DEF RpTypeOK, CallOpen
    <3>3. BodiesWholeAndBounded
      BY <2>3, <3>1, NoStatus DEF BodiesWholeAndBounded, CallOpen
    <3> QED
      BY <3>1, <3>2, <3>3 DEF ResponsesSound, StatusReachesApplication
  <2> QED
    BY <2>1, <2>2, <2>3
<1> QED
  BY <1>1, <1>2, ResponsesStep, PTL DEF RpSpec

\* A request reaches the homeserver that the client's caches and the records say, and
\* its answer is read whole, within the limits, with its status (http_targets, util.rs,
\* errors.rs): for any owners, homeservers, requests, bodies and failures.
THEOREM RequestsAreSound == TrSpec /\ RpSpec => []RequestsSound
<1>1. TransportSound /\ ResponsesSound => RequestsSound
  BY DEF RequestsSound
<1> QED
  BY <1>1, TransportIsSound, ResponsesAreSound, PTL

-----------------------------------------------------------------------------
(* Storage: the files and the locks that a call reaches.                      *)

\* Texts that can be met: only what is percent-encoded has layers.
StTexts == {t \in [name : StNames \cup StSpecial, layers : Nat] : t.name \in StSpecial \/ t.layers = 0}
StVerbs == {"get", "put", "blob", "delete", "public", "lock", "unlock"}
StReplies == [status : {None, "401", "404", "409", "412", "423"}, token : Nat]
StOps == [verb : StVerbs, url : StTexts, token : Nat \cup {None}, locked : BOOLEAN, timeout : Nat,
          arg : [kind : {"text", "prefixed", "path", "resource"}, text : StTexts],
          retried : BOOLEAN, reply : StReplies \cup {None}]
StHandles == [path : StTexts, token : Nat, timeout : Nat]

StTypes ==
    /\ stFiles \subseteq StTexts /\ stGranted \in Nat /\ stTicks \in Nat
    /\ stBearer \in [StClients -> BOOLEAN] /\ stListed \subseteq StTexts
    /\ stOp \in [StClients -> StOps \cup {None}] /\ stHandle \in [StClients -> StHandles \cup {None}]

\* A lock has a token that was granted, and no other lock has it.
StLocksInv ==
    /\ \A f \in DOMAIN stLocks : /\ stLocks[f] \in [token : Nat, left : Nat]
                                 /\ stLocks[f].token <= stGranted
    /\ \A f, g \in DOMAIN stLocks : f # g => stLocks[f].token # stLocks[g].token

\* A request for a handle carries its token, and the handle stays while it is under way.
StOpsInv ==
    \A c \in StClients : stOp[c] # None =>
      /\ stOp[c].locked => stHandle[c] # None /\ stOp[c].token = stHandle[c].token
      /\ ~stOp[c].locked => stOp[c].token = None /\ stOp[c].verb # "unlock"

StBounds == stGranted <= MaxStTokens /\ stTicks <= MaxStTicks

StInv == StTypes /\ StLocksInv /\ StOpsInv /\ StBounds /\ LockedWriteUnderItsLock /\ ListedIsReached

\* Encoding and decoding stay among the texts that can be met, and decoding undoes it.
LEMMA TextFacts ==
    ASSUME NEW t \in StTexts
    PROVE  Encode(t) \in StTexts /\ DecodeOnce(t) \in StTexts /\ DecodeOnce(Encode(t)) = t
<1>1. t \in [name : StNames \cup StSpecial, layers : Nat] /\ (t.name \in StSpecial \/ t.layers = 0)
      /\ t.layers \in Nat /\ t.layers + 1 \in Nat
  BY DEF StTexts
<1>2. CASE t.name \in StSpecial
  <2> DEFINE e == [t EXCEPT !.layers = @ + 1]
  <2>1. e \in [name : StNames \cup StSpecial, layers : Nat] /\ e.name = t.name /\ e.layers = t.layers + 1
    BY <1>1
  <2>2. Encode(t) = e /\ e \in StTexts
    BY <1>2, <2>1 DEF Encode, StTexts
  <2>3. DecodeOnce(e) = t
    <3>1. e.layers > 0 /\ e.layers - 1 = t.layers
      BY <1>1, <2>1
    <3>2. DecodeOnce(e) = [e EXCEPT !.layers = e.layers - 1]
      BY <3>1 DEF DecodeOnce
    <3>3. [e EXCEPT !.layers = t.layers] = t
      BY <1>1
    <3> QED
      BY <3>1, <3>2, <3>3
  <2>4. DecodeOnce(t) \in StTexts
    <3>1. CASE t.layers > 0
      <4>1. t.layers - 1 \in Nat
        BY <1>1, <3>1
      <4> QED
        BY <1>1, <1>2, <3>1, <4>1 DEF DecodeOnce, StTexts
    <3>2. CASE ~(t.layers > 0)
      BY <3>2 DEF DecodeOnce
    <3> QED
      BY <3>1, <3>2
  <2> QED
    BY <2>2, <2>3, <2>4
<1>3. CASE t.name \notin StSpecial
  <2>1. t.layers = 0 /\ ~(t.layers > 0)
    BY <1>1, <1>3
  <2> QED
    BY <1>3, <2>1 DEF Encode, DecodeOnce
<1> QED
  BY <1>2, <1>3

\* What is parsed without failing is among them.
LEMMA ParseFacts ==
    ASSUME NEW t \in StTexts, ParsePath(t) # Failed
    PROVE  ParsePath(t) = Encode(t) /\ ParsePath(t) \in StTexts
  BY TextFacts DEF ParsePath

\* The address that a session's storage sends a request to.
LEMMA SessionUrlFacts ==
    ASSUME NEW kind, NEW text \in StTexts, SessionUrl([kind |-> kind, text |-> text]) # Failed
    PROVE  SessionUrl([kind |-> kind, text |-> text]) \in StTexts
<1> DEFINE arg == [kind |-> kind, text |-> text]
<1>1. arg.kind = kind /\ arg.text = text
  OBVIOUS
<1>2. SessionUrl(arg) = ParsePath(IntoAbsPath(arg)) /\ IntoAbsPath(arg) # Failed
  BY DEF SessionUrl
<1>3. IntoAbsPath(arg) = IF kind = "text" THEN ParsePath(text) ELSE text
  BY <1>1 DEF IntoAbsPath
<1> HIDE DEF arg
<1>4. IntoAbsPath(arg) \in StTexts
  BY <1>2, <1>3, ParseFacts
<1> QED
  BY <1>2, <1>4, ParseFacts DEF arg

\* What a caller has to name a file with.
LEMMA ArgFacts ==
    ASSUME StInv, NEW kinds \in SUBSET {"text", "prefixed", "path", "resource"}, NEW a \in Args(kinds)
    PROVE  a \in [kind : {"text", "prefixed", "path", "resource"}, text : StTexts] /\ a.text \in StTexts
           /\ a.kind \in kinds
<1>1. Typed \subseteq StTexts /\ stListed \subseteq StTexts
  BY StorageAssumption DEF Typed, StTexts, StInv, StTypes
<1> QED
  BY <1>1 DEF Args

\* Nothing was done that the properties speak of.
LEMMA NothingDone == ASSUME stDone' = None PROVE LockedWriteUnderItsLock' /\ ListedIsReached'
  BY DEF LockedWriteUnderItsLock, ListedIsReached

\* A request for what was found to be an address.
LEMMA AskStep ==
    ASSUME StInv, NEW c \in StClients, NEW verb \in StVerbs, NEW url \in StTexts, NEW token \in Nat \cup {None},
           NEW locked \in BOOLEAN, NEW timeout \in Nat,
           NEW arg \in [kind : {"text", "prefixed", "path", "resource"}, text : StTexts],
           locked => stHandle[c] # None /\ token = stHandle[c].token, ~locked => token = None /\ verb # "unlock",
           Ask(c, verb, url, token, locked, timeout, arg)
    PROVE  StInv'
<1> DEFINE op == [verb |-> verb, url |-> url, token |-> token, locked |-> locked,
                  timeout |-> timeout, arg |-> arg, retried |-> FALSE, reply |-> None]
<1>1. /\ stOp' = [stOp EXCEPT ![c] = op] /\ stDone' = None
      /\ UNCHANGED <<stFiles, stLocks, stGranted, stStored, stTicks, stBearer, stHandle, stListed>>
  BY DEF Ask, stServer
<1>2. op \in StOps /\ op.locked = locked /\ op.token = token /\ op.verb = verb
  BY DEF StOps
<1> HIDE DEF op
<1>3. StTypes' /\ StLocksInv' /\ StBounds'
  BY <1>1, <1>2 DEF StInv, StTypes, StLocksInv, StBounds
<1>4. StOpsInv'
  BY <1>1, <1>2 DEF StInv, StTypes, StOpsInv
<1> QED
  BY <1>1, <1>3, <1>4, NothingDone DEF StInv

\* A call through a session, of a path typed or listed.
LEMMA SessionCallStep ==
    ASSUME StInv, NEW c \in StClients, NEW v \in SessionVerbs, NEW a \in Args({"text", "path"}), SessionCall(c, v, a)
    PROVE  StInv'
<1>1. a \in [kind : {"text", "prefixed", "path", "resource"}, text : StTexts]
  BY ArgFacts
<1>2. a = [kind |-> a.kind, text |-> a.text] /\ a.text \in StTexts
  BY <1>1
<1>3. SessionUrl(a) # Failed
  BY DEF SessionCall, Ask
<1>4. SessionUrl(a) \in StTexts
  BY <1>2, <1>3, SessionUrlFacts
<1>5. v \in StVerbs /\ v # "unlock"
  BY DEF SessionVerbs, StVerbs
<1>6. Ask(c, v, SessionUrl(a), None, FALSE, 0, a)
  BY DEF SessionCall
<1> QED
  BY <1>1, <1>4, <1>5, <1>6, AskStep

\* A public read.
LEMMA PublicCallStep ==
    ASSUME StInv, NEW c \in StClients, NEW a \in Args(PublicKinds), PublicCall(c, a)
    PROVE  StInv'
<1>1. a \in [kind : {"text", "prefixed", "path", "resource"}, text : StTexts] /\ a.text \in StTexts
  BY ArgFacts DEF PublicKinds
<1>2. PublicUrl(a) # Failed
  BY DEF PublicCall, Ask
<1>3. PublicUrl(a) \in StTexts
  BY <1>1, <1>2, ParseFacts DEF PublicUrl, ParseAddress
<1>4. Ask(c, "public", PublicUrl(a), None, FALSE, 0, a) /\ "public" \in StVerbs
  BY DEF PublicCall, StVerbs
<1> QED
  BY <1>1, <1>3, <1>4, AskStep

\* A lock is asked for.
LEMMA LockCallStep ==
    ASSUME StInv, NEW c \in StClients, NEW a \in Args({"text", "path"}), NEW t \in StTimeouts, LockCall(c, a, t)
    PROVE  StInv'
<1> DEFINE text == IntoAbsPath(a)  b == [kind |-> "path", text |-> text]
<1>1. a.text \in StTexts /\ text # Failed
  BY ArgFacts DEF LockCall
<1>2. text \in StTexts
  BY <1>1, ParseFacts DEF IntoAbsPath
<1>3. Ask(c, "lock", SessionUrl(b), None, FALSE, t, b)
  BY DEF LockCall
<1> HIDE DEF text
<1>4. b \in [kind : {"text", "prefixed", "path", "resource"}, text : StTexts]
  BY <1>2
<1>5. SessionUrl(b) # Failed
  BY <1>3 DEF Ask
<1>6. SessionUrl(b) \in StTexts
  BY <1>2, <1>5, SessionUrlFacts
<1>7. t \in Nat /\ "lock" \in StVerbs
  BY StorageAssumption DEF StVerbs
<1> HIDE DEF b
<1> QED
  BY <1>3, <1>4, <1>6, <1>7, AskStep

\* A call through the handle of a lock.
LEMMA HandleCallStep ==
    ASSUME StInv, NEW c \in StClients, NEW v \in HandleVerbs \cup {"lock"}, NEW t \in Nat, HandleCall(c, v, t)
    PROVE  StInv'
<1> DEFINE h == stHandle[c]  b == [kind |-> "path", text |-> h.path]
           url == HandleUrl(h, v)
<1>1. h # None /\ Ask(c, v, url, IfHeader(h), TRUE, t, b)
  BY DEF HandleCall
<1>2. h.path \in StTexts /\ h.token \in Nat
  BY <1>1 DEF StInv, StTypes, StHandles
<1>3. b \in [kind : {"text", "prefixed", "path", "resource"}, text : StTexts]
  BY <1>2
<1>4. url # Failed
  BY <1>1 DEF Ask
<1>5. url \in StTexts
  BY <1>2, <1>4, SessionUrlFacts DEF HandleUrl
<1>6. v \in StVerbs /\ IfHeader(h) = h.token
  BY DEF HandleVerbs, StVerbs, IfHeader
<1> HIDE DEF b, url
<1> QED
  BY <1>1, <1>2, <1>3, <1>5, <1>6, AskStep

\* A listing names files that are there.
LEMMA ListCallStep ==
    ASSUME StInv, NEW c \in StClients, NEW l \in LinesOf(stFiles), ListCall(c, l)
    PROVE  StInv'
<1> DEFINE n == NamedBy(l)
<1>1. /\ n # Failed /\ stListed' = {n}
      /\ stDone' = [verb |-> "list", file |-> None, arg |-> None, locked |-> FALSE, status |-> None, mine |-> {n}]
      /\ UNCHANGED <<stFiles, stLocks, stGranted, stStored, stTicks, stBearer, stHandle, stOp>>
  BY DEF ListCall, stServer
<1>2. PICK f \in stFiles : (l.form = "pubky" /\ l.text = f) \/ (l.form \in {"storage", "mixed"} /\ l.text = Encode(f))
  <2>1. \/ \E f \in stFiles : l = [form |-> "pubky", text |-> f]
        \/ \E w \in {"storage", "mixed"}, f \in stFiles : l = [form |-> w, text |-> Encode(f)]
    BY DEF LinesOf
  <2> QED
    BY <2>1
<1>3. f \in StTexts /\ Encode(f) \in StTexts /\ DecodeOnce(Encode(f)) = f
  BY TextFacts DEF StInv, StTypes
<1>4. n = Encode(f)
  <2>1. n = ParsePath(f)
    BY <1>1, <1>2, <1>3 DEF NamedBy, FromTransport
  <2> QED
    BY <1>1, <1>3, <2>1, ParseFacts
<1> HIDE DEF n
<1>5. ListedIsReached'
  <2>1. stDone'.mine = {n}
    BY <1>1
  <2>2. FileAt(PublicUrl([kind |-> "resource", text |-> n])) = f
    BY <1>3, <1>4 DEF FileAt, PublicUrl
  <2> QED
    BY <1>1, <2>1, <2>2 DEF ListedIsReached, FileAt, PublicUrl, ParseAddress, ParsePath, Encode, DecodeOnce
<1>6. LockedWriteUnderItsLock'
  BY <1>1 DEF LockedWriteUnderItsLock
<1>7. StTypes' /\ StLocksInv' /\ StBounds' /\ StOpsInv'
  BY <1>1, <1>3, <1>4 DEF StInv, StTypes, StLocksInv, StBounds, StOpsInv
<1> QED
  BY <1>5, <1>6, <1>7 DEF StInv

\* A handle that is dropped has no request under way.
LEMMA DropHandleStep == ASSUME StInv, NEW c \in StClients, DropHandle(c) PROVE StInv'
<1>1. /\ stOp[c] = None /\ stHandle' = [stHandle EXCEPT ![c] = None] /\ stDone' = None
      /\ UNCHANGED <<stFiles, stLocks, stGranted, stStored, stTicks, stBearer, stOp, stListed>>
  BY DEF DropHandle, stServer
<1>2. StTypes' /\ StLocksInv' /\ StBounds' /\ StOpsInv'
  BY <1>1 DEF StInv, StTypes, StLocksInv, StBounds, StOpsInv
<1> QED
  BY <1>1, <1>2, NothingDone DEF StInv

\* An answer is lost.
LEMMA LoseReplyStep == ASSUME StInv, NEW c \in StClients, LoseReply(c) PROVE StInv'
<1>1. /\ stOp' = [stOp EXCEPT ![c] = None] /\ stDone' = None
      /\ UNCHANGED <<stFiles, stLocks, stGranted, stStored, stTicks, stBearer, stHandle, stListed>>
  BY DEF LoseReply, stServer
<1>2. StTypes' /\ StLocksInv' /\ StBounds' /\ StOpsInv'
  BY <1>1 DEF StInv, StTypes, StLocksInv, StBounds, StOpsInv
<1> QED
  BY <1>1, <1>2, NothingDone DEF StInv

\* A bearer expires.
LEMMA BearerExpiresStep == ASSUME StInv, NEW c \in StClients, BearerExpires(c) PROVE StInv'
<1>1. /\ stBearer' = [stBearer EXCEPT ![c] = FALSE] /\ stDone' = None
      /\ UNCHANGED <<stFiles, stLocks, stGranted, stStored, stTicks, stHandle, stOp, stListed>>
  BY DEF BearerExpires, stServer
<1>2. StTypes' /\ StLocksInv' /\ StBounds' /\ StOpsInv'
  BY <1>1 DEF StInv, StTypes, StLocksInv, StBounds, StOpsInv
<1> QED
  BY <1>1, <1>2, NothingDone DEF StInv

\* Locks run out.
LEMMA StTickStep == ASSUME StInv, StTick PROVE StInv'
<1>1. /\ stTicks < MaxStTicks /\ stTicks' = stTicks + 1 /\ stDone' = None
      /\ stLocks' = [f \in DOMAIN stLocks |-> [stLocks[f] EXCEPT !.left = IF @ > 0 THEN @ - 1 ELSE 0]]
      /\ UNCHANGED <<stFiles, stGranted, stStored, stBearer, stHandle, stOp, stListed>>
  BY DEF StTick
<1>2. StTypes' /\ StBounds' /\ StOpsInv'
  BY <1>1, StorageAssumption DEF StInv, StTypes, StBounds, StOpsInv
<1>3. DOMAIN stLocks' = DOMAIN stLocks
  BY <1>1
<1>4. \A f \in DOMAIN stLocks : stLocks'[f] \in [token : Nat, left : Nat] /\ stLocks'[f].token = stLocks[f].token
  <2> SUFFICES ASSUME NEW f \in DOMAIN stLocks
               PROVE  stLocks'[f] \in [token : Nat, left : Nat] /\ stLocks'[f].token = stLocks[f].token
    OBVIOUS
  <2>1. PICK k : k = stLocks[f]
    OBVIOUS
  <2>2. k \in [token : Nat, left : Nat] /\ k.left \in Nat
    BY <2>1 DEF StInv, StLocksInv
  <2>3. (IF k.left > 0 THEN k.left - 1 ELSE 0) \in Nat
    BY <2>2
  <2> QED
    BY <1>1, <2>1, <2>2, <2>3
<1>5. StLocksInv'
  BY <1>1, <1>3, <1>4 DEF StInv, StLocksInv
<1> QED
  BY <1>1, <1>2, <1>5, NothingDone DEF StInv

\* What a request needs to succeed.
LEMMA StatusFacts ==
    ASSUME NEW c, NEW op
    PROVE  /\ Status(c, op) \in {None, "401", "404", "409", "412", "423"}
           /\ Status(c, op) = None =>
                /\ op.verb \in {"put", "blob", "delete"} => WriteAllowed(FileAt(op.url), op.token)
                /\ op.verb \in {"lock", "unlock"} /\ op.token # None => WriteAllowed(FileAt(op.url), op.token)
  BY StorageAssumption DEF Status

\* A lock set on a file: with a new token, or with the one it has.
LEMMA LockedFacts ==
    ASSUME StInv, NEW f, NEW token \in Nat, NEW left \in Nat, NEW granted \in Nat,
           stGranted <= granted, token <= granted,
           token > stGranted \/ (f \in DOMAIN stLocks /\ stLocks[f].token = token),
           stLocks' = Locked(f, token, left), stGranted' = granted
    PROVE  StLocksInv'
<1>1. DOMAIN stLocks' = DOMAIN stLocks \cup {f}
  BY DEF Locked
<1>2. stLocks'[f] = [token |-> token, left |-> left]
  BY DEF Locked
<1>3. stLocks'[f] \in [token : Nat, left : Nat] /\ stLocks'[f].token = token
  BY <1>2
<1>4. \A x \in DOMAIN stLocks : x # f => stLocks'[x] = stLocks[x]
  BY DEF Locked
<1>5. \A x \in DOMAIN stLocks : /\ stLocks[x] \in [token : Nat, left : Nat] /\ stLocks[x].token \in Nat
                                /\ stLocks[x].token <= stGranted
  BY DEF StInv, StLocksInv
<1>6. \A x \in DOMAIN stLocks : x # f => stLocks[x].token # token
  BY <1>5 DEF StInv, StLocksInv, StTypes
<1>7. stGranted \in Nat
  BY DEF StInv, StTypes
<1>8. \A x \in DOMAIN stLocks' : stLocks'[x] \in [token : Nat, left : Nat] /\ stLocks'[x].token <= granted
  BY <1>1, <1>3, <1>4, <1>5, <1>7
<1>9. \A x, y \in DOMAIN stLocks' : x # y => stLocks'[x].token # stLocks'[y].token
  BY <1>1, <1>3, <1>4, <1>6 DEF StInv, StLocksInv
<1> QED
  BY <1>8, <1>9 DEF StLocksInv

\* The homeserver does what it is asked.
LEMMA DoStep == ASSUME StInv, NEW c \in StClients, Do(c) PROVE StInv'
<1>1. stOp[c] # None /\ stOp[c].reply = None
  BY DEF Do
<1>2. PICK op : op = stOp[c]
  OBVIOUS
<1>3. PICK f : f = FileAt(op.url)
  OBVIOUS
<1>4. PICK status : status = Status(c, op)
  OBVIOUS
<1>5. PICK token : token = IF op.token = None THEN stGranted + 1 ELSE op.token
  OBVIOUS
<1>6. /\ op.verb = "lock" /\ op.token = None => stGranted < MaxStTokens
      /\ stOp' = [stOp EXCEPT ![c].reply = [status |-> status, token |-> token]]
      /\ stFiles' = IF status # None THEN stFiles
                    ELSE CASE op.verb \in {"put", "blob"} -> stFiles \cup {f}
                           [] op.verb = "delete" -> stFiles \ {f}
                           [] OTHER -> stFiles
      /\ stLocks' = IF status # None THEN stLocks
                    ELSE CASE op.verb = "lock" -> Locked(f, token, op.timeout)
                           [] op.verb = "unlock" -> Locked(f, token, 0)
                           [] OTHER -> stLocks
      /\ stGranted' = IF status = None /\ op.verb = "lock" /\ op.token = None THEN token ELSE stGranted
      /\ stDone' = [verb |-> op.verb, file |-> f, arg |-> op.arg, locked |-> op.locked, status |-> status,
                    mine |-> {g \in DOMAIN stLocks : HasLock(g) /\ stHandle[c] # None
                                                     /\ stLocks[g].token = stHandle[c].token}]
  BY <1>2, <1>3, <1>4, <1>5 DEF Do
<1>7. UNCHANGED <<stTicks, stBearer, stHandle, stListed>>
  BY DEF Do
<1>8. /\ op \in StOps /\ op.verb \in StVerbs /\ op.url \in StTexts /\ op.token \in Nat \cup {None}
      /\ op.locked \in BOOLEAN /\ op.timeout \in Nat /\ stGranted \in Nat
      /\ op.locked => stHandle[c] # None /\ op.token = stHandle[c].token /\ op.token \in Nat
      /\ ~op.locked => op.token = None /\ op.verb # "unlock"
  BY <1>1, <1>2 DEF StInv, StTypes, StOpsInv, StOps, StHandles
<1>9. f \in StTexts /\ token \in Nat
  BY <1>3, <1>5, <1>8, TextFacts DEF FileAt
<1>10. /\ status \in {None, "401", "404", "409", "412", "423"}
       /\ status = None =>
            /\ op.verb \in {"put", "blob", "delete"} => WriteAllowed(f, op.token)
            /\ op.verb \in {"lock", "unlock"} /\ op.token # None => WriteAllowed(f, op.token)
  BY <1>3, <1>4, StatusFacts
<1>11. op.token # None /\ WriteAllowed(f, op.token) => HasLock(f) /\ f \in DOMAIN stLocks /\ stLocks[f].token = op.token
  BY DEF WriteAllowed, HasLock
<1>12. StTypes'
  <2> DEFINE op2 == [op EXCEPT !.reply = [status |-> status, token |-> token]]
  <2>1. op2 \in StOps
    BY <1>8, <1>9, <1>10 DEF StOps, StReplies
  <2>2. stOp' = [stOp EXCEPT ![c] = op2]
    BY <1>2, <1>6
  <2> HIDE DEF op2
  <2>3. (stOp \in [StClients -> StOps \cup {None}])'
    BY <2>1, <2>2 DEF StInv, StTypes
  <2>4. (stFiles \subseteq StTexts)'
    BY <1>6, <1>9 DEF StInv, StTypes
  <2>5. (stGranted \in Nat)'
    BY <1>6, <1>8, <1>9
  <2> QED
    BY <1>7, <2>3, <2>4, <2>5 DEF StInv, StTypes
<1>13. StOpsInv'
  <2> SUFFICES ASSUME NEW d \in StClients, stOp'[d] # None
               PROVE  /\ stOp'[d].locked => stHandle[d] # None /\ stOp'[d].token = stHandle[d].token
                      /\ ~stOp'[d].locked => stOp'[d].token = None /\ stOp'[d].verb # "unlock"
    BY <1>7 DEF StOpsInv
  <2>1. CASE d = c
    <3>1. stOp'[d].locked = op.locked /\ stOp'[d].token = op.token /\ stOp'[d].verb = op.verb
      BY <1>2, <1>6, <1>8, <2>1 DEF StInv, StTypes, StOps
    <3> QED
      BY <1>8, <2>1, <3>1
  <2>2. CASE d # c
    BY <1>6, <2>2 DEF StInv, StTypes, StOpsInv
  <2> QED
    BY <2>1, <2>2
<1>14. StBounds'
  BY <1>5, <1>6, <1>7, <1>8, StorageAssumption DEF StInv, StBounds
<1>15. StLocksInv'
  <2>1. CASE status = None /\ op.verb = "lock" /\ op.token = None
    <3>1. stLocks' = Locked(f, token, op.timeout) /\ stGranted' = token /\ token = stGranted + 1
      BY <1>5, <1>6, <2>1
    <3>2. token > stGranted /\ stGranted <= token /\ token <= token
      BY <1>8, <3>1
    <3> QED
      BY <1>8, <1>9, <3>1, <3>2, LockedFacts
  <2>2. CASE status = None /\ op.verb \in {"lock", "unlock"} /\ op.token # None
    <3>1. f \in DOMAIN stLocks /\ stLocks[f].token = token /\ token = op.token
      BY <1>5, <1>10, <1>11, <2>2
    <3>2. stGranted' = stGranted /\ stGranted <= stGranted /\ token <= stGranted
      BY <1>6, <1>8, <2>2, <3>1 DEF StInv, StLocksInv
    <3>3. PICK left \in Nat : stLocks' = Locked(f, token, left)
      BY <1>6, <1>8, <2>2
    <3> QED
      BY <1>8, <1>9, <3>1, <3>2, <3>3, LockedFacts
  <2>3. CASE ~(status = None /\ op.verb \in {"lock", "unlock"})
    <3>1. stLocks' = stLocks /\ stGranted' = stGranted
      BY <1>6, <2>3
    <3> QED
      BY <3>1 DEF StInv, StLocksInv
  <2>4. op.verb = "unlock" => op.token # None
    BY <1>8, StorageAssumption
  <2> QED
    BY <2>1, <2>2, <2>3, <2>4
<1>16. LockedWriteUnderItsLock'
  <2>1. /\ stDone'.verb = op.verb /\ stDone'.locked = op.locked /\ stDone'.status = status /\ stDone'.file = f
        /\ stDone'.mine = {g \in DOMAIN stLocks : HasLock(g) /\ stHandle[c] # None
                                                  /\ stLocks[g].token = stHandle[c].token}
    BY <1>6
  <2>2. ASSUME op.verb \in {"put", "blob", "delete"}, op.locked, status = None
        PROVE  HasLock(f) /\ f \in DOMAIN stLocks /\ stHandle[c] # None /\ stLocks[f].token = stHandle[c].token
    <3>1. op.token # None
      BY <1>8, <2>2, StorageAssumption
    <3> QED
      BY <1>8, <1>10, <1>11, <2>2, <3>1
  <2> QED
    BY <2>1, <2>2 DEF LockedWriteUnderItsLock
<1>17. ListedIsReached'
  <2>1. stDone'.verb # "list"
    BY <1>6, <1>8 DEF StVerbs
  <2> QED
    BY <2>1 DEF ListedIsReached
<1> QED
  BY <1>12, <1>13, <1>14, <1>15, <1>16, <1>17 DEF StInv

\* The caller has its answer.
LEMMA ReceiveStep == ASSUME StInv, NEW c \in StClients, Receive(c) PROVE StInv'
<1>1. PICK op : op = stOp[c]
  OBVIOUS
<1>2. PICK r : r = op.reply
  OBVIOUS
<1>3. /\ op # None /\ r # None /\ stDone' = None
      /\ stHandle' = IF op.verb = "lock" /\ r.status = None
                     THEN [stHandle EXCEPT ![c] = [path |-> op.arg.text, token |-> r.token, timeout |-> op.timeout]]
                     ELSE stHandle
      /\ IF Again(op, r.status)
         THEN /\ stBearer' = [stBearer EXCEPT ![c] = TRUE]
              /\ stOp' = [stOp EXCEPT ![c].reply = None, ![c].retried = TRUE]
         ELSE stOp' = [stOp EXCEPT ![c] = None] /\ UNCHANGED stBearer
      /\ UNCHANGED <<stFiles, stLocks, stGranted, stStored, stTicks, stListed>>
  BY <1>1, <1>2 DEF Receive, stServer
<1>4. op \in StOps /\ r \in StReplies /\ op.arg.text \in StTexts /\ r.token \in Nat /\ op.timeout \in Nat
  BY <1>1, <1>2, <1>3 DEF StInv, StTypes, StOps, StReplies
<1> DEFINE h == [path |-> op.arg.text, token |-> r.token, timeout |-> op.timeout]
<1>5. h \in StHandles
  BY <1>4 DEF StHandles
<1> HIDE DEF h
<1>6. (stHandle \in [StClients -> StHandles \cup {None}])' /\ \A d \in StClients \ {c} : stHandle'[d] = stHandle[d]
  BY <1>3, <1>5 DEF StInv, StTypes, h
<1>7. StLocksInv' /\ StBounds'
  BY <1>3 DEF StInv, StLocksInv, StBounds
<1>8. CASE Again(op, r.status)
  <2> DEFINE op2 == [op EXCEPT !.reply = None, !.retried = TRUE]
  <2>1. r.status = "401"
    BY <1>8 DEF Again
  <2>2. stHandle' = stHandle
    BY <1>3, <2>1, StorageAssumption
  <2>3. op2 \in StOps /\ op2.locked = op.locked /\ op2.token = op.token /\ op2.verb = op.verb
    BY <1>4 DEF StOps
  <2>4. stOp' = [stOp EXCEPT ![c] = op2] /\ stBearer' = [stBearer EXCEPT ![c] = TRUE]
    BY <1>1, <1>3, <1>8
  <2> HIDE DEF op2
  <2>5. StTypes'
    BY <1>3, <2>2, <2>3, <2>4 DEF StInv, StTypes
  <2>6. StOpsInv'
    BY <1>1, <1>3, <2>2, <2>3, <2>4 DEF StInv, StTypes, StOpsInv
  <2> QED
    BY <1>3, <1>7, <2>5, <2>6, NothingDone DEF StInv
<1>9. CASE ~Again(op, r.status)
  <2>1. stOp' = [stOp EXCEPT ![c] = None] /\ stBearer' = stBearer
    BY <1>3, <1>9
  <2>2. StTypes'
    BY <1>3, <1>6, <2>1 DEF StInv, StTypes
  <2>3. StOpsInv'
    BY <1>6, <2>1 DEF StInv, StTypes, StOpsInv
  <2> QED
    BY <1>3, <1>7, <2>2, <2>3, NothingDone DEF StInv
<1> QED
  BY <1>8, <1>9

\* Every step of storage.
LEMMA StorageStep == StInv /\ [StNext]_stVars => StInv'
<1> SUFFICES ASSUME StInv, [StNext]_stVars PROVE StInv'
  OBVIOUS
<1>1. CASE UNCHANGED stVars
  <2>1. UNCHANGED <<stFiles, stLocks, stGranted, stTicks, stBearer, stHandle, stOp, stListed, stDone>>
    BY <1>1 DEF stVars
  <2>2. ListedIsReached'
    BY <2>1 DEF StInv, ListedIsReached
  <2> QED
    BY <2>1, <2>2 DEF StInv, StTypes, StLocksInv, StOpsInv, StBounds, LockedWriteUnderItsLock
<1>2. ASSUME NEW c \in StClients, NEW v \in HandleVerbs, HandleCall(c, v, 0) PROVE StInv'
  BY <1>2, HandleCallStep
<1>3. ASSUME NEW c \in StClients, NEW t \in StTimeouts, HandleCall(c, "lock", t) PROVE StInv'
  BY <1>3, HandleCallStep, StorageAssumption
<1> QED
  BY <1>1, <1>2, <1>3, StTickStep, DoStep, ReceiveStep, LoseReplyStep, BearerExpiresStep, DropHandleStep,
     SessionCallStep, LockCallStep, PublicCallStep, ListCallStep DEF StNext

\* A locked write that succeeds wrote the file its caller's lock is on while it had the
\* lock, no two locks have one token, and every resource of a listing reaches a listed
\* file (storage/{lock,list,core}.rs): for any callers, names, layers of encoding, locks,
\* lost answers and retries.
THEOREM StorageIsSound == StSpec => []StorageSound
<1>1. StInit => StInv
  <2> SUFFICES ASSUME StInit PROVE StInv
    OBVIOUS
  <2>1. stFiles \subseteq StTexts
    BY DEF StInit, StTexts
  <2>2. StTypes
    BY <2>1 DEF StInit, StTypes
  <2>3. StLocksInv /\ StOpsInv
    BY DEF StInit, StLocksInv, StOpsInv
  <2>4. StBounds /\ LockedWriteUnderItsLock /\ ListedIsReached
    BY StorageAssumption DEF StInit, StBounds, LockedWriteUnderItsLock, ListedIsReached
  <2> QED
    BY <2>2, <2>3, <2>4 DEF StInv
<1>2. StInv => StorageSound
  <2> SUFFICES ASSUME StInv PROVE StorageSound
    OBVIOUS
  <2>1. StTypeOK
    BY DEF StInv, StTypes, StTexts, StLocksInv, StBounds, StTypeOK
  <2> QED
    BY <2>1 DEF StInv, StorageSound
<1> QED
  BY <1>1, <1>2, StorageStep, PTL DEF StSpec

-----------------------------------------------------------------------------
(* Deep links: a link that is read says what the app that built it said.      *)

\* The first value that a query has for a key.
Carried(query, key, v) ==
    \E i \in DOMAIN query :
      /\ query[i][1] = key /\ query[i][2] = v
      /\ \A j \in DOMAIN query : query[j][1] = key /\ query[j][2] # None => i <= j

IntentOf(url) == IF url.intent = "" THEN "signin" ELSE url.intent

\* What a link that was read keeps of what it should say.
Keeps(params) ==
    \A key \in DOMAIN dlLink.params :
      Meant(key) # None \/ key \in {"epk", "secret"} \/ dlAppended = 0 => params[key] = Meant(key)

\* A URL under way carries everything that was written, before anything else, and
\* nothing else where nothing was appended.
UrlInv ==
    /\ dlUrl \in [scheme : {dlUrl.scheme}, intent : {dlUrl.intent}, query : {dlUrl.query}]
    /\ IntentOf(dlUrl) = dlLink.intent
    /\ \E n \in Nat : dlUrl.query = [i \in 1..n |-> dlUrl.query[i]]
    /\ \A key \in DOMAIN dlLink.params :
         Meant(key) # None => Carried(dlUrl.query, key, Meant(key))
    /\ dlAppended = 0 =>
         \A key : key \notin DOMAIN dlLink.params \/ Meant(key) = None => ValuesOf(dlUrl, key) = {}

\* What was read.
LinkGotInv ==
    dlGot \notin {None, Failed} =>
      /\ dlGot \in [scheme : {dlGot.scheme}, intent : {dlGot.intent}, params : {dlGot.params}]
      /\ dlGot.intent = dlLink.intent /\ Keeps(dlGot.params)
      /\ dlGot.params = [key \in Fields(dlLink.intent) |-> dlGot.params[key]]

DlInv ==
    /\ dlLink \in DlLinks /\ dlAppended \in 0..MaxAppended /\ dlHandovers \in 0..MaxHandovers
    /\ UrlInv /\ LinkGotInv

\* What the app wrote of what is required, and of the channel.
LEMMA MeantFacts ==
    ASSUME dlLink \in DlLinks
    PROVE  /\ dlLink.intent \in DlIntents /\ DOMAIN dlLink.params = Fields(dlLink.intent)
           /\ \A key \in Required(dlLink.intent) : Meant(key) # None
           /\ IsGrant(dlLink.intent) => /\ Meant("af") \in {None, "v1"}
                                        /\ Meant("epk") = None <=> Meant("secret") # None
<1>1. Required(dlLink.intent) \cap Callbacks = {} /\ {"af", "epk", "secret"} \cap Callbacks = {}
  BY LinksAssumption DEF Required, Callbacks, DlIntents, SigninParams, SignupParams, DirectSignupParams,
                         SeedExportParams, SigninGrantParams, SignupGrantParams
<1> QED
  BY <1>1, LinksAssumption DEF Meant

\* The first value is what is read.
LEMMA FirstRead ==
    ASSUME NEW url, NEW n \in Nat, url.query = [i \in 1..n |-> url.query[i]], NEW key, NEW v,
           v # None, Carried(url.query, key, v)
    PROVE  OptionalQuery(url, key) = v /\ ValuesOf(url, key) # {}
<1> DEFINE at == ValuesOf(url, key)
<1>1. PICK i \in DOMAIN url.query : /\ url.query[i][1] = key /\ url.query[i][2] = v
                                    /\ \A j \in DOMAIN url.query : url.query[j][1] = key /\ url.query[j][2] # None => i <= j
  BY DEF Carried
<1>2. DOMAIN url.query = 1..n
  OBVIOUS
<1>3. i \in at /\ at \subseteq 1..n /\ \A j \in at : i <= j
  BY <1>1, <1>2 DEF ValuesOf
<1>4. \A k \in at : (\A j \in at : k <= j) => k = i
  BY <1>3
<1>5. at # {}
  BY <1>3
<1> HIDE DEF at
<1>6. (CHOOSE k \in at : \A j \in at : k <= j) = i
  BY <1>3, <1>4
<1>7. OptionalQuery(url, key) = url.query[i][2]
  BY <1>5, <1>6 DEF OptionalQuery, at
<1> QED
  BY <1>1, <1>5, <1>7 DEF at

\* The parameters that a link can have are written in one order.
LEMMA OrderFacts ==
    /\ \A i \in 1..14, j \in 1..14 : ParamOrder[i] = ParamOrder[j] => i = j
    /\ \A intent \in DlIntents : \A key \in Fields(intent) : \E i \in 1..14 : ParamOrder[i] = key
<1> DEFINE Ps == {"caps", "relay", "secret", "hs", "st", "cid", "cpk", "af", "epk", "spk",
                  "x-source", "x-success", "x-error", "x-cancel"}
<1>1. \A i \in 1..14, j \in 1..14 : ParamOrder[i] = ParamOrder[j] => i = j
  BY DEF ParamOrder
<1>2. \A key \in Ps : \E i \in 1..14 : ParamOrder[i] = key
  BY DEF ParamOrder
<1>3. \A intent \in DlIntents : Fields(intent) \subseteq Ps
  BY DEF DlIntents, Fields, Required, Optional, IsGrant, Callbacks, SigninParams, SignupParams,
         DirectSignupParams, SeedExportParams, SigninGrantParams, SignupGrantParams
<1> HIDE DEF Ps
<1> QED
  BY <1>1, <1>2, <1>3

\* A written link carries its values.
LEMMA ToUrlFacts ==
    ASSUME NEW link, link.intent \in DlIntents, DOMAIN link.params = Fields(link.intent)
    PROVE  LET url == ToUrl(link) IN
           /\ url.scheme = link.scheme /\ url.intent = link.intent
           /\ url \in [scheme : {url.scheme}, intent : {url.intent}, query : {url.query}]
           /\ url.query = [i \in 1..14 |-> url.query[i]]
           /\ \A key \in DOMAIN link.params :
                link.params[key] # None => Carried(url.query, key, link.params[key])
           /\ \A key : key \notin DOMAIN link.params \/ link.params[key] = None => ValuesOf(url, key) = {}
<1> DEFINE url == ToUrl(link)
           q == [i \in 1..14 |-> <<ParamOrder[i], IF Present(link, ParamOrder[i])
                                                  THEN link.params[ParamOrder[i]] ELSE None>>]
<1>1. /\ url.scheme = link.scheme /\ url.intent = link.intent /\ url.query = q
      /\ url \in [scheme : {url.scheme}, intent : {url.intent}, query : {url.query}]
  BY DEF ToUrl
<1>2. DOMAIN q = 1..14 /\ q = [i \in 1..14 |-> q[i]] /\ \A i \in 1..14 : q[i][1] = ParamOrder[i]
  OBVIOUS
<1>3. \A i \in 1..14 : Present(link, ParamOrder[i]) => q[i][2] = link.params[ParamOrder[i]]
  OBVIOUS
<1>n. \A i \in 1..14 : ~Present(link, ParamOrder[i]) => q[i][2] = None
  OBVIOUS
<1> HIDE DEF q, url
<1>4. ASSUME NEW key \in DOMAIN link.params, link.params[key] # None
      PROVE  Carried(q, key, link.params[key])
  <2>1. PICK i \in 1..14 : ParamOrder[i] = key
    BY OrderFacts
  <2>2. q[i][1] = key /\ q[i][2] = link.params[key]
    BY <1>2, <1>3, <1>4, <2>1 DEF Present
  <2>3. \A j \in 1..14 : q[j][1] = key => i <= j
    BY <1>2, <2>1, OrderFacts
  <2> QED
    BY <1>2, <2>2, <2>3 DEF Carried
<1>5. ASSUME NEW key, key \notin DOMAIN link.params \/ link.params[key] = None PROVE ValuesOf(url, key) = {}
  <2>1. ~Present(link, key)
    BY <1>5 DEF Present
  <2>2. \A i \in 1..14 : q[i][1] = key => q[i][2] = None
    BY <1>2, <1>n, <2>1
  <2> QED
    BY <1>1, <1>2, <2>2 DEF ValuesOf
<1> QED
  BY <1>1, <1>2, <1>4, <1>5 DEF url

\* A pair at the end of a query of any pairs.
LEMMA AppendAny ==
    ASSUME NEW n \in Nat, NEW q, q = [i \in 1..n |-> q[i]], NEW x
    PROVE  /\ Append(q, x) = [i \in 1..(n + 1) |-> Append(q, x)[i]]
           /\ \A i \in 1..n : Append(q, x)[i] = q[i]
           /\ DOMAIN Append(q, x) = 1..(n + 1)
<1> DEFINE T == {q[i] : i \in 1..n} \cup {x}
<1>1. q \in [1..n -> T] /\ x \in T
  OBVIOUS
<1> HIDE DEF T
<1>2. q \in Seq(T) /\ Len(q) = n
  BY <1>1
<1>3. Append(q, x) \in Seq(T) /\ Len(Append(q, x)) = n + 1 /\ \A i \in 1..n : Append(q, x)[i] = q[i]
  BY <1>1, <1>2
<1> QED
  BY <1>3

\* The parameters read from a URL that carries the app's are the app's, where it gave one.
LEMMA LinkParseFacts ==
    ASSUME dlLink \in DlLinks, UrlInv, ParseParams(dlUrl, dlLink.intent) # Failed
    PROVE  LET params == ParseParams(dlUrl, dlLink.intent) IN
           /\ params = [key \in Fields(dlLink.intent) |-> params[key]]
           /\ Keeps(params)
<1> DEFINE format  == ApprovalFormat(dlUrl)
           channel == RelayChannel(dlUrl, format)
           value(key) == CASE key = "spk" -> ExpectedSigner(dlUrl)
                           [] key = "af" -> format
                           [] key \in Callbacks -> Callback(dlUrl, key)
                           [] key \in Optional(dlLink.intent) -> OptionalQuery(dlUrl, key)
                           [] IsGrant(dlLink.intent) /\ key \in {"epk", "secret"} -> channel[key]
                           [] OTHER -> RequiredQuery(dlUrl, key)
           params == ParseParams(dlUrl, dlLink.intent)
<1>1. /\ params = [key \in Fields(dlLink.intent) |-> value(key)]
      /\ \A key \in Fields(dlLink.intent) : value(key) # Failed
      /\ IsGrant(dlLink.intent) => format # Failed /\ channel # Failed
  BY DEF ParseParams
<1>2. PICK n \in Nat : dlUrl.query = [i \in 1..n |-> dlUrl.query[i]]
  BY DEF UrlInv
<1>3. /\ dlLink.intent \in DlIntents /\ DOMAIN dlLink.params = Fields(dlLink.intent)
      /\ \A key \in Required(dlLink.intent) : Meant(key) # None
      /\ IsGrant(dlLink.intent) => /\ Meant("af") \in {None, "v1"}
                                   /\ Meant("epk") = None <=> Meant("secret") # None
  BY MeantFacts
<1>4. \A key \in DOMAIN dlLink.params : Meant(key) # None =>
        OptionalQuery(dlUrl, key) = Meant(key) /\ ValuesOf(dlUrl, key) # {}
  BY <1>2, FirstRead DEF UrlInv
<1>n. ASSUME dlAppended = 0, NEW key, key \notin DOMAIN dlLink.params \/ Meant(key) = None
      PROVE  ValuesOf(dlUrl, key) = {} /\ OptionalQuery(dlUrl, key) = None
  <2>1. ValuesOf(dlUrl, key) = {}
    BY <1>n DEF UrlInv
  <2> QED
    BY <2>1 DEF OptionalQuery
<1>5. \A key : RequiredQuery(dlUrl, key) \in {Failed, OptionalQuery(dlUrl, key)}
  BY DEF RequiredQuery
<1>6. ASSUME IsGrant(dlLink.intent), NEW key \in {"epk", "secret"} PROVE channel[key] = Meant(key)
  <2>1. {"epk", "secret"} \subseteq DOMAIN dlLink.params
    BY <1>3, <1>6 DEF Fields
  <2>2. \/ OptionalQuery(dlUrl, "epk") # None /\ OptionalQuery(dlUrl, "secret") = None
           /\ channel = [epk |-> OptionalQuery(dlUrl, "epk"), secret |-> None]
        \/ OptionalQuery(dlUrl, "epk") = None /\ OptionalQuery(dlUrl, "secret") # None
           /\ channel = [epk |-> None, secret |-> OptionalQuery(dlUrl, "secret")]
    BY <1>1, <1>6 DEF RelayChannel
  <2>3. Meant("epk") = None <=> Meant("secret") # None
    BY <1>3, <1>6
  <2>4. CASE Meant("epk") # None
    <3>1. OptionalQuery(dlUrl, "epk") = Meant("epk") /\ Meant("secret") = None
      BY <1>4, <2>1, <2>3, <2>4
    <3> QED
      BY <2>2, <2>4, <3>1
  <2>5. CASE Meant("epk") = None
    <3>1. OptionalQuery(dlUrl, "secret") = Meant("secret") /\ Meant("secret") # None
      BY <1>4, <2>1, <2>3, <2>5
    <3> QED
      BY <2>2, <2>5, <3>1
  <2> QED
    BY <2>4, <2>5
<1> HIDE DEF channel
<1>7. ASSUME NEW key \in Fields(dlLink.intent), Meant(key) # None \/ key \in {"epk", "secret"}
      PROVE  value(key) = Meant(key)
  <2>1. CASE IsGrant(dlLink.intent) /\ key \in {"epk", "secret"}
    <3>1. value(key) = channel[key]
      BY <2>1 DEF Callbacks, Optional
    <3> QED
      BY <1>6, <2>1, <3>1
  <2>2. CASE ~IsGrant(dlLink.intent) /\ key \in {"epk", "secret"}
    <3>1. key \in Required(dlLink.intent)
      BY <1>3, <2>2 DEF Fields, Optional, Callbacks, IsGrant
    <3>2. value(key) = RequiredQuery(dlUrl, key)
      BY <2>2 DEF Callbacks, Optional
    <3>3. OptionalQuery(dlUrl, key) = Meant(key)
      BY <1>3, <1>4, <3>1
    <3> HIDE DEF value
    <3> QED
      BY <1>1, <1>5, <3>2, <3>3
  <2>3. CASE key \notin {"epk", "secret"}
    <3>1. OptionalQuery(dlUrl, key) = Meant(key) /\ ValuesOf(dlUrl, key) # {} /\ Meant(key) # None
      BY <1>3, <1>4, <1>7, <2>3
    <3>2. CASE key = "spk"
      <4>1. value(key) = ExpectedSigner(dlUrl)
        BY <3>2 DEF Callbacks, Optional
      <4>2. ExpectedSigner(dlUrl) \in {Failed, RequiredQuery(dlUrl, "spk")}
        BY <3>1, <3>2 DEF ExpectedSigner
      <4> HIDE DEF value
      <4> QED
        BY <1>1, <1>5, <3>1, <3>2, <4>1, <4>2
    <3>3. CASE key = "af"
      <4>1. value(key) = format
        BY <3>3 DEF Callbacks, Optional
      <4>2. IsGrant(dlLink.intent)
        BY <1>3, <3>3 DEF Fields, Required, Optional, Callbacks, DlIntents, SigninParams, SignupParams,
                          DirectSignupParams, SeedExportParams, SigninGrantParams, SignupGrantParams, IsGrant
      <4>3. format \in {Failed, "v1"}
        BY <3>1, <3>3 DEF ApprovalFormat
      <4>4. Meant("af") = "v1"
        BY <1>3, <3>1, <3>3, <4>2
      <4> HIDE DEF value, format
      <4> QED
        BY <1>1, <3>3, <4>1, <4>2, <4>3, <4>4
    <3>4. CASE key \in Callbacks
      <4>1. value(key) = Callback(dlUrl, key)
        BY <3>4 DEF Callbacks, Optional
      <4> HIDE DEF value
      <4> QED
        BY <3>1, <4>1 DEF Callback
    <3>5. CASE key \notin {"spk", "af"} \cup Callbacks
      <4>1. value(key) \in {OptionalQuery(dlUrl, key), RequiredQuery(dlUrl, key)}
        BY <2>3, <3>5
      <4> HIDE DEF value
      <4> QED
        BY <1>1, <1>5, <3>1, <4>1
    <3> QED
      BY <3>2, <3>3, <3>4, <3>5
  <2> QED
    BY <2>1, <2>2, <2>3
<1>x. ASSUME NEW key \in Fields(dlLink.intent), dlAppended = 0, Meant(key) = None, key \notin {"epk", "secret"}
      PROVE  value(key) = None
  <2>1. ValuesOf(dlUrl, key) = {} /\ OptionalQuery(dlUrl, key) = None /\ key \notin Required(dlLink.intent)
    BY <1>3, <1>n, <1>x
  <2>2. CASE key = "spk"
    <3>1. value(key) = ExpectedSigner(dlUrl)
      BY <2>2 DEF Callbacks, Optional
    <3> HIDE DEF value
    <3>2. Cardinality(ValuesOf(dlUrl, "spk")) # 1
      BY <2>1, <2>2, FS_EmptySet
    <3> QED
      BY <2>1, <2>2, <3>1, <3>2 DEF ExpectedSigner
  <2>3. CASE key = "af"
    <3>1. value(key) = ApprovalFormat(dlUrl)
      BY <2>3 DEF Callbacks, Optional
    <3> HIDE DEF value
    <3> QED
      BY <2>1, <2>3, <3>1 DEF ApprovalFormat
  <2>4. CASE key \in Callbacks
    <3>1. value(key) = Callback(dlUrl, key)
      BY <2>4 DEF Callbacks, Optional
    <3>2. "callback" \notin Fields(dlLink.intent)
      BY <1>3 DEF Fields, Required, Optional, Callbacks, DlIntents, SigninParams, SignupParams,
                  DirectSignupParams, SeedExportParams, SigninGrantParams, SignupGrantParams
    <3>3. OptionalQuery(dlUrl, "callback") = None
      BY <1>3, <1>n, <1>x, <3>2
    <3> HIDE DEF value
    <3> QED
      BY <2>1, <3>1, <3>3 DEF Callback
  <2>5. CASE key \notin {"spk", "af"} \cup Callbacks
    <3>1. key \in Optional(dlLink.intent)
      BY <1>3, <1>x, <2>1, <2>5 DEF Fields
    <3>2. value(key) = OptionalQuery(dlUrl, key)
      BY <1>x, <2>5, <3>1
    <3> HIDE DEF value
    <3> QED
      BY <2>1, <3>2
  <2> QED
    BY <2>2, <2>3, <2>4, <2>5
<1> HIDE DEF value, params
<1>8. params = [key \in Fields(dlLink.intent) |-> params[key]]
  BY <1>1
<1>9. Keeps(params)
  BY <1>1, <1>3, <1>7, <1>x DEF Keeps
<1> QED
  BY <1>8, <1>9 DEF params

\* Nothing that a URL carries is lost while the URL and the link stay.
LEMMA UrlKept == ASSUME UrlInv, UNCHANGED <<dlUrl, dlLink, dlAttached, dlAppended>> PROVE UrlInv'
<1>1. PICK u, l, f : u = dlUrl /\ l = dlLink /\ f = [key \in DOMAIN l.params |-> Meant(key)]
  OBVIOUS
<1>2. dlUrl' = u /\ dlLink' = l /\ \A key \in DOMAIN l.params : Meant(key) = f[key] /\ Meant(key)' = f[key]
  BY <1>1 DEF Meant
<1>3. /\ u \in [scheme : {u.scheme}, intent : {u.intent}, query : {u.query}] /\ IntentOf(u) = l.intent
      /\ \E n \in Nat : u.query = [i \in 1..n |-> u.query[i]]
      /\ \A key \in DOMAIN l.params : f[key] # None => Carried(u.query, key, f[key])
  BY <1>1, <1>2 DEF UrlInv
<1>4. dlAppended = 0 => \A key : key \notin DOMAIN l.params \/ f[key] = None => ValuesOf(u, key) = {}
  BY <1>1, <1>2 DEF UrlInv
<1>5. (dlAppended = 0 => \A key : key \notin DOMAIN dlLink.params \/ Meant(key) = None => ValuesOf(dlUrl, key) = {})'
  BY <1>2, <1>4 DEF ValuesOf
<1>6. (\A key \in DOMAIN dlLink.params : Meant(key) # None => Carried(dlUrl.query, key, Meant(key)))'
  BY <1>2, <1>3
<1> QED
  BY <1>2, <1>3, <1>5, <1>6 DEF UrlInv

\* The signer reads the URL.
LEMMA ReadLinkStep == ASSUME DlInv, ReadLink PROVE DlInv'
<1> DEFINE params == ParseParams(dlUrl, dlLink.intent)
<1>1. dlGot' = ParseLink(dlUrl) /\ UNCHANGED <<dlLink, dlAttached, dlUrl, dlAppended, dlHandovers>>
  BY DEF ReadLink
<1>2. dlLink \in DlLinks /\ UrlInv
  BY DEF DlInv
<1>3. UrlInv'
  BY <1>1, <1>2, UrlKept
<1>4. LinkGotInv'
  <2> SUFFICES ASSUME dlGot' \notin {None, Failed} PROVE LinkGotInv'
    BY DEF LinkGotInv
  <2>1. (IF dlUrl.intent = "" THEN "signin" ELSE dlUrl.intent) = dlLink.intent
    BY <1>2 DEF UrlInv, IntentOf
  <2>2. params # Failed /\ dlGot' = [scheme |-> dlUrl.scheme, intent |-> dlLink.intent, params |-> params]
    BY <1>1, <2>1 DEF ParseLink
  <2>3. params = [key \in Fields(dlLink.intent) |-> params[key]] /\ Keeps(params)
    BY <1>2, <2>2, LinkParseFacts
  <2> HIDE DEF params
  <2>4. /\ dlGot' \in [scheme : {dlGot'.scheme}, intent : {dlGot'.intent}, params : {dlGot'.params}]
        /\ dlGot'.intent = dlLink.intent /\ dlGot'.params = params
    BY <2>2
  <2>5. Keeps(dlGot.params)'
    BY <1>1, <2>3, <2>4 DEF Keeps, Meant
  <2> QED
    BY <1>1, <2>3, <2>4, <2>5 DEF LinkGotInv
<1> QED
  BY <1>1, <1>3, <1>4 DEF DlInv

\* Something is appended on the way.
LEMMA AppendPairStep == ASSUME DlInv, NEW pair \in DlPairs, AppendPair(pair) PROVE DlInv'
<1>1. PICK u : u = dlUrl
  OBVIOUS
<1>2. PICK q : q = u.query
  OBVIOUS
<1>3. /\ dlAppended < MaxAppended /\ dlAppended' = dlAppended + 1 /\ dlGot' = None
      /\ dlUrl' = [u EXCEPT !.query = Append(q, pair)] /\ UNCHANGED <<dlLink, dlAttached, dlHandovers>>
  BY <1>1, <1>2 DEF AppendPair
<1>4. /\ u \in [scheme : {u.scheme}, intent : {u.intent}, query : {q}] /\ IntentOf(u) = dlLink.intent
      /\ \A key \in DOMAIN dlLink.params : Meant(key) # None => Carried(q, key, Meant(key))
  BY <1>1, <1>2 DEF DlInv, UrlInv
<1>5. PICK n \in Nat : q = [i \in 1..n |-> q[i]]
  BY <1>1, <1>2 DEF DlInv, UrlInv
<1>6. PICK q2 : q2 = Append(q, pair)
  OBVIOUS
<1>7. /\ q2 = [i \in 1..(n + 1) |-> q2[i]] /\ \A i \in 1..n : q2[i] = q[i]
  BY <1>5, <1>6, AppendAny
<1>8. /\ dlUrl'.scheme = u.scheme /\ dlUrl'.intent = u.intent /\ dlUrl'.query = q2
      /\ dlUrl' \in [scheme : {u.scheme}, intent : {u.intent}, query : {q2}]
  BY <1>3, <1>4, <1>6
<1>9. \A key, v : Carried(q, key, v) => Carried(q2, key, v)
  <2> SUFFICES ASSUME NEW key, NEW v, Carried(q, key, v) PROVE Carried(q2, key, v)
    OBVIOUS
  <2>1. DOMAIN q = 1..n /\ DOMAIN q2 = 1..(n + 1) /\ \A i \in 1..(n + 1) : i \in 1..n \/ i = n + 1
    BY <1>5, <1>7
  <2>2. PICK i \in 1..n : /\ q[i][1] = key /\ q[i][2] = v
                          /\ \A j \in 1..n : q[j][1] = key /\ q[j][2] # None => i <= j
    BY <2>1 DEF Carried
  <2>3. i \in 1..(n + 1) /\ i <= n + 1
    OBVIOUS
  <2> QED
    BY <1>7, <2>1, <2>2, <2>3 DEF Carried
<1>10. UrlInv'
  <2>1. (\E m \in Nat : dlUrl.query = [i \in 1..m |-> dlUrl.query[i]])'
    <3>1. n + 1 \in Nat
      OBVIOUS
    <3> QED
      BY <1>7, <1>8, <3>1
  <2>2. (IntentOf(dlUrl) = dlLink.intent)'
    BY <1>3, <1>4, <1>8 DEF IntentOf
  <2>3. (\A key \in DOMAIN dlLink.params : Meant(key) # None => Carried(dlUrl.query, key, Meant(key)))'
    BY <1>3, <1>4, <1>8, <1>9 DEF Meant
  <2>4. dlAppended' # 0
    BY <1>3 DEF DlInv
  <2> QED
    BY <1>8, <2>1, <2>2, <2>3, <2>4 DEF UrlInv
<1>11. LinkGotInv'
  BY <1>3 DEF LinkGotInv
<1>12. (dlLink \in DlLinks /\ dlAppended \in 0..MaxAppended /\ dlHandovers \in 0..MaxHandovers)'
  BY <1>3, LinksAssumption DEF DlInv
<1> QED
  BY <1>10, <1>11, <1>12 DEF DlInv

\* The scheme is another's, a sign-in loses its intent.
LEMMA RenameStep == ASSUME DlInv, NEW scheme \in DlSchemes, Rename(scheme) PROVE DlInv'
<1>1. PICK u : u = dlUrl
  OBVIOUS
<1>2. PICK intent : intent = IF u.intent = "signin" THEN "" ELSE u.intent
  OBVIOUS
<1>3. /\ dlUrl' = [u EXCEPT !.scheme = scheme, !.intent = intent]
      /\ UNCHANGED <<dlLink, dlAttached, dlGot, dlAppended, dlHandovers>>
  BY <1>1, <1>2 DEF Rename
<1>4. u \in [scheme : {u.scheme}, intent : {u.intent}, query : {u.query}] /\ IntentOf(u) = dlLink.intent
  BY <1>1 DEF DlInv, UrlInv
<1>5. /\ dlUrl'.scheme = scheme /\ dlUrl'.intent = intent /\ dlUrl'.query = u.query
      /\ dlUrl' \in [scheme : {scheme}, intent : {intent}, query : {u.query}]
  BY <1>3, <1>4
<1>6. (IntentOf(dlUrl) = dlLink.intent)'
  BY <1>2, <1>3, <1>4, <1>5 DEF IntentOf
<1>7. (\E n \in Nat : dlUrl.query = [i \in 1..n |-> dlUrl.query[i]])'
  BY <1>1, <1>5 DEF DlInv, UrlInv
<1>m. \A key : Meant(key)' = Meant(key)
  BY <1>3 DEF Meant
<1>v. \A key : ValuesOf(dlUrl, key)' = ValuesOf(dlUrl, key)
  BY <1>1, <1>5 DEF ValuesOf
<1>a. (\A key \in DOMAIN dlLink.params : Meant(key) # None => Carried(dlUrl.query, key, Meant(key)))'
  BY <1>1, <1>3, <1>5, <1>m DEF DlInv, UrlInv
<1>b. (dlAppended = 0 => \A key : key \notin DOMAIN dlLink.params \/ Meant(key) = None => ValuesOf(dlUrl, key) = {})'
  BY <1>3, <1>m, <1>v DEF DlInv, UrlInv
<1>8. UrlInv'
  BY <1>5, <1>6, <1>7, <1>a, <1>b DEF UrlInv
<1>9. LinkGotInv'
  BY <1>3 DEF DlInv, LinkGotInv, Keeps, Meant
<1> QED
  BY <1>3, <1>8, <1>9 DEF DlInv

\* A link that says what it should is sent on.
LEMMA ForwardStep ==
    ASSUME DlInv, NEW link, Forward(link), link.intent = dlLink.intent, DOMAIN link.params = Fields(dlLink.intent),
           \A key \in Fields(dlLink.intent) :
             (Meant(key)' # None \/ dlAppended = 0) => link.params[key] = Meant(key)'
    PROVE  DlInv'
<1>1. /\ dlHandovers < MaxHandovers /\ dlHandovers' = dlHandovers + 1 /\ dlUrl' = ToUrl(link) /\ dlGot' = None
      /\ UNCHANGED <<dlLink, dlAppended>>
  BY DEF Forward
<1>2. dlLink \in DlLinks /\ dlLink.intent \in DlIntents /\ DOMAIN dlLink.params = Fields(dlLink.intent)
  BY LinksAssumption DEF DlInv
<1>3. PICK u : u = ToUrl(link)
  OBVIOUS
<1>4. /\ u.intent = link.intent
      /\ u \in [scheme : {u.scheme}, intent : {u.intent}, query : {u.query}]
      /\ u.query = [i \in 1..14 |-> u.query[i]]
      /\ \A key \in DOMAIN link.params : link.params[key] # None => Carried(u.query, key, link.params[key])
      /\ \A key : key \notin DOMAIN link.params \/ link.params[key] = None => ValuesOf(u, key) = {}
  BY <1>2, <1>3, ToUrlFacts
<1>5. dlUrl' = u
  BY <1>1, <1>3
<1>6. UrlInv'
  <2>1. (IntentOf(dlUrl) = dlLink.intent)'
    BY <1>1, <1>2, <1>4, <1>5 DEF IntentOf, DlIntents
  <2>2. (\A key \in DOMAIN dlLink.params : Meant(key) # None => Carried(dlUrl.query, key, Meant(key)))'
    <3> SUFFICES ASSUME NEW key \in DOMAIN dlLink.params, Meant(key)' # None
                 PROVE  Carried(dlUrl.query, key, Meant(key))'
      BY <1>1
    <3>1. link.params[key] = Meant(key)'
      BY <1>2
    <3>2. Carried(u.query, key, link.params[key])
      BY <1>2, <1>4, <3>1
    <3> QED
      BY <1>5, <3>1, <3>2 DEF Carried
  <2>3. ASSUME dlAppended' = 0, NEW key, key \notin DOMAIN dlLink'.params \/ Meant(key)' = None
        PROVE  ValuesOf(dlUrl, key)' = {}
    <3>1. key \notin DOMAIN link.params \/ link.params[key] = None
      BY <1>1, <1>2, <2>3
    <3>2. ValuesOf(u, key) = {}
      BY <1>4, <3>1
    <3> QED
      BY <1>5, <3>2 DEF ValuesOf
  <2> QED
    BY <1>4, <1>5, <2>1, <2>2, <2>3 DEF UrlInv
<1>7. LinkGotInv'
  BY <1>1 DEF LinkGotInv
<1> QED
  BY <1>1, <1>2, <1>6, <1>7, LinksAssumption DEF DlInv

\* What was read is as it was read.
LEMMA GotFacts ==
    ASSUME DlInv, NEW link, Forward(link)
    PROVE  /\ dlGot \in [scheme : {dlGot.scheme}, intent : {dlGot.intent}, params : {dlGot.params}]
           /\ dlGot.intent = dlLink.intent /\ Keeps(dlGot.params) /\ DOMAIN dlGot.params = Fields(dlLink.intent)
           /\ DOMAIN dlLink.params = Fields(dlLink.intent)
  BY LinksAssumption DEF Forward, DlInv, LinkGotInv

\* The link is handed on as it was read.
LEMMA HandOnStep == ASSUME DlInv, HandOn PROVE DlInv'
<1>1. Forward(dlGot) /\ UNCHANGED <<dlAttached, dlLink>>
  BY DEF HandOn, Forward
<1>2. /\ dlGot.intent = dlLink.intent /\ Keeps(dlGot.params) /\ DOMAIN dlGot.params = Fields(dlLink.intent)
      /\ DOMAIN dlLink.params = Fields(dlLink.intent)
  BY <1>1, GotFacts
<1>3. \A key : Meant(key)' = Meant(key)
  BY <1>1 DEF Meant
<1>4. \A key \in Fields(dlLink.intent) : Meant(key)' # None \/ dlAppended = 0 => dlGot.params[key] = Meant(key)'
  BY <1>2, <1>3 DEF Keeps
<1>5. PICK link : link = dlGot
  OBVIOUS
<1> QED
  BY <1>1, <1>2, <1>4, <1>5, ForwardStep

\* The link is handed on with other callbacks.
LEMMA AttachStep == ASSUME DlInv, NEW callbacks \in DlCallbacks, AttachCallbacks(callbacks) PROVE DlInv'
<1>1. PICK link : link = WithXCallback(dlGot, callbacks)
  OBVIOUS
<1>2. Forward(link) /\ dlAttached' = callbacks /\ dlLink' = dlLink
  BY <1>1 DEF AttachCallbacks, Forward
<1>3. /\ dlGot \in [scheme : {dlGot.scheme}, intent : {dlGot.intent}, params : {dlGot.params}]
      /\ dlGot.intent = dlLink.intent /\ Keeps(dlGot.params) /\ DOMAIN dlGot.params = Fields(dlLink.intent)
      /\ DOMAIN dlLink.params = Fields(dlLink.intent)
  BY <1>2, GotFacts
<1>4. PICK p : p = dlGot.params
  OBVIOUS
<1>5. /\ link.intent = dlLink.intent
      /\ link.params = [key \in DOMAIN p |-> IF key \in Callbacks THEN callbacks[key] ELSE p[key]]
  BY <1>1, <1>3, <1>4 DEF WithXCallback
<1>6. \A key \in Fields(dlLink.intent) : Meant(key)' = IF key \in Callbacks THEN callbacks[key] ELSE Meant(key)
  BY <1>2 DEF Meant
<1>7. ASSUME NEW key \in Fields(dlLink.intent), Meant(key)' # None \/ dlAppended = 0
      PROVE  link.params[key] = Meant(key)'
  <2>1. CASE key \in Callbacks
    BY <1>3, <1>4, <1>5, <1>6, <2>1
  <2>2. CASE key \notin Callbacks
    BY <1>3, <1>4, <1>5, <1>6, <1>7, <2>2 DEF Keeps
  <2> QED
    BY <2>1, <2>2
<1>8. DOMAIN link.params = Fields(dlLink.intent)
  BY <1>3, <1>4, <1>5
<1> QED
  BY <1>2, <1>5, <1>7, <1>8, ForwardStep

\* However often a link is handed on, with whatever callbacks, and whatever is appended to
\* it on the way, the signer refuses it or reads what the app wrote with the callbacks last
\* attached, and answers on the app's channel; where nothing is appended it is read exactly
\* as it was written (deep_links/): for any links, callbacks, pairs, schemes and handovers.
THEOREM LinksAreSound == DlSpec => []LinkSound
<1>1. DlInit => DlInv
  <2> SUFFICES ASSUME DlInit PROVE DlInv
    OBVIOUS
  <2>1. dlLink \in DlLinks /\ dlLink.intent \in DlIntents /\ DOMAIN dlLink.params = Fields(dlLink.intent)
    BY LinksAssumption DEF DlInit
  <2>2. /\ dlUrl.intent = dlLink.intent
        /\ dlUrl \in [scheme : {dlUrl.scheme}, intent : {dlUrl.intent}, query : {dlUrl.query}]
        /\ dlUrl.query = [i \in 1..14 |-> dlUrl.query[i]]
        /\ \A key \in DOMAIN dlLink.params :
             dlLink.params[key] # None => Carried(dlUrl.query, key, dlLink.params[key])
        /\ \A key : key \notin DOMAIN dlLink.params \/ dlLink.params[key] = None => ValuesOf(dlUrl, key) = {}
    BY <2>1, ToUrlFacts DEF DlInit
  <2>m. \A key \in DOMAIN dlLink.params : Meant(key) = dlLink.params[key]
    BY DEF DlInit, Meant
  <2>3. IntentOf(dlUrl) = dlLink.intent
    BY <2>1, <2>2 DEF IntentOf, DlIntents
  <2>4. UrlInv
    BY <2>2, <2>3, <2>m DEF UrlInv
  <2>5. LinkGotInv /\ dlAppended \in 0..MaxAppended /\ dlHandovers \in 0..MaxHandovers
    BY LinksAssumption DEF DlInit, LinkGotInv
  <2> QED
    BY <2>1, <2>4, <2>5 DEF DlInv
<1>2. DlInv /\ [DlNext]_dlVars => DlInv'
  <2> SUFFICES ASSUME DlInv, [DlNext]_dlVars PROVE DlInv'
    OBVIOUS
  <2>1. CASE UNCHANGED dlVars
    <3>1. UNCHANGED <<dlLink, dlAttached, dlUrl, dlGot, dlAppended, dlHandovers>>
      BY <2>1 DEF dlVars
    <3>2. UrlInv'
      BY <3>1, UrlKept DEF DlInv
    <3>3. LinkGotInv'
      BY <3>1 DEF DlInv, LinkGotInv, Keeps, Meant
    <3> QED
      BY <3>1, <3>2, <3>3 DEF DlInv
  <2> QED
    BY <2>1, ReadLinkStep, AppendPairStep, RenameStep, HandOnStep, AttachStep DEF DlNext
<1>3. DlInv => LinkSound
  <2> SUFFICES ASSUME DlInv PROVE LinkSound
    OBVIOUS
  <2>1. DlTypeOK
    BY LinksAssumption DEF DlInv, LinkGotInv, DlTypeOK
  <2>2. LinkKeepsItsMeaning
    BY LinksAssumption DEF DlInv, LinkGotInv, Keeps, LinkKeepsItsMeaning
  <2> QED
    BY <2>1, <2>2 DEF LinkSound
<1> QED
  BY <1>1, <1>2, <1>3, PTL DEF DlSpec

------------------------------------------------------------------------------
(* Grant material: keys derived for a path, proofs of possession and clocks.   *)

GmSecrets == [of : {a.user : a \in GmApprovals} \cup {"odd"}, path : Seq({"directory", "file"} \X GmNames)]
GmBundles == Seq([scope : GmPaths, secret : GmSecrets])

\* What the path of a directory says of one below it.
LEMMA StartsFacts ==
    ASSUME NEW p \in GmPaths, NEW d \in GmPaths
    PROVE  StartsWith(p, d) <=> Len(p) >= Len(d) /\ \A i \in 1..(Len(d) - 1) : p[i] = d[i]
<1>1. /\ Len(p) \in Nat /\ Len(d) \in Nat /\ Len(p) > 0 /\ Len(d) > 0
      /\ p \in Seq(GmNames) /\ d \in Seq(GmNames)
  BY DEF GmPaths
<1>2. Front(d) = SubSeq(d, 1, Len(d) - 1)
  BY DEF Front
<1>3. ASSUME NEW q \in Seq(GmNames), Len(d) - 1 <= Len(q)
      PROVE  /\ Len(SubSeq(q, 1, Len(d) - 1)) = Len(d) - 1
             /\ \A i \in 1..(Len(d) - 1) : SubSeq(q, 1, Len(d) - 1)[i] = q[i]
             /\ SubSeq(q, 1, Len(d) - 1) \in Seq(GmNames)
  <2> DEFINE m == Len(d) - 1
  <2>1. m \in Int /\ m >= 0
    BY <1>1
  <2>2. \A i \in 1..m : q[i] \in GmNames
    BY <1>1, <1>3
  <2> HIDE DEF m
  <2>3. /\ SubSeq(q, 1, m) \in Seq(GmNames)
        /\ Len(SubSeq(q, 1, m)) = IF 1 <= m THEN m - 1 + 1 ELSE 0
        /\ \A i \in 1..(m - 1 + 1) : SubSeq(q, 1, m)[i] = q[1 + i - 1]
    BY <2>1, <2>2, SubSeqProperties
  <2>4. m - 1 + 1 = m /\ \A i \in 1..m : 1 + i - 1 = i
    BY <2>1
  <2> QED
    BY <2>1, <2>3, <2>4 DEF m
<1>4. ASSUME Len(p) >= Len(d)
      PROVE  /\ Len(SubSeq(p, 1, Len(d) - 1)) = Len(d) - 1
             /\ \A i \in 1..(Len(d) - 1) : SubSeq(p, 1, Len(d) - 1)[i] = p[i]
             /\ SubSeq(p, 1, Len(d) - 1) \in Seq(GmNames)
  BY <1>1, <1>3, <1>4
<1>5. ASSUME StartsWith(p, d) PROVE \A i \in 1..(Len(d) - 1) : p[i] = d[i]
  BY <1>1, <1>2, <1>3, <1>4, <1>5 DEF StartsWith
<1>6. ASSUME Len(p) >= Len(d), \A i \in 1..(Len(d) - 1) : p[i] = d[i]
      PROVE  SubSeq(p, 1, Len(d) - 1) = SubSeq(d, 1, Len(d) - 1)
  <2>1. Len(d) - 1 <= Len(d)
    BY <1>1
  <2>2. /\ SubSeq(p, 1, Len(d) - 1) \in Seq(GmNames) /\ SubSeq(d, 1, Len(d) - 1) \in Seq(GmNames)
        /\ Len(SubSeq(p, 1, Len(d) - 1)) = Len(d) - 1 /\ Len(SubSeq(d, 1, Len(d) - 1)) = Len(d) - 1
    BY <1>1, <1>3, <1>4, <1>6, <2>1
  <2>3. \A i \in 1..(Len(d) - 1) : SubSeq(p, 1, Len(d) - 1)[i] = SubSeq(d, 1, Len(d) - 1)[i]
    BY <1>1, <1>3, <1>4, <1>6, <2>1
  <2> QED
    BY <2>2, <2>3, SeqEqual
<1> QED
  BY <1>2, <1>5, <1>6 DEF StartsWith

\* Two scopes that cover one path cover each other, one way or the other.
LEMMA CoveringNested ==
    ASSUME NEW s \in GmPaths, NEW t \in GmPaths, NEW p \in GmPaths, CoversPath(s, p), CoversPath(t, p)
    PROVE  CoversPath(s, t) \/ CoversPath(t, s)
<1>1. CASE s = p \/ t = p
  BY <1>1 DEF CoversPath
<1>2. CASE s # p /\ t # p
  <2>1. IsDirectory(s) /\ IsDirectory(t) /\ StartsWith(p, s) /\ StartsWith(p, t)
    BY <1>2 DEF CoversPath
  <2>2. \A i \in 1..(Len(s) - 1) : p[i] = s[i]
    BY <2>1, StartsFacts
  <2>3. \A i \in 1..(Len(t) - 1) : p[i] = t[i]
    BY <2>1, StartsFacts
  <2>4. Len(s) \in Nat /\ Len(t) \in Nat
    BY DEF GmPaths
  <2>5. CASE Len(s) <= Len(t)
    <3>1. StartsWith(t, s)
      BY <2>2, <2>3, <2>4, <2>5, StartsFacts
    <3> QED
      BY <2>1, <3>1 DEF CoversPath
  <2>6. CASE Len(t) <= Len(s)
    <3>1. StartsWith(s, t)
      BY <2>2, <2>3, <2>4, <2>6, StartsFacts
    <3> QED
      BY <2>1, <3>1 DEF CoversPath
  <2> QED
    BY <2>4, <2>5, <2>6
<1> QED
  BY <1>1, <1>2

LEMMA SegmentFacts ==
    ASSUME NEW p \in GmPaths
    PROVE  /\ p \in Seq(GmNames) /\ Len(p) \in Nat /\ Len(p) > 0
           /\ Segments(p) \in Nat /\ Segments(p) <= Len(p)
           /\ IsDirectory(p) => Segments(p) = Len(p) - 1
  BY DEF GmPaths, Segments

\* A covering scope has no more segments, and they are the first of the path.
LEMMA CoverFacts ==
    ASSUME NEW s \in GmPaths, NEW p \in GmPaths, CoversPath(s, p)
    PROVE  /\ Segments(s) <= Segments(p)
           /\ \A i \in 1..Segments(s) : p[i] = s[i]
           /\ s # p => IsDirectory(s) /\ Segments(s) < Len(p)
<1>1. CASE s = p
  BY <1>1, SegmentFacts
<1>2. CASE s # p
  <2>1. IsDirectory(s) /\ StartsWith(p, s)
    BY <1>2 DEF CoversPath
  <2>2. Len(p) >= Len(s) /\ \A i \in 1..(Len(s) - 1) : p[i] = s[i]
    BY <2>1, StartsFacts
  <2>3. Segments(s) = Len(s) - 1 /\ Len(s) \in Nat /\ Len(p) \in Nat
    BY <2>1, SegmentFacts
  <2>4. Segments(p) >= Len(p) - 1 /\ Segments(p) \in Nat
    BY <2>3, SegmentFacts DEF Segments
  <2>5. \A i \in 1..Segments(s) : p[i] = s[i]
    BY <2>2, <2>3
  <2>6. Segments(s) <= Segments(p) /\ Segments(s) < Len(p)
    BY <2>2, <2>3, <2>4
  <2> QED
    BY <2>1, <2>5, <2>6
<1> QED
  BY <1>1, <1>2

LEMMA StepFacts ==
    ASSUME NEW s \in GmPaths, NEW p \in GmPaths, Segments(s) <= Segments(p)
    PROVE  /\ StepsBelow(s, p) \in Seq({"directory", "file"} \X GmNames)
           /\ Len(StepsBelow(s, p)) = Segments(p) - Segments(s)
           /\ \A i \in 1..(Segments(p) - Segments(s)) :
                StepsBelow(s, p)[i] = <<IF Segments(s) + i < Len(p) THEN "directory" ELSE "file", p[Segments(s) + i]>>
<1> DEFINE n == Segments(p) - Segments(s)
           f(i) == <<IF Segments(s) + i < Len(p) THEN "directory" ELSE "file", p[Segments(s) + i]>>
<1>1. n \in Nat /\ Segments(s) \in Nat /\ Segments(p) \in Nat /\ Segments(p) <= Len(p) /\ p \in Seq(GmNames) /\ Len(p) \in Nat
  BY SegmentFacts
<1>2. \A i \in 1..n : f(i) \in {"directory", "file"} \X GmNames
  <2> SUFFICES ASSUME NEW i \in 1..n PROVE f(i) \in {"directory", "file"} \X GmNames
    OBVIOUS
  <2>1. Segments(s) + i \in 1..Len(p)
    BY <1>1
  <2>2. p[Segments(s) + i] \in GmNames
    BY <1>1, <2>1
  <2> QED
    BY <2>2
<1>3. StepsBelow(s, p) = [i \in 1..n |-> f(i)]
  BY DEF StepsBelow
<1> HIDE DEF n, f
<1>4. [i \in 1..n |-> f(i)] \in Seq({"directory", "file"} \X GmNames) /\ Len([i \in 1..n |-> f(i)]) = n
  BY <1>1, <1>2
<1>5. \A i \in 1..n : StepsBelow(s, p)[i] = f(i)
  BY <1>3
<1> QED
  BY <1>3, <1>4, <1>5 DEF n, f

\* Deriving in two stages is deriving at once.
LEMMA DeriveComposes ==
    ASSUME NEW s \in GmPaths, NEW q \in GmPaths, NEW p \in GmPaths, CoversPath(s, q), CoversPath(q, p),
           NEW x \in GmSecrets
    PROVE  /\ DerivePath(q, DerivePath(s, x, q), p) = DerivePath(s, x, p)
           /\ DerivePath(s, x, q) \in GmSecrets
<1> DEFINE A == StepsBelow(s, q)  B == StepsBelow(q, p)  C == StepsBelow(s, p)
           E == {"directory", "file"} \X GmNames
<1>1. /\ Segments(s) <= Segments(q) /\ Segments(q) <= Segments(p) /\ Segments(s) <= Segments(p)
      /\ Segments(s) \in Nat /\ Segments(q) \in Nat /\ Segments(p) \in Nat
  BY CoverFacts, SegmentFacts
<1>2. A \in Seq(E) /\ B \in Seq(E) /\ C \in Seq(E)
  BY <1>1, StepFacts
<1>3. Len(A) = Segments(q) - Segments(s) /\ Len(B) = Segments(p) - Segments(q) /\ Len(C) = Segments(p) - Segments(s)
  BY <1>1, StepFacts
<1>40. /\ A \o B \in Seq(E) /\ Len(A \o B) = Len(A) + Len(B)
       /\ \A i \in 1..(Len(A) + Len(B)) : (A \o B)[i] = IF i <= Len(A) THEN A[i] ELSE B[i - Len(A)]
  <2> HIDE DEF A, B, E
  <2> QED
    BY <1>2, ConcatProperties
<1>4. Len(C) = Len(A) + Len(B) /\ Len(A) \in Nat /\ Len(B) \in Nat
  <2> HIDE DEF A, B, C
  <2> QED
    BY <1>1, <1>3
<1>5. ASSUME NEW i \in 1..Len(C) PROVE (A \o B)[i] = C[i]
  <2>1. C[i] = <<IF Segments(s) + i < Len(p) THEN "directory" ELSE "file", p[Segments(s) + i]>>
    BY <1>1, <1>3, StepFacts
  <2>2. CASE i <= Len(A)
    <3>1. i \in 1..(Segments(q) - Segments(s)) /\ i \in 1..Len(A)
      BY <1>1, <1>3, <2>2
    <3>2. (A \o B)[i] = A[i]
      <4> HIDE DEF A, B, C
      <4> QED
        BY <1>40, <1>4, <2>2
    <3>3. A[i] = <<IF Segments(s) + i < Len(q) THEN "directory" ELSE "file", q[Segments(s) + i]>>
      BY <1>1, <3>1, StepFacts
    <3>4. Segments(s) + i \in 1..Segments(q)
      BY <1>1, <3>1
    <3>5. p[Segments(s) + i] = q[Segments(s) + i]
      BY <3>4, CoverFacts
    <3>6. Segments(s) + i < Len(p) <=> Segments(s) + i < Len(q)
      <4>1. CASE q = p
        BY <4>1
      <4>2. CASE q # p
        <5>1. IsDirectory(q) /\ Segments(q) < Len(p)
          BY <4>2, CoverFacts
        <5>2. Segments(q) = Len(q) - 1 /\ Len(q) \in Nat /\ Len(p) \in Nat
          BY <5>1, SegmentFacts
        <5> QED
          BY <1>1, <3>4, <5>1, <5>2
      <4> QED
        BY <4>1, <4>2
    <3> QED
      BY <2>1, <3>2, <3>3, <3>5, <3>6
  <2>3. CASE i > Len(A)
    <3>1. i - Len(A) \in 1..Len(B) /\ Segments(q) + (i - Len(A)) = Segments(s) + i
      BY <1>1, <1>3, <2>3
    <3>2. (A \o B)[i] = B[i - Len(A)]
      <4> HIDE DEF A, B, C
      <4> QED
        BY <1>40, <1>4, <2>3
    <3>3. B[i - Len(A)] = <<IF Segments(q) + (i - Len(A)) < Len(p) THEN "directory" ELSE "file", p[Segments(q) + (i - Len(A))]>>
      BY <1>1, <1>3, <3>1, StepFacts
    <3> QED
      BY <2>1, <3>1, <3>2, <3>3
  <2> QED
    BY <1>1, <1>3, <2>2, <2>3
<1> HIDE DEF A, B, C, E
<1>6. A \o B = C
  <2>1. \A i \in 1..Len(A \o B) : (A \o B)[i] = C[i]
    BY <1>4, <1>5, <1>40
  <2> QED
    BY <1>2, <1>4, <1>40, <2>1, SeqEqual
<1>7. x = [of |-> x.of, path |-> x.path] /\ x.path \in Seq(E) /\ x.of \in {a.user : a \in GmApprovals} \cup {"odd"}
  BY DEF GmSecrets, E
<1>8. (x.path \o A) \o B = x.path \o C
  <2>1. (x.path \o A) \o B = x.path \o (A \o B)
    BY <1>2, <1>7, ConcatAssociative
  <2> QED
    BY <1>6, <2>1
<1>9. DerivePath(s, x, q) = [of |-> x.of, path |-> x.path \o A]
  BY <1>7 DEF DerivePath, A
<1>10. DerivePath(q, DerivePath(s, x, q), p) = [of |-> x.of, path |-> (x.path \o A) \o B]
  BY <1>9 DEF DerivePath, B
<1>11. DerivePath(s, x, p) = [of |-> x.of, path |-> x.path \o C]
  BY <1>7 DEF DerivePath, C
<1>12. x.path \o A \in Seq(E)
  BY <1>2, <1>7
<1> QED
  BY <1>7, <1>8, <1>9, <1>10, <1>11, <1>12 DEF GmSecrets, E

GmEntries == [scope : GmPaths, secret : GmSecrets]

LEMMA EntryFacts ==
    ASSUME NEW b \in GmBundles, NEW i \in 1..Len(b)
    PROVE  b[i].scope \in GmPaths /\ b[i].secret \in GmSecrets
<1>1. b \in Seq(GmEntries)
  BY DEF GmBundles, GmEntries
<1>2. b[i] \in GmEntries
  BY <1>1, ElementOfSeq
<1> QED
  BY <1>2 DEF GmEntries

\* Every scope that covers a file derives the same key, once overlaps are consistent.
LEMMA ScopesAgree ==
    ASSUME NEW b \in GmBundles, Consistent(b), NEW f \in GmPaths, NEW i \in 1..Len(b), NEW j \in 1..Len(b),
           CoversPath(b[i].scope, f), CoversPath(b[j].scope, f)
    PROVE  KeyOf(b[i], f) = KeyOf(b[j], f)
<1>1. /\ b[i].scope \in GmPaths /\ b[i].secret \in GmSecrets
      /\ b[j].scope \in GmPaths /\ b[j].secret \in GmSecrets
  BY EntryFacts
<1>2. CASE CoversPath(b[i].scope, b[j].scope)
  <2>1. DerivePath(b[i].scope, b[i].secret, b[j].scope) = b[j].secret
    BY <1>2 DEF Consistent, KeyOf
  <2>2. DerivePath(b[j].scope, DerivePath(b[i].scope, b[i].secret, b[j].scope), f) = DerivePath(b[i].scope, b[i].secret, f)
    BY <1>1, <1>2, DeriveComposes
  <2> QED
    BY <2>1, <2>2 DEF KeyOf
<1>3. CASE CoversPath(b[j].scope, b[i].scope)
  <2>1. DerivePath(b[j].scope, b[j].secret, b[i].scope) = b[i].secret
    BY <1>3 DEF Consistent, KeyOf
  <2>2. DerivePath(b[i].scope, DerivePath(b[j].scope, b[j].secret, b[i].scope), f) = DerivePath(b[j].scope, b[j].secret, f)
    BY <1>1, <1>3, DeriveComposes
  <2> QED
    BY <2>1, <2>2 DEF KeyOf
<1> QED
  BY <1>1, <1>2, <1>3, CoveringNested

\* derive_for_path is the key of any scope that covers the file.
LEMMA DeriveIsKeyOf ==
    ASSUME NEW b \in GmBundles, Consistent(b), NEW f \in GmFiles
    PROVE  /\ \A i \in 1..Len(b) : CoversPath(b[i].scope, f) => KeyOf(b[i], f) = DeriveForPath(b, f)
           /\ DeriveForPath(b, f) # Failed =>
                \E i \in 1..Len(b) : CoversPath(b[i].scope, f) /\ DeriveForPath(b, f) = KeyOf(b[i], f)
<1> DEFINE covering == {i \in 1..Len(b) : CoversPath(b[i].scope, f)}
<1>1. f \in GmPaths /\ ~IsDirectory(f)
  BY MaterialAssumption DEF IsFile
<1>2. ASSUME covering # {}
      PROVE  \E i \in covering : DeriveForPath(b, f) = KeyOf(b[i], f)
  <2>1. covering \subseteq Nat
    OBVIOUS
  <2>2. \E i \in covering : \A j \in covering : i <= j
    <3> HIDE DEF covering
    <3> QED
      BY <1>2, <2>1, SmallestNumber
  <2>3. (CHOOSE i \in covering : \A j \in covering : i <= j) \in covering
    <3> HIDE DEF covering
    <3> QED
      BY <2>2
  <2> QED
    BY <1>1, <1>2, <2>3 DEF DeriveForPath
<1>3. ASSUME NEW i \in 1..Len(b), CoversPath(b[i].scope, f) PROVE KeyOf(b[i], f) = DeriveForPath(b, f)
  <2>1. PICK k \in covering : DeriveForPath(b, f) = KeyOf(b[k], f)
    BY <1>2, <1>3
  <2> QED
    BY <1>1, <1>3, <2>1, ScopesAgree
<1>4. covering = {} => DeriveForPath(b, f) = Failed
  BY DEF DeriveForPath
<1> QED
  BY <1>2, <1>3, <1>4

GmGrantType ==
    [user : {a.user : a \in GmApprovals}, scopes : Seq(GmPaths), format : {a.format : a \in GmApprovals},
     signer : {a.signer : a \in GmApprovals}, bundle : GmBundles, odd : BOOLEAN, iat : Nat, exp : Nat]

\* A wallet of this SDK derives its keys from the identity of its user.
Derived(g) ==
    ~g.odd => \A i \in 1..Len(g.bundle) :
                g.bundle[i].secret = DerivePath(Root, RootSecret(g.user), g.bundle[i].scope)

GmGrantsInv ==
    /\ gmGrants \in Seq(GmGrantType) /\ Len(gmGrants) <= MaxGmGrants
    /\ \A g \in 1..Len(gmGrants) : Derived(gmGrants[g]) /\ gmGrants[g].iat <= Clock("wallet")

\* Keys that were given out are those of a grant, and were checked.
GmHeldInv ==
    \A h \in gmHeld : /\ h.grant \in 1..Len(gmGrants) /\ h.bundle = gmGrants[h.grant].bundle
                      /\ Consistent(h.bundle)

LEMMA RootCovers == \A p \in GmPaths : CoversPath(Root, p) /\ Root \in GmPaths
<1>1. Root \in GmPaths /\ Len(Root) = 1 /\ IsDirectory(Root)
  <2>1. "" \in GmNames
    BY DEF GmNames
  <2>2. <<"">> \in Seq(GmNames) /\ <<"">> # <<>> /\ Len(<<"">>) = 1 /\ <<"">>[1] = ""
    <3>1. ASSUME NEW S, NEW e \in S PROVE <<e>> \in Seq(S) /\ <<e>> # <<>> /\ Len(<<e>>) = 1 /\ <<e>>[1] = e
      OBVIOUS
    <3> HIDE DEF GmNames
    <3> QED
      BY <2>1, <3>1
  <2> QED
    BY <2>2 DEF Root, GmPaths, IsDirectory, Last
<1>2. \A p \in GmPaths : Len(p) >= Len(Root) /\ \A i \in 1..(Len(Root) - 1) : p[i] = Root[i]
  BY <1>1 DEF GmPaths
<1>3. \A p \in GmPaths : StartsWith(p, Root)
  BY <1>1, <1>2, StartsFacts
<1> QED
  BY <1>1, <1>3 DEF CoversPath

LEMMA OneKeyHolds ==
    ASSUME GmGrantsInv, GmHeldInv
    PROVE  FileHasOneKey
<1> SUFFICES ASSUME NEW h \in gmHeld, NEW k \in gmHeld, NEW f \in GmFiles
             PROVE  /\ \A i \in 1..Len(h.bundle) :
                         CoversPath(h.bundle[i].scope, f) => KeyOf(h.bundle[i], f) = DeriveForPath(h.bundle, f)
                    /\ /\ DeriveForPath(h.bundle, f) # Failed /\ DeriveForPath(k.bundle, f) # Failed
                       /\ ~gmGrants[h.grant].odd /\ ~gmGrants[k.grant].odd
                       /\ gmGrants[h.grant].user = gmGrants[k.grant].user
                       => DeriveForPath(h.bundle, f) = DeriveForPath(k.bundle, f)
  BY DEF FileHasOneKey
<1>1. ASSUME NEW m \in gmHeld
      PROVE  /\ gmGrants[m.grant] \in GmGrantType /\ m.bundle \in GmBundles /\ Consistent(m.bundle)
             /\ Derived(gmGrants[m.grant]) /\ m.bundle = gmGrants[m.grant].bundle
  <2>1. m.grant \in 1..Len(gmGrants) /\ m.bundle = gmGrants[m.grant].bundle /\ Consistent(m.bundle)
    BY DEF GmHeldInv
  <2>2. gmGrants[m.grant] \in GmGrantType
    BY <2>1 DEF GmGrantsInv
  <2> QED
    BY <2>1, <2>2 DEF GmGrantsInv, GmGrantType
<1>2. ASSUME NEW m \in gmHeld, DeriveForPath(m.bundle, f) # Failed, ~gmGrants[m.grant].odd
      PROVE  DeriveForPath(m.bundle, f) = DerivePath(Root, RootSecret(gmGrants[m.grant].user), f)
  <2> DEFINE b == m.bundle  x == RootSecret(gmGrants[m.grant].user)
  <2>1. PICK i \in 1..Len(b) : CoversPath(b[i].scope, f) /\ DeriveForPath(b, f) = KeyOf(b[i], f)
    BY <1>1, <1>2, DeriveIsKeyOf
  <2>2. b[i].scope \in GmPaths /\ f \in GmPaths
    BY <1>1, EntryFacts, MaterialAssumption
  <2>3. x \in GmSecrets
    <3>1. gmGrants[m.grant].user \in {a.user : a \in GmApprovals}
      BY <1>1 DEF GmGrantType
    <3> QED
      BY <3>1 DEF GmSecrets, RootSecret
  <2>4. b[i].secret = DerivePath(Root, x, b[i].scope)
    BY <1>1, <1>2 DEF Derived
  <2>5. DerivePath(b[i].scope, DerivePath(Root, x, b[i].scope), f) = DerivePath(Root, x, f)
    BY <2>1, <2>2, <2>3, RootCovers, DeriveComposes
  <2> QED
    BY <2>1, <2>4, <2>5 DEF KeyOf
<1>3. \A i \in 1..Len(h.bundle) :
        CoversPath(h.bundle[i].scope, f) => KeyOf(h.bundle[i], f) = DeriveForPath(h.bundle, f)
  BY <1>1, DeriveIsKeyOf
<1> QED
  BY <1>2, <1>3

GmClock == gmTime \in 0..MaxGmTime /\ gmOffset \in GmClocks

\* What is kept of a grant is of one that was received.
GmKeptInv ==
    /\ gmSession # None => gmSession.grant \in 1..Len(gmGrants) /\ gmSession.keys # Failed
    /\ \A r \in gmSaved : r.grant \in 1..Len(gmGrants)

\* A proof is no older than its grant, and none of them comes from the future of its clock.
ProofOk(p) ==
    /\ p.grant \in 1..Len(gmGrants) /\ p.iat \in Nat /\ p.iat <= Clock("app")
    /\ gmGrants[p.grant].iat + gmOffset["app"] <= p.iat + gmOffset["wallet"]

GmProofsInv ==
    /\ gmProof # None => ProofOk(gmProof)
    /\ \A p \in gmHanded : ProofOk(p) /\ p.iat < gmGrants[p.grant].exp

GmInv ==
    /\ GmClock /\ GmGrantsInv /\ GmHeldInv /\ GmKeptInv /\ GmProofsInv /\ ProofConvinces

LEMMA ClockFacts ==
    ASSUME GmClock
    PROVE  /\ gmTime \in Nat /\ gmTime <= MaxGmTime /\ MaxGmTime \in Nat
           /\ DOMAIN gmOffset = {"wallet", "app", "verifier"}
           /\ \A who \in {"wallet", "app", "verifier"} :
                /\ gmOffset[who] \in Nat
                /\ Clock(who) = gmTime + gmOffset[who] /\ Clock(who) \in Nat
<1>1. gmOffset \in [{"wallet", "app", "verifier"} -> Nat] /\ MaxGmTime \in Nat /\ gmTime \in 0..MaxGmTime
  BY MaterialAssumption DEF GmClock
<1> QED
  BY <1>1 DEF Clock

LEMMA GrantFacts ==
    ASSUME GmGrantsInv, NEW g \in 1..Len(gmGrants)
    PROVE  /\ gmGrants[g] \in GmGrantType /\ gmGrants[g].iat \in Nat /\ gmGrants[g].exp \in Nat
           /\ gmGrants[g].bundle \in GmBundles
<1>1. gmGrants \in Seq(GmGrantType)
  BY DEF GmGrantsInv
<1>2. gmGrants[g] \in GmGrantType
  BY <1>1, ElementOfSeq
<1> QED
  BY <1>2 DEF GmGrantType

\* The bundle that an approval comes with.
LEMMA BundleFacts ==
    ASSUME NEW a \in GmApprovals
    PROVE  LET honest == FromIdentity(a.user, a.scopes)
               bundle == [i \in 1..Len(a.scopes) |->
                            IF i \in a.odd THEN [honest[i] EXCEPT !.secret.of = "odd"] ELSE honest[i]]
           IN /\ bundle \in GmBundles
              /\ a.odd = {} => \A i \in 1..Len(bundle) :
                   bundle[i].secret = DerivePath(Root, RootSecret(a.user), bundle[i].scope)
<1> DEFINE n == Len(a.scopes)
           honest == FromIdentity(a.user, a.scopes)
           key(i) == DerivePath(Root, RootSecret(a.user), a.scopes[i])
           bundle == [i \in 1..n |-> IF i \in a.odd THEN [honest[i] EXCEPT !.secret.of = "odd"] ELSE honest[i]]
<1>1. a.scopes \in Seq(GmPaths) /\ n \in Nat
  BY MaterialAssumption
<1>2. \A i \in 1..n : a.scopes[i] \in GmPaths
  BY <1>1, ElementOfSeq
<1>3. \A i \in 1..n : honest[i] = [scope |-> a.scopes[i], secret |-> key(i)]
  BY DEF FromIdentity
<1>4. RootSecret(a.user) \in GmSecrets
  BY DEF RootSecret, GmSecrets
<1>5. \A i \in 1..n : key(i) \in GmSecrets
  <2> SUFFICES ASSUME NEW i \in 1..n PROVE key(i) \in GmSecrets
    OBVIOUS
  <2>1. a.scopes[i] \in GmPaths
    BY <1>2
  <2>2. Root \in GmPaths /\ CoversPath(Root, a.scopes[i]) /\ CoversPath(a.scopes[i], a.scopes[i])
    BY <2>1, RootCovers DEF CoversPath
  <2> QED
    BY <1>4, <2>1, <2>2, DeriveComposes
<1>6. ASSUME NEW i \in 1..n PROVE bundle[i] \in GmEntries
  <2>1. key(i) \in GmSecrets /\ a.scopes[i] \in GmPaths
    BY <1>2, <1>5
  <2>2. key(i) = [of |-> a.user, path |-> key(i).path]
    BY DEF DerivePath, RootSecret
  <2>3. key(i).path \in Seq({"directory", "file"} \X GmNames)
    BY <2>1 DEF GmSecrets
  <2>4. [of |-> "odd", path |-> key(i).path] \in GmSecrets
    BY <2>3 DEF GmSecrets
  <2> HIDE DEF key
  <2>5. CASE i \in a.odd
    <3>1. bundle[i] = [honest[i] EXCEPT !.secret.of = "odd"]
      BY <2>5
    <3>2. honest[i] = [scope |-> a.scopes[i], secret |-> [of |-> a.user, path |-> key(i).path]]
      BY <1>3, <2>2
    <3>3. bundle[i] = [scope |-> a.scopes[i], secret |-> [of |-> "odd", path |-> key(i).path]]
      BY <3>1, <3>2
    <3> QED
      BY <2>1, <2>4, <3>3 DEF GmEntries
  <2>6. CASE i \notin a.odd
    <3>1. bundle[i] = honest[i]
      BY <2>6
    <3>2. bundle[i] = [scope |-> a.scopes[i], secret |-> key(i)]
      BY <1>3, <3>1
    <3> QED
      BY <2>1, <3>2 DEF GmEntries
  <2> QED
    BY <2>5, <2>6
<1>7. Len(bundle) = n
  <2> HIDE DEF n
  <2> QED
    BY <1>1
<1>8. bundle \in Seq(GmEntries)
  <2> DEFINE e(i) == IF i \in a.odd THEN [honest[i] EXCEPT !.secret.of = "odd"] ELSE honest[i]
  <2>1. bundle = [i \in 1..n |-> e(i)] /\ \A i \in 1..n : e(i) \in GmEntries
    BY <1>6
  <2> HIDE DEF e, n, bundle
  <2> QED
    BY <1>1, <2>1, IsASeq
<1>9. a.odd = {} => \A i \in 1..n : bundle[i].secret = DerivePath(Root, RootSecret(a.user), bundle[i].scope)
  <2> SUFFICES ASSUME a.odd = {}, NEW i \in 1..n
               PROVE  bundle[i].secret = DerivePath(Root, RootSecret(a.user), bundle[i].scope)
    OBVIOUS
  <2>1. bundle[i] = honest[i]
    OBVIOUS
  <2>2. bundle[i].scope = a.scopes[i] /\ bundle[i].secret = key(i)
    <3>1. honest[i] = [scope |-> a.scopes[i], secret |-> key(i)]
      BY <1>3
    <3> HIDE DEF honest, bundle, key
    <3> QED
      BY <2>1, <3>1
  <2> QED
    BY <2>2
<1> QED
  BY <1>7, <1>8, <1>9 DEF GmBundles, GmEntries

LEMMA GmInitInv == GmInit => GmInv
<1> SUFFICES ASSUME GmInit PROVE GmInv
  OBVIOUS
<1>1. gmGrants = <<>> /\ Len(gmGrants) = 0 /\ gmGrants \in Seq(GmGrantType)
  BY DEF GmInit
<1>2. GmClock /\ MaxGmGrants \in Nat
  BY MaterialAssumption DEF GmInit, GmClock
<1>3. GmGrantsInv
  BY <1>1, <1>2 DEF GmGrantsInv
<1> QED
  BY <1>2, <1>3 DEF GmInit, GmInv, GmHeldInv, GmKeptInv, GmProofsInv, ProofConvinces

\* What a step leaves when it receives no grant and moves no clock.
LEMMA GrantsKept ==
    ASSUME GmInv, UNCHANGED <<gmTime, gmOffset, gmGrants>>
    PROVE  /\ GmClock' /\ GmGrantsInv'
           /\ \A p : ProofOk(p) => ProofOk(p)'
<1>1. PICK t, o, gs : t = gmTime /\ o = gmOffset /\ gs = gmGrants
  OBVIOUS
<1>2. gmTime' = t /\ gmOffset' = o /\ gmGrants' = gs
  BY <1>1
<1>3. GmClock'
  BY <1>1, <1>2 DEF GmInv, GmClock
<1>4. Clock("wallet") = t + o["wallet"] /\ Clock("wallet")' = t + o["wallet"]
  BY <1>1, <1>2 DEF Clock
<1>5. Clock("app") = t + o["app"] /\ Clock("app")' = t + o["app"]
  BY <1>1, <1>2 DEF Clock
<1>6. GmGrantsInv'
  <2>1. /\ gs \in Seq(GmGrantType) /\ Len(gs) <= MaxGmGrants
        /\ \A g \in 1..Len(gs) : Derived(gs[g]) /\ gs[g].iat <= t + o["wallet"]
    BY <1>1, <1>4 DEF GmInv, GmGrantsInv
  <2> QED
    BY <1>2, <1>4, <2>1 DEF GmGrantsInv
<1>7. ASSUME NEW p, ProofOk(p) PROVE ProofOk(p)'
  BY <1>1, <1>2, <1>5, <1>7 DEF ProofOk
<1> QED
  BY <1>3, <1>6, <1>7

\* A step after which nothing was verified, and which receives no grant and moves no clock.
LEMMA QuietGm ==
    ASSUME GmInv, UNCHANGED <<gmTime, gmOffset, gmGrants>>, gmVerdict' = None,
           GmHeldInv', GmKeptInv', GmProofsInv'
    PROVE  GmInv'
<1>1. ProofConvinces'
  BY DEF ProofConvinces
<1> QED
  BY <1>1, GrantsKept DEF GmInv

\* Keys that came with an approval, or that were restored, are those of the grant.
LEMMA KeysFacts ==
    ASSUME GmInv, NEW g \in 1..Len(gmGrants), NEW keys, keys # Failed,
           keys = VerifiedApproval(gmGrants[g]) \/ keys = None, GotKeys(g, keys), UNCHANGED gmGrants
    PROVE  GmHeldInv'
<1>1. PICK gs : gs = gmGrants
  OBVIOUS
<1>2. gmGrants' = gs
  BY <1>1
<1>3. \A h \in gmHeld : h.grant \in 1..Len(gs) /\ h.bundle = gs[h.grant].bundle /\ Consistent(h.bundle)
  BY <1>1 DEF GmInv, GmHeldInv
<1>4. ASSUME keys # None PROVE keys = gs[g].bundle /\ Consistent(gs[g].bundle)
  BY <1>1, <1>4 DEF VerifiedApproval
<1>5. \A h \in gmHeld' : h.grant \in 1..Len(gs) /\ h.bundle = gs[h.grant].bundle /\ Consistent(h.bundle)
  <2> SUFFICES ASSUME NEW h \in gmHeld'
               PROVE  h.grant \in 1..Len(gs) /\ h.bundle = gs[h.grant].bundle /\ Consistent(h.bundle)
    OBVIOUS
  <2>1. CASE h \in gmHeld
    BY <1>3, <2>1
  <2>2. CASE h \notin gmHeld
    <3>1. keys # None /\ h = [grant |-> g, bundle |-> keys]
      BY <2>2 DEF GotKeys
    <3> QED
      BY <1>1, <1>4, <3>1
  <2> QED
    BY <2>1, <2>2
<1> QED
  BY <1>2, <1>5 DEF GmHeldInv

LEMMA HeldKept ==
    ASSUME GmInv, UNCHANGED <<gmGrants, gmHeld>>
    PROVE  GmHeldInv'
<1>1. PICK gs, hs : gs = gmGrants /\ hs = gmHeld
  OBVIOUS
<1>2. gmGrants' = gs /\ gmHeld' = hs
  BY <1>1
<1>3. \A h \in hs : h.grant \in 1..Len(gs) /\ h.bundle = gs[h.grant].bundle /\ Consistent(h.bundle)
  BY <1>1 DEF GmInv, GmHeldInv
<1> QED
  BY <1>2, <1>3 DEF GmHeldInv

LEMMA ProofsKept ==
    ASSUME GmInv, UNCHANGED <<gmTime, gmOffset, gmGrants, gmProof, gmHanded>>
    PROVE  GmProofsInv'
<1>1. \A p : ProofOk(p) => ProofOk(p)'
  BY GrantsKept
<1> QED
  BY <1>1 DEF GmInv, GmProofsInv

LEMMA KeptKept ==
    ASSUME GmInv, UNCHANGED <<gmGrants, gmSession, gmSaved>>
    PROVE  GmKeptInv'
  BY DEF GmInv, GmKeptInv

LEMMA OpenStep == ASSUME GmInv, NEW g \in 1..Len(gmGrants), OpenSession(g) PROVE GmInv'
<1> DEFINE keys == VerifiedApproval(gmGrants[g])
<1>1. keys # Failed /\ gmSession' = NewSession(g, keys, FALSE) /\ GotKeys(g, keys)
      /\ UNCHANGED <<gmTime, gmOffset, gmGrants, gmSaved, gmKeys, gmProof, gmHanded>> /\ gmVerdict' = None
  BY DEF OpenSession
<1>2. GmHeldInv'
  <2> HIDE DEF keys
  <2>1. keys = VerifiedApproval(gmGrants[g])
    BY DEF keys
  <2> QED
    BY <1>1, <2>1, KeysFacts
<1>3. GmKeptInv'
  <2> HIDE DEF keys
  <2>1. gmSession'.grant = g /\ gmSession'.keys = keys
    BY <1>1 DEF NewSession
  <2> QED
    BY <1>1, <2>1 DEF GmInv, GmKeptInv
<1> QED
  BY <1>1, <1>2, <1>3, ProofsKept, QuietGm

LEMMA RestoreKeysFacts ==
    ASSUME NEW approval, NEW g, RestoredApproval(approval, g) # Failed
    PROVE  RestoredApproval(approval, g) = VerifiedApproval(gmGrants[g]) \/ RestoredApproval(approval, g) = None
  BY DEF RestoredApproval

LEMMA RestoreStep ==
    ASSUME GmInv, NEW r \in gmSaved, NEW a \in 0..Len(gmGrants), NEW shared \in BOOLEAN, Restore(r, a, shared)
    PROVE  GmInv'
<1> DEFINE keys == RestoreMaterial(r, a, shared)
<1>1. keys # Failed /\ gmSession' = NewSession(r.grant, keys, shared) /\ GotKeys(r.grant, keys)
      /\ UNCHANGED <<gmTime, gmOffset, gmGrants, gmSaved, gmKeys, gmProof, gmHanded>> /\ gmVerdict' = None
  BY DEF Restore
<1>2. r.grant \in 1..Len(gmGrants)
  BY DEF GmInv, GmKeptInv
<1>3. keys = RestoredApproval(a, r.grant)
  BY <1>1 DEF RestoreMaterial
<1> HIDE DEF keys
<1>4. keys = VerifiedApproval(gmGrants[r.grant]) \/ keys = None
  BY <1>1, <1>3, RestoreKeysFacts
<1>5. GmHeldInv'
  BY <1>1, <1>2, <1>4, KeysFacts
<1>6. GmKeptInv'
  <2>1. gmSession'.grant = r.grant /\ gmSession'.keys = keys
    BY <1>1 DEF NewSession
  <2> QED
    BY <1>1, <1>2, <2>1 DEF GmInv, GmKeptInv
<1> QED
  BY <1>1, <1>5, <1>6, ProofsKept, QuietGm

LEMMA RecoverStep == ASSUME GmInv, NEW r \in gmSaved, RecoverKeys(r) PROVE GmInv'
<1> DEFINE keys == RestoredApproval(r.approval, r.grant)
<1>1. keys # Failed /\ GotKeys(r.grant, keys)
      /\ UNCHANGED <<gmTime, gmOffset, gmGrants, gmSession, gmSaved, gmKeys, gmProof, gmHanded>> /\ gmVerdict' = None
  BY DEF RecoverKeys
<1>2. r.grant \in 1..Len(gmGrants)
  BY DEF GmInv, GmKeptInv
<1>3. keys = VerifiedApproval(gmGrants[r.grant]) \/ keys = None
  BY <1>1, RestoreKeysFacts
<1> HIDE DEF keys
<1>4. GmHeldInv'
  BY <1>1, <1>2, <1>3, KeysFacts
<1> QED
  BY <1>1, <1>4, ProofsKept, KeptKept, QuietGm

LEMMA SaveStep == ASSUME GmInv, Save PROVE GmInv'
<1>1. UNCHANGED <<gmTime, gmOffset, gmGrants, gmSession, gmKeys, gmHeld, gmProof, gmHanded>> /\ gmVerdict' = None
  BY DEF Save
<1>2. GmKeptInv'
  <2>1. gmSession # None /\ gmSaved' = gmSaved \cup {StoredCredential(gmSession)}
    BY DEF Save
  <2>2. StoredCredential(gmSession).grant = gmSession.grant
    BY DEF StoredCredential
  <2> QED
    BY <1>1, <2>1, <2>2 DEF GmInv, GmKeptInv
<1> QED
  BY <1>1, <1>2, HeldKept, ProofsKept, QuietGm

LEMMA EndSessionStep == ASSUME GmInv, EndSession PROVE GmInv'
<1>1. UNCHANGED <<gmTime, gmOffset, gmGrants, gmSaved, gmKeys, gmHeld, gmProof, gmHanded>> /\ gmVerdict' = None
      /\ gmSession' = None
  BY DEF EndSession
<1>2. GmKeptInv'
  BY <1>1 DEF GmInv, GmKeptInv
<1> QED
  BY <1>1, <1>2, HeldKept, ProofsKept, QuietGm

LEMMA LoseKeyStep == ASSUME GmInv, NEW g, LoseKey(g) PROVE GmInv'
<1>1. UNCHANGED <<gmTime, gmOffset, gmGrants, gmSession, gmSaved, gmHeld, gmProof, gmHanded>> /\ gmVerdict' = None
  BY DEF LoseKey
<1> QED
  BY <1>1, HeldKept, KeptKept, ProofsKept, QuietGm

LEMMA BeginProofStep == ASSUME GmInv, BeginProof PROVE GmInv'
<1>1. /\ UNCHANGED <<gmTime, gmOffset, gmGrants, gmSession, gmSaved, gmKeys, gmHeld, gmHanded>> /\ gmVerdict' = None
      /\ gmSession # None /\ gmProof' = [grant |-> gmSession.grant, iat |-> Clock("app")]
  BY DEF BeginProof
<1>2. gmSession.grant \in 1..Len(gmGrants)
  BY <1>1 DEF GmInv, GmKeptInv
<1>3. \A p : ProofOk(p) => ProofOk(p)'
  BY <1>1, GrantsKept
<1>4. ProofOk([grant |-> gmSession.grant, iat |-> Clock("app")])
  <2>1. gmGrants[gmSession.grant].iat <= Clock("wallet") /\ gmGrants[gmSession.grant].iat \in Nat
    BY <1>2, GrantFacts DEF GmInv, GmGrantsInv
  <2>2. /\ gmTime \in Nat /\ gmOffset["app"] \in Nat /\ gmOffset["wallet"] \in Nat
        /\ Clock("app") = gmTime + gmOffset["app"] /\ Clock("wallet") = gmTime + gmOffset["wallet"]
    BY ClockFacts DEF GmInv
  <2>3. gmGrants[gmSession.grant].iat + gmOffset["app"] <= Clock("app") + gmOffset["wallet"]
    BY <2>1, <2>2
  <2>4. Clock("app") \in Nat /\ Clock("app") <= Clock("app")
    BY <2>2
  <2> QED
    BY <1>2, <2>3, <2>4 DEF ProofOk
<1>5. GmProofsInv'
  BY <1>1, <1>3, <1>4 DEF GmInv, GmProofsInv
<1> QED
  BY <1>1, <1>5, HeldKept, KeptKept, QuietGm

LEMMA SignProofStep == ASSUME GmInv, SignProof PROVE GmInv'
<1>1. /\ UNCHANGED <<gmTime, gmOffset, gmGrants, gmSession, gmSaved, gmKeys, gmHeld>> /\ gmVerdict' = None
      /\ gmProof # None /\ gmProof' = None
      /\ gmHanded' = IF gmProof.grant \in gmKeys /\ StillValid(gmProof) THEN gmHanded \cup {gmProof} ELSE gmHanded
  BY DEF SignProof
<1>2. \A p : ProofOk(p) => ProofOk(p)'
  BY <1>1, GrantsKept
<1>3. ProofOk(gmProof)
  BY <1>1 DEF GmInv, GmProofsInv
<1>4. ASSUME StillValid(gmProof) PROVE gmProof.iat < gmGrants[gmProof.grant].exp
  <2>1. gmProof.grant \in 1..Len(gmGrants) /\ gmProof.iat \in Nat /\ gmProof.iat <= Clock("app")
    BY <1>3 DEF ProofOk
  <2>2. gmGrants[gmProof.grant].exp \in Nat /\ Clock("app") \in Nat
    BY <2>1, GrantFacts, ClockFacts DEF GmInv
  <2> QED
    BY <1>4, <2>1, <2>2 DEF StillValid
<1>5. GmProofsInv'
  <2>1. \A p \in gmHanded' : ProofOk(p) /\ p.iat < gmGrants[p.grant].exp
    BY <1>1, <1>3, <1>4 DEF GmInv, GmProofsInv
  <2> QED
    BY <1>1, <1>2, <2>1 DEF GmProofsInv
<1> QED
  BY <1>1, <1>5, HeldKept, KeptKept, QuietGm

LEMMA GmTickStep == ASSUME GmInv, GmTick PROVE GmInv'
<1>1. /\ gmTime < MaxGmTime /\ gmTime' = gmTime + 1 /\ gmVerdict' = None
      /\ UNCHANGED <<gmOffset, gmGrants, gmSession, gmSaved, gmKeys, gmHeld, gmProof, gmHanded>>
  BY DEF GmTick
<1>2. PICK t, o, gs : t = gmTime /\ o = gmOffset /\ gs = gmGrants
  OBVIOUS
<1>3. /\ t \in Nat /\ t + 1 \in 0..MaxGmTime /\ o \in GmClocks
      /\ o["wallet"] \in Nat /\ o["app"] \in Nat
  BY <1>1, <1>2, ClockFacts DEF GmInv, GmClock
<1>4. gmTime' = t + 1 /\ gmOffset' = o /\ gmGrants' = gs
  BY <1>1, <1>2
<1>5. Clock("wallet") = t + o["wallet"] /\ Clock("wallet")' = t + 1 + o["wallet"]
  BY <1>2, <1>4 DEF Clock
<1>6. Clock("app") = t + o["app"] /\ Clock("app")' = t + 1 + o["app"]
  BY <1>2, <1>4 DEF Clock
<1>7. GmClock'
  BY <1>3, <1>4 DEF GmClock
<1>8. GmGrantsInv'
  <2>1. gs \in Seq(GmGrantType) /\ Len(gs) <= MaxGmGrants
    BY <1>2 DEF GmInv, GmGrantsInv
  <2>2. \A g \in 1..Len(gs) : Derived(gs[g]) /\ gs[g].iat <= t + o["wallet"] /\ gs[g].iat \in Nat
    BY <1>2, <1>5, GrantFacts DEF GmInv, GmGrantsInv
  <2>3. \A g \in 1..Len(gs) : gs[g].iat <= t + 1 + o["wallet"]
    BY <1>3, <2>2
  <2> QED
    BY <1>4, <1>5, <2>1, <2>2, <2>3 DEF GmGrantsInv
<1>9. ASSUME NEW p, ProofOk(p) PROVE ProofOk(p)'
  <2>1. p.iat \in Nat /\ p.iat <= t + o["app"]
    BY <1>6, <1>9 DEF ProofOk
  <2>2. p.iat <= t + 1 + o["app"]
    BY <1>3, <2>1
  <2> QED
    BY <1>2, <1>4, <1>6, <1>9, <2>2 DEF ProofOk
<1>10. GmProofsInv'
  BY <1>1, <1>9 DEF GmInv, GmProofsInv
<1>11. ProofConvinces'
  BY <1>1 DEF ProofConvinces
<1> QED
  BY <1>1, <1>7, <1>8, <1>10, <1>11, HeldKept, KeptKept DEF GmInv

LEMMA ApproveStep == ASSUME GmInv, NEW a \in GmApprovals, Approve(a) PROVE GmInv'
<1> DEFINE honest == FromIdentity(a.user, a.scopes)
           bundle == [i \in 1..Len(a.scopes) |->
                        IF i \in a.odd THEN [honest[i] EXCEPT !.secret.of = "odd"] ELSE honest[i]]
           new == [user |-> a.user, scopes |-> a.scopes, format |-> a.format,
                   signer |-> a.signer, bundle |-> bundle, odd |-> a.odd # {},
                   iat |-> Clock("wallet"), exp |-> Clock("wallet") + GrantLife]
<1>1. /\ Len(gmGrants) < MaxGmGrants /\ gmProof = None /\ gmVerdict' = None
      /\ gmGrants' = Append(gmGrants, new)
      /\ UNCHANGED <<gmTime, gmOffset, gmSession, gmSaved, gmHeld, gmProof, gmHanded>>
  BY DEF Approve
<1>2. /\ bundle \in GmBundles
      /\ a.odd = {} => \A i \in 1..Len(bundle) :
           bundle[i].secret = DerivePath(Root, RootSecret(a.user), bundle[i].scope)
  BY BundleFacts
<1>3. new.iat = Clock("wallet") /\ new.odd = (a.odd # {}) /\ new.user = a.user /\ new.bundle = bundle
  <2> HIDE DEF bundle
  <2> QED
    OBVIOUS
<1>4. Derived(new)
  <2> HIDE DEF new, bundle
  <2> QED
    BY <1>2, <1>3 DEF Derived
<1>5. new \in GmGrantType
  <2>1. Clock("wallet") \in Nat /\ Clock("wallet") + GrantLife \in Nat /\ a.scopes \in Seq(GmPaths)
    <3>1. Clock("wallet") \in Nat
      BY ClockFacts DEF GmInv
    <3>2. GrantLife \in Nat /\ a.scopes \in Seq(GmPaths)
      BY MaterialAssumption
    <3> QED
      BY <3>1, <3>2
  <2>2. /\ a.user \in {x.user : x \in GmApprovals} /\ a.format \in {x.format : x \in GmApprovals}
        /\ a.signer \in {x.signer : x \in GmApprovals} /\ (a.odd # {}) \in BOOLEAN
    OBVIOUS
  <2> HIDE DEF bundle
  <2> QED
    BY <1>2, <2>1, <2>2 DEF GmGrantType
<1>6. PICK t, o, gs, w : t = gmTime /\ o = gmOffset /\ gs = gmGrants /\ w = Clock("wallet")
  OBVIOUS
<1> HIDE DEF new, bundle, honest
<1>7. gmTime' = t /\ gmOffset' = o /\ gmGrants' = Append(gs, new)
  BY <1>1, <1>6
<1>8. Clock("wallet")' = w /\ Clock("app")' = Clock("app")
  BY <1>6, <1>7 DEF Clock
<1>9. /\ gs \in Seq(GmGrantType) /\ Len(gs) < MaxGmGrants /\ Len(gs) \in Nat /\ MaxGmGrants \in Nat
      /\ \A g \in 1..Len(gs) : Derived(gs[g]) /\ gs[g].iat <= w
  BY <1>1, <1>6, MaterialAssumption DEF GmInv, GmGrantsInv
<1>10. /\ Append(gs, new) \in Seq(GmGrantType) /\ Len(Append(gs, new)) = Len(gs) + 1
       /\ \A g \in 1..Len(gs) : Append(gs, new)[g] = gs[g] /\ g \in 1..(Len(gs) + 1)
       /\ Append(gs, new)[Len(gs) + 1] = new
  BY <1>5, <1>9, AppendProperties
<1>11. PICK gs2 : gs2 = Append(gs, new)
  OBVIOUS
<1>12. gmGrants' = gs2 /\ Len(gs2) = Len(gs) + 1 /\ gs2 \in Seq(GmGrantType)
       /\ gs2[Len(gs) + 1] = new /\ \A g \in 1..Len(gs) : gs2[g] = gs[g] /\ g \in 1..Len(gs2)
  BY <1>7, <1>10, <1>11
<1>13. GmGrantsInv'
  <2>1. Len(gs2) <= MaxGmGrants
    BY <1>9, <1>12
  <2>2. w \in Nat /\ new.iat <= w
    BY <1>3, <1>6, ClockFacts DEF GmInv
  <2>3. \A g \in 1..Len(gs2) : Derived(gs2[g]) /\ gs2[g].iat <= w
    <3> SUFFICES ASSUME NEW g \in 1..Len(gs2) PROVE Derived(gs2[g]) /\ gs2[g].iat <= w
      OBVIOUS
    <3>1. g \in 1..Len(gs) \/ g = Len(gs) + 1
      BY <1>9, <1>12
    <3> QED
      BY <1>4, <1>9, <1>12, <2>2, <3>1
  <2> QED
    BY <1>8, <1>12, <2>1, <2>3 DEF GmGrantsInv
<1>14. GmHeldInv'
  <2>1. \A h \in gmHeld : h.grant \in 1..Len(gs) /\ h.bundle = gs[h.grant].bundle /\ Consistent(h.bundle)
    BY <1>6 DEF GmInv, GmHeldInv
  <2>2. \A h \in gmHeld : h.grant \in 1..Len(gs2) /\ h.bundle = gs2[h.grant].bundle /\ Consistent(h.bundle)
    BY <1>12, <2>1
  <2>3. PICK hs : hs = gmHeld
    OBVIOUS
  <2>4. gmHeld' = hs
    BY <1>1, <2>3
  <2> QED
    BY <1>12, <2>2, <2>3, <2>4 DEF GmHeldInv
<1>15. GmKeptInv'
  BY <1>1, <1>6, <1>12 DEF GmInv, GmKeptInv
<1>16. ASSUME NEW p, ProofOk(p) PROVE ProofOk(p)' /\ gmGrants'[p.grant] = gmGrants[p.grant]
  <2>1. p.grant \in 1..Len(gs)
    BY <1>6, <1>16 DEF ProofOk
  <2>2. gs2[p.grant] = gs[p.grant] /\ p.grant \in 1..Len(gs2)
    BY <1>12, <2>1
  <2> QED
    BY <1>1, <1>6, <1>8, <1>12, <1>16, <2>2 DEF ProofOk
<1>17. GmProofsInv'
  BY <1>1, <1>16 DEF GmInv, GmProofsInv
<1>18. ProofConvinces'
  BY <1>1 DEF ProofConvinces
<1>19. GmClock'
  BY <1>1 DEF GmInv, GmClock
<1> QED
  BY <1>13, <1>14, <1>15, <1>17, <1>18, <1>19 DEF GmInv

\* Verdicts: what verify_at says of a proof that was handed out.
LEMMA VerifyStep ==
    ASSUME GmInv, NEW p \in gmHanded, NEW g \in 1..Len(gmGrants), Verify(p, g)
    PROVE  GmInv'
<1> DEFINE now == Clock("verifier")
           result == Verdict(p, g, now)
<1>1. /\ gmVerdict' = [proof |-> p, grant |-> g, now |-> now, result |-> result]
      /\ UNCHANGED <<gmTime, gmOffset, gmGrants, gmSession, gmSaved, gmKeys, gmHeld, gmProof, gmHanded>>
  BY DEF Verify
<1>2. gmVerdict'.proof = p /\ gmVerdict'.grant = g /\ gmVerdict'.now = now /\ gmVerdict'.result = result
  <2> HIDE DEF now, result
  <2> QED
    BY <1>1
<1>3. ASSUME p.grant = g, now < gmGrants[g].exp, \A a, b \in DOMAIN gmOffset : Within(a, b)
      PROVE  result = "Verified"
  <2>1. /\ ProofOk(p) /\ p.iat < gmGrants[g].exp
    BY <1>3 DEF GmInv, GmProofsInv
  <2>2. /\ gmGrants[g].iat \in Nat /\ gmGrants[g].exp \in Nat /\ gmGrants[g].iat <= Clock("wallet")
    BY GrantFacts DEF GmInv, GmGrantsInv
  <2>3. /\ gmTime \in Nat /\ gmOffset["app"] \in Nat /\ gmOffset["wallet"] \in Nat /\ gmOffset["verifier"] \in Nat
        /\ Clock("app") = gmTime + gmOffset["app"] /\ Clock("wallet") = gmTime + gmOffset["wallet"]
        /\ now = gmTime + gmOffset["verifier"] /\ ClockSkew \in Nat
        /\ DOMAIN gmOffset = {"wallet", "app", "verifier"}
    BY ClockFacts, MaterialAssumption DEF GmInv
  <2>4. /\ gmOffset["wallet"] <= gmOffset["verifier"] + ClockSkew
        /\ gmOffset["app"] <= gmOffset["verifier"] + ClockSkew
        /\ gmOffset["wallet"] <= gmOffset["app"] + ClockSkew
    BY <1>3, <2>3 DEF Within
  <2>5. p.iat \in Nat /\ p.iat <= Clock("app") /\ gmGrants[g].iat + gmOffset["app"] <= p.iat + gmOffset["wallet"]
    BY <1>3, <2>1 DEF ProofOk
  <2>50. ASSUME NEW x \in Nat, NEW t \in Nat, NEW o \in Nat, NEW v \in Nat, NEW k \in Nat,
                x <= t + o, o <= v + k
         PROVE  x <= (t + v) + k
    BY <2>50
  <2>6. NotInFuture(now, gmGrants[g].iat)
    BY <2>2, <2>3, <2>4, <2>50 DEF NotInFuture
  <2>7. NotInFuture(now, p.iat)
    BY <2>3, <2>4, <2>5, <2>50 DEF NotInFuture
  <2>8. NotInFuture(p.iat, gmGrants[g].iat)
    <3>1. ASSUME NEW x \in Nat, NEW y \in Nat, NEW a \in Nat, NEW w \in Nat, NEW k \in Nat,
                 x + a <= y + w, w <= a + k
          PROVE  x <= y + k
      BY <3>1
    <3> QED
      BY <2>2, <2>3, <2>4, <2>5, <3>1 DEF NotInFuture
  <2>9. ~(p.iat >= gmGrants[g].exp) /\ ~(now >= gmGrants[g].exp)
    <3>1. \A x, y \in Nat : x < y => ~(x >= y)
      OBVIOUS
    <3>2. now \in Nat
      BY <2>3
    <3> HIDE DEF now
    <3> QED
      BY <1>3, <2>1, <2>2, <2>5, <3>1, <3>2
  <2> HIDE DEF now
  <2> QED
    BY <1>3, <2>6, <2>7, <2>8, <2>9 DEF Verdict, SignedFor
<1>4. ASSUME p.grant # g PROVE result # "Verified"
  BY <1>4 DEF Verdict, SignedFor
<1>5. PICK o, gs : o = gmOffset /\ gs = gmGrants
  OBVIOUS
<1>6. gmOffset' = o /\ gmGrants' = gs
  BY <1>1, <1>5
<1> HIDE DEF now, result
<1>7. ASSUME (\A a, b \in DOMAIN gmOffset : Within(a, b))'
      PROVE  \A a, b \in DOMAIN gmOffset : Within(a, b)
  BY <1>5, <1>6, <1>7 DEF Within
<1>8. ProofConvinces'
  <2>1. ASSUME gmVerdict'.proof.grant = gmVerdict'.grant, gmVerdict'.now < gmGrants'[gmVerdict'.grant].exp,
               (\A a, b \in DOMAIN gmOffset : Within(a, b))'
        PROVE  gmVerdict'.result = "Verified"
    BY <1>2, <1>3, <1>5, <1>6, <1>7, <2>1
  <2>2. gmVerdict'.proof.grant # gmVerdict'.grant => gmVerdict'.result # "Verified"
    BY <1>2, <1>4
  <2> QED
    BY <2>1, <2>2 DEF ProofConvinces
<1> QED
  BY <1>1, <1>8, GrantsKept, HeldKept, KeptKept, ProofsKept DEF GmInv

LEMMA GmNextInv == GmInv /\ [GmNext]_gmVars => GmInv'
<1> SUFFICES ASSUME GmInv, [GmNext]_gmVars PROVE GmInv'
  OBVIOUS
<1>1. CASE UNCHANGED gmVars
  <2>1. UNCHANGED <<gmTime, gmOffset, gmGrants, gmSession, gmSaved, gmKeys, gmHeld, gmProof, gmHanded, gmVerdict>>
    BY <1>1 DEF gmVars
  <2>2. ProofConvinces'
    <3>1. PICK o, gs, v : o = gmOffset /\ gs = gmGrants /\ v = gmVerdict
      OBVIOUS
    <3>2. gmOffset' = o /\ gmGrants' = gs /\ gmVerdict' = v
      BY <2>1, <3>1
    <3> QED
      BY <3>1, <3>2 DEF GmInv, ProofConvinces, Within
  <2> QED
    BY <2>1, <2>2, GrantsKept, HeldKept, KeptKept, ProofsKept DEF GmInv
<1>2. CASE GmNext
  BY <1>2, ApproveStep, OpenStep, LoseKeyStep, SaveStep, EndSessionStep, BeginProofStep, SignProofStep,
     GmTickStep, RecoverStep, RestoreStep, VerifyStep DEF GmNext
<1> QED
  BY <1>1, <1>2

\* A file has one key whatever scopes and bundles it is derived from, and a proof that was
\* handed out convinces every verifier until its grant expires, as long as the clocks differ
\* by no more than the allowance (encryption_keys.rs, custom_pop.rs): for any approvals,
\* scopes, files, clocks and allowance.
THEOREM MaterialIsSound == GmSpec => []MaterialSound
<1>1. GmInv => MaterialSound
  <2> SUFFICES ASSUME GmInv PROVE MaterialSound
    OBVIOUS
  <2>1. FileHasOneKey
    BY OneKeyHolds DEF GmInv
  <2>2. GmTypeOK
    BY DEF GmInv, GmClock, GmGrantsInv, GmKeptInv, GmProofsInv, ProofOk, GmTypeOK
  <2> QED
    BY <2>1, <2>2 DEF GmInv, MaterialSound
<1> QED
  BY <1>1, GmInitInv, GmNextInv, PTL DEF GmSpec

=================================================================================
