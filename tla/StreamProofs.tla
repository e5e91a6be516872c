----------------------------- MODULE StreamProofs -----------------------------
(***************************************************************************)
(* Proofs about EventStream, for any events, users, filters, cursors, page  *)
(* limits and channel capacity: a stream delivers in order and without a    *)
(* gap, from the history, from the channel and where one gives way to the   *)
(* other.  That it delivers at all is a liveness property and not claimed.  *)
(***************************************************************************)
EXTENDS EventStream, FiniteSetTheorems, TLAPS

-----------------------------------------------------------------------------
(* Pages *)

LEMMA StreamConstants ==
    /\ MaxId \in Nat /\ None \notin Nat
    /\ PageLimit \in Nat /\ MaxPageLimit \in Nat /\ Capacity \in Nat
    /\ PageLimit > 0 /\ MaxPageLimit > 0 /\ Capacity > 0
    /\ StreamUsers \subseteq Users /\ Queries \subseteq QueryType
    /\ Starts \subseteq Nat \cup {None}
    /\ \A e \in Events : e.id \in Nat /\ e.id \in 1..MaxId /\ e.user \in Users
  BY StreamAssumption, MaxIdAssumption DEF Events

\* Among some of the events of a finite set there is one of which no other's
\* downset is a part: that is how a first and a last event are found.
LEMMA SmallestDownset ==
    ASSUME NEW S, IsFiniteSet(S), S # {}, NEW down \in [S -> SUBSET S]
    PROVE  \E e \in S : \A f \in S : ~(down[f] \subseteq down[e] /\ down[f] # down[e])
<1> DEFINE T == {down[e] : e \in S}
<1>1. T \subseteq FiniteSubsetsOf(S) /\ T # {}
  <2>1. \A e \in S : down[e] \subseteq S /\ IsFiniteSet(down[e])
    BY FS_Subset
  <2> QED
    BY <2>1 DEF FiniteSubsetsOf
<1>2. \E x \in T : \A y \in T : ~(<<y, x>> \in StrictSubsetOrdering(S))
  <2>1. IsWellFoundedOn(StrictSubsetOrdering(S), FiniteSubsetsOf(S))
    BY FS_StrictSubsetOrderingWellFounded
  <2> HIDE DEF T
  <2> QED
    BY <1>1, <2>1, WFMin
<1>3. PICK e \in S : \A y \in T : ~(<<y, down[e]>> \in StrictSubsetOrdering(S))
  BY <1>2
<1>4. ASSUME NEW f \in S, down[f] \subseteq down[e], down[f] # down[e]
      PROVE  FALSE
  <2>1. <<down[f], down[e]>> \in StrictSubsetOrdering(S)
    BY <1>4 DEF StrictSubsetOrdering
  <2> QED
    BY <1>3, <2>1
<1> QED
  BY <1>4

\* A finite set of events has a first and a last one.
LEMMA FirstAndLast ==
    ASSUME NEW S \in SUBSET Events, IsFiniteSet(S), S # {}
    PROVE  /\ \E e \in S : \A f \in S : e.id <= f.id
           /\ \E e \in S : \A f \in S : f.id <= e.id
<1> DEFINE up   == [e \in S |-> {f \in S : f.id <= e.id}]
           down == [e \in S |-> {f \in S : f.id >= e.id}]
<1>0. \A e \in S : e.id \in Nat
  BY StreamConstants
<1>1. PICK e \in S : \A f \in S : ~(up[f] \subseteq up[e] /\ up[f] # up[e])
  <2>1. up \in [S -> SUBSET S]
    OBVIOUS
  <2> HIDE DEF up
  <2> QED
    BY <2>1, SmallestDownset
<1>2. PICK d \in S : \A f \in S : ~(down[f] \subseteq down[d] /\ down[f] # down[d])
  <2>1. down \in [S -> SUBSET S]
    OBVIOUS
  <2> HIDE DEF down
  <2> QED
    BY <2>1, SmallestDownset
<1>3. ASSUME NEW f \in S, ~(e.id <= f.id)
      PROVE  FALSE
  <2>1. f.id < e.id
    BY <1>0, <1>3
  <2>2. up[f] \subseteq up[e] /\ e \in up[e] /\ e \notin up[f]
    BY <1>0, <2>1
  <2> QED
    BY <1>1, <2>2
<1>4. ASSUME NEW f \in S, ~(f.id <= d.id)
      PROVE  FALSE
  <2>1. f.id > d.id
    BY <1>0, <1>4
  <2>2. down[f] \subseteq down[d] /\ d \in down[d] /\ d \notin down[f]
    BY <1>0, <2>1
  <2> QED
    BY <1>2, <2>2
<1> QED
  BY <1>3, <1>4

\* A page is of the set, it is not empty unless the set is, and what it leaves
\* out comes after all of it.
LEMMA PageFacts ==
    ASSUME NEW S \in SUBSET Events, IsFiniteSet(S), NEW n \in Nat, n > 0,
           \A e, f \in S : e.id = f.id => e = f
    PROVE  LET P == FirstPage(S, n) IN
           /\ P \subseteq S /\ (P = {} => S = {})
           /\ \A e \in S \ P, p \in P : IF Reverse THEN e.id < p.id ELSE p.id < e.id
<1> DEFINE Upto(x) == IF Reverse THEN {f \in S : f.id >= x.id} ELSE {f \in S : f.id <= x.id}
           P == FirstPage(S, n)
<1>0. \A e \in S : e.id \in Nat
  BY StreamConstants
<1>1. P = {e \in S : Cardinality(Upto(e)) <= n}
  BY DEF FirstPage, FirstN
<1>2. \A e \in S : IsFiniteSet(Upto(e)) /\ Cardinality(Upto(e)) \in Nat
  <2>1. \A e \in S : Upto(e) \subseteq S
    OBVIOUS
  <2> QED
    BY <2>1, FS_Subset, FS_CardinalityType
<1>3. ASSUME S # {}
      PROVE  P # {}
  <2>1. PICK e \in S : \A f \in S : IF Reverse THEN f.id <= e.id ELSE e.id <= f.id
    BY <1>3, FirstAndLast
  <2>2. Upto(e) = {e}
    BY <1>0, <2>1
  <2>3. Cardinality(Upto(e)) = 1
    BY <2>2, FS_Singleton
  <2> HIDE DEF Upto, P
  <2> QED
    BY <1>1, <2>3
<1>4. ASSUME NEW e \in S \ P, NEW p \in P
      PROVE  IF Reverse THEN e.id < p.id ELSE p.id < e.id
  <2>1. SUFFICES ASSUME IF Reverse THEN e.id >= p.id ELSE p.id >= e.id
                 PROVE  FALSE
    BY <1>0, <1>1, <1>4
  <2>2. p \in S /\ Cardinality(Upto(p)) <= n /\ ~(Cardinality(Upto(e)) <= n)
    BY <1>1, <1>4
  <2>3. Upto(e) \subseteq Upto(p)
    BY <1>0, <2>1, <2>2
  <2>4. Cardinality(Upto(e)) <= Cardinality(Upto(p))
    BY <1>2, <2>2, <2>3, FS_Subset
  <2> HIDE DEF Upto
  <2> QED
    BY <1>2, <2>2, <2>4
<1> HIDE DEF P
<1> QED
  BY <1>1, <1>3, <1>4 DEF P

-----------------------------------------------------------------------------
(* The feed *)

\* Events are told apart by their ids, and the channel has those up to
\* lastBroadcast, in their order.
FeedInv ==
    /\ IsFiniteSet(table) /\ \A e, f \in table : e.id = f.id => e = f
    /\ lastBroadcast = 0 \/ \E e \in table : e.id = lastBroadcast
    /\ \A i \in DOMAIN sent : sent[i] \in table /\ sent[i].id <= lastBroadcast
    /\ \A i, j \in DOMAIN sent : i < j => sent[i].id < sent[j].id
    /\ ~started => sent = <<>> /\ lastBroadcast = 0

FeedTyped ==
    table \subseteq Events /\ sent \in Seq(Events) /\ lastBroadcast \in 0..MaxId

LEMMA FeedKeeps ==
    ASSUME FeedTyped, FeedInv, FeedNext
    PROVE  /\ FeedTyped' /\ FeedInv'
<1>0. /\ \A e \in table : e.id \in Nat /\ e.id \in 1..MaxId
      /\ lastBroadcast \in Nat /\ MaxId \in Nat /\ Len(sent) \in Nat
      /\ DOMAIN sent = 1..Len(sent)
  BY StreamConstants DEF FeedTyped
<1>1. ASSUME NEW e \in Events, Commit(e)
      PROVE  FeedTyped' /\ FeedInv'
  <2>1. IsFiniteSet(table')
    BY <1>1, FS_AddElement DEF Commit, FeedInv
  <2>2. e.id \in Nat /\ \A f \in table : f.id < e.id
    BY <1>1, StreamConstants DEF Commit
  <2> QED
    BY <1>0, <1>1, <2>1, <2>2 DEF Commit, FeedTyped, FeedInv
<1>2. CASE Start
  <2>1. /\ lastBroadcast' \in 0..MaxId
        /\ lastBroadcast' = 0 \/ \E e \in table : e.id = lastBroadcast'
    BY <1>0, <1>2 DEF Start, IsMaxId
  <2> QED
    BY <1>0, <1>2, <2>1 DEF Start, FeedTyped, FeedInv
<1>3. CASE BroadcastNext
  <2>1. PICK e \in table : /\ e.id > lastBroadcast /\ sent' = Append(sent, e)
                           /\ lastBroadcast' = e.id
    BY <1>3 DEF BroadcastNext, After
  <2>2. /\ Len(sent') = Len(sent) + 1 /\ DOMAIN sent' = 1..(Len(sent) + 1)
        /\ sent'[Len(sent) + 1] = e /\ \A i \in DOMAIN sent : sent'[i] = sent[i]
        /\ sent' \in Seq(Events) /\ UNCHANGED <<table, started>> /\ started
    BY <1>0, <1>3, <2>1 DEF FeedTyped, BroadcastNext
  <2>3. FeedTyped'
    BY <1>0, <2>1, <2>2 DEF FeedTyped
  <2>4. \A i \in DOMAIN sent' : sent'[i] \in table /\ sent'[i].id <= e.id
    BY <1>0, <2>1, <2>2 DEF FeedInv
  <2>5. \A i, j \in DOMAIN sent' : i < j => sent'[i].id < sent'[j].id
    BY <1>0, <2>1, <2>2 DEF FeedInv
  <2> QED
    BY <2>1, <2>2, <2>3, <2>4, <2>5 DEF FeedInv
<1> QED
  BY <1>1, <1>2, <1>3 DEF FeedNext

-----------------------------------------------------------------------------
(* The stream *)

\* The channel has the event for the stream yet.
Ahead(e) == e.id > lastBroadcast \/ \E i \in DOMAIN sent : i >= pos /\ sent[i] = e

\* A user's cursor is the one the client came with until an event moves it on;
\* without cursors of each user there is one for all.
CursorInv ==
    /\ \A u \in StreamUsers :
          /\ cursor[u] = start[u] \/ \E e \in table : e.id = cursor[u]
          /\ start[u] # None =>
                /\ cursor[u] # None
                /\ IF Reverse THEN cursor[u] <= start[u] ELSE start[u] <= cursor[u]
    /\ ~PerUser => \A u, v \in StreamUsers : cursor[u] = cursor[v]

\* Where the stream is.
StepInv ==
    /\ pos <= Len(sent) + 1
    /\ \A i \in DOMAIN out : out[i] \in table
    /\ spc # "closed" => why = "open" /\ (Limit # None => Len(out) < Limit)
    /\ spc = "opening" => cursor = start /\ out = <<>>
    /\ spc # "opening" => started
    /\ spc = "tail" => Live
    /\ failed => spc \in {"tail", "closed"}

\* A page is the first of what is left of the history: of all of it, or in
\* reverse of what was there when the stream was opened.
PageInv ==
    spc = "replay" =>
       /\ page \subseteq History
       /\ \A e \in History \ page, p \in page :
             IF Reverse THEN e \in atOpen => e.id < p.id ELSE p.id < e.id

\* What the stream has not sent is beyond its cursors.
GapInv ==
    failed \/ \A e \in table :
                 Matches(e) /\ (Reverse => e \in atOpen) /\ Beyond(e, start[e.user]) =>
                    Delivered(e) \/ Beyond(e, cursor[e.user])

\* What the stream may send yet comes after what it has sent.
OrderInv ==
    IF Reverse
       THEN ~PerUser => \A i \in DOMAIN out, u \in StreamUsers :
                           cursor[u] # None /\ cursor[u] <= out[i].id
       ELSE \A e \in History : (spc \in {"tail", "closed"} => Ahead(e)) =>
               \A i \in DOMAIN out : out[i].id < e.id

\* After the replay the channel has all that there is to send.
TailInv == spc = "tail" /\ ~failed => \A e \in History : Ahead(e)

StreamInv ==
    /\ TypeOK /\ FeedInv /\ CursorInv /\ StepInv /\ PageInv /\ GapInv /\ OrderInv
    /\ TailInv /\ DeliveredInOrder /\ CaughtUpIsComplete

\* The state, element by element.
LEMMA StreamTyped ==
    ASSUME StreamInv
    PROVE  /\ \A e \in table : e.id \in Nat /\ e.id \in 1..MaxId /\ e \in Events
           /\ \A u \in StreamUsers : cursor[u] \in Nat \cup {None}
                                       /\ start[u] \in Nat \cup {None}
           /\ Len(sent) \in Nat /\ DOMAIN sent = 1..Len(sent) /\ lastBroadcast \in Nat
           /\ Len(out) \in Nat /\ DOMAIN out = 1..Len(out) /\ pos \in Nat /\ pos > 0
           /\ MaxId \in Nat /\ None \notin Nat
           /\ query \in QueryType
  BY StreamConstants DEF StreamInv, TypeOK

\* An event beyond the cursor was beyond the one that the client came with.
LEMMA BeyondStart ==
    ASSUME StreamInv, NEW e \in table, e.user \in StreamUsers, Beyond(e, cursor[e.user])
    PROVE  Beyond(e, start[e.user])
<1>1. e.id \in Nat /\ cursor[e.user] \in Nat \cup {None} /\ start[e.user] \in Nat \cup {None}
  BY StreamTyped
<1> QED
  BY <1>1, StreamConstants DEF StreamInv, CursorInv, Beyond

\* A commit: the event comes after all there are, and is ahead of the stream.
LEMMA CommitKeepsStream ==
    ASSUME StreamInv, NEW e \in Events, Commit(e), UNCHANGED streamVars
    PROVE  StreamInv'
<1> USE DEF streamVars
<1>0. /\ e.id \in Nat /\ e.id > 0 /\ \A f \in table : f.id < e.id
      /\ table' = table \cup {e} /\ UNCHANGED <<started, lastBroadcast, sent, streamVars>>
  BY StreamConstants DEF Commit
<1>t. /\ \A f \in table : f.id \in Nat
      /\ \A u \in StreamUsers : cursor[u] \in Nat \cup {None} /\ start[u] \in Nat \cup {None}
      /\ lastBroadcast \in Nat
  BY StreamTyped
<1>1. FeedTyped' /\ FeedInv'
  BY FeedKeeps DEF StreamInv, TypeOK, FeedTyped, FeedNext
<1>2. TypeOK'
  BY <1>0, <1>1 DEF StreamInv, TypeOK, FeedTyped
<1>3. CursorInv' /\ StepInv'
  BY <1>0 DEF StreamInv, CursorInv, StepInv, Reverse, PerUser, Limit, Live
<1>4. \A f \in table' : f \in History' <=> (f \in History \/ (f = e /\ f \in History'))
  BY <1>0 DEF History, Matches, Beyond, Reverse
<1>5. Ahead(e)' /\ \A f \in table : Ahead(f)' = Ahead(f)
  <2>1. e.id > lastBroadcast
    BY <1>0, <1>t DEF StreamInv, FeedInv
  <2> QED
    BY <1>0, <2>1 DEF Ahead
<1>6. PageInv'
  BY <1>0, <1>4 DEF StreamInv, PageInv, TypeOK, History, Reverse
<1>7. GapInv'
  <2>1. e.user \in StreamUsers /\ Beyond(e, start[e.user]) /\ ~Reverse =>
           Beyond(e, cursor[e.user])
    BY <1>0, <1>t, StreamConstants DEF StreamInv, CursorInv, Beyond
  <2>2. e \notin atOpen
    BY <1>0, <1>t DEF StreamInv, TypeOK
  <2> QED
    BY <1>0, <2>1, <2>2 DEF StreamInv, GapInv, Matches, Beyond, Reverse, Delivered
<1>8. OrderInv'
  <2>1. \A i \in DOMAIN out : out[i].id < e.id
    BY <1>0 DEF StreamInv, StepInv
  <2> QED
    BY <1>0, <1>4, <1>5, <2>1 DEF StreamInv, OrderInv, History, Reverse, PerUser
<1>9. TailInv'
  BY <1>0, <1>4, <1>5 DEF StreamInv, TailInv, History
<1>10. DeliveredInOrder' /\ CaughtUpIsComplete'
  BY <1>0 DEF StreamInv, DeliveredInOrder, CaughtUpIsComplete, Reverse, PerUser, Matches,
              Beyond, Delivered
<1> QED
  BY <1>1, <1>2, <1>3, <1>6, <1>7, <1>8, <1>9, <1>10 DEF StreamInv

\* The broadcaster starts, or sends the next event: whatever was ahead of the
\* stream is in the channel from its position on.
LEMMA BroadcastKeepsStream ==
    ASSUME StreamInv, Start \/ BroadcastNext, UNCHANGED streamVars
    PROVE  StreamInv'
<1> USE DEF streamVars
<1>t. /\ \A f \in table : f.id \in Nat /\ f.id \in 1..MaxId
      /\ lastBroadcast \in Nat /\ pos \in Nat /\ Len(sent) \in Nat /\ DOMAIN sent = 1..Len(sent)
      /\ sent \in Seq(Events)
  BY StreamTyped DEF StreamInv, TypeOK
<1>1. FeedTyped' /\ FeedInv'
  BY FeedKeeps DEF StreamInv, TypeOK, FeedTyped, FeedNext
<1>2. table' = table /\ UNCHANGED streamVars /\ (started => started')
  BY DEF Start, BroadcastNext
<1>3. TypeOK'
  BY <1>1, <1>2 DEF StreamInv, TypeOK, FeedTyped
<1>4. \A f \in table : Ahead(f)' => Ahead(f)
  <2>1. CASE Start
    <3>1. lastBroadcast = 0 /\ sent' = sent
      BY <2>1 DEF Start, StreamInv, FeedInv
    <3> QED
      BY <1>t, <1>1, <1>2, <3>1 DEF Ahead
  <2>2. CASE BroadcastNext
    <3>1. PICK e \in table : /\ e.id > lastBroadcast /\ sent' = Append(sent, e)
                             /\ lastBroadcast' = e.id
      BY <2>2 DEF BroadcastNext, After
    <3>2. /\ DOMAIN sent' = 1..(Len(sent) + 1) /\ sent'[Len(sent) + 1] = e
          /\ \A i \in DOMAIN sent : sent'[i] = sent[i]
      BY <1>t, <3>1
    <3> QED
      BY <1>t, <1>2, <3>1, <3>2 DEF Ahead
  <2> QED
    BY <2>1, <2>2
<1>5. started => /\ pos <= Len(sent') + 1
                 /\ \A f \in table : Ahead(f) => Ahead(f)'
  <2>1. SUFFICES ASSUME BroadcastNext
                 PROVE  pos <= Len(sent') + 1 /\ \A f \in table : Ahead(f) => Ahead(f)'
    BY DEF Start
  <2>2. PICK e \in table :
           /\ e.id > lastBroadcast /\ sent' = Append(sent, e) /\ lastBroadcast' = e.id
           /\ \A f \in table : f.id > lastBroadcast => e.id <= f.id
    BY <2>1 DEF BroadcastNext, After, IsNext
  <2>3. /\ DOMAIN sent' = 1..(Len(sent) + 1) /\ sent'[Len(sent) + 1] = e
        /\ Len(sent') = Len(sent) + 1 /\ \A i \in DOMAIN sent : sent'[i] = sent[i]
        /\ pos <= Len(sent) + 1
    BY <1>t, <2>2 DEF StreamInv, StepInv
  <2>4. ASSUME NEW f \in table, Ahead(f)
        PROVE  Ahead(f)'
    <3>1. CASE f.id > lastBroadcast
      <4>1. f = e \/ f.id > e.id
        BY <1>t, <2>2, <3>1 DEF StreamInv, FeedInv
      <4> QED
        BY <1>t, <1>2, <2>2, <2>3, <4>1 DEF Ahead
    <3>2. CASE \E i \in DOMAIN sent : i >= pos /\ sent[i] = f
      BY <1>t, <1>2, <2>3, <3>2 DEF Ahead
    <3> QED
      BY <2>4, <3>1, <3>2 DEF Ahead
  <2> QED
    BY <1>t, <2>3, <2>4
<1>6. CursorInv' /\ StepInv'
  <2>1. pos <= Len(sent') + 1
    BY <1>5 DEF Start, BroadcastNext, StreamInv, StepInv
  <2> QED
    BY <1>2, <2>1 DEF StreamInv, CursorInv, StepInv, Reverse, PerUser, Limit, Live
<1>7. History' = History
  BY <1>2 DEF History, Matches, Beyond, Reverse
<1>8. PageInv'
  BY <1>2, <1>7 DEF StreamInv, PageInv, Reverse
<1>9. GapInv'
  BY <1>2 DEF StreamInv, GapInv, Matches, Beyond, Reverse, Delivered
<1>10. OrderInv'
  BY <1>2, <1>4, <1>7 DEF StreamInv, OrderInv, History, Reverse, PerUser
<1>11. TailInv'
  BY <1>2, <1>5, <1>7 DEF StreamInv, TailInv, StepInv, History
<1>12. DeliveredInOrder' /\ CaughtUpIsComplete'
  BY <1>2 DEF StreamInv, DeliveredInOrder, CaughtUpIsComplete, Reverse, PerUser, Matches,
              Beyond, Delivered
<1> QED
  BY <1>1, <1>3, <1>6, <1>8, <1>9, <1>10, <1>11, <1>12 DEF StreamInv

\* The steps that neither fetch nor send.
LEMMA QuietStepKeeps ==
    ASSUME StreamInv, UNCHANGED feedVars, Open \/ GuardFails \/ Drain \/ FetchFails \/ SlowClient
    PROVE  StreamInv'
<1> USE DEF feedVars
<1>t. /\ Len(sent) \in Nat /\ DOMAIN sent = 1..Len(sent) /\ pos \in Nat /\ pos > 0
      /\ Capacity \in Nat /\ Capacity > 0
  BY StreamTyped, StreamConstants
<1>0. UNCHANGED <<query, start, cursor, page, out>>
  BY DEF Open, GuardFails, Drain, FetchFails, SlowClient
<1>1. /\ pos' \in Nat \ {0} /\ pos' <= Len(sent) + 1
      /\ spc' \in {"tail", "closed"} => pos' = pos
  BY <1>t DEF Open, GuardFails, Drain, FetchFails, SlowClient, Close, Lagging, StreamInv, StepInv
<1>2. /\ spc' \in {"drain", "fetch", "tail", "closed"}
      /\ spc' # "closed" => spc # "closed" /\ why' = why
      /\ started /\ (spc' = "tail" => Live /\ failed')
      /\ why' \in {"open", "lagged", "guard", "dberror"} /\ failed' \in BOOLEAN
      /\ spc \in {"tail", "closed"} => spc' = "closed"
      /\ failed => failed'
      /\ failed' => spc' \in {"tail", "closed"}
  <2>0. /\ failed \in BOOLEAN /\ (failed => spc \in {"tail", "closed"})
        /\ (spc # "opening" => started) /\ (spc # "closed" => why = "open")
    BY DEF StreamInv, StepInv, TypeOK
  <2>1. CASE Open \/ Drain
    BY <2>0, <2>1 DEF Open, Drain
  <2>2. CASE GuardFails \/ SlowClient
    BY <2>0, <2>2 DEF GuardFails, SlowClient, Close
  <2>3. CASE FetchFails
    BY <2>0, <2>3 DEF FetchFails, Close
  <2> QED
    BY <2>1, <2>2, <2>3
<1>3. atOpen' = atOpen \/ (atOpen' = table /\ cursor = start /\ spc' = "drain")
  BY DEF Open, GuardFails, Drain, FetchFails, SlowClient, Close, StreamInv, StepInv
<1>4. TypeOK'
  BY <1>0, <1>1, <1>2, <1>3 DEF StreamInv, TypeOK
<1>5. FeedInv' /\ CursorInv' /\ StepInv'
  BY <1>0, <1>1, <1>2 DEF StreamInv, FeedInv, CursorInv, StepInv, Reverse, PerUser, Limit, Live
<1>6. History' = History
  BY <1>0 DEF History, Matches, Beyond, Reverse
<1>7. PageInv' /\ TailInv'
  BY <1>2 DEF PageInv, TailInv
<1>8. GapInv'
  BY <1>0, <1>2, <1>3 DEF StreamInv, GapInv, Matches, Beyond, Reverse, Delivered
<1>9. OrderInv'
  <2>1. ASSUME NEW e \in History, spc' \in {"tail", "closed"} => Ahead(e)'
        PROVE  spc \in {"tail", "closed"} => Ahead(e)
    BY <1>1, <1>2, <2>1 DEF Ahead
  <2> QED
    BY <1>0, <1>6, <2>1 DEF StreamInv, OrderInv, Reverse, PerUser
<1>10. DeliveredInOrder' /\ CaughtUpIsComplete'
  BY <1>0, <1>2 DEF StreamInv, DeliveredInOrder, CaughtUpIsComplete, Reverse, PerUser
<1> QED
  BY <1>4, <1>5, <1>7, <1>8, <1>9, <1>10 DEF StreamInv

\* A query of the history.
LEMMA FetchKeeps ==
    ASSUME StreamInv, UNCHANGED feedVars, Fetch
    PROVE  StreamInv'
<1> USE DEF feedVars
<1>0. /\ page' = FirstPage(History, PageSize) /\ spc = "fetch"
      /\ UNCHANGED <<query, start, cursor, pos, out, failed, atOpen>>
      /\ \/ page' # {} /\ spc' = "replay" /\ why' = why
         \/ page' = {} /\ Live /\ spc' = "tail" /\ why' = why
         \/ page' = {} /\ ~Live /\ spc' = "closed" /\ why' = "caughtup"
  BY DEF Fetch, Close
<1>1. PageSize \in Nat /\ PageSize > 0
  <2>1. Limit # None => Limit \in Nat /\ Limit > Len(out) /\ Len(out) \in Nat
    BY <1>0, StreamTyped DEF StreamInv, StepInv, Limit, QueryType
  <2> QED
    BY <2>1, StreamConstants DEF PageSize
<1>2. /\ History \subseteq table /\ History \in SUBSET Events /\ IsFiniteSet(History)
      /\ \A e, f \in History : e.id = f.id => e = f
  <2>1. History \subseteq table
    BY DEF History
  <2> QED
    BY <2>1, FS_Subset DEF StreamInv, TypeOK, FeedInv
<1>3. /\ page' \subseteq History /\ (page' = {} => History = {})
      /\ \A e \in History \ page', p \in page' :
            IF Reverse THEN e.id < p.id ELSE p.id < e.id
  BY <1>0, <1>1, <1>2, PageFacts
<1>4. History' = History
  BY <1>0 DEF History, Matches, Beyond, Reverse
<1>5. TypeOK'
  BY <1>0, <1>2, <1>3 DEF StreamInv, TypeOK
<1>6. FeedInv' /\ CursorInv' /\ StepInv'
  BY <1>0 DEF StreamInv, FeedInv, CursorInv, StepInv, Reverse, PerUser, Limit, Live, FetchFails
<1>7. PageInv'
  BY <1>0, <1>3, <1>4 DEF PageInv, Reverse
<1>8. GapInv'
  BY <1>0 DEF StreamInv, GapInv, Matches, Beyond, Reverse, Delivered
<1>9. OrderInv' /\ TailInv'
  BY <1>0, <1>3, <1>4 DEF StreamInv, OrderInv, TailInv, Reverse, PerUser
<1>10. DeliveredInOrder'
  BY <1>0 DEF StreamInv, DeliveredInOrder, Reverse, PerUser
<1>11. CaughtUpIsComplete'
  <2>1. SUFFICES ASSUME why' = "caughtup" \/ (spc' = "tail" /\ ~failed),
                        NEW e \in atOpen, Matches(e), Beyond(e, start[e.user])
                 PROVE  Delivered(e)
    BY <1>0 DEF CaughtUpIsComplete, Matches, Beyond, Reverse, Delivered
  <2>2. page' = {} /\ History = {}
    BY <1>0, <1>3, <2>1 DEF StreamInv, StepInv
  <2>3. ~failed
    BY <1>0 DEF StreamInv, StepInv
  <2>4. Delivered(e) \/ Beyond(e, cursor[e.user])
    BY <2>1, <2>3 DEF StreamInv, GapInv, TypeOK
  <2> QED
    BY <2>1, <2>2, <2>4 DEF History, StreamInv, TypeOK
<1> QED
  BY <1>5, <1>6, <1>7, <1>8, <1>9, <1>10, <1>11 DEF StreamInv

\* Sending an event moves the cursor of its user, or the one cursor, to it.
LEMMA SendFacts ==
    ASSUME StreamInv, UNCHANGED feedVars, UNCHANGED <<query, start>>,
           NEW e \in History, Advance(e), out' = Append(out, e)
    PROVE  /\ \A u \in StreamUsers :
                 cursor'[u] = IF PerUser /\ u # e.user THEN cursor[u] ELSE e.id
           /\ cursor' \in [StreamUsers -> Nat \cup {None}]
           /\ e \in table /\ e.user \in StreamUsers /\ e.id \in Nat
           /\ Len(out') = Len(out) + 1 /\ DOMAIN out' = 1..(Len(out) + 1)
           /\ out'[Len(out) + 1] = e /\ \A i \in DOMAIN out : out'[i] = out[i]
           /\ out' \in Seq(Events)
           /\ \A f : Delivered(f)' <=> f = e \/ Delivered(f)
           /\ History' \subseteq History /\ e \notin History'
           /\ \A f \in History \ History' : IF Reverse THEN f.id >= e.id ELSE f.id <= e.id
           /\ CursorInv'
<1> USE DEF feedVars
<1>t. /\ \A f \in table : f.id \in Nat /\ f \in Events
      /\ \A u \in StreamUsers : cursor[u] \in Nat \cup {None} /\ start[u] \in Nat \cup {None}
      /\ Len(out) \in Nat /\ DOMAIN out = 1..Len(out) /\ None \notin Nat /\ out \in Seq(Events)
  BY StreamTyped DEF StreamInv, TypeOK
<1>1. /\ e \in table /\ e.user \in StreamUsers /\ e.id \in Nat /\ Beyond(e, cursor[e.user])
  BY <1>t DEF History, Matches
<1>2. cursor' = [u \in StreamUsers |-> IF PerUser /\ u # e.user THEN cursor[u] ELSE e.id]
  BY DEF Advance
<1>3. \A u \in StreamUsers : cursor'[u] = IF PerUser /\ u # e.user THEN cursor[u] ELSE e.id
  BY <1>2
<1>4. cursor' \in [StreamUsers -> Nat \cup {None}]
  BY <1>t, <1>1, <1>2
<1>5. /\ Len(out') = Len(out) + 1 /\ DOMAIN out' = 1..(Len(out) + 1) /\ out' \in Seq(Events)
      /\ out'[Len(out) + 1] = e /\ \A i \in DOMAIN out : out'[i] = out[i]
  BY <1>t, <1>1
<1>6. \A f : Delivered(f)' <=> f = e \/ Delivered(f)
  BY <1>t, <1>5 DEF Delivered
\* Where all users share the cursor, the event is beyond it whoever's it is.
<1>7. \A u \in StreamUsers : ~PerUser => Beyond(e, cursor[u])
  BY <1>1 DEF StreamInv, CursorInv
<1>8. /\ History' \subseteq History /\ e \notin History'
      /\ \A f \in History \ History' : IF Reverse THEN f.id >= e.id ELSE f.id <= e.id
  <2>1. \A f \in table : f \in History' <=> Matches(f) /\ Beyond(f, cursor'[f.user])
    BY DEF History, Matches, Beyond, Reverse
  <2>2. History' \subseteq table
    BY DEF History
  <2>3. ASSUME NEW f \in table, Matches(f), f.user \in StreamUsers,
               Beyond(f, cursor'[f.user])
        PROVE  Beyond(f, cursor[f.user]) /\ f # e
    BY <1>t, <1>1, <1>3, <1>7, <2>3 DEF Beyond
  <2>4. ASSUME NEW f \in table, f.user \in StreamUsers, Beyond(f, cursor[f.user]),
               ~Beyond(f, cursor'[f.user])
        PROVE  IF Reverse THEN f.id >= e.id ELSE f.id <= e.id
    BY <1>t, <1>1, <1>3, <2>4 DEF Beyond
  <2> QED
    BY <2>1, <2>2, <2>3, <2>4 DEF History, Matches
<1>9. CursorInv'
  <2>1. ASSUME NEW u \in StreamUsers
        PROVE  /\ cursor'[u] = start[u] \/ \E f \in table : f.id = cursor'[u]
               /\ start[u] # None =>
                     /\ cursor'[u] # None
                     /\ IF Reverse THEN cursor'[u] <= start[u] ELSE start[u] <= cursor'[u]
    <3>1. CASE PerUser /\ u # e.user
      BY <1>3, <3>1 DEF StreamInv, CursorInv
    <3>2. CASE ~(PerUser /\ u # e.user)
      <4>1. cursor'[u] = e.id /\ Beyond(e, cursor[u])
        BY <1>1, <1>3, <1>7, <3>2
      <4> QED
        BY <1>t, <1>1, <4>1 DEF StreamInv, CursorInv, Beyond
    <3> QED
      BY <3>1, <3>2
  <2> QED
    BY <1>3, <2>1 DEF CursorInv, Reverse, PerUser
<1> QED
  BY <1>1, <1>3, <1>4, <1>5, <1>6, <1>8, <1>9

\* A stream closes at its limit.
LEMMA SendEnds ==
    ASSUME NEW e, NEW next \in {"drain", "replay", "tail"}, Send(e, next),
           Len(out) \in Nat, Limit # None => Limit \in Nat
    PROVE  /\ (spc' = "closed" /\ why' = "limit") \/ (spc' = next /\ why' = why)
           /\ spc' # "closed" => (Limit # None => Len(out) + 1 < Limit)
  BY DEF Send, Close

\* A send of the first event there is to send, or in reverse of the last.
LEMMA SendKeeps ==
    ASSUME StreamInv, UNCHANGED feedVars, UNCHANGED <<query, start, failed, atOpen>>,
           NEW e \in History, NEW next \in {"drain", "replay", "tail"}, Send(e, next),
           spc \in {"replay", "tail"}, next = "tail" <=> spc = "tail",
           pos' \in Nat \ {0}, pos' <= Len(sent) + 1, page' \subseteq page,
           \A f \in History : ~failed /\ (Reverse => f \in atOpen) =>
              IF Reverse THEN f.id <= e.id ELSE e.id <= f.id,
           ~Reverse =>
              /\ spc = "tail" => Ahead(e)
              /\ \A f \in History : (spc = "tail" => Ahead(f)') =>
                    (f = e \/ e.id < f.id) /\ (spc = "tail" => Ahead(f)),
           spc' = "replay" => PageInv',
           spc' = "tail" => TailInv'
    PROVE  StreamInv'
<1> USE DEF feedVars
<1>a. Advance(e) /\ out' = Append(out, e)
  BY DEF Send
<1>s. /\ \A u \in StreamUsers :
            cursor'[u] = IF PerUser /\ u # e.user THEN cursor[u] ELSE e.id
      /\ cursor' \in [StreamUsers -> Nat \cup {None}]
      /\ e \in table /\ e.user \in StreamUsers /\ e.id \in Nat
      /\ Len(out') = Len(out) + 1 /\ DOMAIN out' = 1..(Len(out) + 1)
      /\ out'[Len(out) + 1] = e /\ \A i \in DOMAIN out : out'[i] = out[i]
      /\ out' \in Seq(Events)
      /\ \A f : Delivered(f)' <=> f = e \/ Delivered(f)
      /\ History' \subseteq History /\ e \notin History'
      /\ \A f \in History \ History' : IF Reverse THEN f.id >= e.id ELSE f.id <= e.id
      /\ CursorInv'
  BY <1>a, SendFacts
<1>t. /\ \A f \in table : f.id \in Nat /\ f \in Events
      /\ \A u \in StreamUsers : cursor[u] \in Nat \cup {None} /\ start[u] \in Nat \cup {None}
      /\ Len(out) \in Nat /\ DOMAIN out = 1..Len(out) /\ None \notin Nat
      /\ query \in QueryType
      /\ History \subseteq table
  BY StreamTyped DEF History
<1>1. /\ (spc' = "closed" /\ why' = "limit") \/ (spc' = next /\ why' = why)
      /\ spc' # "closed" => (Limit # None => Len(out) + 1 < Limit)
  <2>1. Limit # None => Limit \in Nat
    BY <1>t DEF Limit, QueryType
  <2> QED
    BY <1>t, <2>1, SendEnds
<1>2. TypeOK'
  BY <1>1, <1>s DEF StreamInv, TypeOK
<1>3. StepInv'
  <2>1. \A i \in DOMAIN out' : out'[i] \in table
    BY <1>s, <1>t DEF StreamInv, StepInv
  <2> QED
    BY <1>1, <1>s, <2>1 DEF StreamInv, StepInv, Limit, Live
<1>4. PageInv' /\ TailInv'
  BY DEF PageInv, TailInv
<1>5. GapInv'
  <2>1. SUFFICES ASSUME ~failed, NEW f \in table, Matches(f), Reverse => f \in atOpen,
                        Beyond(f, start[f.user])
                 PROVE  Delivered(f)' \/ Beyond(f, cursor'[f.user])
    BY DEF GapInv, Matches, Beyond, Reverse
  <2>2. Delivered(f) \/ Beyond(f, cursor[f.user])
    BY <2>1 DEF StreamInv, GapInv
  <2>3. CASE f \in History /\ f \notin History'
    <3>1. f.id = e.id
      BY <1>s, <1>t, <2>1, <2>3
    <3> QED
      BY <1>s, <2>1, <3>1 DEF StreamInv, FeedInv
  <2>4. CASE f \in History'
    BY <2>4 DEF History, Beyond, Reverse
  <2> QED
    BY <1>s, <2>1, <2>2, <2>3, <2>4 DEF History
\* What was sent before.
<1>6. ~Reverse => \A i \in DOMAIN out : out[i].id < e.id
  BY DEF StreamInv, OrderInv
<1>7. Reverse /\ ~PerUser => \A i \in DOMAIN out : out[i].id > e.id
  <2>1. Reverse => Beyond(e, cursor[e.user]) /\ (cursor[e.user] # None => e.id < cursor[e.user])
    BY DEF History, Beyond
  <2>2. \A i \in DOMAIN out : out[i].id \in Nat
    BY <1>t DEF StreamInv, StepInv
  <2> QED
    BY <1>s, <1>t, <2>1, <2>2 DEF StreamInv, OrderInv
<1>8. DeliveredInOrder'
  BY <1>s, <1>t, <1>6, <1>7 DEF StreamInv, DeliveredInOrder, Reverse, PerUser
<1>9. OrderInv'
  <2>1. CASE Reverse
    <3>1. ASSUME ~PerUser, NEW i \in DOMAIN out', NEW u \in StreamUsers
          PROVE  cursor'[u] # None /\ cursor'[u] <= out'[i].id
      <4>1. cursor'[u] = e.id
        BY <1>s, <3>1
      <4>2. CASE i \in DOMAIN out
        <5>1. out'[i] = out[i] /\ out[i].id > e.id /\ out[i].id \in Nat
          BY <1>s, <1>t, <1>7, <2>1, <3>1, <4>2 DEF StreamInv, StepInv
        <5> QED
          BY <1>s, <1>t, <4>1, <5>1
      <4>3. CASE i = Len(out) + 1
        BY <1>s, <1>t, <4>1, <4>3
      <4> QED
        BY <1>s, <1>t, <3>1, <4>2, <4>3
    <3> QED
      BY <2>1, <3>1 DEF OrderInv, Reverse, PerUser
  <2>2. CASE ~Reverse
    <3>1. ASSUME NEW f \in History', spc' \in {"tail", "closed"} => Ahead(f)',
                 NEW i \in DOMAIN out'
          PROVE  out'[i].id < f.id
      <4>1. f \in History /\ f # e /\ (spc = "tail" => Ahead(f)')
        BY <1>1, <1>s, <3>1
      <4>2. e.id < f.id /\ (spc = "tail" => Ahead(f))
        BY <2>2, <4>1
      <4>3. CASE i \in DOMAIN out
        BY <1>s, <2>2, <4>1, <4>2, <4>3 DEF StreamInv, OrderInv
      <4>4. CASE i = Len(out) + 1
        BY <1>s, <4>2, <4>4
      <4> QED
        BY <1>s, <1>t, <3>1, <4>3, <4>4
    <3> QED
      BY <2>2, <3>1 DEF OrderInv, Reverse
  <2> QED
    BY <2>1, <2>2
<1>10. CaughtUpIsComplete'
  BY <1>1, <1>s DEF StreamInv, StepInv, CaughtUpIsComplete, Matches, Beyond, Reverse
<1>11. FeedInv'
  BY DEF StreamInv, FeedInv
<1> QED
  BY <1>2, <1>3, <1>4, <1>5, <1>8, <1>9, <1>10, <1>11, <1>s DEF StreamInv

\* An event of the page.
LEMMA ReplayKeeps ==
    ASSUME StreamInv, UNCHANGED feedVars, Replay
    PROVE  StreamInv'
<1> USE DEF feedVars
<1>1. PICK e \in page :
         /\ \A f \in page : IF Reverse THEN f.id <= e.id ELSE e.id <= f.id
         /\ page' = page \ {e} /\ Send(e, IF page = {e} THEN "drain" ELSE "replay")
  BY DEF Replay
<1>0. spc = "replay" /\ UNCHANGED <<query, start, pos, failed, atOpen>>
  BY DEF Replay
<1>t. /\ \A f \in table : f.id \in Nat
      /\ pos \in Nat \ {0} /\ pos <= Len(sent) + 1 /\ ~failed
      /\ \A f, g \in table : f.id = g.id => f = g
  BY <1>0, StreamTyped DEF StreamInv, TypeOK, StepInv, FeedInv
<1>2. /\ page \subseteq History /\ History \subseteq table /\ e \in History
      /\ \A f \in History \ page, p \in page :
            IF Reverse THEN f \in atOpen => f.id < p.id ELSE p.id < f.id
  BY <1>0, <1>1 DEF StreamInv, PageInv, History
\* It is the first of the history, or in reverse the last.
<1>3. \A f \in History : (Reverse => f \in atOpen) =>
         IF Reverse THEN f.id <= e.id ELSE e.id <= f.id
  BY <1>1, <1>2, <1>t
<1>4. ~Reverse => \A f \in History : f = e \/ e.id < f.id
  BY <1>2, <1>3, <1>t
<1>5. PageInv'
  <2>1. /\ History' \subseteq History /\ e \notin History'
        /\ \A f \in History \ History' : IF Reverse THEN f.id >= e.id ELSE f.id <= e.id
    <3>1. Advance(e) /\ out' = Append(out, e)
      BY <1>1 DEF Send
    <3> QED
      BY <1>0, <1>2, <3>1, SendFacts
  <2>2. page' \subseteq History'
    <3>1. SUFFICES ASSUME NEW p \in page, p # e, p \notin History'
                   PROVE  FALSE
      BY <1>1
    <3>2. p.id = e.id
      BY <1>1, <1>2, <1>t, <2>1, <3>1
    <3> QED
      BY <1>2, <1>t, <3>1, <3>2
  <2> QED
    BY <1>0, <1>1, <1>2, <2>1, <2>2 DEF PageInv, Reverse
<1> DEFINE next == IF page = {e} THEN "drain" ELSE "replay"
<1>6. next \in {"drain", "replay", "tail"} /\ next # "tail" /\ Send(e, next)
  BY <1>1
<1>7. spc' # "tail"
  BY <1>6 DEF Send, Close
<1> HIDE DEF next
<1> QED
  BY <1>0, <1>1, <1>2, <1>3, <1>4, <1>5, <1>6, <1>7, <1>t, SendKeeps

\* A message of the channel: it is the first of those that are ahead.
LEMMA ReceiveKeeps ==
    ASSUME StreamInv, UNCHANGED feedVars, Receive
    PROVE  StreamInv'
<1> USE DEF feedVars
<1> DEFINE e == sent[pos]
<1>0. /\ spc = "tail" /\ pos <= Len(sent) /\ pos' = pos + 1
      /\ UNCHANGED <<query, start, page, failed, atOpen>>
  BY DEF Receive
<1>t. /\ \A f \in table : f.id \in Nat
      /\ pos \in Nat /\ pos > 0 /\ Len(sent) \in Nat /\ DOMAIN sent = 1..Len(sent)
      /\ lastBroadcast \in Nat
      /\ \A u \in StreamUsers : cursor[u] \in Nat \cup {None}
  BY StreamTyped
<1>1. /\ pos' \in Nat \ {0} /\ pos' <= Len(sent) + 1 /\ pos \in DOMAIN sent
      /\ e \in table /\ e.id \in Nat /\ e.id <= lastBroadcast
  BY <1>0, <1>t DEF StreamInv, FeedInv
<1>2. Live /\ ~Reverse
  BY <1>0 DEF StreamInv, StepInv, Live, Reverse
<1>3. AcceptsLive(e) <=> e \in History
  BY <1>1, <1>2, <1>t DEF AcceptsLive, History, Matches, Beyond
<1>4. \A f \in table : /\ Ahead(f)' => Ahead(f) /\ e.id < f.id
                       /\ Ahead(f) => f = e \/ Ahead(f)'
  <2>1. \A i \in DOMAIN sent : i > pos => e.id < sent[i].id
    BY <1>1 DEF StreamInv, FeedInv
  <2>2. \A f \in table : f.id > lastBroadcast => e.id < f.id
    BY <1>1, <1>t
  <2>3. \A i \in DOMAIN sent : (i >= pos + 1 <=> i > pos) /\ (i >= pos => i = pos \/ i > pos)
    BY <1>t
  <2>4. \A f : Ahead(f)' <=> \/ f.id > lastBroadcast
                             \/ \E i \in DOMAIN sent : i > pos /\ sent[i] = f
    BY <1>0, <2>3 DEF Ahead
  <2>5. \A f : Ahead(f) <=> \/ f.id > lastBroadcast
                            \/ \E i \in DOMAIN sent : i >= pos /\ sent[i] = f
    BY DEF Ahead
  <2>6. \A i \in DOMAIN sent : i > pos => i >= pos
    BY <1>t
  <2>7. \A f \in table : Ahead(f)' => Ahead(f) /\ e.id < f.id
    BY <2>1, <2>2, <2>4, <2>5, <2>6
  <2>8. \A f \in table : Ahead(f) => f = e \/ Ahead(f)'
    BY <2>3, <2>4, <2>5
  <2> QED
    BY <2>7, <2>8
<1>5. Ahead(e)
  BY <1>1, <1>t DEF Ahead
<1>6. CASE AcceptsLive(e)
  <2>1. e \in History /\ Send(e, "tail")
    BY <1>3, <1>6 DEF Receive
  <2>2. History \subseteq table
    BY DEF History
  <2>3. \A f \in History : ~failed => e.id <= f.id
    <3>1. ASSUME NEW f \in History, ~failed
          PROVE  e.id <= f.id
      <4>1. Ahead(f)
        BY <1>0, <3>1 DEF StreamInv, TailInv
      <4>2. f = e \/ e.id < f.id
        BY <1>4, <2>2, <4>1
      <4> QED
        BY <1>1, <1>t, <2>2, <4>2
    <3> QED
      BY <3>1
  <2>4. TailInv'
    <3>1. History' \subseteq History /\ e \notin History'
      <4>1. Advance(e) /\ out' = Append(out, e)
        BY <2>1 DEF Send
      <4> HIDE DEF e
      <4> QED
        BY <1>0, <2>1, <4>1, SendFacts
    <3>2. ASSUME ~failed, NEW f \in History'
          PROVE  Ahead(f)'
      BY <1>0, <1>4, <2>2, <3>1, <3>2 DEF StreamInv, TailInv
    <3> QED
      BY <1>0, <3>2 DEF TailInv
  <2>5. \A f \in History : Ahead(f)' => (f = e \/ e.id < f.id) /\ Ahead(f)
    BY <1>4, <2>2
  <2>6. spc' # "replay"
    BY <2>1 DEF Send, Close
  <2> HIDE DEF e
  <2> QED
    BY <1>0, <1>1, <1>2, <1>5, <2>1, <2>3, <2>4, <2>5, <2>6, SendKeeps
<1>7. CASE ~AcceptsLive(e)
  <2>1. e \notin History /\ UNCHANGED <<spc, cursor, out, why>>
    BY <1>3, <1>7 DEF Receive
  <2>2. History' = History /\ History \subseteq table
    BY <1>0, <2>1 DEF History, Matches, Beyond, Reverse
  <2>3. TypeOK' /\ FeedInv' /\ CursorInv' /\ StepInv'
    BY <1>0, <1>1, <2>1 DEF StreamInv, TypeOK, FeedInv, CursorInv, StepInv, Reverse, PerUser,
                            Limit, Live
  <2>4. PageInv' /\ GapInv' /\ DeliveredInOrder' /\ CaughtUpIsComplete'
    BY <1>0, <2>1 DEF StreamInv, PageInv, GapInv, DeliveredInOrder, CaughtUpIsComplete, Reverse,
                      PerUser, Matches, Beyond, Delivered
  <2>5. OrderInv'
    BY <1>0, <1>2, <1>4, <2>1, <2>2 DEF StreamInv, OrderInv, Reverse
  <2>6. TailInv'
    BY <1>0, <1>4, <2>1, <2>2 DEF StreamInv, TailInv
  <2> QED
    BY <2>3, <2>4, <2>5, <2>6 DEF StreamInv
<1> QED
  BY <1>6, <1>7

\* A stream delivers each event once, in the order of their ids, without a gap
\* unless a query of its history failed, and what was there when it was opened
\* before it says that it has caught up or tails the channel.
THEOREM StreamsDeliver == Spec => []StreamDelivers
<1>1. Init => StreamInv
  <2> SUFFICES ASSUME Init
               PROVE  StreamInv
    OBVIOUS
  <2> USE DEF Init, FeedInit
  <2>1. TypeOK
    <3>1. start \in [StreamUsers -> Nat \cup {None}]
      BY StreamConstants
    <3>2. 0 \in 0..MaxId /\ <<>> \in Seq(Events) /\ 1 \in Nat \ {0}
      BY StreamConstants
    <3> QED
      BY <3>1, <3>2, Zenon DEF TypeOK
  <2>2. FeedInv
    BY FS_EmptySet DEF FeedInv
  <2>3. CursorInv
    <3>1. \A u \in StreamUsers : start[u] \in Nat \cup {None}
      BY <2>1 DEF TypeOK
    <3> QED
      BY <3>1, StreamConstants DEF CursorInv, PerUser
  <2>4. StepInv
    <3>1. query \in QueryType
      BY StreamConstants
    <3> QED
      BY <3>1, StreamConstants DEF StepInv, Limit, QueryType
  <2>5. /\ PageInv /\ GapInv /\ OrderInv /\ TailInv /\ DeliveredInOrder /\ CaughtUpIsComplete
    BY DEF PageInv, GapInv, OrderInv, TailInv, DeliveredInOrder, CaughtUpIsComplete, History
  <2> QED
    BY <2>1, <2>2, <2>3, <2>4, <2>5 DEF StreamInv
<1>2. StreamInv /\ [Next]_vars => StreamInv'
  <2> SUFFICES ASSUME StreamInv, [Next]_vars
               PROVE  StreamInv'
    OBVIOUS
  <2>1. CASE FeedNext /\ UNCHANGED streamVars
    BY <2>1, CommitKeepsStream, BroadcastKeepsStream DEF FeedNext
  <2>2. CASE StreamStep /\ UNCHANGED feedVars
    BY <2>2, QuietStepKeeps, FetchKeeps, ReplayKeeps, ReceiveKeeps DEF StreamStep
  <2>3. CASE UNCHANGED vars
    BY <2>3 DEF vars, feedVars, streamVars, StreamInv, TypeOK, FeedInv, CursorInv, StepInv, PageInv,
                GapInv, OrderInv, TailInv, DeliveredInOrder, CaughtUpIsComplete, Delivered,
                History, Matches, Beyond, Reverse, PerUser, Limit, Live, Ahead
  <2> QED
    BY <2>1, <2>2, <2>3 DEF Next
<1>3. StreamInv => StreamDelivers
  <2> SUFFICES ASSUME StreamInv
               PROVE  StreamDelivers
    OBVIOUS
  <2>1. GapNeedsFailedQuery
    BY DEF StreamInv, GapInv, GapNeedsFailedQuery, StreamHasNoGaps, Passed
  <2> QED
    BY <2>1 DEF StreamInv, StreamDelivers
<1> QED
  BY <1>1, <1>2, <1>3, PTL DEF Spec
=============================================================================
