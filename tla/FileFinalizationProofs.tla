----------------------- MODULE FileFinalizationProofs -----------------------
(***************************************************************************)
(* Proofs about FileFinalization, for any requests, paths, tokens, lengths *)
(* and limits, and about EventBroadcast, which carries the events that the *)
(* writes leave, for any writers, batch sizes and batch caps: nothing is   *)
(* skipped, and EventFeed is implemented.                                  *)
(***************************************************************************)
EXTENDS FileFinalization, EventBroadcast, SumTheorems, FiniteSetTheorems, TLAPS

-----------------------------------------------------------------------------
(* Type correctness *)

\* What a request asks for, as far as the types matter.
LEMMA JobFacts ==
    ASSUME TypeOK, NEW o \in Ops
    PROVE  /\ PathOf(o) \in Paths
           /\ job[o].len \in Lengths
           /\ job[o].len \in Nat
<1>1. job[o] \in JobType
  BY ConstantsAssumption DEF TypeOK
<1> QED
  BY <1>1, ConstantsAssumption DEF JobType, PathOf

\* The account of a request's delta is an integer, whatever row is there.
LEMMA BytesDeltaType ==
    ASSUME TypeOK, NEW n \in Lengths, NEW e \in Ops \cup {None}
    PROVE  BytesDelta(n, e) \in Int
<1>1. n \in Nat /\ MetadataSize \in Nat
  BY ConstantsAssumption
<1>2. ASSUME e # None PROVE job[e].len \in Nat
  BY <1>2, JobFacts
<1> QED
  BY <1>1, <1>2 DEF BytesDelta

\* Ending a request keeps the types of what it changes.
LEMMA FinishType ==
    ASSUME TypeOK, NEW o \in Ops, NEW r \in Replies, Finish(o, r)
    PROVE  /\ pc' \in [Ops -> Steps]
           /\ reply' \in [Ops -> Replies]
           /\ open' \in SUBSET Ops
BY DEF TypeOK, Finish, Steps

\* Moving a request to another step keeps the type of pc.
LEMMA GotoType ==
    ASSUME TypeOK, NEW o \in Ops, NEW s \in Steps, Goto(o, s)
    PROVE  pc' \in [Ops -> Steps]
BY DEF TypeOK, Goto

\* Every state of the file finalization is well typed: the accounting never
\* leaves the naturals (used_bytes is a u64) and every generation is a number.
THEOREM TypeCorrect == Spec => []TypeOK
<1>1. Init => TypeOK
  BY ConstantsAssumption
     DEF Init, TypeOK, PrepType, BlobType, NoLock, Absent, NoPrep, Steps, Replies
<1>2. TypeOK /\ [Next]_vars => TypeOK'
  <2> SUFFICES ASSUME TypeOK, [Next]_vars PROVE TypeOK'
    OBVIOUS
  <2> USE DEF dbVars, lockVars, storeVars, reqVars
  <2>1. ASSUME NEW o \in Ops, CheckLock(o) PROVE TypeOK'
    BY <2>1, FinishType, GotoType DEF CheckLock, TypeOK, Steps, Replies
  <2>2. ASSUME NEW o \in Ops, Upload(o) PROVE TypeOK'
    BY <2>2, FinishType, GotoType DEF Upload, TypeOK, Steps, Replies
  <2>3. ASSUME NEW o \in Ops, CheckExists(o) PROVE TypeOK'
    BY <2>3, FinishType, GotoType DEF CheckExists, TypeOK, Steps, Replies
  <2>4. ASSUME NEW o \in Ops, Disconnect(o) PROVE TypeOK'
    BY <2>4, FinishType DEF Disconnect, TypeOK, Replies
  <2>5. ASSUME NEW o \in Ops, TakeUserRow(o) PROVE TypeOK'
    BY <2>5, GotoType DEF TakeUserRow, TypeOK, Steps
  <2>6. ASSUME NEW o \in Ops, StatementFails(o) PROVE TypeOK'
    BY <2>6, FinishType DEF StatementFails, TypeOK, Replies
  <2>7. ASSUME NEW o \in Ops, LockLost(o) PROVE TypeOK'
    BY <2>7, FinishType DEF LockLost, TypeOK, Replies
  <2>8. ASSUME NEW o \in Ops, PrepareWrite(o) PROVE TypeOK'
    <3>1. BytesDelta(job[o].len, entry[PathOf(o)]) \in Int
      BY BytesDeltaType, JobFacts DEF TypeOK
    <3>2. pc' \in [Ops -> Steps] /\ reply' \in [Ops -> Replies] /\ open' \in SUBSET Ops
      BY <2>8, FinishType, GotoType DEF PrepareWrite, Steps, Replies, TypeOK
    <3>3. prep' \in [Ops -> PrepType]
      <4>1. [entry |-> entry[PathOf(o)], used |-> used,
             delta |-> BytesDelta(job[o].len, entry[PathOf(o)])] \in PrepType
        BY <3>1, JobFacts DEF TypeOK, PrepType
      <4> QED
        BY <2>8, <4>1 DEF PrepareWrite, TypeOK
    <3> QED
      BY <2>8, <3>2, <3>3 DEF PrepareWrite, TypeOK
  <2>9. ASSUME NEW o \in Ops, ReadGeneration(o) PROVE TypeOK'
    <3>1. pc' \in [Ops -> Steps] /\ reply' \in [Ops -> Replies] /\ open' \in SUBSET Ops
      BY <2>9, FinishType, GotoType DEF ReadGeneration, Steps, Replies, TypeOK
    <3>2. expected' \in [Ops -> Nat]
      BY <2>9, JobFacts DEF ReadGeneration, TypeOK, BlobType
    <3> QED
      BY <2>9, <3>1, <3>2 DEF ReadGeneration, TypeOK
  <2>10. ASSUME NEW o \in Ops, ProveAlive(o) PROVE TypeOK'
    BY <2>10, FinishType, GotoType DEF ProveAlive, TypeOK, Steps, Replies
  <2>11. ASSUME NEW o \in Ops, SendToStore(o) PROVE TypeOK'
    BY <2>11, FinishType, GotoType DEF SendToStore, TypeOK, Steps, Replies
  <2>12. ASSUME NEW o \in Ops, Execute(o) PROVE TypeOK'
    <3>1. PathOf(o) \in Paths
      BY JobFacts
    <3>2. blob' \in [Paths -> BlobType]
      <4>1. Absent \in BlobType /\ [by |-> o, gen |-> lastGen + 1] \in BlobType
        BY DEF Absent, BlobType, TypeOK
      <4> QED
        BY <2>12, <3>1, <4>1 DEF Execute, TypeOK
    <3>3. lastGen' \in Nat
      BY <2>12 DEF Execute, TypeOK
    <3>4. answer' \in [Ops -> {"none", "done", "conflict", "error"}]
      BY <2>12 DEF Execute, TypeOK
    <3>5. UNCHANGED <<entry, used, quota, events, lock, issued, open, job, pc,
                      prep, expected, reply>> /\ inflight' \in SUBSET Ops
      BY <2>12 DEF Execute, TypeOK
    <3> QED
      BY <3>2, <3>3, <3>4, <3>5 DEF TypeOK
  <2>13. ASSUME NEW o \in Ops, NeverExecutes(o) PROVE TypeOK'
    BY <2>13 DEF NeverExecutes, TypeOK
  <2>14. ASSUME NEW o \in Ops, ReceiveAnswer(o) PROVE TypeOK'
    BY <2>14, FinishType, GotoType DEF ReceiveAnswer, TypeOK, Steps, Replies
  <2>15. ASSUME NEW o \in Ops, GiveUp(o) PROVE TypeOK'
    BY <2>15, FinishType DEF GiveUp, TypeOK, Replies
  <2>16. ASSUME NEW o \in Ops, CommitWrite(o) PROVE TypeOK'
    <3>1. pc' \in [Ops -> Steps] /\ reply' \in [Ops -> Replies] /\ open' \in SUBSET Ops
      BY <2>16, FinishType DEF CommitWrite, Replies
    <3>2. used' \in Nat
      BY <2>16 DEF CommitWrite, TypeOK, PrepType, SaturatingAdd
    <3>3. /\ entry' \in [Paths -> Ops \cup {None}]
          /\ events' \in Seq([type : {"PUT", "DEL"}, path : Paths, by : Ops])
      BY <2>16, JobFacts DEF CommitWrite, TypeOK
    <3> QED
      BY <2>16, <3>1, <3>2, <3>3 DEF CommitWrite, TypeOK
  <2>17. ASSUME NEW o \in Ops, StageDelete(o) PROVE TypeOK'
    <3>1. pc' \in [Ops -> Steps]
      BY <2>17, GotoType DEF StageDelete, Steps
    <3>2. prep' \in [Ops -> PrepType]
      <4>1. PathOf(o) \in Paths /\ MetadataSize \in Nat
        BY JobFacts, ConstantsAssumption
      <4>2. CASE entry[PathOf(o)] = None
        BY <4>2, <2>17 DEF StageDelete, TypeOK
      <4>3. CASE entry[PathOf(o)] # None
        <5>1. entry[PathOf(o)] \in Ops
          BY <4>1, <4>3 DEF TypeOK
        <5>2. job[entry[PathOf(o)]].len \in Nat
          BY <5>1, JobFacts
        <5>3. [entry |-> entry[PathOf(o)], used |-> used,
               delta |-> job[entry[PathOf(o)]].len + MetadataSize] \in PrepType
          BY <4>1, <5>1, <5>2 DEF PrepType, TypeOK
        <5> QED
          BY <4>3, <5>3, <2>17 DEF StageDelete, TypeOK
      <4> QED
        BY <4>2, <4>3
    <3> QED
      BY <2>17, <3>1, <3>2 DEF StageDelete, TypeOK
  <2>18. ASSUME NEW o \in Ops, CommitDelete(o) PROVE TypeOK'
    <3>1. pc' \in [Ops -> Steps] /\ reply' \in [Ops -> Replies] /\ open' \in SUBSET Ops
      BY <2>18, FinishType, GotoType DEF CommitDelete, Replies, Steps, TypeOK
    <3>2. prep[o].used \in Nat /\ prep[o].delta \in Int
      BY DEF TypeOK, PrepType
    <3>3. used' \in Int /\ (used' = 0 \/ used' >= 0)
      BY <2>18, <3>2 DEF CommitDelete, SaturatingSub
    <3>4. /\ entry' \in [Paths -> Ops \cup {None}]
          /\ events' \in Seq([type : {"PUT", "DEL"}, path : Paths, by : Ops])
      BY <2>18, JobFacts DEF CommitDelete, TypeOK
    <3> QED
      BY <2>18, <3>1, <3>3, <3>4 DEF CommitDelete, TypeOK
  <2>19. ASSUME NEW o \in Ops, RecheckRow(o) PROVE TypeOK'
    BY <2>19, FinishType, GotoType DEF RecheckRow, TypeOK, Steps, Replies
  <2>20. ASSUME NEW o \in Ops, TransactionDies(o) PROVE TypeOK'
    BY <2>20 DEF TransactionDies, TypeOK
  <2>21. ASSUME NEW o \in Ops, Crash(o) PROVE TypeOK'
    BY <2>21, FinishType DEF Crash, TypeOK, Replies
  <2>22. ASSUME NEW p \in Paths, NEW t \in Tokens, Lock(p, t) PROVE TypeOK'
    BY <2>22 DEF Lock, TypeOK, NoLock
  <2>23. ASSUME NEW p \in Paths, NEW t \in Tokens, Unlock(p, t) PROVE TypeOK'
    BY <2>23 DEF Unlock, TypeOK, NoLock
  <2>24. ASSUME NEW p \in Paths, Expire(p) PROVE TypeOK'
    BY <2>24 DEF Expire, TypeOK
  <2>25. ASSUME NEW q \in Quotas, PatchQuota(q) PROVE TypeOK'
    BY <2>25 DEF PatchQuota, TypeOK
  <2>26. CASE UNCHANGED vars
    BY <2>26 DEF vars, TypeOK
  <2> QED
    BY <2>1, <2>2, <2>3, <2>4, <2>5, <2>6, <2>7, <2>8, <2>9, <2>10, <2>11,
       <2>12, <2>13, <2>14, <2>15, <2>16, <2>17, <2>18, <2>19, <2>20, <2>21,
       <2>22, <2>23, <2>24, <2>25, <2>26 DEF Next, FinalizationStep
<1> QED
  BY <1>1, <1>2, PTL DEF Spec

-----------------------------------------------------------------------------
(* Stale requests: RowHasBlob, StoreChangesOnlyPreparedFile and            *)
(* CommittedRowHasItsBlob on an object store                               *)

\* A step that leaves the rows, the blobs and what is pending alone, opens no
\* transaction, and moves requests only to their end or between the steps
\* before a generation is read.
QuietStep ==
    /\ UNCHANGED <<entry, blob, lastGen, inflight, job, prep, expected, answer>>
    /\ open' \subseteq open
    /\ \A x \in Ops :
          \/ pc'[x] = pc[x]
          \/ pc'[x] = "done"
          \/ /\ pc[x] \notin {"sent", "commit", "done"}
             /\ pc'[x] \in {"upload", "exists", "close", "clear"}

\* A quiet step keeps the invariant.
LEMMA QuietStepKeepsInv ==
    ASSUME PublishInv, RowHasBlob, TypeOK, TypeOK', QuietStep
    PROVE  PublishInv' /\ RowHasBlob'
<1> USE DEF QuietStep, PublishInv
<1>1. OneRowHolder'
  BY DEF OneRowHolder
<1>2. RowUnchanged'
  BY DEF RowUnchanged, IsPut, PathOf, PreparedAgainst, TypeOK
<1>3. SentOnce'
  BY DEF SentOnce, IsPut, TypeOK
<1>4. GenerationsBounded'
  BY DEF GenerationsBounded, Absent
<1>5. PendingGuarded'
  BY DEF PendingGuarded, Pending, PathOf, PreparedAgainst, IsPut, TypeOK
<1>6. PublishedStays'
  <2>1. \A x \in Ops : PathOf(x)' = PathOf(x) /\ (Pending(x)' => Pending(x))
    BY DEF Pending, PathOf
  <2>2. \A x \in Ops : Published(x)' => Published(x)
    BY DEF Published, IsPut
  <2>3. open' \subseteq Ops /\ open' \subseteq open
    BY DEF TypeOK
  <2> QED
    BY <2>1, <2>2, <2>3 DEF PublishedStays
<1>7. RowHasBlob'
  BY DEF RowHasBlob, Absent
<1> QED
  BY <1>1, <1>2, <1>3, <1>4, <1>5, <1>6, <1>7

\* The steps of a request that are always quiet.
LEMMA QuietSteps ==
    ASSUME TypeOK, NEW o \in Ops,
           \/ CheckLock(o) \/ Upload(o) \/ CheckExists(o) \/ Disconnect(o)
           \/ StatementFails(o) \/ LockLost(o) \/ GiveUp(o)
           \/ TransactionDies(o) \/ Crash(o)
    PROVE  QuietStep
<1> USE DEF TypeOK, QuietStep, Finish, Goto, dbVars, storeVars, reqVars
<1>1. ASSUME CheckLock(o) PROVE QuietStep
  BY <1>1 DEF CheckLock
<1>2. ASSUME Upload(o) PROVE QuietStep
  BY <1>2 DEF Upload
<1>3. ASSUME CheckExists(o) PROVE QuietStep
  BY <1>3 DEF CheckExists
<1>4. ASSUME Disconnect(o) PROVE QuietStep
  BY <1>4 DEF Disconnect
<1>5. ASSUME StatementFails(o) PROVE QuietStep
  BY <1>5 DEF StatementFails
<1>6. ASSUME LockLost(o) PROVE QuietStep
  BY <1>6 DEF LockLost
<1>7. ASSUME GiveUp(o) PROVE QuietStep
  BY <1>7 DEF GiveUp
<1>8. ASSUME TransactionDies(o) PROVE QuietStep
  BY <1>8 DEF TransactionDies
<1>9. ASSUME Crash(o) PROVE QuietStep
  BY <1>9 DEF Crash
<1> QED
  BY <1>1, <1>2, <1>3, <1>4, <1>5, <1>6, <1>7, <1>8, <1>9

\* The user row is taken: the transaction is alone, and at a step where it has
\* neither loaded a row nor sent anything.
LEMMA TakeUserRowKeepsInv ==
    ASSUME PublishInv, RowHasBlob, TypeOK, NEW o \in Ops, TakeUserRow(o)
    PROVE  PublishInv' /\ RowHasBlob'
<1> USE DEF PublishInv, TakeUserRow, UserRowFree, Goto, dbVars, storeVars, reqVars, TypeOK
<1>1. OneRowHolder'
  BY DEF OneRowHolder
<1>2. RowUnchanged'
  BY DEF RowUnchanged
<1>3. SentOnce'
  BY DEF SentOnce, IsPut
<1>4. GenerationsBounded'
  BY DEF GenerationsBounded, Absent
<1>5. PendingGuarded'
  BY DEF PendingGuarded, Pending, PathOf, PreparedAgainst, IsPut
<1>6. PublishedStays'
  BY DEF PublishedStays, Published
<1>7. RowHasBlob'
  BY DEF RowHasBlob, Absent
<1> QED
  BY <1>1, <1>2, <1>3, <1>4, <1>5, <1>6, <1>7

\* A step of one request that changes what it knows (prep, expected) or where it
\* is, before anything is pending, and no row or blob.
LocalStep(o) ==
    /\ UNCHANGED <<entry, blob, lastGen, inflight, job, answer, open>>
    /\ pc[o] \notin {"publish", "sent", "done"}
    /\ \A x \in Ops \ {o} : /\ pc'[x] = pc[x]
                             /\ prep'[x] = prep[x]
                             /\ expected'[x] = expected[x]

\* A local step keeps the invariant, if what the request now knows is right.
LEMMA LocalStepKeepsInv ==
    ASSUME PublishInv, RowHasBlob, TypeOK, TypeOK', NEW o \in Ops, LocalStep(o),
           answer[o] = "none",
           pc'[o] \notin {"publish", "sent"},
           IsPut(o) => pc'[o] # "commit",
           o \in open /\ pc'[o] \in {"stat", "prove"}
              => entry[PathOf(o)] = PreparedAgainst(o)',
           expected'[o] <= lastGen
    PROVE  PublishInv' /\ RowHasBlob'
<1> USE DEF PublishInv, LocalStep
<1>0. /\ o \notin inflight
      /\ open \subseteq Ops /\ inflight \subseteq Ops
      /\ \A x \in Ops : PathOf(x)' = PathOf(x) /\ IsPut(x)' = IsPut(x)
      /\ \A x \in Ops \ {o} : PreparedAgainst(x)' = PreparedAgainst(x)
      /\ \A x \in Ops : Pending(x)' => x # o /\ Pending(x)
      /\ \A x \in Ops : Published(x)' => x # o /\ Published(x)
  BY DEF SentOnce, TypeOK, PathOf, IsPut, PreparedAgainst, Pending, Published
<1>1. OneRowHolder'
  BY DEF OneRowHolder
<1>2. RowUnchanged'
  BY <1>0 DEF RowUnchanged
<1>3. SentOnce'
  BY <1>0 DEF SentOnce
<1>4. GenerationsBounded'
  BY DEF GenerationsBounded, Absent
<1>5. PendingGuarded'
  <2>1. \A x \in Ops : Pending(x)' => expected'[x] = expected[x]
    BY <1>0
  <2> QED
    BY <1>0, <2>1 DEF PendingGuarded
<1>6. PublishedStays'
  <2>1. \A x \in Ops : Pending(x)' => expected'[x] = expected[x]
    BY <1>0
  <2> QED
    BY <1>0, <2>1 DEF PublishedStays
<1>7. RowHasBlob'
  BY DEF RowHasBlob, Absent
<1> QED
  BY <1>1, <1>2, <1>3, <1>4, <1>5, <1>6, <1>7

\* The transaction is proven alive after the generation was read: the row it
\* loaded is still there, so the request may become pending.
LEMMA ProveAliveKeepsInv ==
    ASSUME PublishInv, RowHasBlob, TypeOK, TypeOK', NEW o \in Ops, ProveAlive(o)
    PROVE  PublishInv' /\ RowHasBlob'
<1> USE DEF PublishInv, dbVars, storeVars, reqVars
<1>1. CASE ~IsPut(o) /\ expected[o] = 0
  <2>1. QuietStep
    BY <1>1 DEF ProveAlive, QuietStep, Finish, TypeOK
  <2> QED
    BY <2>1, QuietStepKeepsInv
<1>2. CASE IsPut(o) \/ expected[o] # 0
  <2>0. /\ UNCHANGED <<entry, blob, lastGen, inflight, job, prep, expected, answer, open>>
        /\ pc[o] = "prove" /\ o \in open
        /\ pc' = [pc EXCEPT ![o] = "publish"]
    BY <1>2 DEF ProveAlive, TransactionAlive, Goto
  <2>1. /\ o \notin inflight /\ answer[o] = "none"
        /\ open \subseteq Ops
        /\ \A x \in Ops : /\ PathOf(x)' = PathOf(x) /\ IsPut(x)' = IsPut(x)
                          /\ PreparedAgainst(x)' = PreparedAgainst(x)
                          /\ pc'[x] = IF x = o THEN "publish" ELSE pc[x]
                          /\ Pending(x)' <=> (x = o \/ Pending(x))
    BY <2>0 DEF SentOnce, TypeOK, PathOf, IsPut, PreparedAgainst, Pending
  <2>2. \A x \in Ops : Published(x)' => Published(x) /\ x # o
    BY <2>0, <2>1 DEF Published
  <2>3. RowUnchanged' /\ entry[PathOf(o)] = PreparedAgainst(o)
    BY <2>0, <2>1 DEF RowUnchanged
  <2>4. SentOnce'
    BY <2>0, <2>1 DEF SentOnce
  <2>5. PendingGuarded'
    BY <2>0, <2>1, <2>3 DEF PendingGuarded
  <2>6. PublishedStays'
    \* The one open transaction is o's, which has published nothing.
    BY <2>0, <2>1, <2>2 DEF PublishedStays, OneRowHolder
  <2>7. OneRowHolder' /\ GenerationsBounded' /\ RowHasBlob'
    BY <2>0 DEF OneRowHolder, GenerationsBounded, RowHasBlob, Absent
  <2> QED
    BY <2>3, <2>4, <2>5, <2>6, <2>7
<1> QED
  BY <1>1, <1>2 DEF TypeOK

\* Sending a pending request leaves it pending.
LEMMA SendKeepsInv ==
    ASSUME PublishInv, RowHasBlob, TypeOK, TypeOK', NEW o \in Ops, SendToStore(o)
    PROVE  PublishInv' /\ RowHasBlob'
<1> USE DEF PublishInv, dbVars, storeVars, reqVars
<1>1. CASE QuietStep
  BY <1>1, QuietStepKeepsInv
<1>2. CASE ~QuietStep
  <2>0. /\ UNCHANGED <<entry, blob, lastGen, job, prep, expected, answer, open>>
        /\ pc[o] = "publish"
        /\ inflight' = inflight \cup {o}
        /\ pc' = [pc EXCEPT ![o] = "sent"]
    BY <1>2 DEF SendToStore, Goto, Finish, QuietStep, TypeOK
  <2>1. /\ answer[o] = "none" /\ open \subseteq Ops
        /\ \A x \in Ops : /\ PathOf(x)' = PathOf(x) /\ IsPut(x)' = IsPut(x)
                          /\ PreparedAgainst(x)' = PreparedAgainst(x)
                          /\ pc'[x] = IF x = o THEN "sent" ELSE pc[x]
                          /\ Pending(x)' <=> Pending(x)
    BY <2>0 DEF SentOnce, TypeOK, PathOf, IsPut, PreparedAgainst, Pending
  <2>2. \A x \in Ops : Published(x)' => Published(x)
    BY <2>0, <2>1 DEF Published
  <2>3. RowUnchanged'
    BY <2>0, <2>1 DEF RowUnchanged
  <2>4. SentOnce'
    BY <2>0, <2>1 DEF SentOnce
  <2>5. PendingGuarded' /\ PublishedStays'
    BY <2>0, <2>1, <2>2 DEF PendingGuarded, PublishedStays
  <2>6. OneRowHolder' /\ GenerationsBounded' /\ RowHasBlob'
    BY <2>0 DEF OneRowHolder, GenerationsBounded, RowHasBlob, Absent
  <2> QED
    BY <2>3, <2>4, <2>5, <2>6
<1> QED
  BY <1>1, <1>2

\* The store executes a pending request under its condition.  A publish gets a
\* generation nobody expects; a removal finds a path without a row.
LEMMA ExecuteKeepsInv ==
    ASSUME Staged = TRUE, PublishInv, RowHasBlob, TypeOK, TypeOK', NEW o \in Ops, Execute(o)
    PROVE  PublishInv' /\ RowHasBlob'
<1> USE DEF PublishInv, dbVars
<1>0. /\ UNCHANGED <<entry, job, pc, prep, expected, open>>
      /\ o \in inflight /\ inflight' = inflight \ {o}
      /\ PathOf(o) \in Paths
      /\ open \subseteq Ops /\ inflight \subseteq Ops
      /\ pc[o] \in {"sent", "done"} /\ answer[o] = "none"
  BY JobFacts DEF Execute, TypeOK, SentOnce
<1>1. /\ \A x \in Ops : PathOf(x)' = PathOf(x) /\ IsPut(x)' = IsPut(x)
      /\ \A x \in Ops : PreparedAgainst(x)' = PreparedAgainst(x)
      /\ \A x \in Ops : Pending(x)' => x # o /\ Pending(x)
  BY <1>0 DEF PathOf, IsPut, PreparedAgainst, Pending
<1>2. Pending(o)
  BY <1>0 DEF Pending
<1>3. OneRowHolder' /\ RowUnchanged'
  BY <1>0, <1>1 DEF OneRowHolder, RowUnchanged
<1>4. SentOnce'
  <2>1. \A x \in Ops : x # o => answer'[x] = answer[x]
    BY DEF Execute, TypeOK
  <2> QED
    BY <1>0, <1>1, <2>1 DEF SentOnce
<1>5. CASE ~ConditionHolds(o)
  <2>1. UNCHANGED <<blob, lastGen>> /\ answer' = [answer EXCEPT ![o] = "conflict"]
    BY <1>5 DEF Execute
  <2>2. \A x \in Ops : Published(x)' => Published(x)
    BY <1>0, <1>1, <2>1 DEF Published, TypeOK
  <2>3. GenerationsBounded' /\ RowHasBlob'
    BY <1>0, <2>1 DEF GenerationsBounded, RowHasBlob, Absent
  <2>4. PendingGuarded' /\ PublishedStays'
    BY <1>0, <1>1, <2>1, <2>2 DEF PendingGuarded, PublishedStays
  <2> QED
    BY <1>3, <1>4, <2>3, <2>4
<1>6. CASE ConditionHolds(o) /\ IsPut(o)
  <2>1. /\ lastGen' = lastGen + 1 /\ lastGen \in Nat
        /\ blob' = [blob EXCEPT ![PathOf(o)] = [by |-> o, gen |-> lastGen + 1]]
        /\ answer' = [answer EXCEPT ![o] = "done"]
    BY <1>6 DEF Execute, TypeOK
  <2>2. /\ blob'[PathOf(o)].gen = lastGen + 1 /\ blob'[PathOf(o)].by = o
        /\ \A q \in Paths : q # PathOf(o) => blob'[q] = blob[q]
    BY <2>1, <1>0 DEF TypeOK
  <2>3. \A x \in Ops : expected[x] \in Nat /\ expected[x] # lastGen + 1
    BY <2>1 DEF GenerationsBounded, TypeOK
  <2>4. GenerationsBounded'
    <3>1. \A q \in Paths : blob[q].gen \in Nat
      BY DEF TypeOK, BlobType
    <3> QED
      BY <1>0, <2>1, <2>2, <3>1 DEF GenerationsBounded, TypeOK, Absent
  <2>5. RowHasBlob'
    BY <1>0, <2>1, <2>2 DEF RowHasBlob, Absent
  <2>6. PendingGuarded'
    <3>1. \A x \in Ops : PathOf(x) \in Paths
      BY JobFacts
    <3> QED
      BY <1>0, <1>1, <2>2, <2>3, <3>1 DEF PendingGuarded
  <2>7. PublishedStays'
    <3> SUFFICES ASSUME NEW w \in open, Published(w)'
                 PROVE  /\ blob'[PathOf(w)].by = w
                        /\ \A x \in Ops : Pending(x)' /\ PathOf(x) = PathOf(w)
                                             => expected[x] # blob'[PathOf(w)].gen
      BY <1>0, <1>1 DEF PublishedStays
    <3>1. PathOf(w) \in Paths
      BY <1>0, JobFacts
    <3>2. CASE w = o
      BY <3>2, <2>2, <2>3
    <3>3. CASE w # o
      <4>1. Published(w)
        BY <3>3, <1>0, <1>1, <2>1 DEF Published, TypeOK
      <4>2. PathOf(w) # PathOf(o)
        BY <4>1, <1>0, <1>2, <1>6 DEF PublishedStays, ConditionHolds
      <4> QED
        BY <4>1, <4>2, <3>1, <1>1, <2>2 DEF PublishedStays
    <3> QED
      BY <3>2, <3>3
  <2> QED
    BY <1>3, <1>4, <2>4, <2>5, <2>6, <2>7
<1>7. CASE ConditionHolds(o) /\ ~IsPut(o)
  <2>1. /\ lastGen' = lastGen
        /\ blob' = [blob EXCEPT ![PathOf(o)] = Absent]
        /\ answer' = [answer EXCEPT ![o] = "done"]
    BY <1>7 DEF Execute
  <2>2. /\ blob'[PathOf(o)] = Absent
        /\ \A q \in Paths : q # PathOf(o) => blob'[q] = blob[q]
    BY <2>1, <1>0 DEF TypeOK
  <2>3. entry[PathOf(o)] = None
    BY <1>2, <1>7 DEF PendingGuarded, ConditionHolds, PreparedAgainst
  <2>4. GenerationsBounded'
    BY <1>0, <2>1, <2>2 DEF GenerationsBounded, TypeOK, Absent
  <2>5. RowHasBlob'
    BY <1>0, <2>2, <2>3 DEF RowHasBlob, Absent
  <2>6. PendingGuarded'
    <3>1. \A x \in Ops : PathOf(x) \in Paths
      BY JobFacts
    <3> QED
      BY <1>0, <1>1, <2>2, <2>3, <3>1 DEF PendingGuarded
  <2>7. PublishedStays'
    <3> SUFFICES ASSUME NEW w \in open, Published(w)'
                 PROVE  /\ blob'[PathOf(w)].by = w
                        /\ \A x \in Ops : Pending(x)' /\ PathOf(x) = PathOf(w)
                                             => expected[x] # blob'[PathOf(w)].gen
      BY <1>0, <1>1 DEF PublishedStays
    <3>1. PathOf(w) \in Paths
      BY <1>0, JobFacts
    <3>2. w # o /\ Published(w)
      BY <1>0, <1>1, <1>7, <2>1 DEF Published, TypeOK
    <3>3. PathOf(w) # PathOf(o)
      BY <3>2, <1>0, <1>2, <1>7 DEF PublishedStays, ConditionHolds
    <3> QED
      BY <3>1, <3>2, <3>3, <1>1, <2>2 DEF PublishedStays
  <2> QED
    BY <1>3, <1>4, <2>4, <2>5, <2>6, <2>7
<1> QED
  BY <1>5, <1>6, <1>7

\* A request that never executes is no longer pending.
LEMMA NeverExecutesKeepsInv ==
    ASSUME PublishInv, RowHasBlob, TypeOK, TypeOK', NEW o \in Ops, NeverExecutes(o)
    PROVE  PublishInv' /\ RowHasBlob'
<1> USE DEF PublishInv, dbVars
<1>0. /\ UNCHANGED <<entry, blob, lastGen, job, pc, prep, expected, open>>
      /\ o \in inflight /\ inflight' = inflight \ {o}
      /\ open \subseteq Ops /\ inflight \subseteq Ops
      /\ answer' = [answer EXCEPT ![o] = "error"]
      /\ pc[o] \in {"sent", "done"}
  BY DEF NeverExecutes, TypeOK, SentOnce
<1>1. /\ \A x \in Ops : PathOf(x)' = PathOf(x) /\ IsPut(x)' = IsPut(x)
      /\ \A x \in Ops : PreparedAgainst(x)' = PreparedAgainst(x)
      /\ \A x \in Ops : Pending(x)' => Pending(x)
      /\ \A x \in Ops : x # o => answer'[x] = answer[x]
      /\ answer'[o] = "error"
  BY <1>0 DEF PathOf, IsPut, PreparedAgainst, Pending, TypeOK
<1>2. \A x \in Ops : Published(x)' => Published(x)
  BY <1>0, <1>1 DEF Published
<1>3. OneRowHolder' /\ RowUnchanged'
  BY <1>0, <1>1 DEF OneRowHolder, RowUnchanged
<1>4. SentOnce'
  BY <1>0, <1>1 DEF SentOnce
<1>5. GenerationsBounded' /\ RowHasBlob'
  BY <1>0 DEF GenerationsBounded, RowHasBlob, Absent
<1>6. PendingGuarded' /\ PublishedStays'
  BY <1>0, <1>1, <1>2 DEF PendingGuarded, PublishedStays
<1> QED
  BY <1>3, <1>4, <1>5, <1>6

\* The store's answer ends the request, or moves a PUT to its commit with the
\* bytes it published still in place.
LEMMA ReceiveAnswerKeepsInv ==
    ASSUME PublishInv, RowHasBlob, TypeOK, TypeOK', NEW o \in Ops, ReceiveAnswer(o)
    PROVE  PublishInv' /\ RowHasBlob'
<1> USE DEF PublishInv, dbVars, storeVars, reqVars
<1>1. CASE QuietStep
  BY <1>1, QuietStepKeepsInv
<1>2. CASE ~QuietStep
  <2>0. /\ UNCHANGED <<entry, blob, lastGen, inflight, job, prep, expected, answer, open>>
        /\ pc[o] = "sent" /\ answer[o] = "done" /\ IsPut(o)
        /\ pc' = [pc EXCEPT ![o] = "commit"]
        /\ open \subseteq Ops /\ inflight \subseteq Ops
    BY <1>2 DEF ReceiveAnswer, Goto, Finish, QuietStep, TypeOK
  <2>1. /\ \A x \in Ops : PathOf(x)' = PathOf(x) /\ IsPut(x)' = IsPut(x)
        /\ \A x \in Ops : PreparedAgainst(x)' = PreparedAgainst(x)
        /\ \A x \in Ops : x # o => pc'[x] = pc[x]
        /\ pc'[o] = "commit"
    BY <2>0 DEF PathOf, IsPut, PreparedAgainst, TypeOK
  <2>2. /\ \A x \in Ops : Published(x)' => Published(x)
        /\ \A x \in Ops : Pending(x)' => Pending(x)
    BY <2>0, <2>1 DEF Published, Pending
  <2>3. RowUnchanged'
    BY <2>0, <2>1 DEF RowUnchanged
  <2>4. SentOnce'
    BY <2>0, <2>1 DEF SentOnce
  <2>5. PendingGuarded' /\ PublishedStays'
    BY <2>0, <2>1, <2>2 DEF PendingGuarded, PublishedStays
  <2>6. OneRowHolder' /\ GenerationsBounded' /\ RowHasBlob'
    BY <2>0 DEF OneRowHolder, GenerationsBounded, RowHasBlob, Absent
  <2> QED
    BY <2>3, <2>4, <2>5, <2>6
<1> QED
  BY <1>1, <1>2

\* A write commits the row of the bytes it published, which nothing pending can
\* replace; its transaction was the only one.
LEMMA CommitWriteKeepsInv ==
    ASSUME PublishInv, RowHasBlob, TypeOK, TypeOK', NEW o \in Ops, CommitWrite(o)
    PROVE  PublishInv' /\ RowHasBlob' /\ blob[PathOf(o)].by = o
<1> USE DEF PublishInv, storeVars, reqVars
<1>0. /\ UNCHANGED <<blob, lastGen, inflight, job, prep, expected, answer>>
      /\ entry' = [entry EXCEPT ![PathOf(o)] = o]
      /\ o \in open /\ open' = open \ {o}
      /\ pc[o] = "commit" /\ IsPut(o)
      /\ pc' = [pc EXCEPT ![o] = "done"]
      /\ open \subseteq Ops /\ inflight \subseteq Ops
      /\ PathOf(o) \in Paths
  BY JobFacts DEF CommitWrite, Finish, TypeOK
<1>1. /\ \A x \in Ops : PathOf(x)' = PathOf(x) /\ IsPut(x)' = IsPut(x)
      /\ \A x \in Ops : PreparedAgainst(x)' = PreparedAgainst(x)
      /\ \A x \in Ops : x # o => pc'[x] = pc[x]
      /\ \A x \in Ops : PathOf(x) \in Paths
      /\ pc'[o] = "done"
  BY <1>0, JobFacts DEF PathOf, IsPut, PreparedAgainst, TypeOK
<1>2. \A x \in Ops : Pending(x)' => Pending(x)
  BY <1>0, <1>1 DEF Pending
<1>3. open' = {}
  BY <1>0 DEF OneRowHolder
<1>4. /\ blob[PathOf(o)].by = o
      /\ \A x \in Ops : Pending(x) /\ PathOf(x) = PathOf(o)
                           => expected[x] # blob[PathOf(o)].gen
  BY <1>0 DEF PublishedStays, Published
<1>5. OneRowHolder' /\ RowUnchanged' /\ PublishedStays'
  BY <1>3 DEF OneRowHolder, RowUnchanged, PublishedStays
<1>6. SentOnce'
  BY <1>0, <1>1 DEF SentOnce
<1>7. GenerationsBounded'
  BY <1>0 DEF GenerationsBounded, Absent
<1>8. \A q \in Paths : q # PathOf(o) => entry'[q] = entry[q]
  BY <1>0 DEF TypeOK
<1>9. PendingGuarded'
  BY <1>0, <1>1, <1>2, <1>4, <1>8 DEF PendingGuarded
<1>10. RowHasBlob'
  <2>1. blob[PathOf(o)] # Absent
    BY <1>4, ConstantsAssumption DEF Absent
  <2> QED
    BY <1>0, <1>8, <2>1 DEF RowHasBlob, Absent
<1> QED
  BY <1>4, <1>5, <1>6, <1>7, <1>9, <1>10

\* A delete commits the removal of its row; its transaction was the only one.
LEMMA CommitDeleteKeepsInv ==
    ASSUME PublishInv, RowHasBlob, TypeOK, TypeOK', NEW o \in Ops, CommitDelete(o)
    PROVE  PublishInv' /\ RowHasBlob'
<1> USE DEF PublishInv, storeVars, reqVars
<1>0. /\ UNCHANGED <<blob, lastGen, inflight, job, prep, expected, answer>>
      /\ entry' = [entry EXCEPT ![PathOf(o)] = None]
      /\ o \in open /\ open' = open \ {o}
      /\ pc[o] = "commit" /\ ~IsPut(o)
      /\ pc' = [pc EXCEPT ![o] = "done"] \/ pc' = [pc EXCEPT ![o] = "clear"]
      /\ open \subseteq Ops /\ inflight \subseteq Ops
      /\ PathOf(o) \in Paths
  BY JobFacts DEF CommitDelete, Finish, Goto, TypeOK
<1>1. /\ \A x \in Ops : PathOf(x)' = PathOf(x) /\ IsPut(x)' = IsPut(x)
      /\ \A x \in Ops : PreparedAgainst(x)' = PreparedAgainst(x)
      /\ \A x \in Ops : x # o => pc'[x] = pc[x]
      /\ \A x \in Ops : PathOf(x) \in Paths
      /\ pc'[o] \in {"done", "clear"}
  BY <1>0, JobFacts DEF PathOf, IsPut, PreparedAgainst, TypeOK
<1>2. \A x \in Ops : Pending(x)' => Pending(x)
  BY <1>0, <1>1 DEF Pending
<1>3. open' = {}
  BY <1>0 DEF OneRowHolder
<1>5. OneRowHolder' /\ RowUnchanged' /\ PublishedStays'
  BY <1>3 DEF OneRowHolder, RowUnchanged, PublishedStays
<1>6. SentOnce'
  BY <1>0, <1>1 DEF SentOnce
<1>7. GenerationsBounded'
  BY <1>0 DEF GenerationsBounded, Absent
<1>8. /\ \A q \in Paths : q # PathOf(o) => entry'[q] = entry[q]
      /\ entry'[PathOf(o)] = None
  BY <1>0 DEF TypeOK
<1>9. PendingGuarded'
  BY <1>0, <1>1, <1>2, <1>8 DEF PendingGuarded
<1>10. RowHasBlob'
  BY <1>0, <1>8 DEF RowHasBlob, Absent
<1> QED
  BY <1>5, <1>6, <1>7, <1>9, <1>10

\* Only a DELETE comes to clear a blob: the removal is prepared against no row.
OnlyDeletesClear == \A o \in Ops : pc[o] \in {"clear", "recheck"} => ~IsPut(o)

\* The steps that lead a request to the blob of a delete.
LEMMA OnlyDeletesClearStep ==
    ASSUME TypeOK, OnlyDeletesClear, [Next]_vars
    PROVE  OnlyDeletesClear'
<1> USE DEF dbVars, lockVars, storeVars, reqVars, OnlyDeletesClear, IsPut, TypeOK
<1>1. CASE UNCHANGED vars
  BY <1>1 DEF vars
<1>2. ASSUME NEW o \in Ops, job' = job,
             \A x \in Ops \ {o} : pc'[x] = pc[x],
             pc'[o] = pc[o] \/ pc'[o] \notin {"clear", "recheck"} \/ ~IsPut(o)
      PROVE  OnlyDeletesClear'
  BY <1>2
<1>3. ASSUME NEW o \in Ops,
             \/ CheckLock(o) \/ Upload(o) \/ CheckExists(o) \/ Disconnect(o)
             \/ StatementFails(o) \/ LockLost(o)
      PROVE  OnlyDeletesClear'
  BY <1>3, <1>2 DEF CheckLock, Upload, CheckExists, Disconnect, StatementFails,
                    LockLost, Finish, Goto
<1>4. ASSUME NEW o \in Ops, GiveUp(o) \/ Crash(o) \/ TransactionDies(o) \/ SendToStore(o)
      PROVE  OnlyDeletesClear'
  BY <1>4, <1>2 DEF GiveUp, Crash, TransactionDies, SendToStore, Finish, Goto
<1>5. ASSUME NEW o \in Ops, PrepareWrite(o) PROVE OnlyDeletesClear'
  BY <1>5, <1>2 DEF PrepareWrite, Finish, Goto
<1>6. ASSUME NEW o \in Ops, ReadGeneration(o) \/ ProveAlive(o) \/ ReceiveAnswer(o)
      PROVE  OnlyDeletesClear'
  BY <1>6, <1>2 DEF ReadGeneration, ProveAlive, ReceiveAnswer, Finish, Goto
<1>7. ASSUME NEW o \in Ops, CommitWrite(o) \/ CommitDelete(o) PROVE OnlyDeletesClear'
  BY <1>7, <1>2 DEF CommitWrite, CommitDelete, Finish, Goto
<1>8. ASSUME NEW o \in Ops, StageDelete(o) \/ RecheckRow(o) \/ TakeUserRow(o)
      PROVE  OnlyDeletesClear'
  BY <1>8, <1>2 DEF StageDelete, RecheckRow, TakeUserRow, Finish, Goto
<1>9. ASSUME NEW o \in Ops, Execute(o) \/ NeverExecutes(o) PROVE OnlyDeletesClear'
  BY <1>9 DEF Execute, NeverExecutes
<1>10. ASSUME NEW p \in Paths, NEW t \in Tokens, Lock(p, t) \/ Unlock(p, t)
       PROVE  OnlyDeletesClear'
  BY <1>10 DEF Lock, Unlock
<1>11. ASSUME NEW p \in Paths, Expire(p) PROVE OnlyDeletesClear'
  BY <1>11 DEF Expire
<1>12. ASSUME NEW q \in Quotas, PatchQuota(q) PROVE OnlyDeletesClear'
  BY <1>12 DEF PatchQuota
<1> QED
  BY <1>1, <1>3, <1>4, <1>5, <1>6, <1>7, <1>8, <1>9, <1>10, <1>11, <1>12
     DEF Next, FinalizationStep

\* prepare_write: the row it loads is the row of the path.
LEMMA PrepareWriteKeepsInv ==
    ASSUME PublishInv, RowHasBlob, TypeOK, TypeOK', NEW o \in Ops, PrepareWrite(o)
    PROVE  PublishInv' /\ RowHasBlob'
<1> USE DEF dbVars, storeVars
<1>1. CASE QuietStep
  BY <1>1, QuietStepKeepsInv
<1>2. CASE ~QuietStep
  <2>1. /\ UNCHANGED <<entry, blob, lastGen, inflight, job, answer, open, expected>>
        /\ pc[o] = "prepare" /\ IsPut(o)
        /\ pc' = [pc EXCEPT ![o] = "stat"]
        /\ prep' = [prep EXCEPT ![o] =
                       [entry |-> entry[PathOf(o)], used |-> used,
                        delta |-> BytesDelta(job[o].len, entry[PathOf(o)])]]
    BY <1>2 DEF PrepareWrite, QuietStep, Finish, Goto, TypeOK
  <2>2. LocalStep(o) /\ pc'[o] = "stat"
    BY <2>1 DEF LocalStep, TypeOK
  <2>3. PreparedAgainst(o)' = entry[PathOf(o)]
    BY <2>1 DEF PreparedAgainst, IsPut, TypeOK
  <2>4. answer[o] = "none" /\ expected'[o] <= lastGen
    BY <2>1 DEF PublishInv, SentOnce, GenerationsBounded
  <2> QED
    BY <2>2, <2>3, <2>4, LocalStepKeepsInv
<1> QED
  BY <1>1, <1>2

\* stage_delete and the second look at the row: a removal that goes on is one of
\* a path without a row.
LEMMA DeleteStepsKeepInv ==
    ASSUME PublishInv, RowHasBlob, TypeOK, TypeOK', OnlyDeletesClear,
           NEW o \in Ops, StageDelete(o) \/ RecheckRow(o)
    PROVE  PublishInv' /\ RowHasBlob'
<1> USE DEF dbVars, storeVars, reqVars
<1>1. CASE QuietStep
  BY <1>1, QuietStepKeepsInv
<1>2. CASE ~QuietStep
  <2>1. /\ UNCHANGED <<entry, blob, lastGen, inflight, job, answer, open, expected>>
        /\ ~IsPut(o)
        /\ \/ pc[o] = "prepare" /\ pc' = [pc EXCEPT ![o] = "commit"]
           \/ /\ pc[o] = "recheck" /\ pc' = [pc EXCEPT ![o] = "stat"]
              /\ entry[PathOf(o)] = None
        /\ \A x \in Ops \ {o} : prep'[x] = prep[x]
    BY <1>2 DEF StageDelete, RecheckRow, RowIsBack, QuietStep, Finish, Goto, TypeOK,
                OnlyDeletesClear
  <2>2. /\ LocalStep(o)
        /\ \/ pc[o] = "prepare" /\ pc'[o] = "commit"
           \/ pc[o] = "recheck" /\ pc'[o] = "stat" /\ entry[PathOf(o)] = None
    BY <2>1 DEF LocalStep, TypeOK
  <2>3. PreparedAgainst(o)' = None
    BY <2>1 DEF PreparedAgainst, IsPut
  <2>4. answer[o] = "none" /\ expected'[o] <= lastGen
    BY <2>1, <2>2 DEF PublishInv, SentOnce, GenerationsBounded
  <2> QED
    BY <2>1, <2>2, <2>3, <2>4, LocalStepKeepsInv
<1> QED
  BY <1>1, <1>2

\* The stat: the generation read is one the store has given out.
LEMMA ReadGenerationKeepsInv ==
    ASSUME PublishInv, RowHasBlob, TypeOK, TypeOK', NEW o \in Ops, ReadGeneration(o)
    PROVE  PublishInv' /\ RowHasBlob'
<1> USE DEF dbVars, storeVars
<1>1. CASE QuietStep
  BY <1>1, QuietStepKeepsInv
<1>2. CASE ~QuietStep
  <2>1. /\ UNCHANGED <<entry, blob, lastGen, inflight, job, answer, open, prep>>
        /\ pc[o] = "stat"
        /\ pc' = [pc EXCEPT ![o] = "prove"]
        /\ expected' = [expected EXCEPT ![o] = blob[PathOf(o)].gen]
    BY <1>2 DEF ReadGeneration, QuietStep, Finish, Goto, TypeOK
  <2>2. LocalStep(o) /\ pc'[o] = "prove"
    BY <2>1 DEF LocalStep, TypeOK
  <2>3. PreparedAgainst(o)' = PreparedAgainst(o)
    BY <2>1 DEF PreparedAgainst, IsPut
  <2>4. answer[o] = "none" /\ (o \in open => entry[PathOf(o)] = PreparedAgainst(o))
    BY <2>1 DEF PublishInv, SentOnce, RowUnchanged
  <2>5. expected'[o] <= lastGen
    BY <2>1, JobFacts DEF PublishInv, GenerationsBounded, TypeOK
  <2> QED
    BY <2>2, <2>3, <2>4, <2>5, LocalStepKeepsInv
<1> QED
  BY <1>1, <1>2

\* Locks and limits are of no concern to rows and blobs.
LEMMA OtherStepsAreQuiet ==
    ASSUME TypeOK,
           \/ \E p \in Paths, t \in Tokens : Lock(p, t) \/ Unlock(p, t)
           \/ \E p \in Paths : Expire(p)
           \/ \E q \in Quotas : PatchQuota(q)
           \/ UNCHANGED vars
    PROVE  QuietStep
BY DEF Lock, Unlock, Expire, PatchQuota, vars, QuietStep, dbVars, storeVars, reqVars

\* The induction step.
LEMMA PublishStep ==
    ASSUME Staged = TRUE, PublishInv, RowHasBlob, OnlyDeletesClear, TypeOK, TypeOK', [Next]_vars
    PROVE  PublishInv' /\ RowHasBlob'
<1>1. ASSUME NEW o \in Ops,
             \/ CheckLock(o) \/ Upload(o) \/ CheckExists(o) \/ Disconnect(o)
             \/ StatementFails(o) \/ LockLost(o) \/ GiveUp(o)
             \/ TransactionDies(o) \/ Crash(o)
      PROVE  PublishInv' /\ RowHasBlob'
  BY <1>1, QuietSteps, QuietStepKeepsInv
<1>2. ASSUME NEW o \in Ops, TakeUserRow(o) PROVE PublishInv' /\ RowHasBlob'
  BY <1>2, TakeUserRowKeepsInv
<1>3. ASSUME NEW o \in Ops, PrepareWrite(o) PROVE PublishInv' /\ RowHasBlob'
  BY <1>3, PrepareWriteKeepsInv
<1>4. ASSUME NEW o \in Ops, StageDelete(o) \/ RecheckRow(o) PROVE PublishInv' /\ RowHasBlob'
  BY <1>4, DeleteStepsKeepInv
<1>5. ASSUME NEW o \in Ops, ReadGeneration(o) PROVE PublishInv' /\ RowHasBlob'
  BY <1>5, ReadGenerationKeepsInv
<1>6. ASSUME NEW o \in Ops, ProveAlive(o) PROVE PublishInv' /\ RowHasBlob'
  BY <1>6, ProveAliveKeepsInv
<1>7. ASSUME NEW o \in Ops, SendToStore(o) PROVE PublishInv' /\ RowHasBlob'
  BY <1>7, SendKeepsInv
<1>8. ASSUME NEW o \in Ops, Execute(o) PROVE PublishInv' /\ RowHasBlob'
  BY <1>8, ExecuteKeepsInv
<1>9. ASSUME NEW o \in Ops, NeverExecutes(o) PROVE PublishInv' /\ RowHasBlob'
  BY <1>9, NeverExecutesKeepsInv
<1>10. ASSUME NEW o \in Ops, ReceiveAnswer(o) PROVE PublishInv' /\ RowHasBlob'
  BY <1>10, ReceiveAnswerKeepsInv
<1>11. ASSUME NEW o \in Ops, CommitWrite(o) PROVE PublishInv' /\ RowHasBlob'
  BY <1>11, CommitWriteKeepsInv
<1>12. ASSUME NEW o \in Ops, CommitDelete(o) PROVE PublishInv' /\ RowHasBlob'
  BY <1>12, CommitDeleteKeepsInv
<1>13. ASSUME \/ \E p \in Paths, t \in Tokens : Lock(p, t) \/ Unlock(p, t)
              \/ \E p \in Paths : Expire(p)
              \/ \E q \in Quotas : PatchQuota(q)
              \/ UNCHANGED vars
       PROVE  PublishInv' /\ RowHasBlob'
  BY <1>13, OtherStepsAreQuiet, QuietStepKeepsInv
<1> QED
  BY <1>1, <1>2, <1>3, <1>4, <1>5, <1>6, <1>7, <1>8, <1>9, <1>10, <1>11, <1>12, <1>13
     DEF Next, FinalizationStep

\* On an object store under StagedPublishLayer, for any requests and paths: the
\* parts of generation_under_lock's argument hold together in every state.
THEOREM PublicationInvariant ==
    ASSUME Staged = TRUE
    PROVE  Spec => [](TypeOK /\ OnlyDeletesClear /\ PublishInv /\ RowHasBlob)
<1>1. Init => OnlyDeletesClear /\ PublishInv /\ RowHasBlob
  <2> SUFFICES ASSUME Init PROVE OnlyDeletesClear /\ PublishInv /\ RowHasBlob
    OBVIOUS
  <2>1. /\ open = {} /\ inflight = {} /\ lastGen = 0
        /\ \A o \in Ops : pc[o] = "idle" /\ answer[o] = "none" /\ expected[o] = 0
        /\ \A p \in Paths : entry[p] = None /\ blob[p] = Absent
    BY DEF Init
  <2>2. \A o \in Ops : ~Pending(o)
    BY <2>1 DEF Pending
  <2>3. GenerationsBounded
    BY <2>1 DEF GenerationsBounded, Absent
  <2>4. OneRowHolder /\ RowUnchanged /\ PublishedStays
    BY <2>1 DEF OneRowHolder, RowUnchanged, PublishedStays
  <2>5. SentOnce
    BY <2>1 DEF SentOnce
  <2>6. PendingGuarded
    BY <2>2 DEF PendingGuarded
  <2>7. OnlyDeletesClear /\ RowHasBlob
    BY <2>1 DEF OnlyDeletesClear, RowHasBlob
  <2> QED
    BY <2>3, <2>4, <2>5, <2>6, <2>7 DEF PublishInv
<1>2. /\ TypeOK /\ TypeOK' /\ OnlyDeletesClear /\ PublishInv /\ RowHasBlob /\ [Next]_vars
      => OnlyDeletesClear' /\ PublishInv' /\ RowHasBlob'
  BY PublishStep, OnlyDeletesClearStep
<1> QED
  BY <1>1, <1>2, TypeCorrect, PTL DEF Spec

\* RowHasBlob on an object store: whatever dies, is given up on or arrives late,
\* an entry row never loses its blob (finalize_delete removes the blob after the
\* row, under the user row and a generation).
THEOREM RowNeverLosesBlob == ASSUME Staged = TRUE PROVE Spec => []RowHasBlob
<1>1. TypeOK /\ OnlyDeletesClear /\ PublishInv /\ RowHasBlob => RowHasBlob
  OBVIOUS
<1> QED
  BY <1>1, PublicationInvariant, PTL

\* StoreChangesOnlyPreparedFile on an object store: a publish or removal that the
\* store executes late finds the row it was prepared against, or none
\* (persistence/files/mod.rs, staged_publish_layer.rs).
THEOREM StaleRequestsRefused ==
    ASSUME Staged = TRUE PROVE Spec => StoreChangesOnlyPreparedFile
<1>1. /\ TypeOK /\ OnlyDeletesClear /\ PublishInv /\ RowHasBlob /\ [Next]_vars
      => [\A o \in Ops : Execute(o) /\ blob' # blob
             => entry[PathOf(o)] \in {None, PreparedAgainst(o)}]_vars
  <2> SUFFICES ASSUME PublishInv, NEW o \in Ops, Execute(o), blob' # blob
               PROVE  entry[PathOf(o)] \in {None, PreparedAgainst(o)}
    OBVIOUS
  <2>1. Pending(o) /\ blob[PathOf(o)].gen = expected[o]
    BY DEF Execute, Pending, ConditionHolds
  <2> QED
    BY <2>1 DEF PublishInv, PendingGuarded
<1> QED
  BY <1>1, PublicationInvariant, PTL DEF Spec, StoreChangesOnlyPreparedFile

\* Only a PUT's commit gives a path a row, and the row is the PUT's.
LEMMA RowsComeFromCommits ==
    ASSUME TypeOK, [Next]_vars, NEW p \in Paths, entry'[p] # entry[p], entry'[p] # None
    PROVE  \E o \in Ops : CommitWrite(o) /\ PathOf(o) = p /\ entry'[p] = o
<1> USE DEF dbVars, TypeOK
<1>1. ASSUME NEW o \in Ops, CommitWrite(o)
      PROVE  PathOf(o) = p /\ entry'[p] = o
  BY <1>1 DEF CommitWrite
<1>2. ASSUME NEW o \in Ops PROVE ~CommitDelete(o)
  BY <1>2 DEF CommitDelete
<1>3. entry' # entry
  OBVIOUS
<1>4. ASSUME NEW o \in Ops
      PROVE  /\ ~CheckLock(o) /\ ~Upload(o) /\ ~CheckExists(o) /\ ~Disconnect(o)
             /\ ~TakeUserRow(o) /\ ~StatementFails(o) /\ ~LockLost(o)
             /\ ~PrepareWrite(o) /\ ~StageDelete(o) /\ ~RecheckRow(o)
             /\ ~ReadGeneration(o) /\ ~ProveAlive(o) /\ ~SendToStore(o)
             /\ ~ReceiveAnswer(o) /\ ~GiveUp(o)
             /\ ~Execute(o) /\ ~NeverExecutes(o) /\ ~TransactionDies(o) /\ ~Crash(o)
  BY <1>3 DEF CheckLock, Upload, CheckExists, Disconnect, TakeUserRow,
              StatementFails, LockLost, PrepareWrite, StageDelete, RecheckRow,
              ReadGeneration, ProveAlive, SendToStore, ReceiveAnswer, GiveUp,
              Execute, NeverExecutes, TransactionDies, Crash
<1>5. /\ \A q \in Paths, t \in Tokens : ~Lock(q, t) /\ ~Unlock(q, t)
      /\ \A q \in Paths : ~Expire(q)
      /\ \A q \in Quotas : ~PatchQuota(q)
      /\ ~UNCHANGED vars
  BY <1>3 DEF Lock, Unlock, Expire, PatchQuota, vars
<1> QED
  BY <1>1, <1>2, <1>4, <1>5 DEF Next, FinalizationStep

\* CommittedRowHasItsBlob on an object store: finalize_write commits a row only
\* while the bytes it describes are the ones at the path.
THEOREM CommitMatchesBlob ==
    ASSUME Staged = TRUE PROVE Spec => CommittedRowHasItsBlob
<1>1. /\ TypeOK /\ TypeOK' /\ OnlyDeletesClear /\ PublishInv /\ RowHasBlob /\ [Next]_vars
      => [\A p \in Paths : entry'[p] # entry[p] /\ entry'[p] # None
             => blob[p].by = entry'[p]]_vars
  <2> SUFFICES ASSUME TypeOK, TypeOK', PublishInv, RowHasBlob, [Next]_vars,
                      NEW p \in Paths, entry'[p] # entry[p], entry'[p] # None
               PROVE  blob[p].by = entry'[p]
    OBVIOUS
  <2>1. PICK o \in Ops : CommitWrite(o) /\ PathOf(o) = p /\ entry'[p] = o
    BY RowsComeFromCommits
  <2> QED
    BY <2>1, CommitWriteKeepsInv
<1> QED
  BY <1>1, PublicationInvariant, PTL DEF Spec, CommittedRowHasItsBlob

-----------------------------------------------------------------------------
(* What a finalization checked still holds when it commits:                *)
(* CommitUnderItsLock and CommitRespectsLimits, on every backend           *)

\* A PUT whose checks under the user row have passed.
Prepared(o) == IsPut(o) /\ pc[o] \in {"stat", "prove", "publish", "sent", "commit"}

\* A request that has taken its lock row FOR UPDATE.
HasLockRow(o) == job[o].token # None /\ (Prepared(o) \/ (~IsPut(o) /\ pc[o] = "commit"))

\* The lock it held is still the path's.
LockStays == \A o \in open : HasLockRow(o) => lock[PathOf(o)].token = job[o].token

\* The account is the one it read, the limit in force allows its bytes, and no
\* entry collides with its path.
ChecksStay ==
    \A o \in open : Prepared(o) =>
       /\ prep[o].used = used
       /\ ~WouldExceedLimit(used, prep[o].delta, quota)
       /\ ~CollisionRefused(o)

\* Together, with the row lock that makes them last.
CheckedInv == OneRowHolder /\ LockStays /\ ChecksStay

\* A step of a request that leaves rows, limits and locks alone and makes no
\* other request a prepared one.
PlainStep ==
    /\ UNCHANGED <<entry, used, quota, lock, job, prep>>
    /\ open' \subseteq open
    /\ \A x \in open' : /\ Prepared(x)' => Prepared(x)
                        /\ HasLockRow(x)' => HasLockRow(x)

\* A plain step keeps the invariant.
LEMMA PlainStepKeepsChecks ==
    ASSUME TypeOK, CheckedInv, PlainStep PROVE CheckedInv'
<1> USE DEF CheckedInv, PlainStep
<1>1. OneRowHolder'
  BY DEF OneRowHolder
<1>2. LockStays'
  BY DEF LockStays, PathOf
<1>3. ChecksStay'
  BY DEF ChecksStay, WouldExceedLimit, CollisionRefused, HasCollision, PathOf
<1> QED
  BY <1>1, <1>2, <1>3

\* The steps of a request that are plain.
LEMMA PlainSteps ==
    ASSUME TypeOK, OnlyDeletesClear, NEW o \in Ops,
           \/ CheckLock(o) \/ Upload(o) \/ CheckExists(o) \/ Disconnect(o)
           \/ StatementFails(o) \/ LockLost(o) \/ GiveUp(o) \/ RecheckRow(o)
           \/ ReadGeneration(o) \/ ProveAlive(o) \/ SendToStore(o) \/ ReceiveAnswer(o)
           \/ Execute(o) \/ NeverExecutes(o) \/ TransactionDies(o) \/ Crash(o)
    PROVE  PlainStep
<1> USE DEF TypeOK, PlainStep, Prepared, HasLockRow, IsPut, Finish, Goto, dbVars, lockVars,
            storeVars, reqVars
<1>1. ASSUME CheckLock(o) PROVE PlainStep
  BY <1>1 DEF CheckLock
<1>2. ASSUME Upload(o) \/ CheckExists(o) \/ Disconnect(o) PROVE PlainStep
  BY <1>2 DEF Upload, CheckExists, Disconnect
<1>3. ASSUME StatementFails(o) \/ LockLost(o) \/ GiveUp(o) PROVE PlainStep
  BY <1>3 DEF StatementFails, LockLost, GiveUp
<1>4. ASSUME RecheckRow(o) PROVE PlainStep
  BY <1>4 DEF RecheckRow, OnlyDeletesClear
<1>5. ASSUME ReadGeneration(o) PROVE PlainStep
  BY <1>5 DEF ReadGeneration
<1>6. ASSUME ProveAlive(o) PROVE PlainStep
  BY <1>6 DEF ProveAlive
<1>7. ASSUME SendToStore(o) PROVE PlainStep
  BY <1>7 DEF SendToStore
<1>8. ASSUME ReceiveAnswer(o) PROVE PlainStep
  BY <1>8 DEF ReceiveAnswer
<1>9. ASSUME Execute(o) \/ NeverExecutes(o) PROVE PlainStep
  BY <1>9 DEF Execute, NeverExecutes
<1>10. ASSUME TransactionDies(o) \/ Crash(o) PROVE PlainStep
  BY <1>10 DEF TransactionDies, Crash
<1> QED
  BY <1>1, <1>2, <1>3, <1>4, <1>5, <1>6, <1>7, <1>8, <1>9, <1>10

\* Locks are taken, released and swept around the rows that are held.
LEMMA LockStepsKeepChecks ==
    ASSUME TypeOK, CheckedInv, NEW p \in Paths,
           \/ \E t \in Tokens : Lock(p, t) \/ Unlock(p, t)
           \/ Expire(p)
    PROVE  CheckedInv'
<1> USE DEF CheckedInv, dbVars, lockVars, storeVars, reqVars
<1>1. /\ UNCHANGED <<entry, used, quota, open, job, pc, prep>>
  BY DEF Lock, Unlock, Expire
<1>2. \A x \in open : HasLockRow(x) => LockRowHeld(PathOf(x)) /\ PathOf(x) \in Paths
  BY JobFacts DEF HasLockRow, Prepared, LockRowHeld, TypeOK
<1>3. \A q \in Paths : LockRowHeld(q) => lock'[q].token = lock[q].token
  <2>1. ASSUME NEW t \in Tokens, Lock(p, t), NEW q \in Paths, LockRowHeld(q)
        PROVE  lock'[q].token = lock[q].token
    BY <2>1 DEF Lock
  <2>2. ASSUME NEW t \in Tokens, Unlock(p, t), NEW q \in Paths, LockRowHeld(q)
        PROVE  lock'[q].token = lock[q].token
    BY <2>2 DEF Unlock, TypeOK
  <2>3. ASSUME Expire(p), NEW q \in Paths PROVE lock'[q].token = lock[q].token
    BY <2>3 DEF Expire, TypeOK
  <2> QED
    BY <2>1, <2>2, <2>3
<1>4. LockStays'
  BY <1>1, <1>2, <1>3 DEF LockStays, HasLockRow, Prepared, IsPut, PathOf
<1>5. ChecksStay' /\ OneRowHolder'
  BY <1>1 DEF ChecksStay, OneRowHolder, Prepared, IsPut, WouldExceedLimit,
              CollisionRefused, HasCollision, PathOf
<1> QED
  BY <1>4, <1>5

\* The limit changes only while nobody has the user row, and a commit ends the
\* one transaction that has it.
LEMMA RowStepsKeepChecks ==
    ASSUME TypeOK, CheckedInv, OnlyDeletesClear, NEW o \in Ops,
           \/ TakeUserRow(o) \/ CommitWrite(o) \/ CommitDelete(o)
           \/ \E q \in Quotas : PatchQuota(q)
    PROVE  CheckedInv'
<1>1. CASE TakeUserRow(o)
  <2>1. open' = {o} /\ ~Prepared(o)' /\ ~HasLockRow(o)'
    BY <1>1 DEF TakeUserRow, UserRowFree, Goto, Prepared, HasLockRow, TypeOK, dbVars,
                storeVars, reqVars
  <2> QED
    BY <2>1 DEF CheckedInv, OneRowHolder, LockStays, ChecksStay
<1>2. CASE CommitWrite(o) \/ CommitDelete(o)
  <2>1. open' = {}
    BY <1>2 DEF CommitWrite, CommitDelete, Finish, CheckedInv, OneRowHolder
  <2> QED
    BY <2>1 DEF CheckedInv, OneRowHolder, LockStays, ChecksStay
<1>3. CASE \E q \in Quotas : PatchQuota(q)
  <2>1. open' = {}
    BY <1>3 DEF PatchQuota, UserRowFree
  <2> QED
    BY <2>1 DEF CheckedInv, OneRowHolder, LockStays, ChecksStay
<1> QED
  BY <1>1, <1>2, <1>3

\* prepare_write and stage_delete make the checks that are to stay.
LEMMA CheckingStepsKeepChecks ==
    ASSUME TypeOK, CheckedInv, NEW o \in Ops, PrepareWrite(o) \/ StageDelete(o)
    PROVE  CheckedInv'
<1> USE DEF dbVars, lockVars, storeVars, reqVars
<1>1. /\ o \in open /\ open = {o}
      /\ UNCHANGED <<entry, used, quota, lock, job>>
      /\ open' \subseteq open
      /\ HoldPasses(o)
  BY DEF CheckedInv, OneRowHolder, PrepareWrite, StageDelete, Finish, TypeOK
<1>2. OneRowHolder'
  BY <1>1 DEF OneRowHolder
<1>3. LockStays'
  BY <1>1 DEF LockStays, HoldPasses, HoldsLiveLock, HasLockRow, PathOf
<1>4. ChecksStay'
  <2>1. CASE PrepareWrite(o)
    <3>1. \/ open' = {}
          \/ /\ ~CollisionRefused(o)
             /\ ~WouldExceedLimit(used, BytesDelta(job[o].len, entry[PathOf(o)]), quota)
             /\ prep'[o].used = used
             /\ prep'[o].delta = BytesDelta(job[o].len, entry[PathOf(o)])
      BY <2>1, <1>1 DEF PrepareWrite, Finish, TypeOK
    <3>2. CollisionRefused(o)' = CollisionRefused(o)
      BY <1>1 DEF CollisionRefused, HasCollision, PathOf
    <3> QED
      BY <1>1, <3>1, <3>2 DEF ChecksStay, WouldExceedLimit
  <2>2. CASE StageDelete(o)
    <3>1. ~Prepared(o)'
      BY <2>2, <1>1 DEF StageDelete, Prepared, IsPut
    <3> QED
      BY <1>1, <3>1 DEF ChecksStay
  <2> QED
    BY <2>1, <2>2
<1> QED
  BY <1>2, <1>3, <1>4 DEF CheckedInv

\* For any requests, on every backend: what a finalization checked under the
\* user row and the lock row is still so until its transaction ends
\* (prepare_write, write_lock::hold).
THEOREM ChecksLast == Spec => [](TypeOK /\ OnlyDeletesClear /\ CheckedInv)
<1>1. Init => OnlyDeletesClear /\ CheckedInv
  BY DEF Init, OnlyDeletesClear, CheckedInv, OneRowHolder, LockStays, ChecksStay
<1>2. TypeOK /\ OnlyDeletesClear /\ CheckedInv /\ [Next]_vars
      => OnlyDeletesClear' /\ CheckedInv'
  <2> SUFFICES ASSUME TypeOK, OnlyDeletesClear, CheckedInv, [Next]_vars
               PROVE  CheckedInv'
    BY OnlyDeletesClearStep
  <2>1. ASSUME NEW o \in Ops,
               \/ CheckLock(o) \/ Upload(o) \/ CheckExists(o) \/ Disconnect(o)
               \/ StatementFails(o) \/ LockLost(o) \/ GiveUp(o) \/ RecheckRow(o)
               \/ ReadGeneration(o) \/ ProveAlive(o) \/ SendToStore(o) \/ ReceiveAnswer(o)
               \/ Execute(o) \/ NeverExecutes(o) \/ TransactionDies(o) \/ Crash(o)
        PROVE  CheckedInv'
    BY <2>1, PlainSteps, PlainStepKeepsChecks
  <2>2. ASSUME NEW o \in Ops, TakeUserRow(o) \/ CommitWrite(o) \/ CommitDelete(o)
        PROVE  CheckedInv'
    BY <2>2, RowStepsKeepChecks
  <2>3. ASSUME NEW o \in Ops, PrepareWrite(o) \/ StageDelete(o) PROVE CheckedInv'
    BY <2>3, CheckingStepsKeepChecks
  <2>4. ASSUME NEW p \in Paths, (\E t \in Tokens : Lock(p, t) \/ Unlock(p, t)) \/ Expire(p)
        PROVE  CheckedInv'
    BY <2>4, LockStepsKeepChecks
  <2>5. ASSUME NEW q \in Quotas, PatchQuota(q) PROVE CheckedInv'
    BY <2>5 DEF PatchQuota, UserRowFree, CheckedInv, OneRowHolder, LockStays, ChecksStay
  <2>6. CASE UNCHANGED vars
    <3>1. PlainStep
      BY <2>6 DEF vars, PlainStep, Prepared, HasLockRow, IsPut
    <3> QED
      BY <3>1, PlainStepKeepsChecks
  <2> QED
    BY <2>1, <2>2, <2>3, <2>4, <2>5, <2>6 DEF Next, FinalizationStep
<1> QED
  BY <1>1, <1>2, TypeCorrect, PTL DEF Spec

\* CommitUnderItsLock: a locked change commits while its lock is the path's
\* (write_lock.rs: hold).
THEOREM LockedCommitHasItsLock == Spec => CommitUnderItsLock
<1>1. TypeOK /\ OnlyDeletesClear /\ CheckedInv /\ [Next]_vars
      => [\A o \in Ops : (CommitWrite(o) \/ CommitDelete(o)) /\ job[o].token # None
             => lock[PathOf(o)].token = job[o].token]_vars
  BY DEF CheckedInv, LockStays, HasLockRow, Prepared, CommitWrite, CommitDelete
<1> QED
  BY <1>1, ChecksLast, PTL DEF Spec, CommitUnderItsLock

\* CommitRespectsLimits: no commit takes the account over the limit in force or
\* makes a file where another entry needs a folder (quota.rs,
\* check_no_path_collision).
THEOREM CommitsRespectLimits == Spec => CommitRespectsLimits
<1>1. TypeOK /\ OnlyDeletesClear /\ CheckedInv /\ [Next]_vars
      => [\A o \in Ops : CommitWrite(o) => quota = None \/ used' <= quota]_vars
  <2> SUFFICES ASSUME TypeOK, CheckedInv, NEW o \in Ops, CommitWrite(o), quota # None
               PROVE  used' <= quota
    OBVIOUS
  <2>1. /\ prep[o].used = used /\ ~WouldExceedLimit(used, prep[o].delta, quota)
        /\ used' = SaturatingAdd(prep[o].used, prep[o].delta)
    BY DEF CheckedInv, ChecksStay, Prepared, CommitWrite
  <2>2. used \in Nat /\ prep[o].delta \in Int /\ quota \in Nat
    BY ConstantsAssumption DEF TypeOK, PrepType
  <2> QED
    BY <2>1, <2>2 DEF WouldExceedLimit, SaturatingAdd
<1>2. TypeOK /\ OnlyDeletesClear /\ CheckedInv /\ [Next]_vars
      => [\A o \in Ops : CommitWrite(o) /\ ~job[o].admin => ~HasCollision(PathOf(o))]_vars
  BY DEF CheckedInv, ChecksStay, Prepared, CommitWrite, CollisionRefused
<1> QED
  BY <1>1, <1>2, ChecksLast, PTL DEF Spec, CommitRespectsLimits, QuotaHoldsAtCommit,
     NoCollisionCommitted

-----------------------------------------------------------------------------
(* Row and blob agree unless a request failed: DivergenceNeedsFailure on an *)
(* object store                                                            *)

\* Every request on p that is over was told something other than that it failed.
Unfailed(p) == \A o \in Ops : PathOf(o) = p => reply[o] \notin {"error", "crashed"}

\* A DELETE that has still to see to the blob of p: it has not looked yet, or
\* its removal can still find the generation it saw, or it is to hear that the
\* removal failed.
Clears(d, p) ==
    /\ ~IsPut(d) /\ PathOf(d) = p
    /\ \/ pc[d] \in {"clear", "recheck", "stat"}
       \/ pc[d] \in {"prove", "publish"} /\ expected[d] = blob[p].gen
       \/ pc[d] = "sent" /\ answer[d] = "none" /\ expected[d] = blob[p].gen
       \/ pc[d] = "sent" /\ answer[d] = "error"

\* While no request on a path failed, its row describes its blob, or the PUT
\* that published the blob has its commit before it, or a DELETE that removed
\* the row has the blob before it.
Accounted(p) ==
    \/ blob[p].by = entry[p]
    \/ \E o \in Ops : PathOf(o) = p /\ Published(o) /\ blob[p].by = o
    \/ entry[p] = None /\ \E d \in Ops : Clears(d, p)

\* A client is told once, at the end, and a request that the store may still
\* execute after it is over was told that it failed.
ToldOnce ==
    /\ \A o \in Ops : reply[o] # "none" => pc[o] = "done"
    /\ \A o \in inflight : pc[o] = "done" => reply[o] \in {"error", "crashed"}

AccountedInv == ToldOnce /\ \A p \in Paths : Unfailed(p) => Accounted(p)

\* Steps keep ToldOnce, and a request that failed stays a request that failed.
LEMMA ToldOnceStep ==
    ASSUME TypeOK, SentOnce, ToldOnce, [Next]_vars
    PROVE  /\ ToldOnce'
           /\ \A p \in Paths : Unfailed(p)' => Unfailed(p)
<1> DEFINE Told ==
      /\ \A x \in Ops : reply'[x] # "none" => pc'[x] = "done"
      /\ \A x \in inflight' : pc'[x] = "done" => reply'[x] \in {"error", "crashed"}
      /\ \A x \in Ops : reply'[x] = reply[x] \/ reply[x] = "none"
      /\ job' = job
<1>0. Told => ToldOnce' /\ \A p \in Paths : Unfailed(p)' => Unfailed(p)
  BY DEF ToldOnce, Unfailed, PathOf
<1>a. /\ pc \in [Ops -> Steps] /\ reply \in [Ops -> Replies] /\ inflight \subseteq Ops
      /\ \A x \in inflight : pc[x] \in {"sent", "done"}
      /\ \A x \in Ops : reply[x] # "none" => pc[x] = "done"
      /\ \A x \in inflight : pc[x] = "done" => reply[x] \in {"error", "crashed"}
  BY DEF TypeOK, SentOnce, ToldOnce
<1>b. ASSUME NEW o \in Ops, NEW s, Goto(o, s), s # "done", pc[o] \notin {"sent", "done"},
             UNCHANGED <<job, inflight, reply>>
      PROVE  Told
  BY <1>a, <1>b DEF Goto
<1>c. ASSUME NEW o \in Ops, NEW r, Finish(o, r), pc[o] # "done",
             pc[o] # "sent" \/ r \in {"error", "crashed"}, UNCHANGED <<job, inflight>>
      PROVE  Told
  BY <1>a, <1>c DEF Finish
<1>d. ASSUME UNCHANGED <<pc, reply, job>>, inflight' \subseteq inflight PROVE Told
  BY <1>a, <1>d
<1> HIDE DEF Told
<1> USE DEF storeVars
<1>1. ASSUME NEW o \in Ops, CheckLock(o) PROVE Told
  BY <1>b, <1>c, <1>1 DEF CheckLock
<1>2. ASSUME NEW o \in Ops, Upload(o) \/ CheckExists(o) \/ Disconnect(o) PROVE Told
  BY <1>b, <1>c, <1>2 DEF Upload, CheckExists, Disconnect
<1>3. ASSUME NEW o \in Ops, TakeUserRow(o) \/ StatementFails(o) \/ LockLost(o) PROVE Told
  BY <1>b, <1>c, <1>3 DEF TakeUserRow, StatementFails, LockLost
<1>4. ASSUME NEW o \in Ops, PrepareWrite(o) PROVE Told
  BY <1>b, <1>c, <1>4 DEF PrepareWrite
<1>5. ASSUME NEW o \in Ops, StageDelete(o) \/ RecheckRow(o) PROVE Told
  BY <1>b, <1>c, <1>5 DEF StageDelete, RecheckRow
<1>6. ASSUME NEW o \in Ops, ReadGeneration(o) \/ ProveAlive(o) PROVE Told
  BY <1>b, <1>c, <1>6 DEF ReadGeneration, ProveAlive
<1>7. ASSUME NEW o \in Ops, SendToStore(o) PROVE Told
  <2>1. CASE inflight' = inflight \cup {o} /\ pc' = [pc EXCEPT ![o] = "sent"]
             /\ UNCHANGED <<reply, job>> /\ pc[o] = "publish"
    <3>1. pc'[o] = "sent" /\ \A x \in Ops : x # o => pc'[x] = pc[x]
      BY <1>a, <2>1
    <3> QED
      BY <1>a, <2>1, <3>1 DEF Told
  <2> QED
    BY <1>c, <1>7, <2>1 DEF SendToStore, Goto
<1>8. ASSUME NEW o \in Ops, ReceiveAnswer(o) PROVE Told
  <2>1. o \notin inflight /\ inflight' = inflight /\ job' = job
    BY <1>8 DEF ReceiveAnswer, SentOnce
  <2>2. /\ \A x \in Ops : x # o => pc'[x] = pc[x] /\ reply'[x] = reply[x]
        /\ reply[o] = "none"
        /\ reply'[o] # "none" => pc'[o] = "done"
    BY <1>a, <1>8 DEF ReceiveAnswer, Goto, Finish
  <2> QED
    BY <1>a, <2>1, <2>2 DEF Told
<1>9. ASSUME NEW o \in Ops, GiveUp(o) PROVE Told
  BY <1>c, <1>9 DEF GiveUp
<1>10. ASSUME NEW o \in Ops, CommitWrite(o) \/ CommitDelete(o) PROVE Told
  BY <1>b, <1>c, <1>10 DEF CommitWrite, CommitDelete
<1>11. ASSUME NEW o \in Ops, Execute(o) \/ NeverExecutes(o) PROVE Told
  BY <1>d, <1>11 DEF Execute, NeverExecutes
<1>12. ASSUME NEW o \in Ops, TransactionDies(o) \/ Crash(o) PROVE Told
  BY <1>c, <1>d, <1>12 DEF TransactionDies, Crash
<1>13. ASSUME NEW p \in Paths, NEW t \in Tokens, Lock(p, t) \/ Unlock(p, t) PROVE Told
  BY <1>d, <1>13 DEF Lock, Unlock
<1>14. ASSUME NEW p \in Paths, Expire(p) PROVE Told
  BY <1>d, <1>14 DEF Expire
<1>15. ASSUME NEW q \in Quotas, PatchQuota(q) PROVE Told
  BY <1>d, <1>15 DEF PatchQuota
<1>16. ASSUME UNCHANGED vars PROVE Told
  BY <1>d, <1>16 DEF vars
<1> QED
  BY <1>0, <1>1, <1>2, <1>3, <1>4, <1>5, <1>6, <1>7, <1>8, <1>9, <1>10, <1>11,
     <1>12, <1>13, <1>14, <1>15, <1>16 DEF Next, FinalizationStep

\* A step that changes no row and no blob, and takes a request away from its
\* commit or from the blob it has to clear only by failing it, unless there is
\* nothing to clear.
CalmStep ==
    /\ UNCHANGED <<entry, blob, job>>
    /\ \A x \in Ops : Published(x) => Published(x)' \/ reply'[x] \in {"error", "crashed"}
    /\ \A x \in Ops : Clears(x, PathOf(x)) /\ entry[PathOf(x)] = None
          => \/ Clears(x, PathOf(x))'
             \/ reply'[x] \in {"error", "crashed"}
             \/ blob[PathOf(x)].by = None

\* A calm step leaves every path accounted for.
LEMMA CalmStepKeepsAccount ==
    ASSUME CalmStep, NEW p \in Paths, Accounted(p), Unfailed(p)'
    PROVE  Accounted(p)'
<1>1. UNCHANGED <<entry, blob, job>> /\ \A x \in Ops : PathOf(x)' = PathOf(x)
  BY DEF CalmStep, PathOf
<1>2. CASE blob[p].by = entry[p]
  BY <1>1, <1>2 DEF Accounted
<1>3. ASSUME NEW o \in Ops, PathOf(o) = p, Published(o), blob[p].by = o
      PROVE  Accounted(p)'
  BY <1>1, <1>3 DEF Accounted, CalmStep, Unfailed
<1>4. ASSUME entry[p] = None, NEW d \in Ops, Clears(d, p)
      PROVE  Accounted(p)'
  <2>1. PathOf(d) = p
    BY <1>4 DEF Clears
  <2> QED
    BY <1>1, <1>4, <2>1 DEF Accounted, CalmStep, Unfailed
<1> QED
  BY <1>2, <1>3, <1>4 DEF Accounted

\* Every step of a request but its commit and its execution at the store is calm.
LEMMA CalmSteps ==
    ASSUME TypeOK, PublishInv, NEW o \in Ops,
           \/ CheckLock(o) \/ Upload(o) \/ CheckExists(o) \/ Disconnect(o)
           \/ TakeUserRow(o) \/ StatementFails(o) \/ LockLost(o)
           \/ PrepareWrite(o) \/ StageDelete(o) \/ RecheckRow(o)
           \/ ReadGeneration(o) \/ ProveAlive(o) \/ SendToStore(o)
           \/ ReceiveAnswer(o) \/ GiveUp(o)
           \/ NeverExecutes(o) \/ TransactionDies(o) \/ Crash(o)
    PROVE  CalmStep
<1>0. PathOf(o) \in Paths
  BY JobFacts
<1> USE DEF TypeOK, CalmStep, Published, Clears, IsPut, PathOf, Finish, Goto, dbVars,
            storeVars, reqVars
<1>1. ASSUME CheckLock(o) PROVE CalmStep
  BY <1>1 DEF CheckLock
<1>2. ASSUME Upload(o) \/ CheckExists(o) \/ Disconnect(o) PROVE CalmStep
  BY <1>2 DEF Upload, CheckExists, Disconnect
<1>3. ASSUME TakeUserRow(o) PROVE CalmStep
  BY <1>3 DEF TakeUserRow
<1>4. ASSUME StatementFails(o) \/ LockLost(o) \/ GiveUp(o) PROVE CalmStep
  BY <1>4 DEF StatementFails, LockLost, GiveUp
<1>5. ASSUME PrepareWrite(o) \/ StageDelete(o) PROVE CalmStep
  <2>1. CASE PrepareWrite(o)
    BY <2>1 DEF PrepareWrite
  <2>2. CASE StageDelete(o)
    BY <2>2 DEF StageDelete
  <2> QED
    BY <1>5, <2>1, <2>2
<1>6. ASSUME RecheckRow(o) PROVE CalmStep
  BY <1>6 DEF RecheckRow, RowIsBack
<1>7. ASSUME ReadGeneration(o) PROVE CalmStep
  BY <1>7 DEF ReadGeneration
<1>8. ASSUME ProveAlive(o) PROVE CalmStep
  BY <1>0, <1>8 DEF ProveAlive, PublishInv, GenerationsBounded, Absent
<1>9. ASSUME SendToStore(o) PROVE CalmStep
  BY <1>9 DEF SendToStore, PublishInv, SentOnce
<1>10. ASSUME ReceiveAnswer(o) PROVE CalmStep
  BY <1>10 DEF ReceiveAnswer
<1>11. ASSUME NeverExecutes(o) PROVE CalmStep
  BY <1>11 DEF NeverExecutes, PublishInv, SentOnce
<1>12. ASSUME TransactionDies(o) \/ Crash(o) PROVE CalmStep
  BY <1>12 DEF TransactionDies, Crash
<1> QED
  BY <1>1, <1>2, <1>3, <1>4, <1>5, <1>6, <1>7, <1>8, <1>9, <1>10, <1>11, <1>12

\* Locks and limits are none of the blob's business.
LEMMA CalmLocks ==
    ASSUME \/ \E p \in Paths, t \in Tokens : Lock(p, t) \/ Unlock(p, t)
           \/ \E p \in Paths : Expire(p)
           \/ \E q \in Quotas : PatchQuota(q)
           \/ UNCHANGED vars
    PROVE  CalmStep
<1>1. UNCHANGED <<entry, blob, job, pc, answer, expected>>
  BY DEF Lock, Unlock, Expire, PatchQuota, vars, dbVars, storeVars, reqVars
<1> QED
  BY <1>1 DEF CalmStep, Published, Clears, IsPut, PathOf

\* What the store executes for a request that did not fail, that request still
\* has to answer for; a removal leaves neither row nor blob.
LEMMA ExecuteKeepsAccount ==
    ASSUME Staged = TRUE, TypeOK, PublishInv, ToldOnce, NEW o \in Ops, Execute(o),
           NEW p \in Paths, Accounted(p), Unfailed(p)'
    PROVE  Accounted(p)'
<1>0. /\ UNCHANGED <<entry, job, pc, prep, expected, reply, open>>
      /\ o \in inflight /\ answer[o] = "none" /\ pc[o] \in {"sent", "done"}
      /\ PathOf(o) \in Paths
      /\ \A x \in Ops : x # o => answer'[x] = answer[x]
  BY JobFacts DEF Execute, TypeOK, PublishInv, SentOnce, dbVars
<1>1. \A x \in Ops : PathOf(x)' = PathOf(x) /\ IsPut(x)' = IsPut(x)
  BY <1>0 DEF PathOf, IsPut
<1>2. CASE ~ConditionHolds(o)
  <2>1. blob' = blob /\ blob[PathOf(o)].gen # expected[o]
    BY <1>2 DEF Execute, ConditionHolds
  <2>2. CalmStep
    BY <1>0, <1>1, <2>1 DEF CalmStep, Published, Clears
  <2> QED
    BY <2>2, CalmStepKeepsAccount
<1>3. CASE ConditionHolds(o) /\ PathOf(o) # p
  <2>1. blob'[p] = blob[p]
    BY <1>3 DEF Execute, TypeOK
  <2> QED
    BY <1>0, <1>1, <1>3, <2>1 DEF Accounted, Published, Clears
<1>4. CASE ConditionHolds(o) /\ PathOf(o) = p
  <2>1. pc[o] = "sent"
    BY <1>0, <1>1, <1>4 DEF ToldOnce, Unfailed
  <2>2. CASE IsPut(o)
    <3>1. blob'[p].by = o /\ answer'[o] = "done"
      BY <1>4, <2>2 DEF Execute, TypeOK
    <3> QED
      BY <1>0, <1>1, <1>4, <2>1, <2>2, <3>1 DEF Accounted, Published
  <2>3. CASE ~IsPut(o)
    <3>1. blob'[p] = Absent
      BY <1>4, <2>3 DEF Execute, TypeOK
    <3>2. entry[p] = None
      BY <1>0, <1>4, <2>3 DEF PublishInv, PendingGuarded, Pending, ConditionHolds, PreparedAgainst
    <3> QED
      BY <1>0, <3>1, <3>2 DEF Accounted, Absent
  <2> QED
    BY <2>2, <2>3
<1> QED
  BY <1>2, <1>3, <1>4

\* A commit makes the row that of the blob, or leaves the blob to a DELETE.
LEMMA CommitsKeepAccount ==
    ASSUME TypeOK, TypeOK', PublishInv, RowHasBlob, NEW o \in Ops,
           CommitWrite(o) \/ CommitDelete(o),
           NEW p \in Paths, Accounted(p), Unfailed(p)'
    PROVE  Accounted(p)'
<1>0. /\ UNCHANGED <<blob, job, expected, answer>>
      /\ PathOf(o) \in Paths
      /\ \A x \in Ops : x # o => pc'[x] = pc[x]
      /\ \A x \in Ops : PathOf(x)' = PathOf(x) /\ IsPut(x)' = IsPut(x)
      /\ \A q \in Paths : q # PathOf(o) => entry'[q] = entry[q]
  BY JobFacts DEF CommitWrite, CommitDelete, Finish, Goto, TypeOK, storeVars, reqVars, PathOf, IsPut
<1>1. CASE PathOf(o) # p
  BY <1>0, <1>1 DEF Accounted, Published, Clears
<1>2. CASE PathOf(o) = p /\ CommitWrite(o)
  <2>1. blob[p].by = o
    BY <1>2, CommitWriteKeepsInv
  <2>2. entry'[p] = o
    BY <1>2 DEF CommitWrite, TypeOK
  <2> QED
    BY <1>0, <2>1, <2>2 DEF Accounted
<1>3. CASE PathOf(o) = p /\ CommitDelete(o)
  <2>1. entry'[p] = None /\ ~IsPut(o)
    BY <1>3 DEF CommitDelete, TypeOK
  <2>2. pc'[o] = "clear" \/ reply'[o] = "error"
    BY <1>3 DEF CommitDelete, Finish, Goto, TypeOK
  <2>3. pc'[o] = "clear"
    BY <1>0, <1>3, <2>2 DEF Unfailed
  <2>4. Clears(o, p)'
    BY <1>0, <1>3, <2>1, <2>3 DEF Clears
  <2> QED
    BY <2>1, <2>4 DEF Accounted
<1> QED
  BY <1>1, <1>2, <1>3

\* One step of the account of row and blob.
LEMMA AccountedStep ==
    ASSUME Staged = TRUE, TypeOK, TypeOK', PublishInv, RowHasBlob, AccountedInv, [Next]_vars
    PROVE  AccountedInv'
<1>1. ToldOnce' /\ \A p \in Paths : Unfailed(p)' => Unfailed(p)
  BY ToldOnceStep DEF AccountedInv, PublishInv
<1> SUFFICES ASSUME NEW p \in Paths, Unfailed(p)' PROVE Accounted(p)'
  BY <1>1 DEF AccountedInv
<1>2. Accounted(p) /\ ToldOnce
  BY <1>1 DEF AccountedInv
<1>3. ASSUME NEW o \in Ops, Execute(o) PROVE Accounted(p)'
  BY <1>2, <1>3, ExecuteKeepsAccount
<1>4. ASSUME NEW o \in Ops, CommitWrite(o) \/ CommitDelete(o) PROVE Accounted(p)'
  BY <1>2, <1>4, CommitsKeepAccount
<1>5. ASSUME NEW o \in Ops,
             \/ CheckLock(o) \/ Upload(o) \/ CheckExists(o) \/ Disconnect(o)
             \/ TakeUserRow(o) \/ StatementFails(o) \/ LockLost(o)
             \/ PrepareWrite(o) \/ StageDelete(o) \/ RecheckRow(o)
             \/ ReadGeneration(o) \/ ProveAlive(o) \/ SendToStore(o)
             \/ ReceiveAnswer(o) \/ GiveUp(o)
             \/ NeverExecutes(o) \/ TransactionDies(o) \/ Crash(o)
      PROVE  Accounted(p)'
  BY <1>2, <1>5, CalmSteps, CalmStepKeepsAccount
<1>6. ASSUME \/ \E q \in Paths, t \in Tokens : Lock(q, t) \/ Unlock(q, t)
             \/ \E q \in Paths : Expire(q)
             \/ \E q \in Quotas : PatchQuota(q)
             \/ UNCHANGED vars
      PROVE  Accounted(p)'
  BY <1>2, <1>6, CalmLocks, CalmStepKeepsAccount
<1> QED
  BY <1>3, <1>4, <1>5, <1>6 DEF Next, FinalizationStep

\* DivergenceNeedsFailure on an object store: once every request on a path is
\* over and none of them failed or died, the row describes the blob
\* (persistence/files/mod.rs lists the failures that may leave them apart).
THEOREM RowAndBlobAgree == ASSUME Staged = TRUE PROVE Spec => []DivergenceNeedsFailure
<1>1. Init => AccountedInv
  BY DEF Init, AccountedInv, ToldOnce, Accounted, Absent
<1>2. /\ TypeOK /\ TypeOK' /\ OnlyDeletesClear /\ PublishInv /\ RowHasBlob
      /\ AccountedInv /\ [Next]_vars
      => AccountedInv'
  BY AccountedStep
<1>3. AccountedInv => DivergenceNeedsFailure
  <2> SUFFICES ASSUME AccountedInv, NEW p \in Paths,
                      \A o \in Ops : PathOf(o) = p =>
                         /\ pc[o] \in {"idle", "upload", "exists", "close", "done"}
                         /\ reply[o] \notin {"error", "crashed"}
               PROVE  blob[p].by = entry[p]
    BY DEF DivergenceNeedsFailure
  <2>1. Accounted(p)
    BY DEF AccountedInv, Unfailed
  <2> QED
    BY <2>1 DEF Accounted, Published, Clears
<1> QED
  BY <1>1, <1>2, <1>3, PublicationInvariant, PTL DEF Spec


-----------------------------------------------------------------------------
(* The event feed replays to the entries: EventsReplayToEntries            *)

\* The events of p before the i-th one.
EventsOf(p, i) == {j \in 1..(i - 1) : events[j].path = p}

\* They have a last one.
LastsExist ==
    \A p \in Paths : \A i \in 1..(Len(events) + 1) :
       EventsOf(p, i) # {} => \E n \in EventsOf(p, i) : \A m \in EventsOf(p, i) : n >= m

\* A row that a DELETE has loaded is there until the DELETE's transaction ends.
RowToDelete ==
    \A o \in open : ~IsPut(o) /\ pc[o] = "commit" => entry[PathOf(o)] # None

ReplayInv == OneRowHolder /\ RowToDelete /\ LastsExist /\ EventsReplayToEntries

EventType == [type : {"PUT", "DEL"}, path : Paths, by : Ops]

\* Every set of events of one path has the last one as its maximum.
LEMMA MaxOfEvents ==
    ASSUME NEW S \in SUBSET Nat, \E n \in S : \A m \in S : n >= m
    PROVE  Max(S) \in S /\ \A m \in S : Max(S) >= m
BY DEF Max

\* What the feed says of a path before an event that is appended, and after it.
LEMMA ReplayOfAppend ==
    ASSUME TypeOK, LastsExist, NEW e \in EventType, events' = Append(events, e),
           NEW k \in Nat, k = Len(events)
    PROVE  /\ LastsExist'
           /\ \A p \in Paths, i \in 1..(k + 1) : LastEventBefore(p, i)' = LastEventBefore(p, i)
           /\ \A p \in Paths : LastEventBefore(p, k + 2)' =
                 IF e.path = p THEN IF e.type = "DEL" THEN None ELSE e.by
                               ELSE LastEventBefore(p, k + 1)
<1>1. /\ Len(events') = k + 1
      /\ events'[k + 1] = e
      /\ \A j \in 1..k : events'[j] = events[j]
  BY DEF TypeOK, EventType
<1>2. ASSUME NEW p \in Paths, NEW i \in 1..(k + 1) PROVE EventsOf(p, i)' = EventsOf(p, i)
  BY <1>1 DEF EventsOf
<1>3. ASSUME NEW p \in Paths, e.path # p PROVE EventsOf(p, k + 2)' = EventsOf(p, k + 1)
  BY <1>1, <1>3 DEF EventsOf
<1>4. ASSUME NEW p \in Paths, e.path = p
      PROVE  /\ k + 1 \in EventsOf(p, k + 2)'
             /\ \A m \in EventsOf(p, k + 2)' : m \in Nat /\ k + 1 >= m
  BY <1>1, <1>4 DEF EventsOf
<1>5. ASSUME NEW p \in Paths, NEW i \in 1..(k + 1), EventsOf(p, i) # {}
      PROVE  Max(EventsOf(p, i)) \in EventsOf(p, i) /\ Max(EventsOf(p, i)) \in 1..k
  <2>1. EventsOf(p, i) \in SUBSET Nat /\ \A m \in EventsOf(p, i) : m \in 1..k
    BY DEF EventsOf
  <2> QED
    BY <1>5, <2>1, MaxOfEvents DEF LastsExist
<1>6. ASSUME NEW p \in Paths, e.path = p PROVE Max(EventsOf(p, k + 2)') = k + 1
  <2>1. EventsOf(p, k + 2)' \in SUBSET Nat
    BY <1>4, <1>6
  <2>2. Max(EventsOf(p, k + 2)') \in EventsOf(p, k + 2)' /\ Max(EventsOf(p, k + 2)') >= k + 1
    BY <1>4, <1>6, <2>1, MaxOfEvents
  <2> QED
    BY <1>4, <1>6, <2>1, <2>2
<1>7. LastsExist'
  <2> SUFFICES ASSUME NEW p \in Paths, NEW i \in 1..(k + 2), EventsOf(p, i)' # {}
               PROVE  \E n \in EventsOf(p, i)' : \A m \in EventsOf(p, i)' : n >= m
    BY <1>1 DEF LastsExist
  <2>1. CASE i \in 1..(k + 1)
    BY <1>2, <2>1 DEF LastsExist
  <2>2. CASE i = k + 2 /\ e.path # p
    <3>1. k + 1 \in 1..(Len(events) + 1)
      OBVIOUS
    <3> QED
      BY <1>3, <2>2, <3>1 DEF LastsExist
  <2>3. CASE i = k + 2 /\ e.path = p
    BY <1>4, <2>3
  <2> QED
    BY <2>1, <2>2, <2>3
<1>8. ASSUME NEW p \in Paths, NEW i \in 1..(k + 1)
      PROVE  LastEventBefore(p, i)' = LastEventBefore(p, i)
  <2>1. CASE EventsOf(p, i) = {}
    BY <1>2, <2>1 DEF LastEventBefore, EventsOf
  <2>2. CASE EventsOf(p, i) # {}
    <3>1. events'[Max(EventsOf(p, i))] = events[Max(EventsOf(p, i))]
      BY <1>1, <1>5, <2>2
    <3>2. Max(EventsOf(p, i)') = Max(EventsOf(p, i)) /\ EventsOf(p, i)' # {}
      BY <1>2, <2>2
    <3> QED
      BY <2>2, <3>1, <3>2 DEF LastEventBefore, EventsOf
  <2> QED
    BY <2>1, <2>2
<1>9. ASSUME NEW p \in Paths, e.path # p
      PROVE  LastEventBefore(p, k + 2)' = LastEventBefore(p, k + 1)
  <2>0. k + 1 \in 1..(k + 1) /\ (k + 1) - 1 = k /\ (k + 2) - 1 = k + 1
    OBVIOUS
  <2>1. CASE EventsOf(p, k + 1) = {}
    BY <1>3, <1>9, <2>1 DEF LastEventBefore, EventsOf
  <2>2. CASE EventsOf(p, k + 1) # {}
    <3>1. events'[Max(EventsOf(p, k + 1))] = events[Max(EventsOf(p, k + 1))]
      BY <1>1, <1>5, <2>0, <2>2
    <3>2. Max(EventsOf(p, k + 2)') = Max(EventsOf(p, k + 1)) /\ EventsOf(p, k + 2)' # {}
      BY <1>3, <1>9, <2>2
    <3> QED
      BY <2>2, <3>1, <3>2 DEF LastEventBefore, EventsOf
  <2> QED
    BY <2>1, <2>2
<1>10. ASSUME NEW p \in Paths, e.path = p
       PROVE  LastEventBefore(p, k + 2)' = IF e.type = "DEL" THEN None ELSE e.by
  BY <1>1, <1>4, <1>6, <1>10 DEF LastEventBefore, EventsOf
<1> QED
  BY <1>7, <1>8, <1>9, <1>10

\* A committed event is the row's: replaying the longer feed gives the new rows.
LEMMA CommitsReplay ==
    ASSUME TypeOK, TypeOK', ReplayInv, NEW o \in Ops, CommitWrite(o) \/ CommitDelete(o)
    PROVE  ReplayInv'
<1>1. PICK k \in Nat : k = Len(events)
  BY DEF TypeOK
<1>2. PICK e \in EventType :
         /\ events' = Append(events, e)
         /\ e.path = PathOf(o)
         /\ \A p \in Paths : entry'[p] = IF p = PathOf(o) THEN IF e.type = "DEL" THEN None ELSE e.by
                                                      ELSE entry[p]
         /\ e.type = "DEL" => CommitDelete(o)
  <2>1. PathOf(o) \in Paths
    BY JobFacts
  <2>2. CASE CommitWrite(o)
    <3> DEFINE put == [type |-> "PUT", path |-> PathOf(o), by |-> o]
    <3>1. events' = Append(events, put) /\ entry' = [entry EXCEPT ![PathOf(o)] = o]
      BY <2>2 DEF CommitWrite
    <3>2. /\ put \in EventType /\ put.type = "PUT" /\ put.path = PathOf(o) /\ put.by = o
      BY <2>1 DEF EventType
    <3>3. \A p \in Paths : entry'[p] = IF p = PathOf(o) THEN o ELSE entry[p]
      BY <2>1, <3>1 DEF TypeOK
    <3> HIDE DEF put
    <3> QED
      BY <3>1, <3>2, <3>3
  <2>3. CASE CommitDelete(o)
    <3> DEFINE del == [type |-> "DEL", path |-> PathOf(o), by |-> o]
    <3>1. events' = Append(events, del) /\ entry' = [entry EXCEPT ![PathOf(o)] = None]
      BY <2>3 DEF CommitDelete
    <3>2. /\ del \in EventType /\ del.type = "DEL" /\ del.path = PathOf(o)
      BY <2>1 DEF EventType
    <3>3. \A p \in Paths : entry'[p] = IF p = PathOf(o) THEN None ELSE entry[p]
      BY <2>1, <3>1 DEF TypeOK
    <3> HIDE DEF del
    <3> QED
      BY <2>3, <3>1, <3>2, <3>3
  <2> QED
    BY <2>2, <2>3
<1>3. open' = {}
  BY DEF CommitWrite, CommitDelete, Finish, ReplayInv, OneRowHolder
<1>4. /\ Len(events') = k + 1 /\ events'[k + 1] = e
      /\ \A j \in 1..k : events'[j] = events[j]
      /\ DOMAIN events' = 1..(k + 1) /\ DOMAIN events = 1..k
  BY <1>1, <1>2 DEF TypeOK, EventType
<1>5. /\ LastsExist'
      /\ \A p \in Paths, i \in 1..(k + 1) : LastEventBefore(p, i)' = LastEventBefore(p, i)
      /\ \A p \in Paths : LastEventBefore(p, k + 2)' =
            IF e.path = p THEN IF e.type = "DEL" THEN None ELSE e.by
                          ELSE LastEventBefore(p, k + 1)
  BY <1>1, <1>2, ReplayOfAppend DEF ReplayInv
<1>6. \A p \in Paths : LastEventBefore(p, k + 1) = entry[p]
  BY <1>1 DEF ReplayInv, EventsReplayToEntries
<1>7. \A p \in Paths : LastEventBefore(p, Len(events) + 1)' = entry'[p]
  <2> SUFFICES ASSUME NEW p \in Paths PROVE LastEventBefore(p, k + 2)' = entry'[p]
    BY <1>4 DEF LastEventBefore
  <2> QED
    BY <1>2, <1>5, <1>6
<1>8. ASSUME NEW i \in 1..(k + 1), NEW q \in Paths, events'[i].path = q, events'[i].type = "DEL"
      PROVE  LastEventBefore(q, i)' # None
  <2>1. CASE i \in 1..k
    <3>1. LastEventBefore(q, i) # None
      BY <1>4, <1>8, <2>1 DEF ReplayInv, EventsReplayToEntries
    <3> QED
      BY <1>5, <3>1
  <2>2. CASE i = k + 1
    <3>1. q = PathOf(o) /\ CommitDelete(o)
      BY <1>2, <1>4, <1>8, <2>2
    <3>2. entry[q] # None
      BY <3>1 DEF CommitDelete, ReplayInv, RowToDelete
    <3> QED
      BY <1>5, <1>6, <2>2, <3>2
  <2> QED
    BY <2>1, <2>2
<1>9. EventsReplayToEntries'
  <2>1. ASSUME NEW i \in 1..(k + 1) PROVE events'[i].path \in Paths
    <3>1. events' \in Seq(EventType)
      BY DEF TypeOK, EventType
    <3>2. events'[i] \in EventType
      BY <1>4, <3>1
    <3> QED
      BY <3>2 DEF EventType
  <2>2. ASSUME NEW i \in 1..(k + 1), events'[i].type = "DEL"
        PROVE  LastEventBefore(events[i].path, i)' # None
    BY <1>8, <2>1, <2>2
  <2> QED
    BY <1>4, <1>7, <2>2 DEF EventsReplayToEntries
<1> QED
  BY <1>3, <1>5, <1>9 DEF ReplayInv, OneRowHolder, RowToDelete

\* Every other step leaves rows and events alone, and the rows that open
\* DELETEs have loaded.
LEMMA OthersReplay ==
    ASSUME TypeOK, ReplayInv, UNCHANGED <<entry, events, job>>,
           \A x \in open' : \A y \in open' : x = y,
           \A x \in open' : ~IsPut(x) /\ pc'[x] = "commit"
              => (x \in open /\ pc[x] = "commit") \/ entry[PathOf(x)] # None
    PROVE  ReplayInv'
<1>1. OneRowHolder'
  BY DEF OneRowHolder
<1>2. RowToDelete'
  BY DEF ReplayInv, RowToDelete, IsPut, PathOf
<1>3. LastsExist'
  BY DEF ReplayInv, LastsExist, EventsOf
<1>4. EventsReplayToEntries'
  <2>1. ASSUME NEW p, NEW i PROVE LastEventBefore(p, i)' = LastEventBefore(p, i)
    <3>1. events' = events
      OBVIOUS
    <3> QED
      BY <3>1, Zenon DEF LastEventBefore
  <2>2. ASSUME NEW p \in Paths PROVE LastEventBefore(p, Len(events) + 1)' = entry'[p]
    BY <2>1 DEF ReplayInv, EventsReplayToEntries
  <2>3. ASSUME NEW i \in DOMAIN events, events[i].type = "DEL"
        PROVE  LastEventBefore(events[i].path, i)' # None
    BY <2>1, <2>3 DEF ReplayInv, EventsReplayToEntries
  <2> QED
    BY <2>2, <2>3 DEF EventsReplayToEntries
<1> QED
  BY <1>1, <1>2, <1>3, <1>4 DEF ReplayInv

\* EventsReplayToEntries: replaying the committed events gives the entries, and
\* a DEL is only written for a file that was there (apply_write_effects,
\* apply_delete_effects).
THEOREM FeedReplaysToEntries == Spec => []EventsReplayToEntries
<1>1. Init => ReplayInv
  <2> SUFFICES ASSUME Init PROVE ReplayInv
    OBVIOUS
  <2>1. events = <<>> /\ Len(events) = 0 /\ entry = [p \in Paths |-> None] /\ open = {}
    BY DEF Init
  <2>2. ASSUME NEW p \in Paths PROVE EventsOf(p, 1) = {} /\ LastEventBefore(p, 1) = None
    BY DEF EventsOf, LastEventBefore
  <2>3. OneRowHolder /\ RowToDelete
    BY <2>1 DEF OneRowHolder, RowToDelete
  <2>4. LastsExist
    BY <2>1, <2>2 DEF LastsExist
  <2>5. EventsReplayToEntries
    BY <2>1, <2>2 DEF EventsReplayToEntries
  <2> QED
    BY <2>3, <2>4, <2>5 DEF ReplayInv
<1>2. TypeOK /\ TypeOK' /\ ReplayInv /\ [Next]_vars => ReplayInv'
  <2> SUFFICES ASSUME TypeOK, TypeOK', ReplayInv, [Next]_vars PROVE ReplayInv'
    OBVIOUS
  <2> DEFINE Others ==
        /\ UNCHANGED <<entry, events, job>>
        /\ \A x \in open' : \A y \in open' : x = y
        /\ \A x \in open' : ~IsPut(x) /\ pc'[x] = "commit"
              => (x \in open /\ pc[x] = "commit") \/ entry[PathOf(x)] # None
  <2>0. ASSUME Others PROVE ReplayInv'
    BY <2>0, OthersReplay
  <2>1. \A x, y \in open : x = y
    BY DEF ReplayInv, OneRowHolder
  <2> USE DEF dbVars, lockVars, storeVars, reqVars, Finish, Goto, TypeOK
  <2>2. ASSUME NEW o \in Ops, CheckLock(o) PROVE Others
    BY <2>1, <2>2 DEF CheckLock
  <2>3. ASSUME NEW o \in Ops, Upload(o) \/ CheckExists(o) \/ Disconnect(o) PROVE Others
    BY <2>1, <2>3 DEF Upload, CheckExists, Disconnect
  <2>4. ASSUME NEW o \in Ops, TakeUserRow(o) PROVE Others
    BY <2>1, <2>4 DEF TakeUserRow, UserRowFree
  <2>5. ASSUME NEW o \in Ops, StatementFails(o) \/ LockLost(o) \/ GiveUp(o) PROVE Others
    BY <2>1, <2>5 DEF StatementFails, LockLost, GiveUp
  <2>6. ASSUME NEW o \in Ops, PrepareWrite(o) PROVE Others
    BY <2>1, <2>6 DEF PrepareWrite
  <2>7. ASSUME NEW o \in Ops, StageDelete(o) PROVE Others
    BY <2>1, <2>7 DEF StageDelete
  <2>8. ASSUME NEW o \in Ops, RecheckRow(o) \/ ReadGeneration(o) \/ ProveAlive(o) PROVE Others
    BY <2>1, <2>8 DEF RecheckRow, ReadGeneration, ProveAlive
  <2>9. ASSUME NEW o \in Ops, SendToStore(o) \/ Execute(o) \/ NeverExecutes(o) PROVE Others
    BY <2>1, <2>9 DEF SendToStore, Execute, NeverExecutes
  <2>10. ASSUME NEW o \in Ops, ReceiveAnswer(o) PROVE Others
    BY <2>1, <2>10 DEF ReceiveAnswer
  <2>11. ASSUME NEW o \in Ops, TransactionDies(o) \/ Crash(o) PROVE Others
    BY <2>1, <2>11 DEF TransactionDies, Crash
  <2>12. ASSUME \/ \E p \in Paths, t \in Tokens : Lock(p, t) \/ Unlock(p, t)
                \/ \E p \in Paths : Expire(p)
                \/ \E q \in Quotas : PatchQuota(q)
                \/ UNCHANGED vars
         PROVE  Others
    <3>1. UNCHANGED <<entry, events, job, open, pc>>
      BY <2>12 DEF Lock, Unlock, Expire, PatchQuota, vars
    <3> QED
      BY <2>1, <3>1
  <2>13. ASSUME NEW o \in Ops, CommitWrite(o) \/ CommitDelete(o) PROVE ReplayInv'
    BY <2>13, CommitsReplay
  <2> HIDE DEF Others
  <2> QED
    BY <2>0, <2>2, <2>3, <2>4, <2>5, <2>6, <2>7, <2>8, <2>9, <2>10, <2>11, <2>12, <2>13
       DEF Next, FinalizationStep
<1>3. ReplayInv => EventsReplayToEntries
  BY DEF ReplayInv
<1> QED
  BY <1>1, <1>2, <1>3, TypeCorrect, PTL DEF Spec

-----------------------------------------------------------------------------
(* The account of the user *)

\* The rows of the owner and what each is charged for.
EntryRows == {p \in Paths : entry[p] # None}
Charge == [p \in EntryRows |-> job[entry[p]].len + MetadataSize]

\* What a finalization is about to add or to take is still what its row makes it.
EffectsStay ==
    \A o \in open :
       /\ Prepared(o) => prep[o].delta = BytesDelta(job[o].len, entry[PathOf(o)])
       /\ ~IsPut(o) /\ pc[o] = "commit" =>
            /\ entry[PathOf(o)] # None
            /\ prep[o].used = used
            /\ prep[o].delta = job[entry[PathOf(o)]].len + MetadataSize

\* The account is what the rows are charged for.
UsedInv == IsFiniteSet(EntryRows) /\ used = SumOf(Charge, EntryRows) /\ EffectsStay

\* A charge is a size.
LEMMA ChargeType ==
    ASSUME TypeOK
    PROVE  /\ \A p \in EntryRows : Charge[p] \in Nat /\ entry[p] \in Ops
           /\ \A p \in EntryRows : Charge[p] = job[entry[p]].len + MetadataSize
<1>1. \A p \in EntryRows : entry[p] \in Ops
  BY DEF EntryRows, TypeOK
<1>2. \A p \in EntryRows : job[entry[p]].len \in Nat
  BY <1>1, JobFacts
<1> QED
  BY <1>1, <1>2, ConstantsAssumption DEF Charge

\* The property sums the same charges.
LEMMA UsedIsSum ==
    ASSUME TypeOK, IsFiniteSet(EntryRows)
    PROVE  UsedBytesExact <=> used = SumOf(Charge, EntryRows)
<1> DEFINE T == EntryRows
           Body(g) == [s \in SUBSET T |->
                         IF s = {} THEN 0
                         ELSE job[entry[Chosen(s)]].len + MetadataSize + g[s \ {Chosen(s)}]]
           iter == CHOOSE g : g = Body(g)
<1>1. MapThenSumSet(LAMBDA p : job[entry[p]].len + MetadataSize, T) = iter[T]
  BY DEF MapThenSumSet, MapThenFoldSet, Chosen
<1>2. PICK g \in [SUBSET T -> Nat] : Adds(g, Charge, T) /\ SumOf(Charge, T) = g[T]
  BY ChargeType, SumAdds
<1>3. \A s \in SUBSET T : s # {} => Charge[Chosen(s)] = job[entry[Chosen(s)]].len + MetadataSize
  BY ChargeType, ChosenIsIn
<1>4. g = Body(g)
  BY <1>2, <1>3 DEF Adds
<1>5. iter = Body(iter)
  BY <1>4
<1>6. Adds(iter, Charge, T)
  <2> HIDE DEF iter
  <2> QED
    BY <1>3, <1>5 DEF Adds
<1>7. iter[T] = g[T]
  <2> HIDE DEF iter, T
  <2> QED
    BY <1>2, <1>6, SumsAgree DEF T
<1> QED
  BY <1>1, <1>2, <1>7 DEF UsedBytesExact, EntryRows

\* A PUT changes the sum by its delta, which never takes the account below 0.
LEMMA CommitWriteCounts ==
    ASSUME TypeOK, TypeOK', CheckedInv, UsedInv, NEW o \in Ops, CommitWrite(o)
    PROVE  IsFiniteSet(EntryRows') /\ used' = SumOf(Charge', EntryRows')
<1> DEFINE p == PathOf(o)
           R == EntryRows
           C == Charge
           len == job[o].len
<1>1. p \in Paths /\ len \in Nat
  BY JobFacts
<1>2. /\ entry' = [entry EXCEPT ![p] = o] /\ job' = job /\ o # None
      /\ used' = SaturatingAdd(used, BytesDelta(len, entry[p]))
  BY ConstantsAssumption DEF CommitWrite, CheckedInv, ChecksStay, UsedInv, EffectsStay, Prepared
<1>3. EntryRows' = R \cup {p}
  BY <1>1, <1>2 DEF EntryRows, TypeOK
<1>4. IsFiniteSet(EntryRows')
  BY <1>3, FS_AddElement DEF UsedInv
<1>5. /\ \A q \in EntryRows' : Charge'[q] \in Nat
      /\ Charge'[p] = len + MetadataSize
      /\ \A q \in R \ {p} : Charge'[q] = C[q]
  <2>1. \A q \in EntryRows' : Charge'[q] = job[entry'[q]].len + MetadataSize
    BY <1>2 DEF Charge
  <2>2. \A q \in R \ {p} : entry'[q] = entry[q]
    BY <1>1, <1>2 DEF TypeOK, EntryRows
  <2>3. entry'[p] = o
    BY <1>1, <1>2 DEF TypeOK
  <2>4. \A q \in EntryRows' : entry'[q] \in Ops
    BY DEF TypeOK, EntryRows
  <2>5. \A q \in EntryRows' : job[entry'[q]].len \in Nat
    BY <2>4, JobFacts
  <2> QED
    <3>1. R \ {p} \subseteq EntryRows' /\ p \in EntryRows'
      BY <1>3
    <3>2. \A q \in EntryRows' : Charge'[q] \in Nat
      BY <2>1, <2>5, ConstantsAssumption
    <3>3. Charge'[p] = len + MetadataSize
      BY <2>1, <2>3, <3>1
    <3>4. \A q \in R \ {p} : C[q] = job[entry[q]].len + MetadataSize
      BY DEF Charge
    <3> QED
      BY <2>1, <2>2, <3>1, <3>2, <3>3, <3>4
<1>6. EntryRows' \ {p} = R \ {p} /\ IsFiniteSet(R \ {p})
  BY <1>3, FS_Subset DEF UsedInv
<1>7. SumOf(Charge', EntryRows') = len + MetadataSize + SumOf(Charge', R \ {p})
  <2> HIDE DEF p
  <2>1. p \in EntryRows'
    BY <1>3
  <2>2. SumOf(Charge', EntryRows') = Charge'[p] + SumOf(Charge', EntryRows' \ {p})
    BY <1>4, <1>5, <2>1, SumFacts
  <2> QED
    BY <1>5, <1>6, <2>2
<1>8. SumOf(Charge', R \ {p}) = SumOf(C, R \ {p}) /\ SumOf(C, R \ {p}) \in Nat
  <2>1. \A q \in R \ {p} : C[q] \in Nat
    BY ChargeType
  <2> HIDE DEF p, R, C
  <2> QED
    BY <1>5, <1>6, <2>1, SumsOfEqualWeights, SumFacts
<1>9. CASE entry[p] = None
  <2>1. R \ {p} = R
    BY <1>9 DEF EntryRows
  <2>2. used = SumOf(C, R) /\ used \in Nat
    BY DEF UsedInv, TypeOK
  <2>3. used' = used + (len + MetadataSize)
    BY <1>1, <1>2, <1>9, <2>2, ConstantsAssumption DEF SaturatingAdd, BytesDelta
  <2> QED
    <3>1. SumOf(Charge', EntryRows') = len + MetadataSize + used
      BY <1>7, <1>8, <2>1, <2>2
    <3> QED
      BY <1>1, <1>4, <2>2, <2>3, <3>1, ConstantsAssumption
<1>10. CASE entry[p] # None
  <2>1. p \in R
    BY <1>1, <1>10 DEF EntryRows
  <2>2. C[p] = job[entry[p]].len + MetadataSize /\ job[entry[p]].len \in Nat
    BY <2>1, ChargeType, JobFacts
  <2>3. used = C[p] + SumOf(C, R \ {p})
    <3> HIDE DEF p
    <3> QED
      BY <2>1, ChargeType, SumFacts DEF UsedInv
  <2>4. used' = SumOf(C, R \ {p}) + (len + MetadataSize)
    <3>1. PICK k \in Nat : k = SumOf(C, R \ {p})
      BY <1>8
    <3>2. PICK old \in Nat : old = job[entry[p]].len
      BY <2>2
    <3>3. used = old + MetadataSize + k
      BY <2>2, <2>3, <3>1, <3>2
    <3>4. used' = SaturatingAdd(used, len - old)
      BY <1>2, <1>10, <3>2 DEF BytesDelta
    <3>5. used' = k + (len + MetadataSize)
      BY <1>1, <3>3, <3>4, ConstantsAssumption DEF SaturatingAdd
    <3> QED
      BY <3>1, <3>5
  <2> QED
    BY <1>1, <1>4, <1>7, <1>8, <2>4, ConstantsAssumption
<1> QED
  BY <1>9, <1>10

\* A DELETE takes what its row was charged for.
LEMMA CommitDeleteCounts ==
    ASSUME TypeOK, TypeOK', CheckedInv, UsedInv, NEW o \in Ops, CommitDelete(o)
    PROVE  IsFiniteSet(EntryRows') /\ used' = SumOf(Charge', EntryRows')
<1> DEFINE p == PathOf(o)
           R == EntryRows
           C == Charge
<1>1. p \in Paths
  BY JobFacts
<1>2. /\ entry' = [entry EXCEPT ![p] = None] /\ job' = job
      /\ entry[p] # None
      /\ used' = SaturatingSub(used, job[entry[p]].len + MetadataSize)
  BY DEF CommitDelete, UsedInv, EffectsStay
<1>3. EntryRows' = R \ {p} /\ p \in R
  BY <1>1, <1>2 DEF EntryRows, TypeOK
<1>4. IsFiniteSet(R) /\ IsFiniteSet(EntryRows')
  BY <1>3, FS_Subset DEF UsedInv
<1>5. \A q \in R \ {p} : Charge'[q] = C[q] /\ C[q] \in Nat
  <2>1. \A q \in EntryRows' : Charge'[q] = job[entry'[q]].len + MetadataSize
    BY <1>2 DEF Charge
  <2>2. \A q \in R \ {p} : entry'[q] = entry[q]
    BY <1>1, <1>2 DEF TypeOK, EntryRows
  <2> QED
    BY <1>3, <2>1, <2>2, ChargeType
<1>6. SumOf(Charge', EntryRows') = SumOf(C, R \ {p}) /\ SumOf(C, R \ {p}) \in Nat
  <2> HIDE DEF p, R, C
  <2> QED
    BY <1>3, <1>4, <1>5, SumsOfEqualWeights, SumFacts
<1>7. used = C[p] + SumOf(C, R \ {p})
  <2> HIDE DEF p
  <2> QED
    BY <1>3, ChargeType, SumFacts DEF UsedInv
<1>8. PICK k \in Nat, c \in Nat : k = SumOf(C, R \ {p}) /\ c = C[p]
  BY <1>3, <1>6, ChargeType
<1>9. c = job[entry[p]].len + MetadataSize /\ used = c + k
  BY <1>3, <1>7, <1>8, ChargeType
<1>10. used' = k
  BY <1>2, <1>9 DEF SaturatingSub
<1> QED
  BY <1>4, <1>6, <1>8, <1>10

\* Every other step leaves rows and account alone, and the effects of those that
\* have them before them.
LEMMA OthersCount ==
    ASSUME UsedInv, UNCHANGED <<entry, used, job>>, EffectsStay'
    PROVE  UsedInv'
<1>1. EntryRows' = EntryRows /\ Charge' = Charge
  BY DEF EntryRows, Charge
<1> QED
  BY <1>1 DEF UsedInv

\* Every step keeps the account.
LEMMA UsedStep ==
    ASSUME TypeOK, TypeOK', OnlyDeletesClear, CheckedInv, UsedInv, [Next]_vars
    PROVE  UsedInv'
<1> USE DEF dbVars, lockVars, storeVars, reqVars
<1>1. ASSUME NEW o \in Ops, CommitWrite(o) \/ CommitDelete(o) PROVE UsedInv'
  <2>1. open' = {}
    BY <1>1 DEF CommitWrite, CommitDelete, Finish, CheckedInv, OneRowHolder
  <2>2. EffectsStay'
    BY <2>1 DEF EffectsStay
  <2> QED
    BY <1>1, <2>2, CommitWriteCounts, CommitDeleteCounts DEF UsedInv
<1>2. ASSUME NEW o \in Ops, TakeUserRow(o) PROVE UsedInv'
  <2>1. UNCHANGED <<entry, used, job>> /\ open' = {o} /\ pc'[o] \in {"prepare", "recheck"}
    BY <1>2 DEF TakeUserRow, UserRowFree, Goto, TypeOK
  <2> QED
    BY <2>1, OthersCount DEF EffectsStay, Prepared
<1>3. ASSUME NEW o \in Ops, PrepareWrite(o) \/ StageDelete(o) PROVE UsedInv'
  <2>1. UNCHANGED <<entry, used, job>> /\ open = {o} /\ open' \subseteq {o}
    BY <1>3 DEF PrepareWrite, StageDelete, Finish, CheckedInv, OneRowHolder
  <2>2. EffectsStay'
    <3>1. CASE PrepareWrite(o)
      <4>1. \/ open' = {}
            \/ IsPut(o)' /\ prep'[o].delta = BytesDelta(job[o].len, entry[PathOf(o)])
        BY <2>1, <3>1 DEF PrepareWrite, Finish, IsPut, TypeOK
      <4> QED
        BY <2>1, <4>1 DEF EffectsStay, BytesDelta, PathOf
    <3>2. CASE StageDelete(o)
      <4>1. \/ open' = {}
            \/ /\ ~IsPut(o)' /\ entry[PathOf(o)] # None /\ prep'[o].used = used
               /\ prep'[o].delta = job[entry[PathOf(o)]].len + MetadataSize
        BY <2>1, <3>2 DEF StageDelete, IsPut, TypeOK
      <4> QED
        BY <2>1, <4>1 DEF EffectsStay, Prepared, PathOf
    <3> QED
      BY <1>3, <3>1, <3>2
  <2> QED
    BY <2>1, <2>2, OthersCount
<1>4. ASSUME PlainStep, \A x \in open' : ~IsPut(x) /\ pc'[x] = "commit" => pc[x] = "commit"
      PROVE  UsedInv'
  <2>1. EffectsStay'
    BY <1>4 DEF PlainStep, UsedInv, EffectsStay, IsPut, BytesDelta, PathOf
  <2> QED
    BY <1>4, <2>1, OthersCount DEF PlainStep
<1>5. ASSUME NEW o \in Ops,
             \/ CheckLock(o) \/ Upload(o) \/ CheckExists(o) \/ Disconnect(o)
             \/ StatementFails(o) \/ LockLost(o) \/ GiveUp(o) \/ RecheckRow(o)
             \/ ReadGeneration(o) \/ ProveAlive(o) \/ SendToStore(o) \/ ReceiveAnswer(o)
             \/ Execute(o) \/ NeverExecutes(o) \/ TransactionDies(o) \/ Crash(o)
      PROVE  UsedInv'
  <2>1. ASSUME NEW x \in open', ~IsPut(x), pc'[x] = "commit" PROVE pc[x] = "commit"
    <3> USE <2>1 DEF TypeOK, Finish, Goto, IsPut
    <3>1. CASE CheckLock(o) \/ Upload(o) \/ CheckExists(o) \/ Disconnect(o)
      BY <3>1 DEF CheckLock, Upload, CheckExists, Disconnect
    <3>2. CASE StatementFails(o) \/ LockLost(o) \/ GiveUp(o) \/ RecheckRow(o)
      BY <3>2 DEF StatementFails, LockLost, GiveUp, RecheckRow
    <3>3. CASE ReadGeneration(o) \/ ProveAlive(o) \/ SendToStore(o) \/ ReceiveAnswer(o)
      BY <3>3 DEF ReadGeneration, ProveAlive, SendToStore, ReceiveAnswer
    <3>4. CASE Execute(o) \/ NeverExecutes(o) \/ TransactionDies(o) \/ Crash(o)
      BY <3>4 DEF Execute, NeverExecutes, TransactionDies, Crash
    <3> QED
      BY <1>5, <3>1, <3>2, <3>3, <3>4
  <2> QED
    BY <1>4, <1>5, <2>1, PlainSteps
<1>6. ASSUME \/ \E p \in Paths, t \in Tokens : Lock(p, t) \/ Unlock(p, t)
             \/ \E p \in Paths : Expire(p)
             \/ \E q \in Quotas : PatchQuota(q)
             \/ UNCHANGED vars
      PROVE  UsedInv'
  <2>1. UNCHANGED <<entry, used, job, open, pc, prep>>
    BY <1>6 DEF Lock, Unlock, Expire, PatchQuota, vars
  <2> QED
    BY <2>1, OthersCount DEF UsedInv, EffectsStay, Prepared, IsPut, BytesDelta, PathOf
<1> QED
  BY <1>1, <1>2, <1>3, <1>5, <1>6 DEF Next, FinalizationStep

\* AccountAgrees: used_bytes is the sum of what the rows are charged for and the feed
\* replays to the rows, for any requests, paths, lengths and failures
\* (apply_write_effects, apply_delete_effects).
THEOREM AccountsAgree == Spec => []AccountAgrees
<1>1. Init => UsedInv
  <2> SUFFICES ASSUME Init PROVE UsedInv
    OBVIOUS
  <2>1. EntryRows = {} /\ used = 0 /\ open = {}
    BY DEF Init, EntryRows
  <2>2. IsFiniteSet({})
    BY FS_EmptySet
  <2>3. SumOf(Charge, {}) = 0
    BY <2>2, SumFacts
  <2> QED
    BY <2>1, <2>2, <2>3 DEF UsedInv, EffectsStay
<1>2. TypeOK /\ TypeOK' /\ OnlyDeletesClear /\ CheckedInv /\ UsedInv /\ [Next]_vars => UsedInv'
  BY UsedStep
<1>3. TypeOK /\ UsedInv => UsedBytesExact
  BY UsedIsSum DEF UsedInv
<1> QED
  BY <1>1, <1>2, <1>3, ChecksLast, FeedReplaysToEntries, PTL DEF Spec, AccountAgrees

-----------------------------------------------------------------------------
(* The broadcast of events: ids become visible in order and none is skipped.  *)

\* A page of the table has no holes.
LEMMA FirstNClosed ==
    ASSUME NEW S \in SUBSET Events, IsFiniteSet(S), NEW n \in Nat,
           NEW e \in FirstN(S, n), NEW f \in S, f.id < e.id
    PROVE  f \in FirstN(S, n)
<1> DEFINE Upto(x) == {g \in S : g.id <= x.id}
<1>1. e \in S /\ Cardinality(Upto(e)) <= n
  BY DEF FirstN
<1>2. \A g \in S : g.id \in Nat
  BY MaxIdAssumption DEF Events
<1>3. Upto(f) \subseteq Upto(e) /\ Upto(e) \subseteq S
  BY <1>1, <1>2
<1>4. IsFiniteSet(Upto(e))
  BY <1>3, FS_Subset
<1>5. Cardinality(Upto(f)) <= Cardinality(Upto(e)) /\ IsFiniteSet(Upto(f))
  BY <1>3, <1>4, FS_Subset
<1>6. Cardinality(Upto(f)) \in Nat /\ Cardinality(Upto(e)) \in Nat
  BY <1>4, <1>5, FS_CardinalityType
<1>7. Cardinality(Upto(f)) <= n
  BY <1>1, <1>5, <1>6
<1> QED
  BY <1>7 DEF FirstN

\* What the table, the rows and the batch hold.
LEMMA IdFacts ==
    ASSUME FeedTypeOK
    PROVE  /\ \A e \in table : e.id \in Nat /\ e.id > 0
           /\ \A e \in batch : e.id \in Nat /\ e.id > 0
           /\ \A w \in Writers : row[w].id \in Nat /\ row[w] \in Rows
           /\ lastId \in Nat /\ lastBroadcast \in Nat /\ startId \in Nat
BY MaxIdAssumption DEF FeedTypeOK, Events, Rows

\* The writers and the listener keep the types.
LEMMA FeedTypeStep ==
    ASSUME FeedTypeOK, BroadcastInv, [FeedNext]_feedVars
    PROVE  FeedTypeOK'
<1> USE DEF FeedTypeOK, writerVars, listenVars, pollVars
<1>1. ASSUME NEW w \in Writers, LockInserts(w) PROVE FeedTypeOK'
  BY <1>1 DEF LockInserts
<1>2. ASSUME NEW w \in Writers, InsertEvent(w) PROVE FeedTypeOK'
  <2>1. lastId' \in 0..MaxId
    BY <1>2, MaxIdAssumption DEF InsertEvent
  <2>2. row' \in [Writers -> Rows]
    BY <1>2, <2>1 DEF InsertEvent, Rows
  <2> QED
    BY <1>2, <2>1, <2>2 DEF InsertEvent
<1>3. ASSUME NEW w \in Writers, CommitEvent(w) PROVE FeedTypeOK'
  <2>1. row[w] \in Events
    BY <1>3, MaxIdAssumption DEF CommitEvent, BroadcastInv, IdsCommitInOrder, Rows, Events
  <2>2. IsFiniteSet(table') /\ table' \in SUBSET Events
    BY <1>3, <2>1, FS_AddElement DEF CommitEvent
  <2> QED
    BY <1>3, <2>2 DEF CommitEvent
<1>4. ASSUME NEW w \in Writers, RollbackEvent(w) PROVE FeedTypeOK'
  BY <1>4 DEF RollbackEvent
<1>5. ASSUME NEW w \in Writers, NotifyEvent(w) PROVE FeedTypeOK'
  BY <1>5 DEF NotifyEvent
<1>6. ASSUME StartListener PROVE FeedTypeOK'
  <2>1. startId' \in Nat
    BY <1>6, IdFacts DEF StartListener, IsMaxId
  <2> QED
    BY <1>6, <2>1 DEF StartListener
<1>7. ASSUME Listen \/ ReceiveNotify \/ ListenFails PROVE FeedTypeOK'
  BY <1>7 DEF Listen, ReceiveNotify, ListenFails
<1>8. ASSUME WakeUp PROVE FeedTypeOK'
  BY <1>8, BroadcastAssumption DEF WakeUp
<1>9. ASSUME QueryBatch PROVE FeedTypeOK'
  <2>1. batch' \in SUBSET Events
    BY <1>9 DEF QueryBatch, FirstN, After
  <2>2. full' \in BOOLEAN /\ ppc' \in {"start", "wait", "query", "send"}
    BY <1>9 DEF QueryBatch
  <2> QED
    BY <1>9, <2>1, <2>2 DEF QueryBatch
<1>10. ASSUME QueryFails PROVE FeedTypeOK'
  BY <1>10 DEF QueryFails
<1>11. ASSUME BroadcastNext PROVE FeedTypeOK'
  <2>1. PICK e \in batch : IsNext(e, batch) /\ Broadcast(e)
    BY <1>11 DEF BroadcastNext
  <2>2. /\ sent' \in Seq(Events) /\ lastBroadcast' \in Nat /\ batch' \in SUBSET Events
    BY <2>1, IdFacts DEF Broadcast
  <2>3. batches > 0
    BY <1>11 DEF BroadcastNext, BroadcastInv, CycleIsOn
  <2>4. batches' \in Nat /\ wake' \in BOOLEAN /\ ppc' \in {"start", "wait", "query", "send"}
    BY <1>11, <2>3 DEF BroadcastNext, LastOfCycle
  <2> QED
    BY <1>11, <2>2, <2>4 DEF BroadcastNext
<1>12. CASE UNCHANGED feedVars
  BY <1>12 DEF feedVars
<1> QED
  BY <1>1, <1>2, <1>3, <1>4, <1>5, <1>6, <1>7, <1>8, <1>9, <1>10, <1>11, <1>12
     DEF FeedNext, WriterStep

\* A step that leaves the table, the rows, the position and the channel alone.
LEMMA IdleStep ==
    ASSUME BroadcastInv,
           UNCHANGED <<table, lastId, row, batch, startId, lastBroadcast, sent>>,
           IdsCommitInOrder', CycleIsOn',
           \A w \in Writers : wpc'[w] = "inserted" => wpc[w] = "inserted"
    PROVE  BroadcastInv'
BY DEF BroadcastInv, BatchIsNext, PositionVisible, BroadcastHasNoGaps

\* The insert: its id is above everything visible, and stays so until the
\* commit because nobody else can insert meanwhile.
LEMMA WriterKeepsInv ==
    ASSUME FeedTypeOK, BroadcastInv, NEW w \in Writers, WriterStep(w)
    PROVE  BroadcastInv'
<1> USE DEF BroadcastInv, writerVars, listenVars, pollVars
<1>0. /\ \A e \in table : e.id \in Nat
      /\ \A v \in Writers : row[v].id \in Nat
      /\ lastId \in Nat /\ lastBroadcast \in Nat /\ startId \in Nat
      /\ wpc \in [Writers -> {"idle", "locked", "inserted", "committed", "done"}]
      /\ row \in [Writers -> Rows]
  BY IdFacts DEF FeedTypeOK
<1>1. CASE LockInserts(w)
  <2>1. IdsCommitInOrder'
    BY <1>0, <1>1 DEF LockInserts, IdsCommitInOrder, InsertLockFree
  <2> QED
    BY <1>0, <1>1, <2>1, IdleStep DEF LockInserts, CycleIsOn
<1>2. CASE RollbackEvent(w)
  <2>1. IdsCommitInOrder'
    BY <1>0, <1>2 DEF RollbackEvent, IdsCommitInOrder
  <2> QED
    BY <1>0, <1>2, <2>1, IdleStep DEF RollbackEvent, CycleIsOn
<1>3. CASE NotifyEvent(w)
  <2>1. IdsCommitInOrder'
    BY <1>0, <1>3 DEF NotifyEvent, IdsCommitInOrder
  <2> QED
    BY <1>0, <1>3, <2>1, IdleStep DEF NotifyEvent, CycleIsOn
<1>4. CASE InsertEvent(w)
  <2>1. /\ UNCHANGED <<table, batch, startId, lastBroadcast, sent, ppc, batches>>
        /\ lastId' = lastId + 1
        /\ wpc[w] = "locked" /\ wpc' = [wpc EXCEPT ![w] = "inserted"]
        /\ \A v \in Writers : v # w => row'[v] = row[v]
        /\ row'[w].id = lastId + 1
    BY <1>0, <1>4 DEF InsertEvent, Rows
  <2>2. \A v \in Writers : v # w => wpc'[v] \notin {"locked", "inserted"}
    BY <1>0, <2>1 DEF IdsCommitInOrder
  <2>3. IdsCommitInOrder'
    BY <1>0, <2>1, <2>2 DEF IdsCommitInOrder
  <2>4. PositionVisible'
    BY <1>0, <2>1, <2>2 DEF PositionVisible
  <2> QED
    BY <2>1, <2>3, <2>4 DEF BatchIsNext, CycleIsOn, BroadcastHasNoGaps
<1>5. CASE CommitEvent(w)
  <2>1. /\ UNCHANGED <<lastId, row, batch, startId, lastBroadcast, sent, ppc, batches>>
        /\ table' = table \cup {row[w]}
        /\ wpc[w] = "inserted" /\ wpc' = [wpc EXCEPT ![w] = "committed"]
    BY <1>5 DEF CommitEvent
  <2>2. /\ lastBroadcast < row[w].id
        /\ \A e \in table : e.id < row[w].id
        /\ row[w].id <= lastId
    BY <2>1 DEF IdsCommitInOrder, PositionVisible
  <2>3. \A v \in Writers : v # w => wpc'[v] \notin {"locked", "inserted"}
    BY <1>0, <2>1 DEF IdsCommitInOrder
  <2>4. IdsCommitInOrder'
    BY <1>0, <2>1, <2>2, <2>3 DEF IdsCommitInOrder
  <2>5. PositionVisible'
    BY <1>0, <2>1, <2>3 DEF PositionVisible
  <2>6. BatchIsNext'
    BY <1>0, <2>1, <2>2 DEF BatchIsNext
  <2>7. BroadcastHasNoGaps'
    BY <1>0, <2>1, <2>2 DEF BroadcastHasNoGaps
  <2> QED
    BY <2>1, <2>4, <2>5, <2>6, <2>7 DEF CycleIsOn
<1> QED
  BY <1>1, <1>2, <1>3, <1>4, <1>5 DEF WriterStep

\* The start: everything visible is behind it.
LEMMA StartKeepsInv ==
    ASSUME FeedTypeOK, BroadcastInv, StartListener
    PROVE  BroadcastInv'
<1> USE DEF BroadcastInv, writerVars, listenVars
<1>0. /\ \A e \in table : e.id \in Nat
      /\ \A v \in Writers : row[v].id \in Nat
      /\ lastId \in Nat
  BY IdFacts
<1>1. /\ UNCHANGED <<table, lastId, row, wpc, batch, sent>>
      /\ batch = {} /\ sent = <<>> /\ ppc' = "wait"
      /\ lastBroadcast' = startId'
      /\ IsMaxId(startId', table)
  BY DEF StartListener, CycleIsOn
<1>2. startId' \in Nat /\ startId' <= lastId
  BY <1>0, <1>1 DEF IsMaxId, IdsCommitInOrder
<1>3. PositionVisible'
  BY <1>0, <1>1, <1>2 DEF PositionVisible, IsMaxId, IdsCommitInOrder
<1>4. IdsCommitInOrder' /\ BatchIsNext' /\ CycleIsOn'
  BY <1>1 DEF IdsCommitInOrder, BatchIsNext, CycleIsOn
<1>5. BroadcastHasNoGaps'
  BY <1>0, <1>1, <1>2 DEF BroadcastHasNoGaps
<1> QED
  BY <1>3, <1>4, <1>5

\* The batch read is the next stretch of the table.
LEMMA QueryKeepsInv ==
    ASSUME FeedTypeOK, BroadcastInv, QueryBatch
    PROVE  BroadcastInv'
<1> USE DEF BroadcastInv, writerVars, listenVars
<1> DEFINE S == After(table, lastBroadcast)
<1>1. /\ UNCHANGED <<table, lastId, row, wpc, batches, startId, lastBroadcast, sent>>
      /\ batch' = FirstN(S, BatchSize)
      /\ ppc' \in {"wait", "send"} /\ batches > 0
  BY DEF QueryBatch, CycleIsOn
<1>2. S \in SUBSET Events /\ IsFiniteSet(S)
  BY FS_Subset DEF FeedTypeOK, After
<1>3. batch' \subseteq S
  BY <1>1 DEF FirstN
<1>4. \A e \in batch', f \in S : f.id < e.id => f \in batch'
  BY <1>1, <1>2, FirstNClosed, BroadcastAssumption
<1>5. BatchIsNext'
  BY <1>1, <1>3, <1>4 DEF BatchIsNext, After
<1>6. IdsCommitInOrder' /\ PositionVisible' /\ CycleIsOn' /\ BroadcastHasNoGaps'
  BY <1>1 DEF IdsCommitInOrder, PositionVisible, CycleIsOn, BroadcastHasNoGaps
<1> QED
  BY <1>5, <1>6

\* The event broadcast is the next one of the table, not only of the batch.
LEMMA BroadcastKeepsInv ==
    ASSUME FeedTypeOK, BroadcastInv, BroadcastNext
    PROVE  BroadcastInv'
<1> USE DEF BroadcastInv, writerVars, listenVars
<1>0. /\ \A e \in table : e.id \in Nat
      /\ \A v \in Writers : row[v].id \in Nat
      /\ lastId \in Nat /\ lastBroadcast \in Nat /\ startId \in Nat
      /\ sent \in Seq(Events) /\ batches \in Nat
  BY IdFacts DEF FeedTypeOK
<1>1. PICK e \in batch : IsNext(e, batch) /\ Broadcast(e)
  BY DEF BroadcastNext
<1>2. /\ UNCHANGED <<table, lastId, row, wpc, startId>>
      /\ sent' = Append(sent, e) /\ lastBroadcast' = e.id /\ batch' = batch \ {e}
  BY <1>1 DEF BroadcastNext, Broadcast
<1>3. /\ e \in table /\ e.id > lastBroadcast
      /\ \A f \in table : f.id > lastBroadcast => e.id <= f.id
      /\ \A f \in batch : e.id <= f.id
  BY <1>0, <1>1 DEF IsNext, BatchIsNext
<1>4. \A f \in table : f # e => f.id # e.id
  BY <1>3 DEF IdsCommitInOrder
<1>5. BatchIsNext'
  BY <1>0, <1>2, <1>3, <1>4 DEF BatchIsNext
<1>6. PositionVisible'
  BY <1>0, <1>2, <1>3 DEF PositionVisible, IdsCommitInOrder
<1>7. CycleIsOn'
  BY <1>0 DEF BroadcastNext, CycleIsOn, LastOfCycle
<1>8. BroadcastHasNoGaps'
  <2>1. /\ DOMAIN sent' = DOMAIN sent \cup {Len(sent) + 1}
        /\ \A i \in DOMAIN sent : sent'[i] = sent[i]
        /\ sent'[Len(sent) + 1] = e
        /\ \A i \in DOMAIN sent : i \in Nat /\ i <= Len(sent)
        /\ Len(sent) \in Nat
    BY <1>0, <1>2, <1>3 DEF FeedTypeOK
  <2>2. \A f \in table : startId < f.id /\ f.id <= e.id
           => \E i \in DOMAIN sent' : sent'[i] = f
    BY <1>0, <1>3, <1>4, <2>1 DEF BroadcastHasNoGaps
  <2>3. \A i \in DOMAIN sent' : /\ sent'[i] \in table
                                /\ startId < sent'[i].id /\ sent'[i].id <= e.id
    BY <1>0, <1>3, <2>1 DEF BroadcastHasNoGaps, PositionVisible
  <2>4. \A i, j \in DOMAIN sent' : i < j => sent'[i].id < sent'[j].id
    BY <1>0, <1>3, <2>1 DEF BroadcastHasNoGaps
  <2> QED
    BY <1>2, <2>2, <2>3, <2>4 DEF BroadcastHasNoGaps
<1>9. IdsCommitInOrder'
  BY <1>2 DEF IdsCommitInOrder
<1> QED
  BY <1>5, <1>6, <1>7, <1>8, <1>9

\* The induction step.
LEMMA BroadcastStep ==
    ASSUME FeedTypeOK, BroadcastInv, [FeedNext]_feedVars
    PROVE  BroadcastInv'
<1> USE DEF writerVars, listenVars, pollVars
<1>1. ASSUME NEW w \in Writers, WriterStep(w) PROVE BroadcastInv'
  BY <1>1, WriterKeepsInv
<1>2. CASE StartListener
  BY <1>2, StartKeepsInv
<1>3. CASE Listen \/ ReceiveNotify \/ ListenFails
  <2>1. UNCHANGED <<writerVars, pollVars>>
    BY <1>3 DEF Listen, ReceiveNotify, ListenFails
  <2> QED
    BY <2>1, IdleStep DEF BroadcastInv, IdsCommitInOrder, CycleIsOn
<1>4. CASE WakeUp
  <2>1. /\ UNCHANGED <<writerVars, batch, startId, lastBroadcast, sent>>
        /\ ppc' = "query" /\ batches' > 0
    BY <1>4, BroadcastAssumption DEF WakeUp
  <2> QED
    BY <2>1, IdleStep DEF BroadcastInv, IdsCommitInOrder, CycleIsOn
<1>5. CASE QueryBatch
  BY <1>5, QueryKeepsInv
<1>6. CASE QueryFails
  <2>1. /\ UNCHANGED <<writerVars, batch, startId, lastBroadcast, sent>>
        /\ ppc' = "wait"
    BY <1>6 DEF QueryFails
  <2> QED
    BY <2>1, IdleStep DEF BroadcastInv, IdsCommitInOrder, CycleIsOn
<1>7. CASE BroadcastNext
  BY <1>7, BroadcastKeepsInv
<1>8. CASE UNCHANGED feedVars
  BY <1>8, IdleStep DEF feedVars, BroadcastInv, IdsCommitInOrder, CycleIsOn
<1> QED
  BY <1>1, <1>2, <1>3, <1>4, <1>5, <1>6, <1>7, <1>8 DEF FeedNext

\* Every state of the writers and of the listener is well typed, and the parts
\* of BroadcastInv (the advisory lock's order, the batch, the position and the
\* channel) hold together.
THEOREM BroadcastInvariant == FeedSpec => [](FeedTypeOK /\ BroadcastInv)
<1>1. FeedInit => FeedTypeOK /\ BroadcastInv
  <2> SUFFICES ASSUME FeedInit PROVE FeedTypeOK /\ BroadcastInv
    OBVIOUS
  <2>1. FeedTypeOK
    <3>1. 0 \in 0..MaxId /\ IsFiniteSet({}) /\ <<>> \in Seq(Events)
      BY MaxIdAssumption, FS_EmptySet
    <3>2. row \in [Writers -> Rows]
      BY <3>1 DEF FeedInit, Rows
    <3> QED
      BY <3>1, <3>2 DEF FeedInit, FeedTypeOK
  <2>2. BroadcastInv
    BY DEF FeedInit, BroadcastInv, IdsCommitInOrder, BatchIsNext, CycleIsOn,
           PositionVisible, BroadcastHasNoGaps
  <2> QED
    BY <2>1, <2>2
<1>2. FeedTypeOK /\ BroadcastInv /\ [FeedNext]_feedVars => FeedTypeOK' /\ BroadcastInv'
  BY FeedTypeStep, BroadcastStep
<1> QED
  BY <1>1, <1>2, PTL DEF FeedSpec

\* BroadcastHasNoGaps for any number of concurrent writers, any batch size and
\* any batch cap (PgEventListener's "sequential delivery with no gaps").
THEOREM NoGaps == FeedSpec => []BroadcastHasNoGaps
<1>1. FeedTypeOK /\ BroadcastInv => BroadcastHasNoGaps
  BY DEF BroadcastInv
<1> QED
  BY <1>1, BroadcastInvariant, PTL

\* The writers and the listener implement EventFeed: ids are committed in order
\* and each broadcast is the next committed event.
THEOREM Implementation == FeedSpec => ImplementsFeed
<1>1. FeedInit => Feed!FeedInit
  BY DEF FeedInit, Feed!FeedInit
<1>2. FeedTypeOK /\ BroadcastInv /\ [FeedNext]_feedVars => [Feed!FeedNext]_(Feed!feedVars)
  <2> SUFFICES ASSUME FeedTypeOK, BroadcastInv, [FeedNext]_feedVars
               PROVE  Feed!FeedNext \/ UNCHANGED Feed!feedVars
    OBVIOUS
  <2> USE DEF writerVars, listenVars, pollVars, Feed!feedVars
  <2>1. ASSUME NEW w \in Writers, CommitEvent(w) PROVE Feed!FeedNext
    <3>1. row[w] \in Events /\ \A f \in table : f.id < row[w].id
      BY <2>1, MaxIdAssumption
         DEF CommitEvent, BroadcastInv, IdsCommitInOrder, FeedTypeOK, Rows, Events
    <3>2. Feed!Commit(row[w])
      BY <2>1, <3>1 DEF CommitEvent, Feed!Commit
    <3> QED
      BY <3>1, <3>2 DEF Feed!FeedNext, Feed!Events, Events
  <2>2. ASSUME NEW w \in Writers, WriterStep(w), ~CommitEvent(w)
        PROVE  UNCHANGED Feed!feedVars
    BY <2>2 DEF WriterStep, LockInserts, InsertEvent, RollbackEvent, NotifyEvent
  <2>3. CASE StartListener
    <3>1. /\ ppc = "start" /\ ppc' = "wait"
          /\ IsMaxId(lastBroadcast', table)
          /\ table' = table /\ sent' = sent
      BY <2>3 DEF StartListener
    <3>2. Feed!IsMaxId(lastBroadcast', table)
      BY <3>1 DEF IsMaxId, Feed!IsMaxId
    <3>3. Feed!Start
      BY <3>1, <3>2 DEF Feed!Start
    <3> QED
      BY <3>3 DEF Feed!FeedNext
  <2>4. CASE Listen \/ ReceiveNotify \/ ListenFails
    BY <2>4 DEF Listen, ReceiveNotify, ListenFails
  <2>5. CASE WakeUp \/ QueryBatch \/ QueryFails
    BY <2>5 DEF WakeUp, QueryBatch, QueryFails
  <2>6. CASE BroadcastNext
    <3>1. PICK e \in batch : IsNext(e, batch) /\ Broadcast(e)
      BY <2>6 DEF BroadcastNext
    <3>2. /\ e \in table /\ e.id > lastBroadcast
          /\ \A f \in table : f.id > lastBroadcast => e.id <= f.id
      BY <3>1, IdFacts DEF IsNext, BroadcastInv, BatchIsNext
    <3>3. /\ table' = table /\ sent' = Append(sent, e) /\ lastBroadcast' = e.id
          /\ ppc = "send" /\ ppc' # "start"
      BY <2>6, <3>1 DEF BroadcastNext, Broadcast
    <3>4. e \in Feed!After(table, lastBroadcast)
          /\ Feed!IsNext(e, Feed!After(table, lastBroadcast))
      BY <3>2 DEF Feed!After, Feed!IsNext
    <3>5. Feed!BroadcastNext
      BY <3>3, <3>4 DEF Feed!BroadcastNext
    <3> QED
      BY <3>5 DEF Feed!FeedNext
  <2>7. CASE UNCHANGED feedVars
    BY <2>7 DEF feedVars
  <2> QED
    BY <2>1, <2>2, <2>3, <2>4, <2>5, <2>6, <2>7 DEF FeedNext
<1> QED
  BY <1>1, <1>2, BroadcastInvariant, PTL DEF FeedSpec, ImplementsFeed, Feed!FeedSpec

=============================================================================
